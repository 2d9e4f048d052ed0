SPECIFICATION Spec
CONSTANTS
  Thread = {t1}
  Waiter = {Main, u}
  Main = Main
  Nobody = Nobody
  Spurious = TRUE
PROPERTIES WaitsEnd
CHECK_DEADLOCK FALSE
