SPECIFICATION Spec
CONSTANTS
  Thread = {t1, t2}
  Waiter = {Main, u}
  Main = Main
  Nobody = Nobody
  Spurious = FALSE
INVARIANTS TypeOK JoinsAreSafe ClosedIsOver
PROPERTIES WaitsEnd ListCloses
