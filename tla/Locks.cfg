SPECIFICATION MCSpec
CONSTANTS
  Thread = {t1, t2, t3}
  Nobody = Nobody
  Unseen = Unseen
  Waiter = {"t", "u", "v"}
  Poller = {"t"}
  Cond = {"a", "b"}
  Lists <- MCLists
  Alone = {"a"}
  Value = {1, 2}
  Notset = Notset
  DebugBuild = FALSE
  Setups <- MCSetups
  Sites <- MCSites
  LevelMax = 5
  Users = {c1, c2}
  Host = {"www", "ftp"}
  Gives <- MCGives
  Item = {i1, i2, i3}
  Entry = {"x", "y"}
  SystemTables <- MCTables
  TableMax = 2
  Block = {1, 2, 3}
  AsDocumented = FALSE
  Nothing = Nothing
INVARIANTS TypesOK WriterAlone EventsAreReal JobsAreDone CachesAreTrue
PROPERTIES LockSpec CallsReturn
