CONSTANTS
  Threads = {t1, t2}
  Conns = {c1, c2}
  Ids = {i1}
  Objs = {o1, o2}
  NoThread = NoThread
  NoConn = NoConn
  Null = Null
  AllocOutcomes = {"ok"}
  SendOutcomes = {"sent"}
SPECIFICATION FairSpec
PROPERTY UpgradeAnswered
CHECK_DEADLOCK FALSE
