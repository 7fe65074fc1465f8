CONSTANTS
  Threads = {t1, t2}
  Conns = {c1, c2}
  Ids = {i1}
  Objs = {o1, o2}
  NoThread = NoThread
  NoConn = NoConn
  Null = Null
  AllocOutcomes = {"ok", "null"}
  SendOutcomes = {"sent", "error"}
SPECIFICATION FairSpec
INVARIANT IInv
PROPERTY AnsweredUnlessInverted
CHECK_DEADLOCK FALSE
