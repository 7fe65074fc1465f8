CONSTANTS
  Threads = {t1, t2}
  Conns = {c1, c2, c3}
  Ids = {i1}
  Objs = {o1, o2}
  NoThread = NoThread
  NoConn = NoConn
  Null = Null
  AllocOutcomes = {"ok"}
  SendOutcomes = {"sent"}
SPECIFICATION Spec
SYMMETRY Symmetry
INVARIANT FirstAnswerIs101
CHECK_DEADLOCK FALSE
