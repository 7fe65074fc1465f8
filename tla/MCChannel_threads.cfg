CONSTANTS
  Threads = {t1, t2, t3}
  Conns = {c1, c2}
  Ids = {i1, i2}
  Objs = {o1, o2}
  NoThread = NoThread
  NoConn = NoConn
  Null = Null
  AllocOutcomes = {"ok"}
  SendOutcomes = {"sent"}
SPECIFICATION Spec
SYMMETRY Symmetry
INVARIANT TypeOK
INVARIANT NoUseAfterFree
INVARIANT TableSound
INVARIANT MembersFindable
INVARIANT SendsToOpen
INVARIANT DeadlockShape
PROPERTY NeverDropsMembers
PROPERTY FrozenWhileSending
PROPERTY ImplementsRooms
CHECK_DEADLOCK FALSE
