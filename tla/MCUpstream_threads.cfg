CONSTANTS
  Threads = {t1, t2}
  Idents = {c1}
  Status = {s1}
  Peers = {p1, p2}
  NoThread = NoThread
  Null = Null
  ConnectOutcomes = {"progress", "declined", "error"}
  Replies = {"granted", "denied", "partial", "eof"}
  SendOutcomes = {"sent", "failed"}
  MaxRequests = 2
  MaxAttempts = 1
  MaxSpurious = 1
SPECIFICATION Spec
SYMMETRY Symmetry
INVARIANT TypeOK
INVARIANT PeersOwned
INVARIANT AtMostOnce
PROPERTY GrantIsCurrent
CHECK_DEADLOCK FALSE
