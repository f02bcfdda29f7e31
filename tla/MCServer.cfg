SPECIFICATION FairServerSpec
CONSTANTS
  u1 = u1
  u2 = u2
  p1 = p1
  p2 = p2
  Users = {u1, u2}
  Passwords = {p1}
  Unquotable = {}
  Sockets = {1, 2, 3, 4}
  FirstFd = 1
  FdLimit = 5
  MaxConnect = 2
  InitialCapacity = 1
  CopiedBack = 4
  Requests <- OtherRequests
  MaxQueued = 2
  MaxBacklog = 1
  MaxBoots = 1
INVARIANTS
  ServerTypeOK
  TableSound
PROPERTIES
  NoReadyClientSkipped
  RequestsRead
  LoneDepartureNoticed
CHECK_DEADLOCK FALSE
