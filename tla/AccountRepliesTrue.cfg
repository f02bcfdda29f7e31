SPECIFICATION ServerSpec
CONSTANTS
  u1 = u1
  u2 = u2
  p1 = p1
  p2 = p2
  Users = {u1, u2}
  Passwords = {p1, p2}
  Unquotable = {}
  Sockets = {1}
  FirstFd = 1
  FdLimit = 2
  MaxConnect = 1
  InitialCapacity = 1
  CopiedBack = 2
  Requests <- EveryRequest
  MaxQueued = 1
  MaxBacklog = 1
  MaxBoots = 1
PROPERTIES
  AccountRepliesTrue
CHECK_DEADLOCK FALSE
