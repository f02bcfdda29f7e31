SPECIFICATION FairServerSpec
CONSTANTS
  u1 = u1
  u2 = u2
  p1 = p1
  p2 = p2
  Users = {u1, u2}
  Passwords = {p1}
  Unquotable = {}
  Sockets = {1, 2}
  FirstFd = 1
  FdLimit = 3
  MaxConnect = 2
  InitialCapacity = 1
  CopiedBack = 3
  Requests <- OtherRequests
  MaxQueued = 1
  MaxBacklog = 1
  MaxBoots = 1
PROPERTIES
  DepartureNoticed
CHECK_DEADLOCK FALSE
