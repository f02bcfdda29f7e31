SPECIFICATION FairSystemSpec
CONSTANTS
  c1 = c1
  c2 = c2
  u1 = u1
  u2 = u2
  p1 = p1
  ListText = ListText
  Clients = {c1, c2}
  Users = {u1, u2, ListText}
  Passwords = {p1}
  TypedSign <- OwnNames
  TypedPairs <- NoPairs
  MaxSent = 1
  Unquotable = {}
  Sockets = {1, 2}
  FirstFd = 1
  FdLimit = 3
  MaxConnect = 2
  InitialCapacity = 1
  CopiedBack = 3
  Requests <- ClientRequests
  MaxQueued = 1
  MaxBacklog = 1
  MaxBoots = 1
PROPERTIES
  SignAnswered
CHECK_DEADLOCK FALSE
