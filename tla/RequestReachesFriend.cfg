SPECIFICATION FriendSpec
CONSTANTS
  Users = {u1, u2}
  Passwords = {p1}
  Unquotable = {}
  Sockets = {4, 5}
INVARIANTS
  RequestReachesFriend
