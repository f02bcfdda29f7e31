------------------------------ MODULE MCServer ------------------------------
(* The requests that the peers send in the runs of module Server.          *)
EXTENDS Server

CONSTANTS u1, u2, p1, p2

Credentials1 == [username |-> u1, password |-> p1]
Credentials2 == [username |-> u2, password |-> p1]
OtherPassword == [username |-> u1, password |-> p2]

\* A request that serve() ignores: only the table and the loop matter.
OtherRequests == {[code |-> "OTHER"]}

\* Two users who sign up, and the first asks the second, who signs in.
PresenceRequests ==
  [code : {"SIGN_UP"}, data : {Credentials1, Credentials2}] \cup
  [code : {"SIGN_IN"}, data : {Credentials2}] \cup
  {[code |-> "ADD_FRIEND", data |-> [username |-> u1, friendname |-> u2]]}

\* A request of every code: the first user comes with two passwords; both may
\* ask each other, and an answer names the first user and then the second, so
\* it is in the order of the row or not, by who asked first.  Those whose names
\* hold an apostrophe sign up and ask the first user.
EveryRequest ==
  [code : {"SIGN_UP"}, data : {Credentials1, OtherPassword, Credentials2}] \cup
  [code : {"SIGN_UP"}, data : [username : Unquotable, password : {p1}]] \cup
  [code : {"SIGN_IN"}, data : {Credentials1, OtherPassword}] \cup
  [code : {"SIGN_DEL", "SIGN_OUT"}, data : {Credentials1}] \cup
  [code : {"ADD_FRIEND"}, data : {[username |-> u1, friendname |-> u2],
                                  [username |-> u2, friendname |-> u1]}] \cup
  [code : {"ADD_FRIEND"}, data : [username : Unquotable, friendname : {u1}]] \cup
  [code : {"ADD_FRIEND_ADMIT", "ADD_FRIEND_REFUSE"},
   data : {[username |-> u1, friendname |-> u2]}] \cup
  [code : {"PULL_FRIENDS_LIST"}, data : {u1}] \cup
  {NotParsed("SIGN_UP")} \cup
  OtherRequests
=============================================================================
