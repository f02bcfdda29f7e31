------------------------------ MODULE MCSystem ------------------------------
(* The clients of the runs of module System, and what their users type.    *)
EXTENDS System

CONSTANTS c1, c2, u1, u2, p1

SignAs(u) == [username |-> u, password |-> p1]
Asks(u, f) == [username |-> u, friendname |-> f]

\* Each user at his own client.
OwnNames == [c \in Clients |-> {SignAs(IF c = c1 THEN u1 ELSE u2)}]

\* Both users may sit at the first client, or one at both.
AnyNames == [c \in Clients |-> IF c = c1 THEN {SignAs(u1), SignAs(u2)} ELSE {SignAs(u2)}]

\* The first asks the second, and so does someone who takes the sentence of
\* the client for a name.
FriendPairs == {Asks(u1, u2), Asks(ListText, u2)}

\* Nobody asks anybody.
NoPairs == {}
=============================================================================
