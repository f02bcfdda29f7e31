------------------------------ MODULE Contacts ------------------------------
(***************************************************************************)
(* What the friend service promises about two users: at any time they are  *)
(* strangers, one of them has asked the other, they are friends, or they   *)
(* are known to each other and none of these.  A pair is a set of one or   *)
(* two users, as nothing keeps a user from asking himself.  A request is   *)
(* only put before a user in the step that records it.                     *)
(***************************************************************************)
CONSTANTS Users, Unquotable

VARIABLES
  asked,    \* <<a, b>>: the last request of this pair came from a
  friends,  \* pairs that are friends
  known,    \* pairs that have ever had contact
  shown     \* <<a, b>>: the last step put a request of a to b before a user

pairVars     == <<asked, friends, known>>
contactsVars == <<asked, friends, known, shown>>

ContactsInit == asked = {} /\ friends = {} /\ known = {} /\ shown = {}

\* a asks b, who is not a friend yet; a request of b to a is replaced.
Ask(a, b) ==
  /\ {a, b} \notin friends
  /\ asked' = (asked \ {<<b, a>>}) \cup {<<a, b>>}
  /\ known' = known \cup {{a, b}}
  /\ shown' \subseteq {<<a, b>>}
  /\ UNCHANGED friends

\* The exception: a request with a name the table cannot hold is only shown.
AskInVain(a, b) ==
  /\ {a, b} \cap Unquotable # {}
  /\ shown' \subseteq {<<a, b>>}
  /\ UNCHANGED pairVars

\* Pairs without contact are not made friends.
Befriend(a, b) ==
  /\ {a, b} \in known
  /\ friends' = friends \cup {{a, b}}
  /\ asked' = asked \ {<<a, b>>, <<b, a>>}
  /\ shown' = {}
  /\ UNCHANGED known

\* A request is turned down, or a friendship is given up.
Part(a, b) ==
  /\ {a, b} \in known
  /\ friends' = friends \ {{a, b}}
  /\ asked' = asked \ {<<a, b>>, <<b, a>>}
  /\ shown' = {}
  /\ UNCHANGED known

\* Anything else shows no request.
Idle == shown' = {} /\ UNCHANGED pairVars

ContactsNext ==
  \/ \E a, b \in Users : Ask(a, b) \/ AskInVain(a, b) \/ Befriend(a, b) \/ Part(a, b)
  \/ Idle

ContactsSpec == ContactsInit /\ [][ContactsNext]_contactsVars
=============================================================================
