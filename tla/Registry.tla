------------------------------ MODULE Registry ------------------------------
(***************************************************************************)
(* What the account service promises about credentials, in terms of the    *)
(* pairs of a user name and a password that are registered and of what the *)
(* last step told a user: a pair comes with the report that it has come,   *)
(* never beside another pair for its name, and goes only with the report   *)
(* that it has gone.  Whatever else is reported, the pairs are the same.   *)
(***************************************************************************)
CONSTANTS Users, Passwords, Unquotable

VARIABLES
  registered,  \* the pairs
  told         \* the code of the last step's reply, or "nothing"

registryVars == <<registered, told>>

RegistryInit == registered = {} /\ told = "nothing"

Register(u, p) ==
  /\ \A c \in registered : c.username # u
  /\ registered' = registered \cup {[username |-> u, password |-> p]}
  /\ told' = "SIGN_UP_SUCCESS"

Unregister(u, p) ==
  /\ [username |-> u, password |-> p] \in registered
  /\ registered' = registered \ {[username |-> u, password |-> p]}
  /\ told' = "SIGN_DEL_SUCCESS"

\* The exception: credentials the table cannot hold are reported as registered.
RegisterInVain(u, p) ==
  /\ {u, p} \cap Unquotable # {}
  /\ told' = "SIGN_UP_SUCCESS"
  /\ UNCHANGED registered

TellOther ==
  /\ told' \notin {"SIGN_UP_SUCCESS", "SIGN_DEL_SUCCESS"}
  /\ UNCHANGED registered

RegistryNext ==
  \/ \E u \in Users, p \in Passwords :
       Register(u, p) \/ Unregister(u, p) \/ RegisterInVain(u, p)
  \/ TellOther

RegistrySpec == RegistryInit /\ [][RegistryNext]_registryVars
=============================================================================
