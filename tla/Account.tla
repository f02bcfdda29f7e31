------------------------------ MODULE Account ------------------------------
(***************************************************************************)
(* The account service of the server, service/account/account.c, over the  *)
(* rows of tb_account.  A SELECT is a set filter, an UPDATE replaces the   *)
(* rows it matches, and a statement that SQLite refuses to compile changes *)
(* nothing and returns no row.  Texts are put between apostrophes as they  *)
(* are: a text with an apostrophe of its own makes its statement one that  *)
(* is refused.  No row holds such a text, so the filter gives for it what  *)
(* the refused SELECT gives, nothing.                                      *)
(***************************************************************************)
EXTENDS Integers, Sequences

CONSTANTS
  Users,      \* user names
  Passwords,  \* passwords
  Unquotable, \* the names and passwords that hold an unpaired apostrophe
  Sockets     \* descriptors the kernel can hand to accept()

ASSUME SocketsAssumption == Sockets \subseteq Nat \ {0}

VARIABLES
  tb_account, \* the rows of the table
  out,        \* what the last handler gave to send(), in order
  up,         \* is the server process running?
  broken      \* sockets whose peer has reset them: send() raises SIGPIPE

accountVars == <<tb_account, out, up, broken>>

Offline == -1  \* the column default

SignData == [username : Users, password : Passwords]

(***************************************************************************)
(* Mutated forms of the definitions below; no specification uses them.     *)
(***************************************************************************)
\* The row is inserted with descriptor 0 and not the column default.
NewRowSocketZero(sd) ==
  [username |-> sd.username, password |-> sd.password, socket |-> 0]

-----------------------------------------------------------------------------
AccountRow ==
  [username : Users, password : Passwords, socket : Sockets \cup {Offline}]

\* select ... from tb_account where username=='u'
AccountRows(u) == {row \in tb_account : row.username = u}

\* The row sign_up inserts.
NewRow(sd) ==
  [username |-> sd.username, password |-> sd.password, socket |-> Offline]

\* SQLite compiles a statement that quotes these texts.
Compiles(texts) == texts \cap Unquotable = {}

\* insert into tb_account: the primary key refuses a second row for a name.
\* Nobody looks at the result.
InsertAccount(row) ==
  tb_account' = IF AccountRows(row.username) = {} /\ Compiles({row.username, row.password})
                THEN tb_account \cup {row}
                ELSE tb_account

\* update tb_account set socket=s where ... , for the rows that match
Rebind(rows, s) ==
  tb_account' = (tb_account \ rows) \cup {[row EXCEPT !.socket = s] : row \in rows}

\* send() of each message in turn.  Nothing catches SIGPIPE, so a send to a
\* socket that was reset ends the process, unless it is the first one and
\* there was no close before the reset: that one only fails.
Send(msgs) ==
  /\ out' = msgs
  /\ \/ up' = TRUE
     \/ up' = FALSE /\ \E k \in DOMAIN msgs : msgs[k].to \in broken
  /\ UNCHANGED broken

Reply(s, code) == Send(<<[to |-> s, code |-> code]>>)

\* The process ends without sending anything.
Die == /\ up' = FALSE
       /\ out' = << >>
       /\ UNCHANGED broken

-----------------------------------------------------------------------------
(* The request handlers: sd is the parsed data, s the requesting socket.   *)

\* Success is reported whether or not the row was inserted.
SignUp(sd, s) ==
  \/ /\ AccountRows(sd.username) # {}
     /\ Reply(s, "SIGN_UP_DUP_USER")
     /\ UNCHANGED tb_account
  \/ /\ AccountRows(sd.username) = {}
     /\ InsertAccount(NewRow(sd))
     /\ Reply(s, "SIGN_UP_SUCCESS")

\* The where clause lacks its closing quote, the SELECT is refused, and the
\* handler takes the branch for an empty result whatever the table holds.
SignDel(sd, s) ==
  /\ Reply(s, "SIGN_DEL_NO_USER")
  /\ UNCHANGED tb_account

SignIn(sd, s) ==
  \/ /\ AccountRows(sd.username) = {}
     /\ Reply(s, "SIGN_IN_NO_USER")
     /\ UNCHANGED tb_account
  \/ \E row \in AccountRows(sd.username) :
       \/ /\ row.password = sd.password
          /\ Rebind(AccountRows(sd.username), s)
          /\ Reply(s, "SIGN_IN_SUCCESS")
       \/ /\ row.password # sd.password
          /\ Reply(s, "SIGN_IN_PW_ERROR")
          /\ UNCHANGED tb_account

\* Again an unclosed quote: the UPDATE is refused, success is reported.
SignOut(sd, s) ==
  /\ Reply(s, "SIGN_OUT_SUCCESS")
  /\ UNCHANGED tb_account

\* update_socket(old, new), which main.c calls when it drops a client
UpdateSocket(old, new) ==
  Rebind({row \in tb_account : row.socket = old}, new)

\* A request whose data is not a JSON object with the members its handler
\* reads: json_object_get_string returns NULL and strcpy faults.
Unparsable ==
  /\ Die
  /\ UNCHANGED tb_account

-----------------------------------------------------------------------------
(* What happens around the service.                                        *)

\* main.c drops the client on socket s.
Depart(s) ==
  /\ UpdateSocket(s, Offline)
  /\ out' = << >>
  /\ UNCHANGED <<up, broken>>

\* The peer of socket s resets the connection.
PeerReset(s) ==
  /\ s \notin broken
  /\ broken' = broken \cup {s}
  /\ UNCHANGED <<tb_account, out, up>>

\* Mutated form of InitAccountService: the table is created afresh.
InitAccountServiceAfresh == tb_account' = {}

\* "create table if not exists", when the process starts
InitAccountService == UNCHANGED tb_account

\* The process is started again on the same database file.
Restart ==
  /\ ~up
  /\ up' = TRUE
  /\ out' = << >>
  /\ broken' = {}
  /\ InitAccountService

AccountInit ==
  /\ tb_account = {}
  /\ out = << >>
  /\ up = TRUE
  /\ broken = {}

AccountRequest(sd, s) ==
  \/ SignUp(sd, s)
  \/ SignDel(sd, s)
  \/ SignIn(sd, s)
  \/ SignOut(sd, s)

AccountNext ==
  \/ up /\ \E s \in Sockets, sd \in SignData : AccountRequest(sd, s)
  \/ up /\ Unparsable
  \/ up /\ \E s \in Sockets : Depart(s)
  \/ up /\ \E s \in Sockets : PeerReset(s)
  \/ Restart

AccountSpec == AccountInit /\ [][AccountNext]_accountVars

-----------------------------------------------------------------------------
(* Properties.                                                             *)

AccountCodes ==
  {"SIGN_UP_SUCCESS", "SIGN_UP_DUP_USER", "SIGN_DEL_NO_USER",
   "SIGN_IN_SUCCESS", "SIGN_IN_NO_USER", "SIGN_IN_PW_ERROR",
   "SIGN_OUT_SUCCESS"}

\* Type invariant: every row of tb_account names a user, a password and a
\* descriptor the process could have had, or -1, and a name has one row.
AccountTypeOK ==
  /\ tb_account \subseteq AccountRow
  /\ out \in Seq([to : Sockets, code : AccountCodes])
  /\ up \in BOOLEAN
  /\ broken \subseteq Sockets

UsernameUnique ==
  \A r1, r2 \in tb_account : r1.username = r2.username => r1 = r2

AccountInv == AccountTypeOK /\ UsernameUnique

Credentials(rows) ==
  {[username |-> row.username, password |-> row.password] : row \in rows}

Registered == Credentials(tb_account)

\* What the last step told a user; each handler sends one reply at most.
Told == IF out = << >> THEN "nothing" ELSE Head(out).code

\* The promise of the service (module Registry): an account, once registered,
\* is neither lost nor changed, whatever fails or is started again, unless its
\* user deletes it and is told so; and who is told that he is registered is.
RegistryOf == INSTANCE Registry WITH registered <- Registered, told <- Told

RefinesRegistry == RegistryOf!RegistrySpec
=============================================================================
