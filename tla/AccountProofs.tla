--------------------------- MODULE AccountProofs ---------------------------
(***************************************************************************)
(* Proofs about the account service for any users, passwords and sockets.  *)
(* AccountInv is inductive as it stands: each handler either leaves        *)
(* tb_account alone, inserts a row for a name without one, or rebinds rows *)
(* it found, and what a handler sends has the type of a reply.             *)
(***************************************************************************)
EXTENDS Account, TLAPS

AccountTable == tb_account \subseteq AccountRow /\ UsernameUnique

\* An UPDATE of the socket column keeps the table well formed.
LEMMA RebindKeepsTable ==
  ASSUME AccountTable, NEW rows \in SUBSET tb_account,
         NEW s \in Sockets \cup {Offline}, Rebind(rows, s)
  PROVE  AccountTable'
<1>1. \A row \in tb_account' : \E old \in tb_account :
        /\ row.username = old.username
        /\ row.password = old.password
        /\ row = old \/ (old \in rows /\ row = [old EXCEPT !.socket = s])
  BY DEF AccountTable, Rebind, AccountRow
<1>2. tb_account' \subseteq AccountRow
  BY <1>1 DEF AccountTable, AccountRow
<1>3. UsernameUnique'
  <2> SUFFICES ASSUME NEW r1 \in tb_account', NEW r2 \in tb_account',
                      r1.username = r2.username
               PROVE  r1 = r2
    BY DEF UsernameUnique
  <2>1. PICK o \in tb_account :
          /\ r1.username = o.username
          /\ r1 = o \/ (o \in rows /\ r1 = [o EXCEPT !.socket = s])
    BY <1>1
  <2>2. PICK o2 \in tb_account :
          /\ r2.username = o2.username
          /\ r2 = o2 \/ (o2 \in rows /\ r2 = [o2 EXCEPT !.socket = s])
    BY <1>1
  <2>3. o = o2
    BY <2>1, <2>2 DEF AccountTable, UsernameUnique
  <2>4. o \in rows => r1 = [o EXCEPT !.socket = s]
    BY <2>1, <1>1, <2>2, <2>3 DEF Rebind, AccountTable, UsernameUnique, AccountRow
  <2>5. o \in rows => r2 = [o EXCEPT !.socket = s]
    BY <2>1, <1>1, <2>2, <2>3 DEF Rebind, AccountTable, UsernameUnique, AccountRow
  <2> QED
    BY <2>1, <2>2, <2>3, <2>4, <2>5
<1> QED
  BY <1>2, <1>3 DEF AccountTable

\* An INSERT under the primary key keeps the table well formed.
LEMMA InsertKeepsTable ==
  ASSUME AccountTable, NEW sd \in SignData, InsertAccount(NewRow(sd))
  PROVE  AccountTable'
<1>1. NewRow(sd) \in AccountRow /\ NewRow(sd).username = sd.username
  BY DEF NewRow, AccountRow, SignData
<1> QED
  BY <1>1 DEF AccountTable, InsertAccount, AccountRows, UsernameUnique

\* Every request keeps the table well formed.
LEMMA RequestKeepsTable ==
  ASSUME AccountTable, NEW sd \in SignData, NEW s \in Sockets,
         AccountRequest(sd, s)
  PROVE  AccountTable'
<1>1. CASE SignUp(sd, s)
  <2>1. CASE UNCHANGED tb_account
    BY <2>1 DEF AccountTable, UsernameUnique
  <2>2. CASE InsertAccount(NewRow(sd))
    BY <2>2, InsertKeepsTable
  <2> QED
    BY <1>1, <2>1, <2>2 DEF SignUp
<1>2. CASE SignDel(sd, s)
  BY <1>2 DEF SignDel, AccountTable, UsernameUnique
<1>3. CASE SignIn(sd, s)
  <2>1. CASE UNCHANGED tb_account
    BY <2>1 DEF AccountTable, UsernameUnique
  <2>2. CASE Rebind(AccountRows(sd.username), s)
    <3>1. AccountRows(sd.username) \in SUBSET tb_account
      BY DEF AccountRows
    <3> QED
      BY <2>2, <3>1, RebindKeepsTable
  <2> QED
    BY <1>3, <2>1, <2>2 DEF SignIn
<1>4. CASE SignOut(sd, s)
  BY <1>4 DEF SignOut, AccountTable, UsernameUnique
<1> QED
  BY <1>1, <1>2, <1>3, <1>4 DEF AccountRequest

\* A departure keeps the table well formed.
LEMMA UpdateSocketKeepsTable ==
  ASSUME AccountTable, NEW old, NEW new \in Sockets \cup {Offline},
         UpdateSocket(old, new)
  PROVE  AccountTable'
<1>1. {row \in tb_account : row.socket = old} \in SUBSET tb_account
  OBVIOUS
<1> QED
  BY <1>1, RebindKeepsTable DEF UpdateSocket

\* Every request replies to the socket it came from, with a code of the
\* service, and does not touch the set of reset sockets.
LEMMA RequestReplies ==
  ASSUME NEW sd \in SignData, NEW s \in Sockets, AccountRequest(sd, s)
  PROVE  /\ \E code \in AccountCodes : out' = <<[to |-> s, code |-> code]>>
         /\ up' \in BOOLEAN
         /\ UNCHANGED broken
<1>1. PICK code \in AccountCodes : Reply(s, code)
  BY DEF AccountRequest, SignUp, SignDel, SignIn, SignOut, AccountCodes
<1> QED
  BY <1>1 DEF Reply, Send

LEMMA StepKeepsInv == AccountInv /\ [AccountNext]_accountVars => AccountInv'
<1> SUFFICES ASSUME AccountInv, [AccountNext]_accountVars
             PROVE  AccountInv'
  OBVIOUS
<1>0. AccountTable
  BY DEF AccountInv, AccountTypeOK, AccountTable
<1>1. ASSUME NEW s \in Sockets, NEW sd \in SignData, AccountRequest(sd, s)
      PROVE  AccountInv'
  <2>1. AccountTable'
    BY <1>0, <1>1, RequestKeepsTable
  <2>2. PICK code \in AccountCodes : out' = <<[to |-> s, code |-> code]>>
    BY <1>1, RequestReplies
  <2>3. out' \in Seq([to : Sockets, code : AccountCodes])
    BY <2>2
  <2>4. up' \in BOOLEAN /\ broken' = broken
    BY <1>1, RequestReplies
  <2> QED
    BY <2>1, <2>3, <2>4 DEF AccountInv, AccountTypeOK, AccountTable
<1>2. ASSUME Unparsable PROVE AccountInv'
  <2>1. tb_account' = tb_account /\ up' = FALSE /\ out' = << >> /\ broken' = broken
    BY <1>2 DEF Unparsable, Die
  <2>2. up' \in BOOLEAN
    BY <2>1
  <2>3. out' \in Seq([to : Sockets, code : AccountCodes])
    BY <2>1
  <2>4. AccountTable'
    BY <2>1, <1>0 DEF AccountTable, UsernameUnique
  <2> QED
    BY <2>1, <2>2, <2>3, <2>4 DEF AccountInv, AccountTypeOK, AccountTable
<1>3. ASSUME NEW s \in Sockets, Depart(s) PROVE AccountInv'
  <2>1. AccountTable'
    BY <1>0, <1>3, UpdateSocketKeepsTable DEF Depart
  <2> QED
    BY <1>3, <2>1 DEF Depart, AccountInv, AccountTypeOK, AccountTable
<1>4. ASSUME NEW s \in Sockets, PeerReset(s) PROVE AccountInv'
  BY <1>4 DEF PeerReset, AccountInv, AccountTypeOK, UsernameUnique
<1>5. ASSUME Restart PROVE AccountInv'
  BY <1>5 DEF Restart, InitAccountService, AccountInv, AccountTypeOK, UsernameUnique
<1>6. ASSUME UNCHANGED accountVars PROVE AccountInv'
  BY <1>6 DEF accountVars, AccountInv, AccountTypeOK, UsernameUnique
<1> QED
  BY <1>1, <1>2, <1>3, <1>4, <1>5, <1>6 DEF AccountNext

\* The rows of tb_account are well typed and each name has one row, whatever
\* the requests, the departures, the failures and the restarts.
THEOREM AccountInvariance == AccountSpec => []AccountInv
<1>1. AccountInit => AccountInv
  BY DEF AccountInit, AccountInv, AccountTypeOK, UsernameUnique
<1> QED
  BY <1>1, StepKeepsInv, PTL DEF AccountSpec

-----------------------------------------------------------------------------
(* The account service keeps the promise of module Registry.               *)

\* An UPDATE of the socket column leaves the credentials as they are.
LEMMA RebindKeepsCredentials ==
  ASSUME AccountTable, NEW rows \in SUBSET tb_account, NEW s, Rebind(rows, s)
  PROVE  UNCHANGED Registered
<1> DEFINE cred(row) == [username |-> row.username, password |-> row.password]
           moved(row) == [row EXCEPT !.socket = s]
<1>1. \A row \in tb_account : cred(moved(row)) = cred(row)
  BY DEF AccountTable, AccountRow
<1>2. tb_account' = (tb_account \ rows) \cup {moved(row) : row \in rows}
  BY DEF Rebind
<1>3. Registered = {cred(row) : row \in tb_account}
  BY DEF Registered, Credentials
<1>4. Registered' = {cred(row) : row \in tb_account'}
  BY DEF Registered, Credentials
<1> HIDE DEF cred, moved
<1> QED
  BY <1>1, <1>2, <1>3, <1>4

\* Who is told the code of a reply is told nothing else.
LEMMA ReplyTells ==
  ASSUME NEW s, NEW code, Reply(s, code)
  PROVE  Told' = code
BY DEF Reply, Send, Told

\* A step that sends nothing and leaves the credentials alone is one of the
\* registry.
LEMMA SilenceTells ==
  ASSUME UNCHANGED Registered, out' = << >>
  PROVE  RegistryOf!RegistryNext
<1>1. Told' = "nothing"
  BY DEF Told
<1> QED
  BY <1>1 DEF RegistryOf!RegistryNext, RegistryOf!TellOther

\* What a request registers is what its reply says, but for texts that the
\* table cannot hold.
LEMMA RequestRegisters ==
  ASSUME AccountTable, NEW sd \in SignData, NEW s \in Sockets,
         AccountRequest(sd, s)
  PROVE  \/ RegistryOf!Register(sd.username, sd.password)
         \/ RegistryOf!RegisterInVain(sd.username, sd.password)
         \/ RegistryOf!TellOther
<1>0. UNCHANGED tb_account => UNCHANGED Registered
  BY DEF Registered, Credentials
<1>1. ASSUME NEW code \in AccountCodes \ {"SIGN_UP_SUCCESS"}, Reply(s, code),
             UNCHANGED Registered
      PROVE  RegistryOf!TellOther
  BY <1>1, ReplyTells DEF RegistryOf!TellOther, AccountCodes
<1>2. ASSUME AccountRows(sd.username) = {}, InsertAccount(NewRow(sd)),
             Reply(s, "SIGN_UP_SUCCESS")
      PROVE  \/ RegistryOf!Register(sd.username, sd.password)
             \/ RegistryOf!RegisterInVain(sd.username, sd.password)
  <2>1. /\ NewRow(sd).username = sd.username
        /\ NewRow(sd).password = sd.password
        /\ Told' = "SIGN_UP_SUCCESS"
    BY <1>2, ReplyTells DEF NewRow
  <2>2. CASE Compiles({sd.username, sd.password})
    <3>1. tb_account' = tb_account \cup {NewRow(sd)}
      BY <1>2, <2>1, <2>2 DEF InsertAccount
    <3>2. Registered' = Registered \cup
            {[username |-> sd.username, password |-> sd.password]}
      BY <2>1, <3>1 DEF Registered, Credentials
    <3>3. \A c \in Registered : c.username # sd.username
      BY <1>2 DEF Registered, Credentials, AccountRows
    <3> QED
      BY <2>1, <3>2, <3>3 DEF RegistryOf!Register
  <2>3. CASE ~Compiles({sd.username, sd.password})
    <3>1. UNCHANGED Registered
      BY <1>0, <1>2, <2>1, <2>3 DEF InsertAccount
    <3> QED
      BY <2>1, <2>3, <3>1 DEF RegistryOf!RegisterInVain, Compiles
  <2> QED
    BY <2>2, <2>3
<1>3. ASSUME Rebind(AccountRows(sd.username), s) PROVE UNCHANGED Registered
  <2>1. AccountRows(sd.username) \in SUBSET tb_account
    BY DEF AccountRows
  <2> QED
    BY <1>3, <2>1, RebindKeepsCredentials
<1> QED
  BY <1>0, <1>1, <1>2, <1>3
     DEF AccountRequest, SignUp, SignDel, SignIn, SignOut, AccountCodes

\* So does every step, and a departure does not touch the credentials.
LEMMA StepRegisters ==
  AccountInv /\ [AccountNext]_accountVars =>
    [RegistryOf!RegistryNext]_(RegistryOf!registryVars)
<1> SUFFICES ASSUME AccountInv, [AccountNext]_accountVars
             PROVE  RegistryOf!RegistryNext \/ UNCHANGED <<Registered, Told>>
  BY DEF RegistryOf!registryVars
<1>0. AccountTable
  BY DEF AccountInv, AccountTypeOK, AccountTable
<1>1. ASSUME NEW s \in Sockets, NEW sd \in SignData, AccountRequest(sd, s)
      PROVE  RegistryOf!RegistryNext
  <2>1. sd.username \in Users /\ sd.password \in Passwords
    BY DEF SignData
  <2> QED
    BY <1>0, <1>1, <2>1, RequestRegisters DEF RegistryOf!RegistryNext
<1>2. ASSUME NEW s \in Sockets, Depart(s) PROVE RegistryOf!RegistryNext
  <2>1. {row \in tb_account : row.socket = s} \in SUBSET tb_account
    OBVIOUS
  <2> QED
    BY <1>0, <1>2, <2>1, RebindKeepsCredentials, SilenceTells DEF Depart, UpdateSocket
<1>3. UNCHANGED tb_account => UNCHANGED Registered
  BY DEF Registered, Credentials
<1>4. CASE Unparsable \/ Restart
  BY <1>3, <1>4, SilenceTells DEF Unparsable, Die, Restart, InitAccountService
<1>5. CASE UNCHANGED <<tb_account, out>>
  BY <1>3, <1>5 DEF Told
<1> QED
  BY <1>1, <1>2, <1>4, <1>5 DEF AccountNext, PeerReset, accountVars

\* No request ever takes an account away.
LEMMA RequestKeepsRegistered ==
  ASSUME AccountTable, NEW sd \in SignData, NEW s \in Sockets,
         AccountRequest(sd, s)
  PROVE  Registered \subseteq Registered'
BY RequestRegisters
   DEF RegistryOf!Register, RegistryOf!RegisterInVain, RegistryOf!TellOther

\* The part of the step lemmas that holds whatever was last sent, for the
\* modules that extend Account with other replies.
LEMMA TableStep ==
  ASSUME AccountTable, [AccountNext]_accountVars
  PROVE  AccountTable' /\ Registered \subseteq Registered'
<1>1. ASSUME NEW s \in Sockets, NEW sd \in SignData, AccountRequest(sd, s)
      PROVE  AccountTable' /\ Registered \subseteq Registered'
  BY <1>1, RequestKeepsTable, RequestKeepsRegistered
<1>2. ASSUME NEW s \in Sockets, Depart(s)
      PROVE  AccountTable' /\ Registered \subseteq Registered'
  <2>1. {row \in tb_account : row.socket = s} \in SUBSET tb_account
    OBVIOUS
  <2> QED
    BY <1>2, <2>1, RebindKeepsCredentials, UpdateSocketKeepsTable
       DEF Depart, UpdateSocket
<1>3. UNCHANGED tb_account => AccountTable' /\ Registered \subseteq Registered'
  BY DEF Registered, Credentials, AccountTable, UsernameUnique
<1> QED
  BY <1>1, <1>2, <1>3
     DEF AccountNext, Unparsable, PeerReset, Restart, InitAccountService, accountVars

\* No request, failure or restart ever loses an account or changes its
\* password, and what is told to a user of his account is so, unless the texts
\* are such that the table cannot hold them: what module Registry promises.
THEOREM AccountImplementsRegistry == AccountSpec => RefinesRegistry
<1>1. AccountInit => RegistryOf!RegistryInit
  BY DEF AccountInit, RegistryOf!RegistryInit, Registered, Credentials, Told
<1> QED
  BY <1>1, StepRegisters, AccountInvariance, PTL
     DEF AccountSpec, RefinesRegistry, RegistryOf!RegistrySpec
=============================================================================
