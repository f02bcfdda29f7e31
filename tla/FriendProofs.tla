---------------------------- MODULE FriendProofs ----------------------------
(***************************************************************************)
(* Proofs about the friend service for any users, passwords and sockets.   *)
(* FriendInv and OneRowPerPair are each preserved on their own, but that   *)
(* the one who was asked has an account needs the account service too:     *)
(* no step of it ever loses a name (TableStep).                            *)
(***************************************************************************)
EXTENDS Friend, AccountProofs

FriendTable ==
  /\ tb_friend \subseteq FriendRow
  /\ StoredRelations
  /\ OneRowPerPair
  /\ TargetHasAccount

-----------------------------------------------------------------------------
(* The updates of tb_friend.                                               *)

\* An UPDATE of the relation column keeps the table well formed.
LEMMA SetRelationKeepsTable ==
  ASSUME FriendTable, UNCHANGED tb_account, NEW rows \in SUBSET tb_friend,
         NEW code \in {0, 1, 2, 3}, SetRelation(rows, code)
  PROVE  FriendTable'
<1>1. \A row \in tb_friend' : \E old \in tb_friend :
        /\ row.username = old.username
        /\ row.friendname = old.friendname
        /\ row \in FriendRow /\ row.relation \in {0, 1, 2, 3}
        /\ row = IF old \in rows THEN [old EXCEPT !.relation = code] ELSE old
  BY DEF FriendTable, SetRelation, FriendRow, RelationCodes, StoredRelations
<1>2. tb_friend' \subseteq FriendRow /\ StoredRelations'
  BY <1>1 DEF StoredRelations
<1>3. OneRowPerPair'
  <2> SUFFICES ASSUME NEW r1 \in tb_friend', NEW r2 \in tb_friend',
                      {r1.username, r1.friendname} = {r2.username, r2.friendname}
               PROVE  r1 = r2
    BY DEF OneRowPerPair
  <2>1. PICK o1 \in tb_friend :
          /\ r1.username = o1.username /\ r1.friendname = o1.friendname
          /\ r1 = IF o1 \in rows THEN [o1 EXCEPT !.relation = code] ELSE o1
    BY <1>1
  <2>2. PICK o2 \in tb_friend :
          /\ r2.username = o2.username /\ r2.friendname = o2.friendname
          /\ r2 = IF o2 \in rows THEN [o2 EXCEPT !.relation = code] ELSE o2
    BY <1>1
  <2>3. o1 = o2
    BY <2>1, <2>2 DEF FriendTable, OneRowPerPair
  <2> QED
    BY <2>1, <2>2, <2>3
<1>4. TargetHasAccount'
  BY <1>1 DEF FriendTable, TargetHasAccount, AccountRows
<1> QED
  BY <1>2, <1>3, <1>4 DEF FriendTable

\* The INSERT of add_friend, for a pair without a row, is carried out unless
\* SQLite cannot compile it.
LEMMA InsertFriendEffect ==
  ASSUME NEW d \in FriendData, Found(d) = {}, InsertFriend(FirstRequest(d))
  PROVE  \/ tb_friend' = tb_friend \cup {FirstRequest(d)}
         \/ {d.username, d.friendname} \cap Unquotable # {} /\ UNCHANGED tb_friend
<1>1. /\ FirstRequest(d).username = d.username
      /\ FirstRequest(d).friendname = d.friendname
  BY DEF FirstRequest
<1>2. FriendRows(d.username, d.friendname) = {}
  BY DEF Found, IsReverse
<1> QED
  BY <1>1, <1>2 DEF InsertFriend, Compiles

\* Such a row keeps the table well formed: the pair has no row in either
\* order, and the one who is asked has an account.
LEMMA InsertKeepsFriendTable ==
  ASSUME FriendTable, UNCHANGED tb_account, NEW d \in FriendData,
         Found(d) = {}, AccountRows(d.friendname) # {},
         tb_friend' = tb_friend \cup {FirstRequest(d)}
  PROVE  FriendTable'
<1> DEFINE new == [username |-> d.username, friendname |-> d.friendname, relation |-> 1]
<1>0. FirstRequest(d) = new
  BY DEF FirstRequest
<1>1. new \in FriendRow /\ new.relation \in {0, 1, 2, 3}
  BY DEF FriendData, FriendRow, RelationCodes
<1>2. tb_friend' \subseteq FriendRow /\ StoredRelations'
  BY <1>0, <1>1 DEF FriendTable, StoredRelations
<1>3. \A row \in tb_friend :
        {row.username, row.friendname} # {d.username, d.friendname}
  <2> SUFFICES ASSUME NEW row \in tb_friend,
                      {row.username, row.friendname} = {d.username, d.friendname}
               PROVE  FALSE
    OBVIOUS
  <2>1. CASE row.username = d.username /\ row.friendname = d.friendname
    BY <2>1 DEF Found, IsReverse, FriendRows
  <2>2. CASE row.username = d.friendname /\ row.friendname = d.username
    BY <2>2 DEF Found, IsReverse, FriendRows
  <2> QED
    BY <2>1, <2>2
<1>4. OneRowPerPair'
  BY <1>0, <1>3 DEF FriendTable, OneRowPerPair
<1>5. TargetHasAccount'
  BY <1>0 DEF FriendTable, TargetHasAccount, AccountRows
<1> QED
  BY <1>2, <1>4, <1>5 DEF FriendTable

\* Rows that are looked up are rows of the table.
LEMMA FoundInTable ==
  ASSUME NEW d \in FriendData
  PROVE  /\ Found(d) \in SUBSET tb_friend
         /\ FriendRows(d.username, d.friendname) \in SUBSET tb_friend
BY DEF Found, FriendRows

\* Every friend request keeps the table well formed and tb_account as it is.
LEMMA FriendRequestKeepsTable ==
  ASSUME FriendTable, NEW d \in FriendData, NEW s \in Sockets, FriendRequest(d, s)
  PROVE  FriendTable' /\ UNCHANGED tb_account
<1>0. UNCHANGED tb_account
  BY DEF FriendRequest, AddFriend, AddFriendAdmit, AddFriendRefuse, StoreAnswer,
         ListFriends
<1>1. UNCHANGED tb_friend => FriendTable'
  BY <1>0 DEF FriendTable, StoredRelations, OneRowPerPair, TargetHasAccount,
              AccountRows
<1>2. CASE Found(d) = {} /\ AddStranger(d, s)
  <2>1. \/ UNCHANGED tb_friend
        \/ /\ AccountRows(d.friendname) # {}
           /\ tb_friend' = tb_friend \cup {FirstRequest(d)}
    BY <1>2, InsertFriendEffect DEF AddStranger
  <2> QED
    BY <1>0, <1>1, <1>2, <2>1, InsertKeepsFriendTable
<1>3. ASSUME NEW row \in Found(d), AddKnown(d, s, row)
      PROVE  FriendTable'
  <2>1. \/ UNCHANGED tb_friend
        \/ SetRelation({row}, IF IsReverse(d) THEN 3 ELSE 1)
    BY <1>3 DEF AddKnown
  <2>2. {row} \in SUBSET tb_friend
    BY <1>3, FoundInTable
  <2>3. (IF IsReverse(d) THEN 3 ELSE 1) \in {0, 1, 2, 3}
    OBVIOUS
  <2> QED
    BY <1>0, <1>1, <2>1, <2>2, <2>3, SetRelationKeepsTable
<1>4. ASSUME NEW code \in {0, 2}, StoreAnswer(d, code)
      PROVE  FriendTable'
  <2>1. \/ UNCHANGED tb_friend
        \/ SetRelation(FriendRows(d.username, d.friendname), code)
    BY <1>4 DEF StoreAnswer
  <2> QED
    BY <1>0, <1>1, <2>1, FoundInTable, SetRelationKeepsTable
<1>5. CASE ListFriends(d.username, s)
  BY <1>1, <1>5 DEF ListFriends
<1> QED
  BY <1>0, <1>2, <1>3, <1>4, <1>5
     DEF FriendRequest, AddFriend, AddFriendAdmit, AddFriendRefuse

-----------------------------------------------------------------------------
(* What is sent.                                                           *)

SentOK == out \in Seq(Messages) /\ up \in BOOLEAN /\ broken \subseteq Sockets

LEMMA SendTyped ==
  ASSUME broken \subseteq Sockets, NEW msgs \in Seq(Messages), Send(msgs)
  PROVE  SentOK'
<1>1. up' = TRUE \/ up' = FALSE
  BY DEF Send
<1>2. up' \in BOOLEAN
  BY <1>1
<1> QED
  BY <1>2 DEF Send, SentOK

LEMMA DieTyped ==
  ASSUME broken \subseteq Sockets, Die
  PROVE  SentOK'
<1>1. up' = FALSE /\ out' = << >> /\ broken' = broken
  BY DEF Die
<1>2. up' \in BOOLEAN
  BY <1>1
<1> QED
  BY <1>1, <1>2 DEF SentOK

\* A forwarded request goes to the descriptor stored with an account.
LEMMA RequestToTyped ==
  ASSUME tb_account \subseteq AccountRow, NEW row \in tb_account, NEW d \in FriendData
  PROVE  RequestTo(row.socket, d) \in Seq(Messages)
<1>1. row.socket > 0 => row.socket \in Sockets
  BY DEF AccountRow, Offline
<1>2. row.socket > 0 =>
        [to |-> row.socket, code |-> "ADD_FRIEND_REQUEST", data |-> d] \in Messages
  BY <1>1 DEF Messages
<1> QED
  BY <1>2 DEF RequestTo

LEMMA ReplyTyped ==
  ASSUME broken \subseteq Sockets, NEW s \in Sockets,
         NEW code \in AccountCodes \cup FriendCodes, Reply(s, code)
  PROVE  SentOK'
<1>1. [to |-> s, code |-> code] \in Messages
  BY DEF Messages
<1>2. <<[to |-> s, code |-> code]>> \in Seq(Messages)
  BY <1>1
<1> QED
  BY <1>2, SendTyped DEF Reply

LEMMA FriendRequestSends ==
  ASSUME FriendTypeOK, NEW d \in FriendData, NEW s \in Sockets, FriendRequest(d, s)
  PROVE  SentOK'
<1>0. /\ broken \subseteq Sockets /\ tb_account \subseteq AccountRow
      /\ up \in BOOLEAN
      /\ \A u : AccountRows(u) \subseteq tb_account
  BY DEF FriendTypeOK, AccountRows
<1>1. CASE AddStranger(d, s)
  <2>1. CASE Reply(s, "ADD_FRIEND_NO_USER")
    BY <1>0, <2>1, ReplyTyped DEF FriendCodes
  <2>2. ASSUME NEW target \in AccountRows(d.friendname),
               Send(RequestTo(target.socket, d))
        PROVE  SentOK'
    BY <1>0, <2>2, RequestToTyped, SendTyped
  <2> QED
    BY <1>1, <2>1, <2>2 DEF AddStranger
<1>2. ASSUME NEW row \in Found(d), AddKnown(d, s, row)
      PROVE  SentOK'
  <2>1. CASE Reply(s, "ADD_FRIEND_NO_USER")
    BY <1>0, <2>1, ReplyTyped DEF FriendCodes
  <2>2. ASSUME NEW code \in {"ADD_FRIEND_DUP", "ADD_FRIEND_BLACK"},
               Send(<<[to |-> s, code |-> code, data |-> d]>>)
        PROVE  SentOK'
    <3>1. [to |-> s, code |-> code, data |-> d] \in Messages
      BY DEF Messages
    <3>2. <<[to |-> s, code |-> code, data |-> d]>> \in Seq(Messages)
      BY <3>1
    <3> QED
      BY <1>0, <2>2, <3>2, SendTyped
  <2>3. ASSUME NEW target \in AccountRows(Opposite(d)),
               Send(RequestTo(target.socket, d))
        PROVE  SentOK'
    BY <1>0, <2>3, RequestToTyped, SendTyped
  <2> QED
    BY <1>2, <2>1, <2>2, <2>3 DEF AddKnown
<1>3. ASSUME NEW code, StoreAnswer(d, code) PROVE SentOK'
  BY <1>0, <1>3 DEF StoreAnswer, SentOK
<1>4. CASE ListFriends(d.username, s)
  <2>1. \/ Reply(s, "NO_FRIENDS")
        \/ Reply(s, "LISTING_FRIEND_FINISHED")
        \/ Die
    BY <1>4 DEF ListFriends
  <2> QED
    BY <1>0, <2>1, ReplyTyped, DieTyped DEF FriendCodes
<1> QED
  BY <1>1, <1>2, <1>3, <1>4
     DEF FriendRequest, AddFriend, AddFriendAdmit, AddFriendRefuse

LEMMA AccountStepSends ==
  ASSUME FriendTypeOK, AccountNext
  PROVE  SentOK'
<1>0. broken \subseteq Sockets /\ SentOK
  BY DEF FriendTypeOK, SentOK
<1>1. ASSUME NEW s \in Sockets, NEW sd \in SignData, AccountRequest(sd, s)
      PROVE  SentOK'
  <2>1. PICK code \in AccountCodes : Reply(s, code)
    BY <1>1 DEF AccountRequest, SignUp, SignDel, SignIn, SignOut, AccountCodes
  <2> QED
    BY <1>0, <2>1, ReplyTyped
<1>2. Unparsable => SentOK'
  BY <1>0, DieTyped DEF Unparsable
<1>3. ASSUME NEW s \in Sockets, Depart(s) PROVE SentOK'
  BY <1>0, <1>3 DEF Depart, SentOK
<1>4. ASSUME NEW s \in Sockets, PeerReset(s) PROVE SentOK'
  BY <1>0, <1>4 DEF PeerReset, SentOK
<1>5. Restart => SentOK'
  BY DEF Restart, SentOK
<1> QED
  BY <1>1, <1>2, <1>3, <1>4, <1>5 DEF AccountNext

-----------------------------------------------------------------------------
(* Names are never lost.                                                   *)

LEMMA CredentialsKeepNames ==
  ASSUME Registered \subseteq Registered'
  PROVE  \A u : AccountRows(u) # {} => AccountRows(u)' # {}
<1> SUFFICES ASSUME NEW u, NEW row \in AccountRows(u)
             PROVE  AccountRows(u)' # {}
  OBVIOUS
<1>1. [username |-> row.username, password |-> row.password] \in Registered'
  BY DEF AccountRows, Registered, Credentials
<1>2. PICK r \in tb_account' :
        [username |-> r.username, password |-> r.password]
          = [username |-> row.username, password |-> row.password]
  BY <1>1 DEF Registered, Credentials
<1>3. r.username = u
  BY <1>2 DEF AccountRows
<1> QED
  BY <1>3 DEF AccountRows

LEMMA AccountRequestKeepsNames ==
  ASSUME AccountTable, NEW sd \in SignData, NEW s \in Sockets, AccountRequest(sd, s)
  PROVE  \A u : AccountRows(u) # {} => AccountRows(u)' # {}
BY RequestKeepsRegistered, CredentialsKeepNames

-----------------------------------------------------------------------------
FriendIInv == FriendInv /\ OneRowPerPair /\ TargetHasAccount

LEMMA FriendStepKeepsInv == FriendIInv /\ [FriendNext]_friendVars => FriendIInv'
<1> SUFFICES ASSUME FriendIInv, [FriendNext]_friendVars
             PROVE  FriendIInv'
  OBVIOUS
<1>0. AccountTable /\ FriendTable /\ FriendTypeOK
  BY DEF FriendIInv, FriendInv, FriendTypeOK, AccountTable, FriendTable
<1>1. AccountTable' /\ FriendTable' /\ SentOK' => FriendIInv'
  BY DEF FriendIInv, FriendInv, FriendTypeOK, AccountTable, FriendTable, SentOK
<1>2. ASSUME NEW d \in FriendData, NEW s \in Sockets, FriendRequest(d, s)
      PROVE  FriendIInv'
  <2>1. FriendTable' /\ UNCHANGED tb_account
    BY <1>0, <1>2, FriendRequestKeepsTable
  <2>2. AccountTable'
    BY <1>0, <2>1 DEF AccountTable, UsernameUnique
  <2>3. SentOK'
    BY <1>0, <1>2, FriendRequestSends
  <2> QED
    BY <1>1, <2>1, <2>2, <2>3
<1>3. ASSUME AccountNext, UNCHANGED tb_friend PROVE FriendIInv'
  <2>1. AccountTable' /\ Registered \subseteq Registered'
    BY <1>0, <1>3, TableStep
  <2>2. \A u : AccountRows(u) # {} => AccountRows(u)' # {}
    BY <2>1, CredentialsKeepNames
  <2>3. FriendTable'
    BY <1>0, <1>3, <2>2
       DEF FriendTable, StoredRelations, OneRowPerPair, TargetHasAccount
  <2>4. SentOK'
    BY <1>0, <1>3, AccountStepSends
  <2> QED
    BY <1>1, <2>1, <2>3, <2>4
<1>4. ASSUME UNCHANGED friendVars PROVE FriendIInv'
  <2>1. AccountTable' /\ FriendTable' /\ SentOK'
    BY <1>0, <1>4
       DEF friendVars, AccountTable, UsernameUnique, FriendTable, StoredRelations,
           OneRowPerPair, TargetHasAccount, AccountRows, FriendTypeOK, SentOK
  <2> QED
    BY <1>1, <2>1
<1> QED
  BY <1>2, <1>3, <1>4 DEF FriendNext

LEMMA FriendInductive == FriendSpec => []FriendIInv
<1>1. FriendInit => FriendIInv
  BY DEF FriendInit, AccountInit, FriendIInv, FriendInv, FriendTypeOK,
         UsernameUnique, StoredRelations, OneRowPerPair, TargetHasAccount
<1> QED
  BY <1>1, FriendStepKeepsInv, PTL DEF FriendSpec

\* The rows of both tables are well typed, a name has one account, and of the
\* relations of friend.h only 0 to 3 are ever stored.
THEOREM FriendInvariance == FriendSpec => []FriendInv
<1>1. FriendIInv => FriendInv
  BY DEF FriendIInv
<1> QED
  BY <1>1, FriendInductive, PTL

\* Two users never have a row in each order: add_friend's two look-ups do
\* what the primary key of tb_friend does not.
THEOREM PairsUnique == FriendSpec => []OneRowPerPair
<1>1. FriendIInv => OneRowPerPair
  BY DEF FriendIInv
<1> QED
  BY <1>1, FriendInductive, PTL

\* No contact is left without the account it was addressed to.
THEOREM TargetsExist == FriendSpec => []TargetHasAccount
<1>1. FriendIInv => TargetHasAccount
  BY DEF FriendIInv
<1> QED
  BY <1>1, FriendInductive, PTL

-----------------------------------------------------------------------------
(* The friend service keeps the promise of module Contacts.                *)

\* What a row contributes to the refinement mapping.
AskedBy(row) ==
  IF row.relation = 1 THEN {<<row.username, row.friendname>>}
  ELSE IF row.relation = 3 THEN {<<row.friendname, row.username>>} ELSE {}

FriendsBy(row) ==
  IF row.relation \in {2, 4} THEN {{row.username, row.friendname}} ELSE {}

LEMMA Contributions ==
  /\ \A x : x \in Asked <=> \E row \in tb_friend : x \in AskedBy(row)
  /\ \A x : x \in Friends <=> \E row \in tb_friend : x \in FriendsBy(row)
BY DEF Asked, Friends, AskedBy, FriendsBy

LEMMA ContributionsNext ==
  /\ \A x : x \in Asked' <=> \E row \in tb_friend' : x \in AskedBy(row)
  /\ \A x : x \in Friends' <=> \E row \in tb_friend' : x \in FriendsBy(row)
BY DEF Asked, Friends, AskedBy, FriendsBy

\* No other row of the table says anything of the pair of a row.
LEMMA OthersApart ==
  ASSUME NEW row, NEW other,
         {row.username, row.friendname} # {other.username, other.friendname}
  PROVE  /\ <<row.username, row.friendname>> \notin AskedBy(other)
         /\ <<row.friendname, row.username>> \notin AskedBy(other)
         /\ {row.username, row.friendname} \notin FriendsBy(other)
BY DEF AskedBy, FriendsBy

\* An UPDATE of one row decides what holds of its pair and of no other.
LEMMA SetRelationDecides ==
  ASSUME FriendTable, NEW row \in tb_friend, NEW code \in {0, 1, 2, 3},
         SetRelation({row}, code)
  PROVE  LET a == row.username
             b == row.friendname
         IN  /\ Asked' = (Asked \ {<<a, b>>, <<b, a>>}) \cup
                           (IF code = 1 THEN {<<a, b>>}
                            ELSE IF code = 3 THEN {<<b, a>>} ELSE {})
             /\ Friends' = (Friends \ {{a, b}}) \cup (IF code = 2 THEN {{a, b}} ELSE {})
             /\ Known' = Known
<1> DEFINE a == row.username
           b == row.friendname
           new == [row EXCEPT !.relation = code]
           others == tb_friend \ {row}
<1>1. /\ new.username = a /\ new.friendname = b /\ new.relation = code
      /\ tb_friend' = others \cup {new} /\ tb_friend = others \cup {row}
  BY DEF FriendTable, FriendRow, SetRelation
<1>2. \A r \in others : {a, b} # {r.username, r.friendname}
  BY DEF FriendTable, OneRowPerPair
<1>3. \A r \in others : /\ <<a, b>> \notin AskedBy(r) /\ <<b, a>> \notin AskedBy(r)
                        /\ {a, b} \notin FriendsBy(r)
  BY <1>2, OthersApart
<1>4. /\ AskedBy(row) \subseteq {<<a, b>>, <<b, a>>}
      /\ FriendsBy(row) \subseteq {{a, b}}
      /\ AskedBy(new) = IF code = 1 THEN {<<a, b>>}
                        ELSE IF code = 3 THEN {<<b, a>>} ELSE {}
      /\ FriendsBy(new) = IF code = 2 THEN {{a, b}} ELSE {}
  BY <1>1 DEF AskedBy, FriendsBy
<1>5. Known' = Known
  <2>1. {new.username, new.friendname} = {a, b}
    BY <1>1
  <2> QED
    BY <1>1, <2>1 DEF Known
<1> HIDE DEF a, b, new, others
<1>6. Asked' = (Asked \ {<<a, b>>, <<b, a>>}) \cup AskedBy(new)
  BY <1>1, <1>3, <1>4, Contributions, ContributionsNext
<1>7. Friends' = (Friends \ {{a, b}}) \cup FriendsBy(new)
  <2> DEFINE pair == {a, b}
  <2>1. (\A r \in others : pair \notin FriendsBy(r)) /\ FriendsBy(row) \subseteq {pair}
    BY <1>3, <1>4
  <2> HIDE DEF pair
  <2>2. \A x : x \in Friends <=> (\E r \in others : x \in FriendsBy(r)) \/ x \in FriendsBy(row)
    BY <1>1, Contributions
  <2>3. \A x : x \in Friends' <=> (\E r \in others : x \in FriendsBy(r)) \/ x \in FriendsBy(new)
    BY <1>1, ContributionsNext
  <2>4. Friends' = (Friends \ {pair}) \cup FriendsBy(new)
    BY <2>1, <2>2, <2>3
  <2> QED
    BY <2>4 DEF pair
<1> QED
  BY <1>4, <1>5, <1>6, <1>7 DEF a, b

\* What Ask of module Contacts says of the rows.
AskStored(a, b) ==
  /\ {a, b} \notin Friends
  /\ Asked' = (Asked \ {<<b, a>>}) \cup {<<a, b>>}
  /\ Known' = Known \cup {{a, b}}
  /\ Friends' = Friends

\* Where a pair is found, it is the pair of the row, in either order.
LEMMA FoundPair ==
  ASSUME NEW d \in FriendData, NEW row \in Found(d)
  PROVE  /\ row \in tb_friend
         /\ IsReverse(d) => row.username = d.friendname /\ row.friendname = d.username
         /\ ~IsReverse(d) => row.username = d.username /\ row.friendname = d.friendname
BY DEF Found, FriendRows

\* A repeated request, stored as 1 or 3, is one of d.username to d.friendname.
LEMMA StepAsks ==
  ASSUME FriendTable, NEW d \in FriendData, NEW row \in Found(d),
         row.relation \in {0, 1, 3},
         SetRelation({row}, IF IsReverse(d) THEN 3 ELSE 1)
  PROVE  AskStored(d.username, d.friendname)
<1> DEFINE u == d.username
           f == d.friendname
<1>1. row \in tb_friend /\ {row.username, row.friendname} = {u, f}
  BY FoundPair
<1>2. {u, f} \notin Friends
  <2>1. ASSUME NEW r \in tb_friend, {u, f} \in FriendsBy(r) PROVE FALSE
    <3>1. {r.username, r.friendname} = {u, f} /\ r.relation \in {2, 4}
      BY <2>1 DEF FriendsBy
    <3>2. r = row
      BY <1>1, <3>1 DEF FriendTable, OneRowPerPair
    <3> QED
      BY <3>1, <3>2
  <2> QED
    BY <2>1, Contributions
<1>3. {u, f} \in Known
  BY <1>1 DEF Known
<1>4. /\ Asked' = (Asked \ {<<f, u>>}) \cup {<<u, f>>}
      /\ Friends' = Friends \ {{u, f}}
      /\ Known' = Known
  <2>1. CASE IsReverse(d)
    <3>1. row.username = f /\ row.friendname = u /\ SetRelation({row}, 3)
      BY <2>1, FoundPair
    <3> HIDE DEF u, f
    <3>2. /\ Asked' = (Asked \ {<<f, u>>, <<u, f>>}) \cup
                     (IF 3 = 1 THEN {<<f, u>>} ELSE IF 3 = 3 THEN {<<u, f>>} ELSE {})
          /\ Friends' = (Friends \ {{f, u}}) \cup (IF 3 = 2 THEN {{f, u}} ELSE {})
          /\ Known' = Known
      BY <1>1, <3>1, SetRelationDecides
    <3>3. {f, u} = {u, f}
      OBVIOUS
    <3> QED
      BY <3>2, <3>3
  <2>2. CASE ~IsReverse(d)
    <3>1. row.username = u /\ row.friendname = f /\ SetRelation({row}, 1)
      BY <2>2, FoundPair
    <3>2. /\ Asked' = (Asked \ {<<u, f>>, <<f, u>>}) \cup {<<u, f>>}
          /\ Friends' = Friends \ {{u, f}}
          /\ Known' = Known
      BY <1>1, <3>1, SetRelationDecides
    <3> QED
      BY <3>2
  <2> QED
    BY <2>1, <2>2
<1>5. Friends' = Friends /\ Known' = Known \cup {{u, f}}
  BY <1>2, <1>3, <1>4
<1> QED
  BY <1>2, <1>4, <1>5 DEF AskStored

\* The first request of a pair.
LEMMA InsertAsks ==
  ASSUME FriendTable, NEW d \in FriendData, Found(d) = {},
         tb_friend' = tb_friend \cup {FirstRequest(d)}
  PROVE  AskStored(d.username, d.friendname)
<1> DEFINE u == d.username
           f == d.friendname
           new == [username |-> u, friendname |-> f, relation |-> 1]
<1>1. \A r \in tb_friend : {u, f} # {r.username, r.friendname}
  <2> SUFFICES ASSUME NEW r \in tb_friend, {u, f} = {r.username, r.friendname}
               PROVE  FALSE
    OBVIOUS
  <2>1. CASE r.username = u /\ r.friendname = f
    BY <2>1 DEF Found, IsReverse, FriendRows
  <2>2. CASE r.username = f /\ r.friendname = u
    BY <2>2 DEF Found, IsReverse, FriendRows
  <2> QED
    BY <2>1, <2>2
<1>2. \A r \in tb_friend : <<f, u>> \notin AskedBy(r) /\ {u, f} \notin FriendsBy(r)
  BY <1>1 DEF AskedBy, FriendsBy
<1>3. /\ AskedBy(new) = {<<u, f>>} /\ FriendsBy(new) = {}
      /\ {new.username, new.friendname} = {u, f}
      /\ tb_friend' = tb_friend \cup {new}
  BY DEF AskedBy, FriendsBy, FirstRequest
<1> HIDE DEF u, f, new
<1>4. Known' = Known \cup {{u, f}}
  BY <1>3 DEF Known
<1>5. {u, f} \notin Friends /\ <<f, u>> \notin Asked
  BY <1>2, Contributions
<1>6. Asked' = Asked \cup {<<u, f>>}
  BY <1>3, Contributions, ContributionsNext
<1>7. Friends' = Friends
  BY <1>3, Contributions, ContributionsNext
<1>8. Asked' = (Asked \ {<<f, u>>}) \cup {<<u, f>>}
  BY <1>5, <1>6
<1> QED
  BY <1>4, <1>5, <1>7, <1>8 DEF AskStored, u, f

\* An answer makes friends of a pair, or the contrary.
LEMMA StepAnswers ==
  ASSUME FriendTable, NEW d \in FriendData, NEW code \in {0, 2}, StoreAnswer(d, code)
  PROVE  \/ UNCHANGED tb_friend
         \/ ContactsOf!Befriend(d.username, d.friendname)
         \/ ContactsOf!Part(d.username, d.friendname)
<1> SUFFICES ASSUME ~ UNCHANGED tb_friend
             PROVE  \/ ContactsOf!Befriend(d.username, d.friendname)
                    \/ ContactsOf!Part(d.username, d.friendname)
  OBVIOUS
<1> DEFINE u == d.username
           f == d.friendname
<1>1. ~IsReverse(d) /\ SetRelation(FriendRows(u, f), code)
  BY DEF StoreAnswer
<1>2. PICK row \in FriendRows(u, f) : TRUE
  BY <1>1 DEF IsReverse
<1>0. Shown' = {}
  BY DEF StoreAnswer, Shown
<1>3. row \in tb_friend /\ row.username = u /\ row.friendname = f
  BY <1>2 DEF FriendRows
<1>4. FriendRows(u, f) = {row}
  BY <1>3 DEF FriendRows, FriendTable, OneRowPerPair
<1>5. /\ Asked' = (Asked \ {<<u, f>>, <<f, u>>})
      /\ Friends' = (Friends \ {{u, f}}) \cup (IF code = 2 THEN {{u, f}} ELSE {})
      /\ Known' = Known
  BY <1>1, <1>3, <1>4, SetRelationDecides
<1>6. {u, f} \in Known
  BY <1>3 DEF Known
<1>7. CASE code = 2
  <2>1. Friends' = Friends \cup {{u, f}}
    BY <1>5, <1>7
  <2>2. ContactsOf!Befriend(u, f)
    BY <1>0, <1>5, <1>6, <2>1 DEF ContactsOf!Befriend
  <2> QED
    BY <2>2
<1>8. CASE code = 0
  <2>1. Friends' = Friends \ {{u, f}}
    BY <1>5, <1>8
  <2>2. ContactsOf!Part(u, f)
    BY <1>0, <1>5, <1>6, <2>1 DEF ContactsOf!Part
  <2> QED
    BY <2>2
<1> QED
  BY <1>7, <1>8

\* A step that shows no request and leaves the rows alone is one of Contacts.
LEMMA StepIdles ==
  ASSUME UNCHANGED tb_friend, Shown' = {}
  PROVE  ContactsOf!ContactsNext
BY DEF ContactsOf!ContactsNext, ContactsOf!Idle, ContactsOf!pairVars, Asked, Friends, Known

\* What a send shows: the request that is forwarded, if the process goes on.
LEMMA SendShows ==
  ASSUME NEW d \in FriendData, NEW n, Send(RequestTo(n, d))
  PROVE  Shown' \subseteq {<<d.username, d.friendname>>} /\ (~up' => Shown' = {})
BY DEF Send, RequestTo, Shown

\* Other messages show no request.
LEMMA OthersShowNothing ==
  ASSUME NEW msg, msg.code # "ADD_FRIEND_REQUEST", out' = <<msg>> \/ out' = << >>
  PROVE  Shown' = {}
BY DEF Shown

LEMMA ReplyShowsNothing ==
  ASSUME NEW s, NEW code \in AccountCodes \cup FriendCodes, Reply(s, code)
  PROVE  Shown' = {}
<1>1. [to |-> s, code |-> code].code # "ADD_FRIEND_REQUEST"
  BY DEF AccountCodes, FriendCodes
<1> QED
  BY <1>1, OthersShowNothing DEF Reply, Send

LEMMA FriendRequestContacts ==
  ASSUME FriendTable, NEW d \in FriendData, NEW s \in Sockets, FriendRequest(d, s)
  PROVE  ContactsOf!ContactsNext
<1> DEFINE u == d.username
           f == d.friendname
<1>1. u \in Users /\ f \in Users
  BY DEF FriendData
<1>2. ASSUME \/ ContactsOf!Ask(u, f)
             \/ ContactsOf!AskInVain(u, f)
             \/ ContactsOf!Befriend(u, f)
             \/ ContactsOf!Part(u, f)
      PROVE  ContactsOf!ContactsNext
  BY <1>1, <1>2 DEF ContactsOf!ContactsNext
<1>3. ASSUME UNCHANGED tb_friend, Reply(s, "ADD_FRIEND_NO_USER")
      PROVE  ContactsOf!ContactsNext
  BY <1>3, ReplyShowsNothing, StepIdles DEF FriendCodes
<1>4. ASSUME AskStored(u, f), Shown' \subseteq {<<u, f>>}
      PROVE  ContactsOf!Ask(u, f)
  BY <1>4 DEF AskStored, ContactsOf!Ask
<1>5. CASE Found(d) = {} /\ AddStranger(d, s)
  <2>1. ASSUME NEW target, InsertFriend(FirstRequest(d)), Send(RequestTo(target.socket, d))
        PROVE  ContactsOf!ContactsNext
    <3>1. Shown' \subseteq {<<u, f>>}
      BY <2>1, SendShows
    <3>2. CASE tb_friend' = tb_friend \cup {FirstRequest(d)}
      BY <1>2, <1>4, <1>5, <3>1, <3>2, InsertAsks
    <3>3. CASE {u, f} \cap Unquotable # {} /\ UNCHANGED tb_friend
      <4>1. ContactsOf!AskInVain(u, f)
        BY <3>1, <3>3 DEF ContactsOf!AskInVain, ContactsOf!pairVars, Asked, Friends, Known
      <4> QED
        BY <1>2, <4>1
    <3> QED
      BY <1>5, <2>1, <3>2, <3>3, InsertFriendEffect
  <2> QED
    BY <1>3, <1>5, <2>1 DEF AddStranger
<1>6. ASSUME NEW row \in Found(d), AddKnown(d, s, row)
      PROVE  ContactsOf!ContactsNext
  <2>1. CASE AccountRows(Opposite(d)) = {}
    BY <1>3, <1>6, <2>1 DEF AddKnown
  <2>2. ASSUME NEW code \in {"ADD_FRIEND_DUP", "ADD_FRIEND_BLACK"},
               Send(<<[to |-> s, code |-> code, data |-> d]>>), UNCHANGED tb_friend
        PROVE  ContactsOf!ContactsNext
    <3>1. [to |-> s, code |-> code, data |-> d].code # "ADD_FRIEND_REQUEST"
      BY <2>2
    <3> QED
      BY <2>2, <3>1, OthersShowNothing, StepIdles DEF Send
  <2>3. ASSUME NEW target, row.relation \in {0, 1, 3}, Send(RequestTo(target.socket, d)),
               IF up' THEN SetRelation({row}, IF IsReverse(d) THEN 3 ELSE 1)
                      ELSE UNCHANGED tb_friend
        PROVE  ContactsOf!ContactsNext
    <3>1. Shown' \subseteq {<<u, f>>} /\ (~up' => Shown' = {})
      BY <2>3, SendShows
    <3>2. CASE ~up'
      BY <2>3, <3>1, <3>2, StepIdles
    <3>3. CASE up'
      <4>1. SetRelation({row}, IF IsReverse(d) THEN 3 ELSE 1)
        BY <2>3, <3>3
      <4>2. AskStored(u, f)
        BY <1>6, <2>3, <4>1, StepAsks
      <4> QED
        BY <1>2, <1>4, <3>1, <4>2
    <3> QED
      BY <3>2, <3>3
  <2> QED
    BY <1>6, <2>1, <2>2, <2>3 DEF AddKnown
<1>7. ASSUME NEW code \in {0, 2}, StoreAnswer(d, code)
      PROVE  ContactsOf!ContactsNext
  <2>1. Shown' = {}
    BY <1>7 DEF StoreAnswer, Shown
  <2> QED
    BY <1>2, <1>7, <2>1, StepAnswers, StepIdles
<1>8. CASE ListFriends(d.username, s)
  <2>1. UNCHANGED tb_friend
    BY <1>8 DEF ListFriends
  <2>2. Shown' = {}
    BY <1>8, ReplyShowsNothing DEF ListFriends, FriendCodes, Die, Shown
  <2> QED
    BY <2>1, <2>2, StepIdles
<1> QED
  BY <1>5, <1>6, <1>7, <1>8 DEF FriendRequest, AddFriend, AddFriendAdmit, AddFriendRefuse

\* No request of the account service shows one of the friend service.
LEMMA AccountRequestShowsNothing ==
  ASSUME NEW sd \in SignData, NEW s \in Sockets, AccountRequest(sd, s)
  PROVE  Shown' = {}
<1>1. PICK code \in AccountCodes : Reply(s, code)
  BY DEF AccountRequest, SignUp, SignDel, SignIn, SignOut, AccountCodes
<1> QED
  BY <1>1, ReplyShowsNothing

LEMMA AccountStepContacts ==
  ASSUME [AccountNext]_accountVars, UNCHANGED tb_friend
  PROVE  ContactsOf!ContactsNext \/ UNCHANGED Shown
<1>1. ASSUME NEW s \in Sockets, NEW sd \in SignData, AccountRequest(sd, s)
      PROVE  ContactsOf!ContactsNext
  BY <1>1, AccountRequestShowsNothing, StepIdles
<1>2. CASE out' = << >>
  <2>1. Shown' = {}
    BY <1>2 DEF Shown
  <2> QED
    BY <2>1, StepIdles
<1>3. CASE UNCHANGED <<out, up>>
  BY <1>3 DEF Shown
<1> QED
  BY <1>1, <1>2, <1>3
     DEF AccountNext, Unparsable, Die, Depart, PeerReset, Restart, accountVars

\* Between two users there is only ever what one of them has asked for or
\* answered, and what is put before one of them is what is stored (friend.c:66,
\* friend.c:193): what the module Contacts promises.
THEOREM FriendImplementsContacts == FriendSpec => RefinesContacts
<1>1. FriendInit => ContactsOf!ContactsInit
  BY DEF FriendInit, AccountInit, ContactsOf!ContactsInit, Asked, Friends, Known, Shown
<1>2. FriendIInv /\ [FriendNext]_friendVars => [ContactsOf!ContactsNext]_(ContactsOf!contactsVars)
  <2> SUFFICES ASSUME FriendIInv, [FriendNext]_friendVars
               PROVE  ContactsOf!ContactsNext \/ UNCHANGED ContactsOf!contactsVars
    OBVIOUS
  <2>1. FriendTable
    BY DEF FriendIInv, FriendInv, FriendTypeOK, FriendTable
  <2>2. CASE [AccountNext]_accountVars /\ UNCHANGED tb_friend
    <3>1. UNCHANGED tb_friend /\ UNCHANGED Shown => UNCHANGED ContactsOf!contactsVars
      BY DEF ContactsOf!contactsVars, Asked, Friends, Known
    <3> QED
      BY <2>2, <3>1, AccountStepContacts
  <2> QED
    BY <2>1, <2>2, FriendRequestContacts DEF FriendNext, friendVars, accountVars
<1> QED
  BY <1>1, <1>2, FriendInductive, PTL
     DEF FriendSpec, RefinesContacts, ContactsOf!ContactsSpec
=============================================================================
