------------------------------- MODULE Friend -------------------------------
(***************************************************************************)
(* The friend service of the server, service/friend/friend.c, over the     *)
(* rows of tb_friend, beside the account service whose table it reads.     *)
(* friend.h gives the relation codes, for a row of username A and          *)
(* friendname B: 0 none, 1 A asked B, 2 B admitted A, 3 B asked A,         *)
(* 4 A admitted B, 5 A blocks B, 7 B blocks A.                             *)
(*                                                                         *)
(* tb_fmsg is not a variable: each insert of friend.c lacks the            *)
(* parentheses of its VALUES and each select names a column the table does *)
(* not have, so SQLite refuses them all and no row is ever stored.         *)
(***************************************************************************)
EXTENDS Account

VARIABLE tb_friend

friendVars == <<tb_account, out, up, broken, tb_friend>>

FriendData == [username : Users, friendname : Users]

RelationCodes == {0, 1, 2, 3, 4, 5, 7}

FriendRow == [username : Users, friendname : Users, relation : RelationCodes]

-----------------------------------------------------------------------------
(* The row of a pair, looked for in the order of the request and then in   *)
(* the opposite one.                                                       *)

\* select ... from tb_friend where username=='u' and friendname=='f'
FriendRows(u, f) ==
  {row \in tb_friend : row.username = u /\ row.friendname = f}

IsReverse(d) == FriendRows(d.username, d.friendname) = {}

\* Mutated form of Found: the look-up in the opposite order is left out.
FoundOneWay(d) == FriendRows(d.username, d.friendname)

Found(d) == IF IsReverse(d) THEN FriendRows(d.friendname, d.username)
                          ELSE FriendRows(d.username, d.friendname)

\* The account add_friend notifies of a request for a pair it knows: by
\* "is_reverse ? friendname : username" the asking one if it owns the row.
Opposite(d) == IF IsReverse(d) THEN d.friendname ELSE d.username

\* update tb_friend set relation=code where ... , for the rows that match
SetRelation(rows, code) ==
  tb_friend' = (tb_friend \ rows) \cup {[row EXCEPT !.relation = code] : row \in rows}

\* insert into tb_friend: the primary key refuses a second row for a pair in
\* this order.  Nobody looks at the result.
InsertFriend(row) ==
  tb_friend' = IF FriendRows(row.username, row.friendname) = {} /\
                  Compiles({row.username, row.friendname})
               THEN tb_friend \cup {row}
               ELSE tb_friend

\* The request as it is forwarded, if the account is online.
RequestTo(s, d) ==
  IF s > 0 THEN <<[to |-> s, code |-> "ADD_FRIEND_REQUEST", data |-> d]>> ELSE << >>

-----------------------------------------------------------------------------
(* The request handlers: d is the parsed data, s the requesting socket.    *)

\* The row of a first request.
FirstRequest(d) ==
  [username |-> d.username, friendname |-> d.friendname, relation |-> 1]

\* Mutated form of AddStranger: the row is inserted before the look-up of the
\* account, so also if there is none.
AddStrangerEarly(d, s) ==
  /\ InsertFriend(FirstRequest(d))
  /\ IF AccountRows(d.friendname) = {}
     THEN Reply(s, "ADD_FRIEND_NO_USER")
     ELSE \E target \in AccountRows(d.friendname) : Send(RequestTo(target.socket, d))

\* add_friend for a pair without a row.  The request is sent whether or not
\* the row was inserted.
AddStranger(d, s) ==
  \/ /\ AccountRows(d.friendname) = {}
     /\ Reply(s, "ADD_FRIEND_NO_USER")
     /\ UNCHANGED tb_friend
  \/ \E target \in AccountRows(d.friendname) :
       /\ InsertFriend(FirstRequest(d))
       /\ Send(RequestTo(target.socket, d))

\* Mutated form of AddKnown: a request after a refusal is sent and not stored.
AddKnownForgets(d, s, row) ==
  \/ /\ AccountRows(Opposite(d)) = {}
     /\ Reply(s, "ADD_FRIEND_NO_USER")
     /\ UNCHANGED tb_friend
  \/ \E target \in AccountRows(Opposite(d)) :
       /\ row.relation \in {0, 1, 3}
       /\ Send(RequestTo(target.socket, d))
       /\ IF up' /\ row.relation # 0
          THEN SetRelation({row}, IF IsReverse(d) THEN 3 ELSE 1)
          ELSE UNCHANGED tb_friend

\* add_friend for a pair with a row.  The request is sent before the row is
\* updated, so a SIGPIPE leaves the row as it was.
AddKnown(d, s, row) ==
  \/ /\ AccountRows(Opposite(d)) = {}
     /\ Reply(s, "ADD_FRIEND_NO_USER")
     /\ UNCHANGED tb_friend
  \/ /\ AccountRows(Opposite(d)) # {}
     /\ row.relation \in {2, 4, 5, 7}
     /\ Send(<<[to   |-> s,
                code |-> IF row.relation \in {2, 4} THEN "ADD_FRIEND_DUP"
                                                    ELSE "ADD_FRIEND_BLACK",
                data |-> d]>>)
     /\ UNCHANGED tb_friend
  \/ \E target \in AccountRows(Opposite(d)) :
       /\ row.relation \in {0, 1, 3}
       /\ Send(RequestTo(target.socket, d))
       /\ IF up' THEN SetRelation({row}, IF IsReverse(d) THEN 3 ELSE 1)
                 ELSE UNCHANGED tb_friend

AddFriend(d, s) ==
  /\ \/ Found(d) = {} /\ AddStranger(d, s)
     \/ \E row \in Found(d) : AddKnown(d, s, row)
  /\ UNCHANGED tb_account

\* add_friend_admit and add_friend_refuse store an answer in the row of the
\* pair if it is in the order of the request.  In the opposite order the
\* where clause is overwritten and left empty, and the UPDATE is refused.
StoreAnswer(d, code) ==
  /\ IF IsReverse(d) THEN UNCHANGED tb_friend
                   ELSE SetRelation(FriendRows(d.username, d.friendname), code)
  /\ out' = << >>
  /\ UNCHANGED <<tb_account, up, broken>>

AddFriendAdmit(d) == StoreAnswer(d, 2)

AddFriendRefuse(d) == StoreAnswer(d, 0)

\* Mutated form of ListFriends: rows that are no friendships are not skipped.
ListFriendsUnfiltered(name, s) ==
  LET rows == {row \in tb_friend : name \in {row.username, row.friendname}}
  IN  /\ \/ rows = {} /\ Reply(s, "NO_FRIENDS")
         \/ rows # {} /\ Die
      /\ UNCHANGED <<tb_account, tb_friend>>

\* list_friends.  For the first row that is a friendship pack_fdata passes
\* the flag is_online to json_object_new_string as if it were a string, and
\* the process faults before anything is sent.
ListFriends(name, s) ==
  LET rows == {row \in tb_friend : name \in {row.username, row.friendname}}
      friendships == {row \in rows : row.relation \in {2, 4}}
  IN  /\ \/ rows = {} /\ Reply(s, "NO_FRIENDS")
         \/ rows # {} /\ friendships = {} /\ Reply(s, "LISTING_FRIEND_FINISHED")
         \/ friendships # {} /\ Die
      /\ UNCHANGED <<tb_account, tb_friend>>

-----------------------------------------------------------------------------
\* "create table if not exists", when the process starts
InitFriendService == UNCHANGED tb_friend

FriendInit == AccountInit /\ tb_friend = {}

FriendRequest(d, s) ==
  \/ AddFriend(d, s)
  \/ AddFriendAdmit(d)
  \/ AddFriendRefuse(d)
  \/ ListFriends(d.username, s)

FriendNext ==
  \/ up /\ \E d \in FriendData, s \in Sockets : FriendRequest(d, s)
  \/ AccountNext /\ UNCHANGED tb_friend

FriendSpec == FriendInit /\ [][FriendNext]_friendVars

-----------------------------------------------------------------------------
(* Properties.                                                             *)

FriendCodes ==
  {"ADD_FRIEND_NO_USER", "NO_FRIENDS", "LISTING_FRIEND_FINISHED"}

Messages ==
  [to : Sockets, code : AccountCodes \cup FriendCodes] \cup
  [to : Sockets, code : {"ADD_FRIEND_REQUEST", "ADD_FRIEND_DUP", "ADD_FRIEND_BLACK"},
   data : FriendData]

FriendTypeOK ==
  /\ tb_account \subseteq AccountRow
  /\ tb_friend \subseteq FriendRow
  /\ out \in Seq(Messages)
  /\ up \in BOOLEAN
  /\ broken \subseteq Sockets

\* The table's primary key only rules out two rows in the same order; that a
\* pair never has a row in each order is up to add_friend's two look-ups.
OneRowPerPair ==
  \A r1, r2 \in tb_friend :
    {r1.username, r1.friendname} = {r2.username, r2.friendname} => r1 = r2

\* Who was first asked has an account: a request for nobody leaves no row, and
\* as no account is ever deleted (SignDel) no row is left behind.
TargetHasAccount ==
  \A row \in tb_friend : AccountRows(row.friendname) # {}

\* Of the relations of friend.h only these are ever stored: no admission is
\* recorded as 4 and nobody is ever blocked.
StoredRelations == \A row \in tb_friend : row.relation \in {0, 1, 2, 3}

FriendInv ==
  /\ FriendTypeOK
  /\ UsernameUnique
  /\ StoredRelations

\* What the rows say: who asked whom, who is a friend of whom, who is known to
\* whom; and the requests the last step has put before a user.  A handler that
\* SIGPIPE ended has shown nothing.
Asked == {<<row.username, row.friendname>> :
            row \in {r \in tb_friend : r.relation = 1}} \cup
         {<<row.friendname, row.username>> :
            row \in {r \in tb_friend : r.relation = 3}}

Friends == {{row.username, row.friendname} :
              row \in {r \in tb_friend : r.relation \in {2, 4}}}

Known == {{row.username, row.friendname} : row \in tb_friend}

Shown == {<<out[k].data.username, out[k].data.friendname>> :
            k \in {j \in DOMAIN out : up /\ out[j].code = "ADD_FRIEND_REQUEST"}}

\* The promise of the service (module Contacts): what is put before a user is
\* stored, and nothing but an answer makes friends.
ContactsOf == INSTANCE Contacts WITH
  asked <- Asked, friends <- Friends, known <- Known, shown <- Shown

RefinesContacts == ContactsOf!ContactsSpec

\* A friend request is put before the one who is asked ("A已经向B申请好友，
\* 等待B同意", friend.h:27).
RequestReachesFriend ==
  \A k \in DOMAIN out : out[k].code = "ADD_FRIEND_REQUEST" =>
    \E row \in AccountRows(out[k].data.friendname) : row.socket = out[k].to
=============================================================================
