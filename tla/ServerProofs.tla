---------------------------- MODULE ServerProofs ----------------------------
(***************************************************************************)
(* Proofs about the server process, for any number of descriptors, any     *)
(* MAX_CONNECT and any set of requests.                                    *)
(***************************************************************************)
EXTENDS Server, FriendProofs, FiniteSetTheorems, SequenceTheorems

-----------------------------------------------------------------------------
(* The table of clients.                                                   *)

\* What RemoveAt does to a sequence.
LEMMA RemoveAtProperties ==
  ASSUME NEW S, NEW seq \in Seq(S), NEW k \in 1 .. Len(seq)
  PROVE  /\ RemoveAt(seq, k) \in Seq(S)
         /\ Len(RemoveAt(seq, k)) = Len(seq) - 1
         /\ \A j \in 1 .. (Len(seq) - 1) :
              RemoveAt(seq, k)[j] = IF j < k THEN seq[j] ELSE seq[j + 1]
<1>1. /\ SubSeq(seq, 1, k - 1) \in Seq(S)
      /\ Len(SubSeq(seq, 1, k - 1)) = k - 1
      /\ \A j \in 1 .. (k - 1) : SubSeq(seq, 1, k - 1)[j] = seq[j]
  OBVIOUS
<1>2. /\ SubSeq(seq, k + 1, Len(seq)) \in Seq(S)
      /\ Len(SubSeq(seq, k + 1, Len(seq))) = Len(seq) - k
      /\ \A j \in 1 .. (Len(seq) - k) :
           SubSeq(seq, k + 1, Len(seq))[j] = seq[k + j]
  OBVIOUS
<1> DEFINE front == SubSeq(seq, 1, k - 1)
           rest == SubSeq(seq, k + 1, Len(seq))
<1>3. front \in Seq(S) /\ Len(front) = k - 1 /\ rest \in Seq(S)
      /\ Len(rest) = Len(seq) - k
  BY <1>1, <1>2
<1>4. RemoveAt(seq, k) = front \o rest
  BY DEF RemoveAt
<1> HIDE DEF front, rest
<1>5. /\ front \o rest \in Seq(S)
      /\ Len(front \o rest) = Len(front) + Len(rest)
      /\ \A j \in 1 .. (Len(front) + Len(rest)) :
           (front \o rest)[j] = IF j <= Len(front) THEN front[j]
                                                  ELSE rest[j - Len(front)]
  BY <1>3, ConcatProperties
<1>6. ASSUME NEW j \in 1 .. (Len(seq) - 1)
      PROVE  (front \o rest)[j] = IF j < k THEN seq[j] ELSE seq[j + 1]
  <2>1. CASE j < k
    <3>1. j \in 1 .. (k - 1) /\ j <= Len(front)
      BY <1>3, <2>1
    <3> QED
      BY <1>1, <1>3, <1>5, <2>1, <3>1 DEF front
  <2>2. CASE ~(j < k)
    <3>1. j - (k - 1) \in 1 .. (Len(seq) - k) /\ ~(j <= Len(front))
      BY <1>3, <2>2
    <3>2. rest[j - (k - 1)] = seq[k + (j - (k - 1))]
      BY <1>2, <3>1 DEF rest
    <3>3. k + (j - (k - 1)) = j + 1
      OBVIOUS
    <3> QED
      BY <1>3, <1>5, <2>2, <3>1, <3>2, <3>3
  <2> QED
    BY <2>1, <2>2
<1> QED
  BY <1>3, <1>4, <1>5, <1>6

TableInv ==
  /\ clients \in Seq(Sockets)
  /\ capcity \in Nat \ {0}
  /\ nextfd \in FirstFd .. FdLimit
  /\ TableSound

LEMMA AddClientKeepsTable ==
  ASSUME TableInv, nextfd \in Sockets, Len(clients) < MaxConnect,
         AddClient(nextfd), nextfd' = nextfd + 1
  PROVE  TableInv'
<1>1. /\ clients' \in Seq(Sockets)
      /\ Len(clients') = Len(clients) + 1
      /\ \A k \in 1 .. Len(clients) : clients'[k] = clients[k]
      /\ clients'[Len(clients) + 1] = nextfd
  BY DEF AddClient, TableInv
<1>2. capcity' \in Nat \ {0} /\ Len(clients') <= capcity'
  BY <1>1 DEF AddClient, TableInv, TableSound
<1>3. nextfd \in FirstFd .. (FdLimit - 1) /\ FirstFd \in Nat /\ FdLimit \in Nat
      /\ MaxConnect \in Nat
  BY ServerAssumption
<1>4. nextfd' \in FirstFd .. FdLimit
  BY <1>3
<1>5. \A k \in DOMAIN clients' : clients'[k] < nextfd'
  <2> SUFFICES ASSUME NEW k \in DOMAIN clients'
               PROVE  clients'[k] < nextfd + 1
    OBVIOUS
  <2>1. k \in 1 .. Len(clients) \/ k = Len(clients) + 1
    BY <1>1 DEF TableInv
  <2>2. CASE k \in 1 .. Len(clients)
    <3>1. clients[k] \in Sockets /\ k \in DOMAIN clients
      BY <2>2 DEF TableInv
    <3>2. clients[k] \in Nat /\ clients[k] < nextfd
      BY <3>1, SocketsAssumption DEF TableInv, TableSound
    <3> QED
      BY <1>1, <1>3, <2>2, <3>2
  <2>3. CASE k = Len(clients) + 1
    BY <1>1, <1>3, <2>3
  <2> QED
    BY <2>1, <2>2, <2>3
<1>6. \A j, k \in DOMAIN clients' : j < k => clients'[j] < clients'[k]
  BY <1>1, <1>3 DEF TableInv, TableSound
<1>7. Len(clients') <= MaxConnect
  BY <1>1, <1>3 DEF TableInv
<1> QED
  BY <1>1, <1>2, <1>4, <1>5, <1>6, <1>7 DEF TableInv, TableSound

LEMMA DelClientKeepsTable ==
  ASSUME TableInv, NEW k \in 1 .. Len(clients), clients' = RemoveAt(clients, k),
         UNCHANGED <<capcity, nextfd>>
  PROVE  TableInv'
<1>1. /\ clients' \in Seq(Sockets)
      /\ Len(clients') = Len(clients) - 1
      /\ \A j \in 1 .. (Len(clients) - 1) :
           clients'[j] = IF j < k THEN clients[j] ELSE clients[j + 1]
  BY RemoveAtProperties DEF TableInv
<1>2. FirstFd \in Nat /\ FdLimit \in Nat /\ MaxConnect \in Nat /\ Sockets \subseteq Nat
      /\ Len(clients) \in Nat
  BY ServerAssumption, SocketsAssumption DEF TableInv
<1>3. Len(clients') <= capcity' /\ Len(clients') <= MaxConnect
  BY <1>1, <1>2 DEF TableInv, TableSound
<1>4. \A j \in DOMAIN clients' : clients'[j] < nextfd'
  <2> SUFFICES ASSUME NEW j \in DOMAIN clients'
               PROVE  clients'[j] < nextfd
    OBVIOUS
  <2>1. j \in 1 .. (Len(clients) - 1)
    BY <1>1, <1>2
  <2>2. j \in DOMAIN clients /\ j + 1 \in DOMAIN clients
    BY <2>1, <1>2 DEF TableInv
  <2> QED
    BY <1>1, <2>1, <2>2 DEF TableInv, TableSound
<1>5. \A j, l \in DOMAIN clients' : j < l => clients'[j] < clients'[l]
  <2> SUFFICES ASSUME NEW j \in DOMAIN clients', NEW l \in DOMAIN clients', j < l
               PROVE  clients'[j] < clients'[l]
    OBVIOUS
  <2>1. j \in 1 .. (Len(clients) - 1) /\ l \in 1 .. (Len(clients) - 1)
    BY <1>1, <1>2
  <2> DEFINE jj == IF j < k THEN j ELSE j + 1
             ll == IF l < k THEN l ELSE l + 1
  <2>2. jj \in DOMAIN clients /\ ll \in DOMAIN clients /\ jj < ll
    BY <2>1, <1>2 DEF TableInv
  <2>3. clients'[j] = clients[jj] /\ clients'[l] = clients[ll]
    BY <1>1, <2>1
  <2> QED
    BY <2>2, <2>3 DEF TableInv, TableSound
<1> QED
  BY <1>1, <1>3, <1>4, <1>5 DEF TableInv, TableSound

-----------------------------------------------------------------------------
(* The requests and what is sent.                                          *)

\* A request carries the data its handler parses.
LEMMA RequestData ==
  ASSUME NEW req \in AllRequests
  PROVE  /\ req.code \in {"SIGN_UP", "SIGN_DEL", "SIGN_IN", "SIGN_OUT"} =>
              req.data \in SignData
         /\ req.code \in {"ADD_FRIEND", "ADD_FRIEND_ADMIT", "ADD_FRIEND_REFUSE"} =>
              req.data \in FriendData
         /\ req.code = "PULL_FRIENDS_LIST" => req.data \in Users
BY DEF AllRequests, NotParsed

\* serve() does for each code what one of the services does, or sends nothing.
LEMMA ServeCases ==
  ASSUME NEW req \in AllRequests, NEW s \in Sockets, Serve(s, req)
  PROVE  \/ /\ req.data \in SignData /\ AccountRequest(req.data, s)
            /\ UNCHANGED tb_friend
         \/ /\ \E d \in FriendData : FriendRequest(d, s)
            /\ req.code # "SIGN_IN"
         \/ Unparsable /\ UNCHANGED tb_friend /\ req.code # "SIGN_IN"
         \/ Send(<< >>) /\ UNCHANGED dbVars /\ req.code # "SIGN_IN"
<1>1. CASE req.code \in {"SIGN_UP", "SIGN_DEL", "SIGN_IN", "SIGN_OUT"}
  BY <1>1, RequestData DEF Serve, AccountRequest
<1>2. CASE req.code \in {"ADD_FRIEND", "ADD_FRIEND_ADMIT", "ADD_FRIEND_REFUSE"}
  BY <1>2, RequestData DEF Serve, FriendRequest
<1>3. CASE req.code = "PULL_FRIENDS_LIST"
  <2> DEFINE d == [username |-> req.data, friendname |-> req.data]
  <2>1. d \in FriendData /\ d.username = req.data
    BY <1>3, RequestData DEF FriendData
  <2>2. ListFriends(d.username, s)
    BY <1>3, <2>1 DEF Serve
  <2> QED
    BY <1>3, <2>1, <2>2 DEF FriendRequest
<1>4. CASE req.code = "UNPARSABLE"
  BY <1>4 DEF Serve
<1>5. CASE req.code = "OTHER"
  BY <1>5 DEF Serve
<1> QED
  BY <1>1, <1>2, <1>3, <1>4, <1>5 DEF Serve

DataInv == AccountTable /\ FriendTable /\ FriendTypeOK

\* The lemmas about the services, put together for serve().
LEMMA ServeKeepsData ==
  ASSUME DataInv, NEW req \in AllRequests, NEW s \in Sockets, Serve(s, req)
  PROVE  DataInv'
<1>1. AccountTable' /\ FriendTable' /\ SentOK' => DataInv'
  BY DEF DataInv, AccountTable, FriendTable, FriendTypeOK, SentOK
<1>2. broken \subseteq Sockets
  BY DEF DataInv, FriendTypeOK
<1>3. CASE req.data \in SignData /\ AccountRequest(req.data, s) /\ UNCHANGED tb_friend
  <2>1. AccountTable'
    BY <1>3, RequestKeepsTable DEF DataInv
  <2>2. \A u : AccountRows(u) # {} => AccountRows(u)' # {}
    BY <1>3, AccountRequestKeepsNames DEF DataInv
  <2>3. FriendTable'
    BY <1>3, <2>2
       DEF DataInv, FriendTable, StoredRelations, OneRowPerPair, TargetHasAccount
  <2>4. SentOK'
    <3>1. PICK code \in AccountCodes : Reply(s, code)
      BY <1>3 DEF AccountRequest, SignUp, SignDel, SignIn, SignOut, AccountCodes
    <3> QED
      BY <1>2, <3>1, ReplyTyped
  <2> QED
    BY <1>1, <2>1, <2>3, <2>4
<1>4. ASSUME NEW d \in FriendData, FriendRequest(d, s)
      PROVE  DataInv'
  <2>1. FriendTable' /\ UNCHANGED tb_account
    BY <1>4, FriendRequestKeepsTable DEF DataInv
  <2>2. AccountTable'
    BY <2>1 DEF DataInv, AccountTable, UsernameUnique
  <2>3. SentOK'
    BY <1>4, FriendRequestSends DEF DataInv
  <2> QED
    BY <1>1, <2>1, <2>2, <2>3
<1>5. ASSUME UNCHANGED dbVars PROVE AccountTable' /\ FriendTable'
  BY <1>5 DEF dbVars, DataInv, AccountTable, UsernameUnique, FriendTable,
              StoredRelations, OneRowPerPair, TargetHasAccount, AccountRows
<1>6. CASE Unparsable /\ UNCHANGED tb_friend
  <2>1. SentOK'
    BY <1>2, <1>6, DieTyped DEF Unparsable
  <2> QED
    BY <1>1, <1>5, <1>6, <2>1 DEF Unparsable, dbVars
<1>7. CASE Send(<< >>) /\ UNCHANGED dbVars
  <2>1. << >> \in Seq(Messages)
    OBVIOUS
  <2>2. SentOK'
    BY <1>2, <1>7, <2>1, SendTyped
  <2> QED
    BY <1>1, <1>5, <1>7, <2>2
<1> QED
  BY <1>3, <1>4, <1>6, <1>7, ServeCases

\* Whatever else a step does: it is enough that the tables stay as they are
\* or that sockets are rebound, and that what is sent has its type.
LEMMA DataFrame ==
  ASSUME DataInv, UNCHANGED dbVars, SentOK'
  PROVE  DataInv'
BY DEF dbVars, DataInv, AccountTable, UsernameUnique, FriendTable, StoredRelations,
       OneRowPerPair, TargetHasAccount, AccountRows, FriendTypeOK, SentOK

LEMMA RebindKeepsData ==
  ASSUME DataInv, NEW rows \in SUBSET tb_account, NEW s \in Sockets \cup {Offline},
         Rebind(rows, s), UNCHANGED tb_friend, SentOK'
  PROVE  DataInv'
<1>1. AccountTable'
  BY RebindKeepsTable DEF DataInv
<1>2. Registered' = Registered
  BY RebindKeepsCredentials DEF DataInv
<1>3. \A u : AccountRows(u) # {} => AccountRows(u)' # {}
  BY <1>2, CredentialsKeepNames
<1>4. FriendTable'
  BY <1>3 DEF DataInv, FriendTable, StoredRelations, OneRowPerPair, TargetHasAccount
<1> QED
  BY <1>1, <1>4 DEF DataInv, AccountTable, FriendTable, FriendTypeOK, SentOK

-----------------------------------------------------------------------------
(* Who is shown a friend request.                                          *)

\* In the first life of the process a stored descriptor is the one of a
\* connection over which the user has signed in.
BoundInv ==
  boots = 1 =>
    \A row \in tb_account : row.socket # Offline => row.username \in session[row.socket]

\* A friend request goes to the account of one of its two users.
LEMMA FriendRequestOut ==
  ASSUME NEW d \in FriendData, NEW s \in Sockets, FriendRequest(d, s)
  PROVE  \/ \A k \in DOMAIN out' : out'[k].code # "ADD_FRIEND_REQUEST"
         \/ \E target \in tb_account :
              /\ target.username \in {d.username, d.friendname}
              /\ target.socket > 0
              /\ out' = <<[to |-> target.socket, code |-> "ADD_FRIEND_REQUEST", data |-> d]>>
<1> DEFINE Quiet == \A k \in DOMAIN out' : out'[k].code # "ADD_FRIEND_REQUEST"
           Asking == \E target \in tb_account :
              /\ target.username \in {d.username, d.friendname}
              /\ target.socket > 0
              /\ out' = <<[to |-> target.socket, code |-> "ADD_FRIEND_REQUEST", data |-> d]>>
<1>1. ASSUME NEW code \in FriendCodes, Reply(s, code) PROVE Quiet
  BY <1>1 DEF Reply, Send, FriendCodes
<1>2. ASSUME NEW u \in {d.username, d.friendname}, NEW target \in AccountRows(u),
             Send(RequestTo(target.socket, d))
      PROVE  Quiet \/ Asking
  <2>1. target \in tb_account /\ target.username = u
    BY DEF AccountRows
  <2>2. CASE target.socket > 0
    BY <1>2, <2>1, <2>2 DEF Send, RequestTo
  <2>3. CASE ~(target.socket > 0)
    BY <1>2, <2>3 DEF Send, RequestTo
  <2> QED
    BY <2>2, <2>3
<1>3. CASE AddStranger(d, s)
  BY <1>1, <1>2, <1>3 DEF AddStranger, FriendCodes
<1>4. ASSUME NEW row \in Found(d), AddKnown(d, s, row) PROVE Quiet \/ Asking
  <2>1. Opposite(d) \in {d.username, d.friendname}
    BY DEF Opposite
  <2>2. CASE Reply(s, "ADD_FRIEND_NO_USER")
    BY <1>1, <2>2 DEF FriendCodes
  <2>3. ASSUME NEW code \in {"ADD_FRIEND_DUP", "ADD_FRIEND_BLACK"},
               Send(<<[to |-> s, code |-> code, data |-> d]>>)
        PROVE  Quiet
    BY <2>3 DEF Send
  <2>4. ASSUME NEW target \in AccountRows(Opposite(d)),
               Send(RequestTo(target.socket, d))
        PROVE  Quiet \/ Asking
    BY <1>2, <2>1, <2>4
  <2> QED
    BY <1>4, <2>2, <2>3, <2>4 DEF AddKnown
<1>5. ASSUME NEW code, StoreAnswer(d, code) PROVE Quiet
  BY <1>5 DEF StoreAnswer
<1>6. CASE ListFriends(d.username, s)
  BY <1>1, <1>6 DEF ListFriends, Die, FriendCodes
<1> QED
  BY <1>3, <1>4, <1>5, <1>6
     DEF FriendRequest, AddFriend, AddFriendAdmit, AddFriendRefuse

LEMMA ServePrivate ==
  ASSUME DataInv, BoundInv, boots = 1, NEW req \in AllRequests, NEW s \in Sockets,
         Serve(s, req)
  PROVE  \A k \in DOMAIN out' : out'[k].code = "ADD_FRIEND_REQUEST" =>
           session[out'[k].to] \cap {out'[k].data.username, out'[k].data.friendname} # {}
<1>1. CASE req.data \in SignData /\ AccountRequest(req.data, s)
  BY <1>1, RequestReplies DEF AccountCodes
<1>2. ASSUME NEW d \in FriendData, FriendRequest(d, s)
      PROVE  \A k \in DOMAIN out' : out'[k].code = "ADD_FRIEND_REQUEST" =>
               session[out'[k].to] \cap {out'[k].data.username, out'[k].data.friendname} # {}
  <2>1. ASSUME NEW target \in tb_account,
               target.username \in {d.username, d.friendname},
               target.socket > 0,
               out' = <<[to |-> target.socket, code |-> "ADD_FRIEND_REQUEST", data |-> d]>>
        PROVE  \A k \in DOMAIN out' :
                 session[out'[k].to] \cap {out'[k].data.username, out'[k].data.friendname} # {}
    <3>1. target.socket # Offline
      BY <2>1 DEF Offline
    <3>2. target.username \in session[target.socket]
      BY <3>1 DEF BoundInv
    <3> QED
      BY <2>1, <3>2
  <2> QED
    BY <1>2, <2>1, FriendRequestOut
<1>3. CASE Unparsable
  BY <1>3 DEF Unparsable, Die
<1>4. CASE Send(<< >>)
  BY <1>4 DEF Send
<1> QED
  BY <1>1, <1>2, <1>3, <1>4, ServeCases

\* Only a successful sign-in binds an account to a socket, its own.
LEMMA ServeBinds ==
  ASSUME NEW req \in AllRequests, NEW s \in Sockets, Serve(s, req)
  PROVE  \/ UNCHANGED tb_account
         \/ \E row : row.socket = Offline /\ tb_account' = tb_account \cup {row}
         \/ /\ req.code = "SIGN_IN"
            /\ req.data \in SignData
            /\ Rebind(AccountRows(req.data.username), s)
            /\ out' = <<[to |-> s, code |-> "SIGN_IN_SUCCESS"]>>
<1>1. CASE req.code = "SIGN_UP"
  BY <1>1 DEF Serve, SignUp, InsertAccount, NewRow
<1>2. CASE req.code = "SIGN_IN"
  BY <1>2, RequestData DEF Serve, SignIn, Reply, Send
<1>3. CASE req.code \notin {"SIGN_UP", "SIGN_IN"}
  BY <1>3 DEF Serve, SignDel, SignOut, ListFriends, AddFriend, AddFriendAdmit,
              AddFriendRefuse, StoreAnswer, Unparsable, dbVars
<1> QED
  BY <1>1, <1>2, <1>3

-----------------------------------------------------------------------------
(* The inductive invariant of the process.                                 *)

LoopInv ==
  /\ pc \in {"select", "accept", "scan"}
  /\ pc = "accept" => backlog # 0
  /\ fdset \subseteq Sockets \cup {ServSock}
  /\ select_ret \in Nat
  /\ i \in Nat \ {0}

KernelInv ==
  /\ peer \in [Sockets -> {"none", "open", "closed", "reset"}]
  /\ inbuf \in [Sockets -> Seq(Requests)]
  /\ backlog \in Nat

HistoryInv ==
  /\ boots \in Nat \ {0}
  /\ session \in [Sockets -> SUBSET Users]
  /\ BoundInv
  /\ RequestsStayPrivate

ServerIInv == DataInv /\ TableInv /\ LoopInv /\ KernelInv /\ HistoryInv

LEMMA Frames ==
  ASSUME ServerIInv
  PROVE  /\ UNCHANGED <<tableVars, nextfd>> => TableInv'
         /\ UNCHANGED <<loopVars, backlog>> => LoopInv'
         /\ UNCHANGED <<peer, inbuf, backlog>> => KernelInv'
         /\ UNCHANGED <<tb_account, boots, session, out>> => HistoryInv'
BY DEF ServerIInv, tableVars, loopVars, TableInv, TableSound, LoopInv, KernelInv,
       HistoryInv, BoundInv, RequestsStayPrivate

\* A step that sends nothing and at most sets accounts offline.
LEMMA QuietStep ==
  ASSUME ServerIInv, NEW rows \in SUBSET tb_account, Rebind(rows, Offline),
         out' = << >>, up' \in BOOLEAN, UNCHANGED <<tb_friend, broken, boots, session>>
  PROVE  DataInv' /\ HistoryInv'
<1>1. SentOK'
  BY DEF ServerIInv, DataInv, FriendTypeOK, SentOK
<1>2. DataInv'
  BY <1>1, RebindKeepsData DEF ServerIInv
<1>3. BoundInv'
  BY DEF ServerIInv, HistoryInv, BoundInv, Rebind, DataInv, AccountTable, AccountRow
<1>4. RequestsStayPrivate'
  BY DEF RequestsStayPrivate
<1> QED
  BY <1>2, <1>3, <1>4 DEF ServerIInv, HistoryInv

LEMMA ReadyFinite ==
  ASSUME ServerIInv
  PROVE  /\ Ready \subseteq Sockets \cup {ServSock}
         /\ Watched \subseteq Sockets \cup {ServSock}
         /\ Cardinality(Ready) \in Nat
<1>1. Watched \subseteq Sockets \cup {ServSock}
  BY DEF Watched, ServerIInv, TableInv
<1>2. Ready \subseteq Sockets \cup {ServSock}
  BY <1>1 DEF Ready
<1>3. IsFiniteSet(Sockets)
  BY FS_Interval, ServerAssumption
<1>4. IsFiniteSet(Sockets \cup {ServSock})
  BY <1>3, FS_AddElement
<1>5. IsFiniteSet(Ready)
  BY <1>2, <1>4, FS_Subset
<1> QED
  BY <1>1, <1>2, <1>5, FS_CardinalityType

LEMMA SelectStep == ServerIInv /\ Select => ServerIInv'
<1> SUFFICES ASSUME ServerIInv, Select PROVE ServerIInv'
  OBVIOUS
<1>1. UNCHANGED <<dbVars, out, up, broken, tableVars, kernelVars, boots, session>>
  BY DEF Select
<1>2. SentOK'
  BY <1>1 DEF ServerIInv, DataInv, FriendTypeOK, SentOK
<1>3. DataInv'
  BY <1>1, <1>2, DataFrame DEF ServerIInv
<1>4. LoopInv'
  <2>1. ServSock \in Ready => backlog # 0
    BY DEF Ready, ServerIInv, KernelInv
  <2> QED
    BY <1>1, <2>1, ReadyFinite DEF Select, LoopInv, kernelVars
<1> QED
  BY <1>1, <1>3, <1>4, Frames DEF ServerIInv, kernelVars, dbVars

LEMMA SelectFailsStep == ServerIInv /\ SelectFails => ServerIInv'
<1> SUFFICES ASSUME ServerIInv, SelectFails PROVE ServerIInv'
  OBVIOUS
<1>1. UNCHANGED <<tb_friend, tableVars, loopVars, kernelVars, boots, session>>
  BY DEF SelectFails
<1>2. up' = FALSE /\ out' = << >> /\ broken' = broken
  BY DEF SelectFails, Die
<1>3. up' \in BOOLEAN
  BY <1>2
<1>4. DataInv' /\ HistoryInv'
  <2> DEFINE rows == {row \in tb_account :
            \E k \in 1 .. (Len(clients) - 1) : k % 2 = 1 /\ row.socket = clients[k]}
  <2>1. Rebind(rows, Offline) /\ rows \in SUBSET tb_account
    BY DEF SelectFails, FreeClients
  <2> HIDE DEF rows
  <2> QED
    BY <1>1, <1>2, <1>3, <2>1, QuietStep
<1> QED
  BY <1>1, <1>4, Frames DEF ServerIInv, kernelVars

LEMMA AcceptStep == ServerIInv /\ Accept => ServerIInv'
<1> SUFFICES ASSUME ServerIInv, Accept PROVE ServerIInv'
  OBVIOUS
<1>1. UNCHANGED <<dbVars, out, up, broken, fdset, select_ret, i, inbuf, boots, session>>
  BY DEF Accept
<1>2. SentOK'
  BY <1>1 DEF ServerIInv, DataInv, FriendTypeOK, SentOK
<1>3. DataInv' /\ HistoryInv'
  BY <1>1, <1>2, DataFrame, Frames DEF ServerIInv, dbVars
<1>4. LoopInv'
  BY <1>1 DEF Accept, ServerIInv, LoopInv
<1>5. backlog \in Nat /\ backlog # 0
  BY DEF Accept, ServerIInv, LoopInv, KernelInv
<1>6. KernelInv'
  <2>1. backlog' \in Nat
    BY <1>5 DEF Accept
  <2>2. peer' \in [Sockets -> {"none", "open", "closed", "reset"}]
    BY DEF Accept, ServerIInv, KernelInv
  <2> QED
    BY <1>1, <2>1, <2>2 DEF ServerIInv, KernelInv
<1>7. TableInv'
  <2>1. CASE /\ nextfd \in Sockets /\ Len(clients) < MaxConnect
             /\ AddClient(nextfd) /\ nextfd' = nextfd + 1
    BY <2>1, AddClientKeepsTable DEF ServerIInv
  <2>2. CASE UNCHANGED <<tableVars, nextfd>>
    BY <2>2, Frames
  <2> QED
    BY <2>1, <2>2 DEF Accept, AcceptFailed
<1> QED
  BY <1>3, <1>4, <1>6, <1>7 DEF ServerIInv

LEMMA RecvRequestStep ==
  ServerIInv /\ (\E k \in 1 .. MaxConnect : RecvRequest(k)) => ServerIInv'
<1> SUFFICES ASSUME ServerIInv, NEW k \in 1 .. MaxConnect, RecvRequest(k)
             PROVE  ServerIInv'
  OBVIOUS
<1> DEFINE s == clients[k]
           req == Head(inbuf[s])
<1>1. s \in Sockets /\ k \in 1 .. Len(clients)
  BY ServerAssumption DEF RecvRequest, Visits, ServerIInv, TableInv
<1>2. /\ inbuf[s] \in Seq(Requests) /\ inbuf[s] # << >>
      /\ req \in AllRequests
  <2>1. inbuf[s] \in Seq(Requests) /\ inbuf[s] # << >>
    BY <1>1 DEF RecvRequest, ServerIInv, KernelInv
  <2>2. req \in Requests
    BY <2>1
  <2> QED
    BY <2>1, <2>2, ServerAssumption
<1>3. Serve(s, req)
  BY DEF RecvRequest
<1>4. /\ UNCHANGED <<tableVars, pc, fdset, select_ret, nextfd, peer, backlog, boots>>
      /\ i' = i + 1
  BY DEF RecvRequest
<1>5. session' = IF /\ req.code = "SIGN_IN"
                    /\ out' = <<[to |-> s, code |-> "SIGN_IN_SUCCESS"]>>
                 THEN [session EXCEPT ![s] = @ \cup {req.data.username}]
                 ELSE session
  BY DEF RecvRequest
<1>6. inbuf' \in [Sockets -> Seq(Requests)]
  <2>1. PICK n \in 1 .. Len(inbuf[s]) :
          inbuf' = [inbuf EXCEPT ![s] = SubSeq(@, n + 1, Len(@))]
    BY DEF RecvRequest
  <2>2. SubSeq(inbuf[s], n + 1, Len(inbuf[s])) \in Seq(Requests)
    BY <1>2, <2>1
  <2> QED
    BY <2>1, <2>2 DEF ServerIInv, KernelInv
<1> HIDE DEF s, req
<1>7. DataInv'
  BY <1>1, <1>2, <1>3, ServeKeepsData DEF ServerIInv
<1>8. /\ session' \in [Sockets -> SUBSET Users]
      /\ \A x \in Sockets : session[x] \subseteq session'[x]
  <2>1. session \in [Sockets -> SUBSET Users]
    BY DEF ServerIInv, HistoryInv
  <2>2. req.code = "SIGN_IN" => req.data.username \in Users
    BY <1>2, RequestData DEF SignData
  <2> QED
    BY <1>1, <1>5, <2>1, <2>2
<1>9. BoundInv'
  <2> SUFFICES ASSUME boots = 1, NEW row \in tb_account', row.socket # Offline
               PROVE  row.username \in session'[row.socket]
    BY <1>4 DEF BoundInv
  <2>0. /\ tb_account \subseteq AccountRow
        /\ \A r \in tb_account : r.socket # Offline => r.username \in session[r.socket]
    BY DEF ServerIInv, DataInv, AccountTable, HistoryInv, BoundInv
  <2>1. CASE row \in tb_account
    <3>1. row.socket \in Sockets
      BY <2>0, <2>1 DEF AccountRow
    <3> QED
      BY <1>8, <2>0, <2>1, <3>1
  <2>2. CASE row \notin tb_account
    <3>1. /\ req.code = "SIGN_IN"
          /\ req.data \in SignData
          /\ Rebind(AccountRows(req.data.username), s)
          /\ out' = <<[to |-> s, code |-> "SIGN_IN_SUCCESS"]>>
      BY <1>1, <1>2, <1>3, <2>2, ServeBinds
    <3>2. PICK old \in AccountRows(req.data.username) : row = [old EXCEPT !.socket = s]
      BY <2>2, <3>1 DEF Rebind
    <3>3. row.username = req.data.username /\ row.socket = s
      BY <2>0, <3>2 DEF AccountRows, AccountRow
    <3>4. req.data.username \in session'[s]
      BY <1>1, <1>5, <3>1 DEF ServerIInv, HistoryInv
    <3> QED
      BY <3>3, <3>4
  <2> QED
    BY <2>1, <2>2
<1>10. RequestsStayPrivate'
  <2> SUFFICES ASSUME boots = 1, NEW j \in DOMAIN out',
                      out'[j].code = "ADD_FRIEND_REQUEST"
               PROVE  session'[out'[j].to] \cap
                        {out'[j].data.username, out'[j].data.friendname} # {}
    BY <1>4 DEF RequestsStayPrivate
  <2>1. session[out'[j].to] \cap
          {out'[j].data.username, out'[j].data.friendname} # {}
    BY <1>1, <1>2, <1>3, ServePrivate DEF ServerIInv, HistoryInv
  <2>2. out'[j].to \in Sockets
    BY <1>7 DEF DataInv, FriendTypeOK, Messages
  <2> QED
    BY <1>8, <2>1, <2>2
<1>11. TableInv' /\ LoopInv' /\ KernelInv'
  BY <1>4, <1>6, Frames DEF ServerIInv, LoopInv, KernelInv
<1> QED
  BY <1>4, <1>7, <1>8, <1>9, <1>10, <1>11 DEF ServerIInv, HistoryInv

\* recv() returned 0: the client is deleted and its account set offline, or
\* nothing but the index changes.
LEMMA RecvZeroStep ==
  ServerIInv /\ (\E k \in 1 .. MaxConnect : RecvZero(k)) => ServerIInv'
<1> SUFFICES ASSUME ServerIInv, NEW k \in 1 .. MaxConnect, RecvZero(k)
             PROVE  ServerIInv'
  OBVIOUS
<1>1. /\ UNCHANGED <<tb_friend, up, broken, pc, fdset, select_ret, kernelVars, boots, session>>
      /\ out' = << >> /\ i' = i + 1
  BY DEF RecvZero
<1>2. k \in 1 .. Len(clients)
  BY DEF RecvZero, Visits, ServerIInv, TableInv
<1>3. up' \in BOOLEAN
  BY <1>1 DEF ServerIInv, DataInv, FriendTypeOK
<1>4. DataInv' /\ HistoryInv'
  <2>1. PICK rows \in SUBSET tb_account : Rebind(rows, Offline)
    <3>1. CASE UNCHANGED tb_account
      <4>1. {} \in SUBSET tb_account /\ Rebind({}, Offline)
        BY <3>1 DEF Rebind
      <4> QED
        BY <4>1
    <3>2. CASE UpdateSocket(clients[k], Offline)
      <4> DEFINE rows == {row \in tb_account : row.socket = clients[k]}
      <4>1. rows \in SUBSET tb_account /\ Rebind(rows, Offline)
        BY <3>2 DEF UpdateSocket
      <4> QED
        BY <4>1
    <3> QED
      BY <3>1, <3>2 DEF RecvZero, DelClient
  <2> QED
    BY <1>1, <1>3, <2>1, QuietStep
<1>5. TableInv'
  <2>1. UNCHANGED nextfd
    BY <1>1 DEF kernelVars
  <2>2. CASE clients' = RemoveAt(clients, k) /\ UNCHANGED capcity
    BY <1>2, <2>1, <2>2, DelClientKeepsTable DEF ServerIInv
  <2>3. CASE UNCHANGED tableVars
    BY <2>1, <2>3, Frames
  <2> QED
    BY <2>2, <2>3 DEF RecvZero, DelClient
<1>6. LoopInv' /\ KernelInv'
  BY <1>1, Frames DEF ServerIInv, LoopInv, kernelVars
<1> QED
  BY <1>4, <1>5, <1>6 DEF ServerIInv

\* recv() reports a reset: only the kernel's state and the index change.
LEMMA RecvErrorStep ==
  ServerIInv /\ (\E k \in 1 .. MaxConnect : RecvError(k)) => ServerIInv'
<1> SUFFICES ASSUME ServerIInv, NEW k \in 1 .. MaxConnect, RecvError(k)
             PROVE  ServerIInv'
  OBVIOUS
<1>1. /\ UNCHANGED <<dbVars, up, broken, tableVars, pc, fdset, select_ret, nextfd, inbuf,
                     backlog, boots, session>>
      /\ out' = << >> /\ i' = i + 1
      /\ peer' = [peer EXCEPT ![clients[k]] = "closed"]
  BY DEF RecvError
<1>2. SentOK'
  BY <1>1 DEF ServerIInv, DataInv, FriendTypeOK, SentOK
<1>3. DataInv'
  BY <1>1, <1>2, DataFrame DEF ServerIInv
<1>4. HistoryInv'
  <2>1. RequestsStayPrivate'
    BY <1>1 DEF RequestsStayPrivate
  <2>2. BoundInv'
    BY <1>1 DEF ServerIInv, HistoryInv, BoundInv, dbVars
  <2> QED
    BY <1>1, <2>1, <2>2 DEF ServerIInv, HistoryInv
<1>5. LoopInv'
  BY <1>1 DEF ServerIInv, LoopInv
<1>6. KernelInv'
  <2>1. peer' \in [Sockets -> {"none", "open", "closed", "reset"}]
    BY <1>1 DEF ServerIInv, KernelInv
  <2> QED
    BY <1>1, <2>1 DEF ServerIInv, KernelInv
<1> QED
  BY <1>1, <1>3, <1>4, <1>5, <1>6, Frames DEF ServerIInv

LEMMA SkipStep == ServerIInv /\ Skip => ServerIInv'
<1> SUFFICES ASSUME ServerIInv, Skip PROVE ServerIInv'
  OBVIOUS
<1>1. UNCHANGED <<dbVars, out, up, broken, tableVars, fdset, select_ret, kernelVars,
                  boots, session>>
  BY DEF Skip
<1>2. SentOK'
  BY <1>1 DEF ServerIInv, DataInv, FriendTypeOK, SentOK
<1>3. DataInv'
  BY <1>1, <1>2, DataFrame DEF ServerIInv
<1>4. LoopInv'
  BY <1>1 DEF Skip, ServerIInv, LoopInv, kernelVars
<1> QED
  BY <1>1, <1>3, <1>4, Frames DEF ServerIInv, kernelVars, dbVars

\* The peers only change what the kernel holds for the process.
LEMMA EnvironmentStep == ServerIInv /\ Environment => ServerIInv'
<1> SUFFICES ASSUME ServerIInv, Environment PROVE ServerIInv'
  OBVIOUS
<1>1. UNCHANGED <<dbVars, out, up, tableVars, loopVars, nextfd, boots, session>>
  BY DEF Environment, Connect, PeerSends, PeerCloses, PeerResets, PeerReset, dbVars
<1>2. SentOK'
  <2>1. broken' \subseteq Sockets
    BY DEF Environment, Connect, PeerSends, PeerCloses, PeerResets, PeerReset,
           ServerIInv, DataInv, FriendTypeOK
  <2> QED
    BY <1>1, <2>1 DEF ServerIInv, DataInv, FriendTypeOK, SentOK
<1>3. DataInv'
  BY <1>1, <1>2, DataFrame DEF ServerIInv
<1>4. KernelInv' /\ (backlog # 0 => backlog' # 0)
  <2>1. backlog \in Nat /\ peer \in [Sockets -> {"none", "open", "closed", "reset"}]
        /\ inbuf \in [Sockets -> Seq(Requests)]
    BY DEF ServerIInv, KernelInv
  <2>2. CASE Connect
    BY <2>1, <2>2 DEF Connect, KernelInv
  <2>3. ASSUME NEW s \in Sockets, NEW req \in Requests, PeerSends(s, req)
        PROVE  KernelInv' /\ backlog' = backlog
    <3>1. Append(inbuf[s], req) \in Seq(Requests)
      BY <2>1
    <3> QED
      BY <2>1, <2>3, <3>1 DEF PeerSends, KernelInv
  <2>4. ASSUME NEW s \in Sockets, PeerCloses(s) \/ PeerResets(s)
        PROVE  KernelInv' /\ backlog' = backlog
    BY <2>1, <2>4 DEF PeerCloses, PeerResets, KernelInv
  <2> QED
    BY <2>2, <2>3, <2>4 DEF Environment
<1>5. LoopInv'
  BY <1>1, <1>4 DEF ServerIInv, LoopInv, loopVars
<1> QED
  BY <1>1, <1>3, <1>4, <1>5, Frames DEF ServerIInv, dbVars

LEMMA KillStep == ServerIInv /\ Kill => ServerIInv'
<1> SUFFICES ASSUME ServerIInv, Kill PROVE ServerIInv'
  OBVIOUS
<1>1. /\ UNCHANGED <<dbVars, tableVars, loopVars, kernelVars, boots, session>>
      /\ up' = FALSE /\ out' = << >> /\ broken' = broken
  BY DEF Kill, Die
<1>2. up' \in BOOLEAN /\ {} \in SUBSET tb_account
  BY <1>1
<1>3. Rebind({}, Offline)
  BY <1>1 DEF Rebind, dbVars
<1>4. DataInv' /\ HistoryInv'
  BY <1>1, <1>2, <1>3, QuietStep DEF dbVars
<1> QED
  BY <1>1, <1>4, Frames DEF ServerIInv, kernelVars

\* A new process finds the tables as they are; it is not the first one.
LEMMA BootStep == ServerIInv /\ Boot => ServerIInv'
<1> SUFFICES ASSUME ServerIInv, Boot PROVE ServerIInv'
  OBVIOUS
<1>1. /\ UNCHANGED dbVars
      /\ up' = TRUE /\ out' = << >> /\ broken' = {}
  BY DEF Boot, Restart, InitAccountService, InitFriendService, dbVars
<1>2. SentOK'
  <2>1. up' \in BOOLEAN
    BY <1>1
  <2> QED
    BY <1>1, <2>1 DEF SentOK
<1>3. DataInv'
  BY <1>1, <1>2, DataFrame DEF ServerIInv
<1>4. HistoryInv'
  <2>1. boots' \in Nat \ {0} /\ boots' # 1
    BY DEF Boot, ServerIInv, HistoryInv
  <2> QED
    BY <2>1 DEF Boot, HistoryInv, BoundInv, RequestsStayPrivate
<1>5. TableInv'
  <2>1. FirstFd \in FirstFd .. FdLimit /\ InitialCapacity \in Nat \ {0} /\ MaxConnect \in Nat
    BY ServerAssumption
  <2>2. clients' = << >> /\ capcity' = InitialCapacity /\ nextfd' = FirstFd
    BY DEF Boot
  <2>3. clients' \in Seq(Sockets) /\ Len(clients') = 0 /\ DOMAIN clients' = {}
    BY <2>2
  <2> QED
    BY <2>1, <2>2, <2>3 DEF TableInv, TableSound
<1>6. LoopInv' /\ KernelInv'
  BY DEF Boot, LoopInv, KernelInv
<1> QED
  BY <1>3, <1>4, <1>5, <1>6 DEF ServerIInv

LEMMA ServerInitInv == ServerInit => ServerIInv
<1> SUFFICES ASSUME ServerInit PROVE ServerIInv
  OBVIOUS
<1>1. tb_account = {} /\ tb_friend = {} /\ out = << >> /\ up = TRUE /\ broken = {}
  BY DEF ServerInit, FriendInit, AccountInit
<1>2. DataInv
  <2>1. up \in BOOLEAN
    BY <1>1
  <2> QED
    BY <1>1, <2>1 DEF DataInv, AccountTable, UsernameUnique, FriendTable,
                      StoredRelations, OneRowPerPair, TargetHasAccount, FriendTypeOK
<1>3. HistoryInv
  BY <1>1 DEF ServerInit, HistoryInv, BoundInv, RequestsStayPrivate
<1>4. TableInv
  <2>1. FirstFd \in FirstFd .. FdLimit /\ InitialCapacity \in Nat \ {0} /\ MaxConnect \in Nat
    BY ServerAssumption
  <2>2. clients = << >> /\ capcity = InitialCapacity /\ nextfd = FirstFd
    BY DEF ServerInit
  <2>3. clients \in Seq(Sockets) /\ Len(clients) = 0 /\ DOMAIN clients = {}
    BY <2>2
  <2> QED
    BY <2>1, <2>2, <2>3 DEF TableInv, TableSound
<1>5. LoopInv /\ KernelInv
  BY DEF ServerInit, LoopInv, KernelInv
<1> QED
  BY <1>2, <1>3, <1>4, <1>5 DEF ServerIInv

LEMMA ServerStepKeepsInv == ServerIInv /\ [ServerNext]_serverVars => ServerIInv'
<1> SUFFICES ASSUME ServerIInv, [ServerNext]_serverVars
             PROVE  ServerIInv'
  OBVIOUS
<1>1. CASE Loop
  BY <1>1, SelectStep, AcceptStep, RecvRequestStep, RecvZeroStep, RecvErrorStep,
     SkipStep DEF Loop
<1>2. CASE SelectFails
  BY <1>2, SelectFailsStep
<1>3. CASE Environment
  BY <1>3, EnvironmentStep
<1>4. CASE Kill
  BY <1>4, KillStep
<1>5. CASE Boot
  BY <1>5, BootStep
<1>6. CASE UNCHANGED serverVars
  <2>1. UNCHANGED <<dbVars, out, up, broken, tableVars, loopVars, kernelVars, boots, session>>
    BY <1>6 DEF serverVars
  <2>2. SentOK'
    BY <2>1 DEF ServerIInv, DataInv, FriendTypeOK, SentOK
  <2>3. DataInv'
    BY <2>1, <2>2, DataFrame DEF ServerIInv
  <2> QED
    BY <2>1, <2>3, Frames DEF ServerIInv, kernelVars, dbVars
<1> QED
  BY <1>1, <1>2, <1>3, <1>4, <1>5, <1>6 DEF ServerNext

LEMMA ServerInductive == ServerSpec => []ServerIInv
BY ServerInitInv, ServerStepKeepsInv, PTL DEF ServerSpec

-----------------------------------------------------------------------------
(* The results.                                                            *)

\* The variables of the process, of its tables and of the kernel keep their
\* types: no handler sends to, stores or closes what is not a descriptor.
THEOREM ServerInvariance == ServerSpec => []ServerTypeOK
<1>1. ServerIInv => ServerTypeOK
  BY DEF ServerIInv, DataInv, TableInv, LoopInv, KernelInv, HistoryInv, ServerTypeOK
<1> QED
  BY <1>1, ServerInductive, PTL

\* add_client and del_client_by_socket (main.c:37, main.c:46) keep the table
\* of clients within its memory and MAX_CONNECT, in the order of acceptance
\* and without a client twice, however long the process runs.
THEOREM ClientTableSound == ServerSpec => []TableSound
<1>1. ServerIInv => TableSound
  BY DEF ServerIInv, TableInv
<1> QED
  BY <1>1, ServerInductive, PTL

\* In the first life of the process a friend request (friend.c:126) is only
\* sent over a connection on which one of its two users has signed in.
THEOREM RequestsPrivate == ServerSpec => []RequestsStayPrivate
<1>1. ServerIInv => RequestsStayPrivate
  BY DEF ServerIInv, HistoryInv
<1> QED
  BY <1>1, ServerInductive, PTL

-----------------------------------------------------------------------------
(* What a deletion leaves alone.                                           *)

\* select_ret stays the number of the bits that select() has set.
CountInv == select_ret = Cardinality(fdset \cap (0 .. MaxConnect))

LEMMA CountStep == ServerIInv /\ CountInv /\ [ServerNext]_serverVars => CountInv'
<1> SUFFICES ASSUME ServerIInv, CountInv, [ServerNext]_serverVars
             PROVE  CountInv'
  OBVIOUS
<1>1. CASE UNCHANGED <<fdset, select_ret>>
  BY <1>1 DEF CountInv
<1>2. CASE Select
  <2>1. Ready \subseteq Nat /\ \A s \in Ready : s <= MaxConnect
    <3>1. Ready \subseteq Sockets \cup {0}
      BY ReadyFinite DEF ServSock
    <3>2. Sockets \cup {0} \subseteq Nat
      BY SocketsAssumption
    <3>3. \A s \in Ready : s <= MaxConnect
      BY DEF Ready
    <3> QED
      BY <3>1, <3>2, <3>3
  <2>2. CopiedBack \in Nat /\ MaxConnect \in Nat /\ CopiedBack > MaxConnect
    BY ServerAssumption
  <2>3. \A s \in 0 .. MaxConnect : ~(s >= CopiedBack)
    BY <2>2
  <2>4. Ready \subseteq 0 .. MaxConnect
    BY <2>1, <2>2
  <2>5. fdset' \cap (0 .. MaxConnect) = Ready
    BY <1>2, <2>3, <2>4 DEF Select
  <2> QED
    BY <1>2, <2>5 DEF CountInv, Select
<1>3. CASE Boot
  <2>1. fdset' \cap (0 .. MaxConnect) = {} /\ select_ret' = 0
    BY <1>3 DEF Boot
  <2> QED
    BY <2>1, FS_EmptySet DEF CountInv
<1> QED
  BY <1>1, <1>2, <1>3
     DEF ServerNext, Loop, Accept, RecvRequest, RecvZero, RecvError, Skip, SelectFails,
         Environment, Connect, PeerSends, PeerCloses, PeerResets, Kill, loopVars,
         serverVars

LEMMA CountInductive == ServerSpec => []CountInv
<1>1. ServerInit => CountInv
  <2>1. ServerInit => fdset \cap (0 .. MaxConnect) = {} /\ select_ret = 0
    BY DEF ServerInit
  <2> QED
    BY <2>1, FS_EmptySet DEF CountInv
<1> QED
  BY <1>1, CountStep, ServerInductive, PTL DEF ServerSpec

\* Only a deletion shortens the table of a running process.
LEMMA ShorterIsDeletion ==
  ASSUME ServerIInv, [ServerNext]_serverVars, up, Len(clients') < Len(clients)
  PROVE  \E k \in 1 .. MaxConnect : RecvZero(k) /\ MayDelete /\ DelClient(k)
<1>1. CASE UNCHANGED clients
  BY <1>1 DEF ServerIInv, TableInv
<1>2. CASE Accept
  <2>1. Len(clients) \in Nat
    BY DEF ServerIInv, TableInv
  <2>2. ASSUME NEW s \in Sockets, clients' = Append(clients, s)
        PROVE  Len(clients') = Len(clients) + 1
    BY <2>2 DEF ServerIInv, TableInv
  <2> QED
    BY <1>1, <1>2, <2>1, <2>2 DEF Accept, AcceptFailed, AddClient, tableVars
<1>3. CASE Boot
  BY <1>3 DEF Boot, Restart
<1>4. ASSUME NEW k \in 1 .. MaxConnect, RecvZero(k)
      PROVE  RecvZero(k) /\ MayDelete /\ DelClient(k)
  BY <1>1, <1>4 DEF RecvZero, tableVars
<1> QED
  BY <1>1, <1>2, <1>3, <1>4
     DEF ServerNext, Loop, Select, RecvRequest, RecvError, Skip, SelectFails,
         Environment, Connect, PeerSends, PeerCloses, PeerResets, Kill, tableVars,
         serverVars

\* del_client_by_socket shifts the table under the index of the running loop
\* (main.c:196), which goes on behind the client that moved up: no client
\* after the deleted one had been found ready.
THEOREM NoneSkipped == ServerSpec => NoReadyClientSkipped
<1>1. ASSUME ServerIInv, CountInv, [ServerNext]_serverVars, up,
             Len(clients') < Len(clients), NEW k \in (i + 1) .. Len(clients)
      PROVE  clients[k] \notin fdset \cap (0 .. MaxConnect)
  <2>1. /\ clients \in Seq(Sockets) /\ Sockets \subseteq Nat /\ MaxConnect \in Nat
        /\ i \in Nat \ {0} /\ Len(clients) \in Nat
    BY <1>1, SocketsAssumption, ServerAssumption DEF ServerIInv, TableInv, LoopInv
  <2>2. MayDelete /\ i <= Len(clients) /\ clients[i] \in fdset
    BY <1>1, ShorterIsDeletion DEF RecvZero, Visits
  <2>3. i \in DOMAIN clients /\ k \in DOMAIN clients /\ i < k
    BY <2>1, <2>2
  <2>4. clients[i] \in Nat /\ clients[k] \in Nat /\ clients[i] < clients[k]
    <3>1. clients[i] \in Sockets /\ clients[k] \in Sockets
      BY <2>1, <2>3
    <3>2. clients[i] < clients[k]
      BY <1>1, <2>3 DEF ServerIInv, TableInv, TableSound
    <3> QED
      BY <2>1, <3>1, <3>2
  <2>5. PICK x : fdset \cap (0 .. MaxConnect) = {x}
    <3>1. IsFiniteSet(fdset \cap (0 .. MaxConnect))
      <4>1. IsFiniteSet(0 .. MaxConnect)
        BY <2>1, FS_Interval
      <4>2. fdset \cap (0 .. MaxConnect) \subseteq 0 .. MaxConnect
        OBVIOUS
      <4> QED
        BY <4>1, <4>2, FS_Subset
    <3>2. Cardinality(fdset \cap (0 .. MaxConnect)) = 1
      BY <1>1, <2>2 DEF CountInv, MayDelete
    <3> QED
      BY <3>1, <3>2, FS_Singleton
  <2> SUFFICES ASSUME clients[k] \in fdset, clients[k] <= MaxConnect
               PROVE  FALSE
    BY <2>4
  <2>6. clients[i] <= MaxConnect
    BY <2>1, <2>4
  <2>7. clients[i] = x /\ clients[k] = x
    BY <2>1, <2>2, <2>4, <2>5, <2>6
  <2> QED
    BY <2>4, <2>7
<1>2. ServerIInv /\ CountInv /\ [ServerNext]_serverVars =>
        [up /\ Len(clients') < Len(clients) =>
           \A k \in (i + 1) .. Len(clients) : clients[k] \notin fdset \cap (0 .. MaxConnect)
        ]_serverVars
  BY <1>1
<1> QED
  BY <1>2, ServerInductive, CountInductive, PTL DEF ServerSpec, NoReadyClientSkipped

\* A socket that is still in the table after a deletion is not the deleted one.
LEMMA DeletedIsGone ==
  ASSUME TableInv, NEW k \in 1 .. Len(clients), clients' = RemoveAt(clients, k)
  PROVE  \A j \in DOMAIN clients' : clients'[j] # clients[k]
<1>1. /\ clients' \in Seq(Sockets)
      /\ Len(clients') = Len(clients) - 1
      /\ \A j \in 1 .. (Len(clients) - 1) :
           clients'[j] = IF j < k THEN clients[j] ELSE clients[j + 1]
  BY RemoveAtProperties DEF TableInv
<1>2. \A j \in DOMAIN clients : clients[j] \in Nat
  <2>1. clients \in Seq(Sockets) /\ Sockets \subseteq Nat
    BY SocketsAssumption DEF TableInv
  <2>2. \A j \in DOMAIN clients : clients[j] \in Sockets
    BY <2>1
  <2> QED
    BY <2>1, <2>2
<1>3. ASSUME NEW j \in DOMAIN clients'
      PROVE  clients'[j] # clients[k]
  <2>1. j \in 1 .. (Len(clients) - 1) /\ Len(clients) \in Nat
    BY <1>1 DEF TableInv
  <2> DEFINE jj == IF j < k THEN j ELSE j + 1
  <2>2. jj \in DOMAIN clients /\ k \in DOMAIN clients /\ (jj < k \/ k < jj)
    BY <2>1 DEF TableInv
  <2>3. clients'[j] = clients[jj]
    BY <1>1, <2>1
  <2> HIDE DEF jj
  <2>4. clients[jj] < clients[k] \/ clients[k] < clients[jj]
    BY <2>2 DEF TableInv, TableSound
  <2> QED
    BY <1>2, <2>2, <2>3, <2>4
<1> QED
  BY <1>3

\* What is read from a client of the table is one of the requests.
LEMMA ReadsRequest ==
  ASSUME ServerIInv, NEW k \in 1 .. MaxConnect, RecvRequest(k)
  PROVE  /\ clients[k] \in Sockets
         /\ Head(inbuf[clients[k]]) \in AllRequests
         /\ Serve(clients[k], Head(inbuf[clients[k]]))
<1>1. clients[k] \in Sockets /\ inbuf[clients[k]] # << >>
  BY ServerAssumption DEF RecvRequest, Visits, ServerIInv, TableInv
<1>2. inbuf[clients[k]] \in Seq(Requests)
  BY <1>1 DEF ServerIInv, KernelInv
<1>3. Head(inbuf[clients[k]]) \in Requests
  BY <1>1, <1>2
<1> QED
  BY <1>1, <1>3, ServerAssumption DEF RecvRequest

\* A row that is bound stays bound through every request.
LEMMA ServeKeepsBound ==
  ASSUME DataInv, NEW req \in AllRequests, NEW s \in Sockets, Serve(s, req),
         NEW row \in tb_account, row.socket # Offline
  PROVE  \E r \in tb_account' : r.username = row.username /\ r.socket # Offline
<1>1. CASE tb_account \subseteq tb_account'
  BY <1>1
<1>2. CASE Rebind(AccountRows(req.data.username), s)
  <2>1. CASE row \in AccountRows(req.data.username)
    <3> DEFINE r == [row EXCEPT !.socket = s]
    <3>1. r \in tb_account'
      BY <1>2, <2>1 DEF Rebind
    <3>2. r.username = row.username /\ r.socket = s
      BY DEF DataInv, AccountTable, AccountRow
    <3>3. s # Offline
      BY SocketsAssumption DEF Offline
    <3> QED
      BY <3>1, <3>2, <3>3
  <2>2. CASE row \notin AccountRows(req.data.username)
    BY <1>2, <2>2 DEF Rebind
  <2> QED
    BY <2>1, <2>2
<1> QED
  BY <1>1, <1>2, ServeBinds

\* update_socket is called with the descriptor of the deleted client
\* (main.c:53), so no account of a client that stays is set offline.
THEOREM SessionsKept == ServerSpec => LiveSessionKept
<1>1. ASSUME ServerIInv, [ServerNext]_serverVars, NEW row \in tb_account,
             up', row.socket # Offline,
             NEW j \in DOMAIN clients', clients'[j] = row.socket
      PROVE  \E r \in tb_account' : r.username = row.username /\ r.socket # Offline
  <2>1. CASE UNCHANGED tb_account
    BY <1>1, <2>1
  <2>2. CASE SelectFails
    BY <1>1, <2>2 DEF SelectFails, Die
  <2>3. ASSUME NEW k \in 1 .. MaxConnect, RecvRequest(k)
        PROVE  \E r \in tb_account' : r.username = row.username /\ r.socket # Offline
    BY <1>1, <2>3, ReadsRequest, ServeKeepsBound DEF ServerIInv
  <2>4. ASSUME NEW k \in 1 .. MaxConnect, RecvZero(k), DelClient(k)
        PROVE  \E r \in tb_account' : r.username = row.username /\ r.socket # Offline
    <3>1. k \in 1 .. Len(clients)
      BY <1>1, <2>4 DEF RecvZero, Visits, ServerIInv, TableInv
    <3>2. row.socket # clients[k]
      BY <1>1, <2>4, <3>1, DeletedIsGone DEF DelClient, ServerIInv
    <3>3. row \in tb_account'
      BY <2>1, <2>4, <3>2 DEF DelClient, UpdateSocket, Rebind
    <3> QED
      BY <1>1, <3>3
  <2> QED
    BY <1>1, <2>1, <2>2, <2>3, <2>4
       DEF ServerNext, Loop, Select, Accept, RecvZero, RecvError, Skip, Environment,
           Connect, PeerSends, PeerCloses, PeerResets, PeerReset, Kill, Boot, Restart,
           InitAccountService, dbVars, serverVars
<1>2. ServerIInv /\ [ServerNext]_serverVars =>
        [\A row \in tb_account :
           up' /\ row.socket # Offline /\ (\E k \in DOMAIN clients' : clients'[k] = row.socket) =>
             \E r \in tb_account' : r.username = row.username /\ r.socket # Offline
        ]_serverVars
  BY <1>1
<1> QED
  BY <1>2, ServerInductive, PTL DEF ServerSpec, LiveSessionKept

-----------------------------------------------------------------------------
(* The promise of module Registry, kept by the whole process.              *)

\* The friend service tells nobody anything of his account.
LEMMA FriendRequestTells ==
  ASSUME NEW d \in FriendData, NEW s \in Sockets, FriendRequest(d, s)
  PROVE  Told' \notin {"SIGN_UP_SUCCESS", "SIGN_DEL_SUCCESS"}
<1>1. ASSUME NEW code \in FriendCodes, Reply(s, code)
      PROVE  Told' \notin {"SIGN_UP_SUCCESS", "SIGN_DEL_SUCCESS"}
  BY <1>1, ReplyTells DEF FriendCodes
<1>2. ASSUME NEW n, Send(RequestTo(n, d))
      PROVE  Told' \notin {"SIGN_UP_SUCCESS", "SIGN_DEL_SUCCESS"}
  BY <1>2 DEF Send, RequestTo, Told
<1>3. ASSUME NEW code \in {"ADD_FRIEND_DUP", "ADD_FRIEND_BLACK"},
             Send(<<[to |-> s, code |-> code, data |-> d]>>)
      PROVE  Told' \notin {"SIGN_UP_SUCCESS", "SIGN_DEL_SUCCESS"}
  BY <1>3 DEF Send, Told
<1>4. CASE out' = << >>
  BY <1>4 DEF Told
<1>5. CASE AddStranger(d, s)
  BY <1>1, <1>2, <1>5 DEF AddStranger, FriendCodes
<1>6. ASSUME NEW row, AddKnown(d, s, row)
      PROVE  Told' \notin {"SIGN_UP_SUCCESS", "SIGN_DEL_SUCCESS"}
  BY <1>1, <1>2, <1>3, <1>6 DEF AddKnown, FriendCodes
<1>7. ASSUME NEW code, StoreAnswer(d, code)
      PROVE  Told' \notin {"SIGN_UP_SUCCESS", "SIGN_DEL_SUCCESS"}
  BY <1>4, <1>7 DEF StoreAnswer
<1>8. CASE ListFriends(d.username, s)
  BY <1>1, <1>4, <1>8 DEF ListFriends, FriendCodes, Die
<1> QED
  BY <1>5, <1>6, <1>7, <1>8
     DEF FriendRequest, AddFriend, AddFriendAdmit, AddFriendRefuse

LEMMA ServerStepRegisters ==
  ServerIInv /\ [ServerNext]_serverVars =>
    [RegistryOf!RegistryNext]_(RegistryOf!registryVars)
<1> SUFFICES ASSUME ServerIInv, [ServerNext]_serverVars
             PROVE  RegistryOf!RegistryNext \/ UNCHANGED <<Registered, Told>>
  BY DEF RegistryOf!registryVars
<1>0. UNCHANGED tb_account => UNCHANGED Registered
  BY DEF Registered, Credentials
<1>1. CASE UNCHANGED <<tb_account, out>>
  BY <1>0, <1>1 DEF Told
<1>2. ASSUME NEW rows \in SUBSET tb_account, Rebind(rows, Offline)
      PROVE  UNCHANGED Registered
  BY <1>2, RebindKeepsCredentials DEF ServerIInv, DataInv
<1>3. CASE SelectFails
  BY <1>2, <1>3, SilenceTells DEF SelectFails, FreeClients, Die
<1>4. ASSUME NEW k \in 1 .. MaxConnect, RecvRequest(k)
      PROVE  RegistryOf!RegistryNext
  <2> DEFINE s == clients[k]
             req == Head(inbuf[s])
  <2>1. s \in Sockets /\ req \in AllRequests /\ Serve(s, req)
    BY <1>4, ReadsRequest
  <2> HIDE DEF s, req
  <2>2. CASE req.data \in SignData /\ AccountRequest(req.data, s)
    <3>1. req.data.username \in Users /\ req.data.password \in Passwords
      BY <2>2 DEF SignData
    <3> QED
      BY <2>1, <2>2, <3>1, RequestRegisters DEF ServerIInv, DataInv, RegistryOf!RegistryNext
  <2>3. ASSUME NEW d \in FriendData, FriendRequest(d, s)
        PROVE  RegistryOf!RegistryNext
    <3>1. UNCHANGED tb_account
      BY <2>1, <2>3, FriendRequestKeepsTable DEF ServerIInv, DataInv
    <3>2. Told' \notin {"SIGN_UP_SUCCESS", "SIGN_DEL_SUCCESS"}
      BY <2>1, <2>3, FriendRequestTells
    <3> QED
      BY <1>0, <3>1, <3>2 DEF RegistryOf!RegistryNext, RegistryOf!TellOther
  <2>4. CASE UNCHANGED tb_account /\ out' = << >>
    BY <1>0, <2>4, SilenceTells
  <2> QED
    BY <2>1, <2>2, <2>3, <2>4, ServeCases DEF Unparsable, Die, Send, dbVars
<1>5. ASSUME NEW k \in 1 .. MaxConnect, RecvZero(k)
      PROVE  RegistryOf!RegistryNext
  <2>1. UNCHANGED tb_account \/ UpdateSocket(clients[k], Offline)
    BY <1>5 DEF RecvZero, DelClient
  <2>2. {row \in tb_account : row.socket = clients[k]} \in SUBSET tb_account
    OBVIOUS
  <2>3. UNCHANGED Registered
    BY <1>0, <1>2, <2>1, <2>2 DEF UpdateSocket
  <2> QED
    BY <1>5, <2>3, SilenceTells DEF RecvZero
<1>6. CASE UNCHANGED tb_account /\ out' = << >>
  BY <1>0, <1>6, SilenceTells
<1> QED
  BY <1>1, <1>3, <1>4, <1>5, <1>6
     DEF ServerNext, Loop, Select, Accept, RecvError, Skip, Environment, Connect,
         PeerSends, PeerCloses, PeerResets, PeerReset, Kill, Die, Boot, Restart,
         InitAccountService, dbVars, serverVars

\* No request, departure, failure or restart of the process (main.c:140) loses
\* an account or changes its password, or tells a user of a registration that
\* is not so, unless its texts are such that the table cannot hold them.
THEOREM ServerImplementsRegistry == ServerSpec => RefinesRegistry
<1>1. ServerInit => RegistryOf!RegistryInit
  BY DEF ServerInit, FriendInit, AccountInit, RegistryOf!RegistryInit, Registered,
         Credentials, Told
<1> QED
  BY <1>1, ServerStepRegisters, ServerInductive, PTL
     DEF ServerSpec, RefinesRegistry, RegistryOf!RegistrySpec

\* Nor does it break the promise of module Contacts: only a request of the
\* friend service (main.c:89, serve) changes what is between two users.
LEMMA ServerStepContacts ==
  ServerIInv /\ [ServerNext]_serverVars =>
    [ContactsOf!ContactsNext]_(ContactsOf!contactsVars)
<1> SUFFICES ASSUME ServerIInv, [ServerNext]_serverVars
             PROVE  ContactsOf!ContactsNext \/ UNCHANGED ContactsOf!contactsVars
  OBVIOUS
<1>1. CASE UNCHANGED <<tb_friend, out, up>>
  BY <1>1 DEF ContactsOf!contactsVars, Asked, Friends, Known, Shown
<1>2. CASE UNCHANGED tb_friend /\ out' = << >>
  <2>1. Shown' = {}
    BY <1>2 DEF Shown
  <2> QED
    BY <1>2, <2>1, StepIdles
<1>3. ASSUME NEW k \in 1 .. MaxConnect, RecvRequest(k)
      PROVE  ContactsOf!ContactsNext
  <2> DEFINE s == clients[k]
             req == Head(inbuf[s])
  <2>1. s \in Sockets /\ req \in AllRequests /\ Serve(s, req)
    BY <1>3, ReadsRequest
  <2> HIDE DEF s, req
  <2>2. ASSUME NEW d \in FriendData, FriendRequest(d, s)
        PROVE  ContactsOf!ContactsNext
    BY <2>1, <2>2, FriendRequestContacts DEF ServerIInv, DataInv
  <2>3. CASE req.data \in SignData /\ AccountRequest(req.data, s) /\ UNCHANGED tb_friend
    BY <2>1, <2>3, AccountRequestShowsNothing, StepIdles
  <2>4. CASE UNCHANGED tb_friend /\ out' = << >>
    <3>1. Shown' = {}
      BY <2>4 DEF Shown
    <3> QED
      BY <2>4, <3>1, StepIdles
  <2> QED
    BY <2>1, <2>2, <2>3, <2>4, ServeCases DEF Unparsable, Die, Send, dbVars
<1> QED
  BY <1>1, <1>2, <1>3
     DEF ServerNext, Loop, Select, Accept, RecvZero, RecvError, Skip, SelectFails,
         Environment, Connect, PeerSends, PeerCloses, PeerResets, PeerReset, Kill, Die,
         Boot, Restart, InitFriendService, dbVars, serverVars

\* No two users become friends, or are asked, but by a request for the pair,
\* through departures, failures and restarts of the process.
THEOREM ServerImplementsContacts == ServerSpec => RefinesContacts
<1>1. ServerInit => ContactsOf!ContactsInit
  BY DEF ServerInit, FriendInit, AccountInit, ContactsOf!ContactsInit, Asked, Friends,
         Known, Shown
<1> QED
  BY <1>1, ServerStepContacts, ServerInductive, PTL
     DEF ServerSpec, RefinesContacts, ContactsOf!ContactsSpec
=============================================================================
