------------------------------- MODULE Server -------------------------------
(***************************************************************************)
(* The server process: the table of clients and the select loop of         *)
(* server/src/main/main.c, which hand the requests of the peers to the     *)
(* account and friend services, with the kernel's side of the sockets, the *)
(* end of the process and its restart on the same database.                *)
(*                                                                         *)
(* The loop is one thread; select(), accept() and each turn of the loop    *)
(* over the clients are steps of their own, because peers connect, send    *)
(* and close in between.                                                   *)
(***************************************************************************)
EXTENDS Friend, FiniteSets, SequencesExt

CONSTANTS
  FirstFd,         \* the first descriptor accept() returns
  FdLimit,         \* RLIMIT_NOFILE: descriptors are below this
  MaxConnect,      \* MAX_CONNECT
  InitialCapacity, \* the initial value of capcity
  CopiedBack,      \* select() writes back the bits of the descriptors below
  Requests,        \* what the peers send
  MaxQueued,       \* bound: messages not yet read from a socket
  MaxBacklog,      \* bound: connections not yet accepted
  MaxBoots         \* bound: starts of the process

\* The codes whose handlers parse an object.
ParsedCodes ==
  {"SIGN_UP", "SIGN_DEL", "SIGN_IN", "SIGN_OUT",
   "ADD_FRIEND", "ADD_FRIEND_ADMIT", "ADD_FRIEND_REFUSE"}

\* A request whose data the handler of the code cannot parse.
NotParsed(code) == [code |-> "UNPARSABLE", of |-> code]

\* A request with code "OTHER" stands for any code serve() does not list.
AllRequests ==
  [code : {"SIGN_UP", "SIGN_DEL", "SIGN_IN", "SIGN_OUT"}, data : SignData] \cup
  [code : {"ADD_FRIEND", "ADD_FRIEND_ADMIT", "ADD_FRIEND_REFUSE"}, data : FriendData] \cup
  [code : {"PULL_FRIENDS_LIST"}, data : Users] \cup
  {NotParsed(code) : code \in ParsedCodes} \cup
  [code : {"OTHER"}]

ASSUME ServerAssumption ==
  /\ FirstFd \in Nat \ {0} /\ FdLimit \in Nat /\ FirstFd <= FdLimit
  /\ Sockets = FirstFd .. (FdLimit - 1)
  /\ MaxConnect \in Nat \ {0}
  /\ InitialCapacity \in Nat \ {0}
  /\ CopiedBack \in Nat /\ CopiedBack > MaxConnect
  /\ Requests \subseteq AllRequests
  /\ MaxQueued \in Nat /\ MaxBacklog \in Nat /\ MaxBoots \in Nat

VARIABLES
  clients,     \* the sockets of clients[0 .. clients_count - 1]
  capcity,     \* the allocated length of clients
  pc,          \* where the loop is: "select", "accept" or "scan"
  fdset,       \* fdset as select() left it
  select_ret,  \* what select() returned
  i,           \* the index of the loop over the clients, from 1
  nextfd,      \* kernel: the lowest free descriptor
  peer,        \* kernel: the other end of a connection, "open", "closed" or "reset"
  inbuf,       \* kernel: messages received on a socket and not yet read
  backlog,     \* kernel: connections waiting for accept()
  boots,       \* history: how often the process was started
  session      \* history: who signed in over a socket of this process

tableVars  == <<clients, capcity>>
loopVars   == <<pc, fdset, select_ret, i>>
kernelVars == <<nextfd, peer, inbuf, backlog>>
dbVars     == <<tb_account, tb_friend>>
serverVars == <<dbVars, out, up, broken, tableVars, loopVars, kernelVars,
                boots, session>>

ServSock == 0  \* the listening descriptor

-----------------------------------------------------------------------------
(* The table of clients.                                                   *)

\* Mutated form of AddClient: the table is not grown.
AddClientNoGrowth(s) ==
  /\ UNCHANGED capcity
  /\ clients' = Append(clients, s)

AddClient(s) ==
  /\ capcity' = IF Len(clients) = capcity THEN 2 * capcity ELSE capcity
  /\ clients' = Append(clients, s)

\* Mutated form of DelClient: the arguments of update_socket are swapped.
DelClientSwapped(k) ==
  /\ clients' = RemoveAt(clients, k)
  /\ IF k < Len(clients) THEN UpdateSocket(Offline, clients[k])
                         ELSE UNCHANGED tb_account

\* Mutated form of DelClient: the descriptor is read after the shift, so that
\* the account of the next client is set offline.
DelClientAfterShift(k) ==
  /\ clients' = RemoveAt(clients, k)
  /\ IF k < Len(clients) THEN UpdateSocket(clients[k + 1], Offline)
                         ELSE UNCHANGED tb_account

\* del_client_by_socket for the client at index k.  update_socket is called
\* in the loop that shifts the later clients, so never for the last one.
DelClient(k) ==
  /\ clients' = RemoveAt(clients, k)
  /\ IF k < Len(clients) THEN UpdateSocket(clients[k], Offline)
                         ELSE UNCHANGED tb_account

\* free_clients deletes clients[i] for i = 0, 1, ... of a table that shrinks
\* at the same time: it reaches every other client, and sets all of these
\* offline but one that is the last.
FreeClients ==
  Rebind({row \in tb_account :
            \E k \in 1 .. (Len(clients) - 1) : k % 2 = 1 /\ row.socket = clients[k]},
         Offline)

-----------------------------------------------------------------------------
(* The loop.                                                               *)

Readable(s) == inbuf[s] # << >> \/ peer[s] \in {"closed", "reset"}

\* Mutated form of Watched: the loop before select() ends one client early.
WatchedButLast == {ServSock} \cup {clients[k] : k \in 1 .. (Len(clients) - 1)}

Watched == {ServSock} \cup {clients[k] : k \in DOMAIN clients}

\* select() looks at the descriptors below nfds = MAX_CONNECT + 1.
Ready ==
  {s \in Watched : /\ s <= MaxConnect
                   /\ IF s = ServSock THEN backlog > 0 ELSE Readable(s)}

\* The bits of descriptors from CopiedBack on stay as FD_SET left them.  A
\* poll that finds nothing ready returns 0 and the loop starts again.
Select ==
  /\ up /\ pc = "select"
  /\ Ready # {}
  /\ fdset' = Ready \cup {s \in Watched : s >= CopiedBack}
  /\ select_ret' = Cardinality(Ready)
  /\ pc' = IF ServSock \in Ready THEN "accept" ELSE "scan"
  /\ i' = 1
  /\ UNCHANGED <<dbVars, out, up, broken, tableVars, kernelVars, boots, session>>

\* select() fails: the loop is left, free_clients runs, the process ends.
SelectFails ==
  /\ up /\ pc = "select"
  /\ FreeClients
  /\ Die
  /\ UNCHANGED <<tb_friend, tableVars, loopVars, kernelVars, boots, session>>

\* Mutated form of AcceptFailed: the result of accept() is not tested.
AcceptFailedUnchecked == AddClient(-1)

\* csocket is -1: nothing is added.
AcceptFailed == UNCHANGED tableVars

\* accept() and add_client, or close() when the table is full.  accept()
\* fails with EMFILE, and the connection waits, when the descriptors are
\* used up; caddr_size is not initialised, so it may also fail with EINVAL,
\* and the connection is lost.
Accept ==
  /\ up /\ pc = "accept"
  /\ pc' = "scan"
  /\ \/ /\ nextfd \in Sockets
        /\ Len(clients) < MaxConnect
        /\ AddClient(nextfd)
        /\ nextfd' = nextfd + 1
        /\ peer' = [peer EXCEPT ![nextfd] = "open"]
        /\ backlog' = backlog - 1
     \/ /\ nextfd \in Sockets
        /\ Len(clients) >= MaxConnect
        /\ backlog' = backlog - 1
        /\ UNCHANGED <<tableVars, nextfd, peer>>
     \/ /\ backlog' = IF nextfd \in Sockets THEN backlog - 1 ELSE backlog
        /\ AcceptFailed
        /\ UNCHANGED <<nextfd, peer>>
  /\ UNCHANGED <<dbVars, out, up, broken, fdset, select_ret, i, inbuf, boots, session>>

\* serve(): the handler of a request from socket s
Serve(s, req) ==
  \/ req.code = "SIGN_UP" /\ SignUp(req.data, s) /\ UNCHANGED tb_friend
  \/ req.code = "SIGN_DEL" /\ SignDel(req.data, s) /\ UNCHANGED tb_friend
  \/ req.code = "SIGN_IN" /\ SignIn(req.data, s) /\ UNCHANGED tb_friend
  \/ req.code = "SIGN_OUT" /\ SignOut(req.data, s) /\ UNCHANGED tb_friend
  \/ req.code = "PULL_FRIENDS_LIST" /\ ListFriends(req.data, s)
  \/ req.code = "ADD_FRIEND" /\ AddFriend(req.data, s)
  \/ req.code = "ADD_FRIEND_ADMIT" /\ AddFriendAdmit(req.data)
  \/ req.code = "ADD_FRIEND_REFUSE" /\ AddFriendRefuse(req.data)
  \/ req.code = "UNPARSABLE" /\ Unparsable /\ UNCHANGED tb_friend
  \/ req.code = "OTHER" /\ Send(<< >>) /\ UNCHANGED dbVars

\* The loop is at client k, whose bit is set.
Visits(k) ==
  /\ up /\ pc = "scan"
  /\ k = i /\ k <= Len(clients)
  /\ clients[k] \in fdset

\* recv() returns the messages that have arrived, one or more; parse_msg
\* stops at the NUL that ends the first and the others are lost.
RecvRequest(k) ==
  LET s == clients[k] IN
  /\ Visits(k)
  /\ inbuf[s] # << >>
  /\ \E n \in 1 .. Len(inbuf[s]) :
       inbuf' = [inbuf EXCEPT ![s] = SubSeq(@, n + 1, Len(@))]
  /\ Serve(s, Head(inbuf[s]))
  /\ session' = IF /\ Head(inbuf[s]).code = "SIGN_IN"
                   /\ out' = <<[to |-> s, code |-> "SIGN_IN_SUCCESS"]>>
                THEN [session EXCEPT ![s] = @ \cup {Head(inbuf[s]).data.username}]
                ELSE session
  /\ i' = i + 1
  /\ UNCHANGED <<tableVars, pc, fdset, select_ret, nextfd, peer, backlog, boots>>

\* Mutated form of MayDelete: a closed client is deleted in any round.
AlwaysDelete == TRUE

\* Mutated form of MayDelete: the comparison is the wrong way round.
DeleteWhenCrowded == select_ret > 1

\* The condition under which a client whose recv() returned 0 is deleted.
MayDelete == select_ret = 1

\* recv() returns 0: the peer has closed and everything it sent is read.
RecvZero(k) ==
  LET s == clients[k] IN
  /\ Visits(k)
  /\ inbuf[s] = << >> /\ peer[s] \in {"closed", "reset"}
  /\ \/ MayDelete /\ DelClient(k) /\ UNCHANGED capcity
     \/ ~MayDelete /\ UNCHANGED <<tb_account, tableVars>>
  /\ out' = << >>
  /\ i' = i + 1
  /\ UNCHANGED <<tb_friend, up, broken, pc, fdset, select_ret, kernelVars, boots, session>>

\* recv() returns -1, once, for a reset that no close preceded, unless a
\* send() has reported it before; the loop does nothing.
RecvError(k) ==
  LET s == clients[k] IN
  /\ Visits(k)
  /\ inbuf[s] = << >> /\ peer[s] = "reset"
  /\ peer' = [peer EXCEPT ![s] = "closed"]
  /\ out' = << >>
  /\ i' = i + 1
  /\ UNCHANGED <<dbVars, up, broken, tableVars, pc, fdset, select_ret, nextfd, inbuf,
                 backlog, boots, session>>

\* The bit of the client is not set, or all clients have been visited.
Skip ==
  /\ up /\ pc = "scan"
  /\ \/ i <= Len(clients) /\ clients[i] \notin fdset /\ i' = i + 1 /\ UNCHANGED pc
     \/ i > Len(clients) /\ pc' = "select" /\ UNCHANGED i
  /\ UNCHANGED <<dbVars, out, up, broken, tableVars, fdset, select_ret, kernelVars,
                 boots, session>>

Loop ==
  \/ Select
  \/ Accept
  \/ \E k \in 1 .. MaxConnect : RecvRequest(k) \/ RecvZero(k) \/ RecvError(k)
  \/ Skip

-----------------------------------------------------------------------------
(* The peers, and the end and the start of the process.                    *)

Connect ==
  /\ up /\ backlog < MaxBacklog
  /\ backlog' = backlog + 1
  /\ UNCHANGED <<dbVars, out, up, broken, tableVars, loopVars, nextfd, peer, inbuf,
                 boots, session>>

PeerSends(s, req) ==
  /\ up /\ peer[s] = "open"
  /\ Len(inbuf[s]) < MaxQueued
  /\ inbuf' = [inbuf EXCEPT ![s] = Append(@, req)]
  /\ UNCHANGED <<dbVars, out, up, broken, tableVars, loopVars, nextfd, peer, backlog,
                 boots, session>>

PeerCloses(s) ==
  /\ up /\ peer[s] = "open"
  /\ peer' = [peer EXCEPT ![s] = "closed"]
  /\ UNCHANGED <<dbVars, out, up, broken, tableVars, loopVars, nextfd, inbuf, backlog,
                 boots, session>>

\* The connection is reset, with or without a close before.
PeerResets(s) ==
  /\ up /\ peer[s] \in {"open", "closed"}
  /\ PeerReset(s)
  /\ peer' = [peer EXCEPT ![s] = IF @ = "open" THEN "reset" ELSE "closed"]
  /\ UNCHANGED <<tb_friend, tableVars, loopVars, nextfd, inbuf, backlog, boots, session>>

\* The process is killed, or the machine goes down.
Kill ==
  /\ up
  /\ Die
  /\ UNCHANGED <<dbVars, tableVars, loopVars, kernelVars, boots, session>>

\* A process starts with no client and no descriptor but its own, on the
\* tables the last one left.
Boot ==
  /\ boots < MaxBoots
  /\ Restart
  /\ boots' = boots + 1
  /\ clients' = << >> /\ capcity' = InitialCapacity
  /\ pc' = "select" /\ fdset' = {} /\ select_ret' = 0 /\ i' = 1
  /\ nextfd' = FirstFd
  /\ peer' = [s \in Sockets |-> "none"]
  /\ inbuf' = [s \in Sockets |-> << >>]
  /\ backlog' = 0
  /\ session' = [s \in Sockets |-> {}]
  /\ InitFriendService

Environment ==
  \/ Connect
  \/ \E s \in Sockets : \/ \E req \in Requests : PeerSends(s, req)
                        \/ PeerCloses(s)
                        \/ PeerResets(s)

ServerInit ==
  /\ FriendInit
  /\ clients = << >> /\ capcity = InitialCapacity
  /\ pc = "select" /\ fdset = {} /\ select_ret = 0 /\ i = 1
  /\ nextfd = FirstFd
  /\ peer = [s \in Sockets |-> "none"]
  /\ inbuf = [s \in Sockets |-> << >>]
  /\ backlog = 0
  /\ boots = 1
  /\ session = [s \in Sockets |-> {}]

ServerNext == Loop \/ SelectFails \/ Environment \/ Kill \/ Boot

ServerSpec == ServerInit /\ [][ServerNext]_serverVars

\* The server's thread is scheduled again and again.  Peers need not do
\* anything.
FairServerSpec == ServerSpec /\ WF_serverVars(Loop)

-----------------------------------------------------------------------------
(* Properties.                                                             *)

ServerTypeOK ==
  /\ FriendTypeOK
  /\ clients \in Seq(Sockets)
  /\ capcity \in Nat \ {0}
  /\ pc \in {"select", "accept", "scan"}
  /\ fdset \subseteq Sockets \cup {ServSock}
  /\ select_ret \in Nat
  /\ i \in Nat \ {0}
  /\ nextfd \in FirstFd .. FdLimit
  /\ peer \in [Sockets -> {"none", "open", "closed", "reset"}]
  /\ inbuf \in [Sockets -> Seq(Requests)]
  /\ backlog \in Nat
  /\ boots \in Nat
  /\ session \in [Sockets -> SUBSET Users]

\* The table of clients stays within its memory and within MAX_CONNECT, and
\* holds each accepted socket at most once, in the order of acceptance.
TableSound ==
  /\ Len(clients) <= capcity
  /\ Len(clients) <= MaxConnect
  /\ \A k \in DOMAIN clients : clients[k] < nextfd
  /\ \A j, k \in DOMAIN clients : j < k => clients[j] < clients[k]

\* A deletion shifts the later clients under the index of the running loop;
\* it never makes the loop pass over a client that select() found ready.
NoReadyClientSkipped ==
  [][up /\ Len(clients') < Len(clients) =>
       \A k \in (i + 1) .. Len(clients) : clients[k] \notin fdset \cap (0 .. MaxConnect)
    ]_serverVars

\* While a connected client is in the table, the departure of another one
\* does not set an account offline that is bound to the client's socket.
LiveSessionKept ==
  [][\A row \in tb_account :
       up' /\ row.socket # Offline /\ (\E k \in DOMAIN clients' : clients'[k] = row.socket) =>
         \E r \in tb_account' : r.username = row.username /\ r.socket # Offline
    ]_serverVars

\* A request is only shown on connections over which one of its two users has
\* signed in, as long as the process has not been restarted.
RequestsStayPrivate ==
  boots = 1 =>
    \A k \in DOMAIN out : out[k].code = "ADD_FRIEND_REQUEST" =>
      session[out[k].to] \cap {out[k].data.username, out[k].data.friendname} # {}

\* The same for every process: the descriptor stored at the sign-in is the one
\* of the user's connection, and brought up to date when he signs in again
\* ("登陆后将其fd也存在此表中，用户下线后再次登陆的话将fd更新",
\* 网络项目开题.txt:34).
SocketIsOfItsUser ==
  \A k \in DOMAIN out : out[k].code = "ADD_FRIEND_REQUEST" =>
    session[out[k].to] \cap {out[k].data.username, out[k].data.friendname} # {}

\* An account that the table shows as online belongs to a connected client.
OnlineMeansConnected ==
  up => \A row \in tb_account : row.socket # Offline =>
          \E k \in DOMAIN clients : clients[k] = row.socket

\* The server reads a message from socket s.
Reads(s) == Len(inbuf'[s]) < Len(inbuf[s])

\* What a user is told of his account is so: it is there after "注册成功"
\* (account.c:34), not online after "登出成功" (account.c:100), and there is none
\* after "无此用户" (account.c:48), so that who asks for it, with his password, can
\* delete his account ("注销账号", 网络项目开题.txt:20).
AccountRepliesTrue ==
  [][\A s \in Sockets : Reads(s) /\ up' =>
       LET req == Head(inbuf[s]) IN
         /\ req.code = "SIGN_UP" /\ Told' = "SIGN_UP_SUCCESS" => req.data \in Registered'
         /\ req.code = "SIGN_OUT" /\ Told' = "SIGN_OUT_SUCCESS" =>
              \A row \in tb_account' : row.username = req.data.username => row.socket = Offline
         /\ req.code = "SIGN_DEL" /\ Told' = "SIGN_DEL_NO_USER" =>
              \A row \in tb_account' : row.username # req.data.username
    ]_serverVars

\* Socket s belongs to a client of the table.
InTable(s) == \E k \in DOMAIN clients : clients[k] = s

\* The loop waits in recv() for a client that has sent nothing, because select()
\* left its bit as it was.
Blocked == \E k \in 1 .. MaxConnect : Visits(k) /\ ~Readable(clients[k])

\* No client whose descriptor select() looks at is starved: while its messages
\* wait at the server, the loop reads them again and again, unless the process
\* ends or the loop is blocked for ever.
RequestsRead ==
  \A s \in Sockets : s <= MaxConnect =>
    (<>[](up /\ inbuf[s] # << >>) /\ []<>~Blocked =>
       []<><<Reads(s)>>_serverVars)

\* A client that is gone is eventually deleted, if from some time on its
\* socket is the only one that is ready and the loop is not blocked for ever.
LoneDepartureNoticed ==
  \A s \in Sockets :
    []<>~Blocked => ~ <>[](up /\ InTable(s) /\ Ready = {s} /\ inbuf[s] = << >>)

\* Any client that is gone is eventually deleted, at least once nobody connects
\* or sends any more ("clients: ... will be close cause of wrong length msg",
\* main.c:187).
DepartureNoticed ==
  \A s \in Sockets : s <= MaxConnect =>
    (<>[](backlog = 0 /\ \A p \in Sockets : inbuf[p] = << >>) =>
       (up /\ InTable(s) /\ peer[s] = "closed" ~> ~up \/ ~InTable(s)))
=============================================================================
