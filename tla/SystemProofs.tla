---------------------------- MODULE SystemProofs ----------------------------
(***************************************************************************)
(* Proofs about the server and its clients together, for any number of     *)
(* clients and whatever their users type.                                  *)
(***************************************************************************)
EXTENDS System, ServerProofs

-----------------------------------------------------------------------------
(* The clients are peers as module Server expects them.                    *)

\* Every message on its way is one a client sends, and connections belong to
\* the clients that wait in the backlog or were accepted.
WireInv ==
  /\ outbox \in [Clients -> Seq(ClientMessages)]
  /\ waiting \in Seq(Clients) /\ Len(waiting) = backlog
  /\ conn \in [Clients -> Sockets \cup {0}]

\* What the menus send is among the messages of the clients.
LEMMA MessagesSent ==
  /\ \A c \in Clients : \A sd \in TypedSign[c], code \in {"SIGN_IN", "SIGN_UP"} :
       PackMsg(code, PackSignData(sd)) \in ClientMessages
  /\ \A afd \in TypedPairs : PackMsg("ADD_FRIEND", PackAfData(afd)) \in ClientMessages
  /\ PackMsg("PULL_FRIENDS_LIST", Sentence(ListText)) \in ClientMessages
  /\ PackMsg("SIGN_OUT", Sentence("sign out")) \in ClientMessages
  /\ \A code \in {"ADD_FRIEND_ADMIT", "ADD_FRIEND_REFUSE"} : Answer(code) \subseteq ClientMessages
<1> DEFINE typed == UNION {TypedSign[c] : c \in Clients}
           signs == {PackMsg(code, PackSignData(sd)) :
                       code \in {"SIGN_IN", "SIGN_UP"}, sd \in typed}
           asks  == {PackMsg("ADD_FRIEND", PackAfData(afd)) : afd \in TypedPairs}
<1>1. \A c \in Clients : TypedSign[c] \subseteq typed
  OBVIOUS
<1>2. \A code \in {"SIGN_IN", "SIGN_UP"}, sd \in typed :
        PackMsg(code, PackSignData(sd)) \in signs
  OBVIOUS
<1>3. \A afd \in TypedPairs : PackMsg("ADD_FRIEND", PackAfData(afd)) \in asks
  OBVIOUS
<1>4. ClientMessages = signs \cup asks \cup
        {PackMsg("PULL_FRIENDS_LIST", Sentence(ListText)), PackMsg("SIGN_OUT", Sentence("sign out"))} \cup
        Answer("ADD_FRIEND_ADMIT") \cup Answer("ADD_FRIEND_REFUSE")
  BY DEF ClientMessages
<1> HIDE DEF typed, signs, asks
<1> QED
  BY <1>1, <1>2, <1>3, <1>4

\* What a client step may send.
LEMMA SendMsgWire ==
  ASSUME WireInv, NEW c \in Clients, NEW t, NEW place, NEW msg \in ClientMessages,
         SendMsg(c, t, msg, place)
  PROVE  outbox' \in [Clients -> Seq(ClientMessages)]
<1>1. CASE UNCHANGED outbox
  BY <1>1 DEF WireInv
<1>2. CASE outbox' = [outbox EXCEPT ![c] = Append(@, msg)]
  <2>1. Append(outbox[c], msg) \in Seq(ClientMessages)
    BY DEF WireInv
  <2> QED
    BY <1>2, <2>1 DEF WireInv
<1> QED
  BY <1>1, <1>2 DEF SendMsg

LEMMA ClientStepWire ==
  ASSUME WireInv, NEW c \in Clients, ClientStep(c), UNCHANGED <<serverVars, netVars>>
  PROVE  WireInv'
<1>1. outbox' \in [Clients -> Seq(ClientMessages)]
  <2>1. CASE UNCHANGED outbox
    BY <2>1 DEF WireInv
  <2>2. CASE FunLogin(c)
    BY <2>1, <2>2, MessagesSent, SendMsgWire DEF FunLogin, SendNothing
  <2>3. ASSUME NEW t \in Threads, FunMain(c, t)
        PROVE  outbox' \in [Clients -> Seq(ClientMessages)]
    BY <2>1, <2>3, MessagesSent, SendMsgWire DEF FunMain, SendNothing
  <2>4. ASSUME NEW t \in Threads, AnswerRequest(c, t)
        PROVE  outbox' \in [Clients -> Seq(ClientMessages)]
    BY <2>4, MessagesSent, SendMsgWire DEF AnswerRequest
  <2> QED
    BY <2>1, <2>2, <2>3, <2>4
       DEF ClientStep, Receive, FriendMain, RecvWorkEnds, Interrupt
<1> QED
  BY <1>1 DEF WireInv, netVars, serverVars, kernelVars

LEMMA SystemStepWire ==
  WireInv /\ ServerIInv /\ [SystemNext]_systemVars => WireInv'
<1> SUFFICES ASSUME WireInv, ServerIInv, [SystemNext]_systemVars
             PROVE  WireInv'
  OBVIOUS
<1>1. CASE UNCHANGED systemVars
  BY <1>1 DEF systemVars, serverVars, kernelVars, clientVars, netVars, WireInv
<1>2. CASE Admits
  <2>1. outbox' = outbox
    BY <1>2 DEF Admits
  <2>2. CASE backlog' = backlog
    BY <1>2, <2>1, <2>2 DEF Admits, WireInv, netVars
  <2>3. CASE backlog' # backlog
    <3>1. /\ waiting' = Tail(waiting)
          /\ backlog' = backlog - 1
          /\ conn' = conn \/ (conn' = [conn EXCEPT ![Head(waiting)] = nextfd] /\ nextfd \in Sockets)
      BY <1>2, <2>3 DEF Admits, Accept
    <3>2. backlog \in Nat /\ backlog # 0
      BY <1>2 DEF Admits, Accept, ServerIInv, LoopInv, KernelInv
    <3>3. waiting # << >> /\ Head(waiting) \in Clients
      BY <3>2 DEF WireInv
    <3>4. Tail(waiting) \in Seq(Clients) /\ Len(Tail(waiting)) = backlog - 1
      BY <3>3 DEF WireInv
    <3>5. conn' \in [Clients -> Sockets \cup {0}]
      BY <3>1, <3>3 DEF WireInv
    <3> QED
      BY <2>1, <3>1, <3>4, <3>5 DEF WireInv
  <2> QED
    BY <2>2, <2>3
<1>3. CASE Turns
  BY <1>3 DEF Turns, Select, RecvZero, RecvError, Skip, kernelVars, clientVars, netVars,
              WireInv
<1>4. ASSUME NEW k \in 1 .. MaxConnect, Serves(k)
      PROVE  WireInv'
  <2>1. /\ RecvRequest(k)
        /\ IF up' THEN outbox' = outbox ELSE outbox' = [c \in Clients |-> << >>]
        /\ UNCHANGED netVars
    BY <1>4, Zenon DEF Serves
  <2>2. backlog' = backlog
    BY <2>1 DEF RecvRequest
  <2>3. outbox' \in [Clients -> Seq(ClientMessages)]
    <3> DEFINE none == [c \in Clients |-> << >>]
    <3>1. none \in [Clients -> Seq(ClientMessages)]
      <4>1. << >> \in Seq(ClientMessages)
        OBVIOUS
      <4> QED
        BY <4>1
    <3> HIDE DEF none
    <3>2. outbox' = outbox \/ outbox' = none
      BY <2>1, Zenon DEF none
    <3> QED
      BY <3>1, <3>2 DEF WireInv
  <2> QED
    BY <2>1, <2>2, <2>3 DEF WireInv, netVars
<1>5. ASSUME NEW c \in Clients, Joins(c)
      PROVE  WireInv'
  <2>1. /\ waiting' = Append(waiting, c) /\ backlog' = backlog + 1
        /\ UNCHANGED <<outbox, conn>>
    BY <1>5 DEF Joins, Starts, Connect
  <2> QED
    BY <2>1 DEF WireInv
<1>6. ASSUME NEW c \in Clients, Transmit(c)
      PROVE  WireInv'
  <2>1. /\ outbox' = [outbox EXCEPT ![c] = Tail(@)] /\ outbox[c] # << >>
        /\ UNCHANGED <<waiting, conn, backlog>>
    BY <1>6 DEF Transmit, PeerSends, netVars
  <2>2. Tail(outbox[c]) \in Seq(ClientMessages)
    BY <2>1 DEF WireInv
  <2> QED
    BY <2>1, <2>2 DEF WireInv
<1>7. ASSUME NEW c \in Clients, Hangup(c)
      PROVE  WireInv'
  BY <1>7 DEF Hangup, PeerCloses, PeerResets, netVars, WireInv
<1>8. ASSUME NEW c \in Clients, ClientStep(c), UNCHANGED <<serverVars, netVars>>
      PROVE  WireInv'
  BY <1>8, ClientStepWire
<1> QED
  BY <1>1, <1>2, <1>3, <1>4, <1>5, <1>6, <1>7, <1>8 DEF SystemNext, ServerLoop

LEMMA SystemInitWire == SystemInit => WireInv
BY DEF SystemInit, ServerInit, ClientInit, WireInv

\* Whatever a step is to the clients, to the server it is a step of its loop
\* or of a peer that connects, sends one of Requests, closes or resets.
LEMMA SystemStepServes ==
  WireInv /\ [SystemNext]_systemVars => [ServerNext]_serverVars
<1> SUFFICES ASSUME WireInv, [SystemNext]_systemVars
             PROVE  [ServerNext]_serverVars
  OBVIOUS
<1>1. CASE UNCHANGED serverVars
  BY <1>1
<1>2. CASE ServerLoop
  BY <1>2 DEF ServerLoop, Admits, Turns, Serves, ServerNext, Loop
<1>3. ASSUME NEW c \in Clients, Joins(c)
      PROVE  ServerNext
  BY <1>3 DEF Joins, ServerNext, Environment
<1>4. ASSUME NEW c \in Clients, Transmit(c)
      PROVE  ServerNext
  <2>1. conn[c] \in Sockets
    BY <1>4 DEF Transmit, WireInv
  <2>2. Head(outbox[c]) \in ClientMessages
    BY <1>4 DEF Transmit, WireInv
  <2>3. Parsed(Head(outbox[c])) \in Requests
    BY <2>2, SystemAssumption DEF ClientRequests
  <2> QED
    BY <1>4, <2>1, <2>3 DEF Transmit, ServerNext, Environment
<1>5. ASSUME NEW c \in Clients, Hangup(c)
      PROVE  ServerNext
  <2>1. conn[c] \in Sockets
    BY <1>5 DEF Hangup, WireInv
  <2> QED
    BY <1>5, <2>1 DEF Hangup, ServerNext, Environment
<1> QED
  BY <1>1, <1>2, <1>3, <1>4, <1>5 DEF SystemNext, systemVars

LEMMA SystemInductive == SystemSpec => [](WireInv /\ ServerIInv)
<1>1. SystemInit => WireInv /\ ServerIInv
  BY SystemInitWire, ServerInitInv DEF SystemInit
<1>2. WireInv /\ ServerIInv /\ [SystemNext]_systemVars => WireInv' /\ ServerIInv'
  BY SystemStepWire, SystemStepServes, ServerStepKeepsInv
<1> QED
  BY <1>1, <1>2, PTL DEF SystemSpec

\* The server between its clients is the server of module Server: its peers
\* do nothing that one of those free peers could not do.
THEOREM SystemImplementsServer == SystemSpec => ServerSpec
<1>1. SystemInit => ServerInit
  BY DEF SystemInit
<1> QED
  BY <1>1, SystemStepServes, SystemInductive, PTL DEF SystemSpec, ServerSpec

\* So what is proved of the server holds of it here: until a restart, and a
\* client knows none, a friend request is only sent over a connection on which
\* one of its two users has signed in.
THEOREM SystemPrivate == SystemSpec => []RequestsStayPrivate
BY SystemImplementsServer, RequestsPrivate

\* The same for presence: the departure of a client (main.c:196) sets no
\* account offline whose socket is still in the table.
THEOREM SystemKeepsSessions == SystemSpec => LiveSessionKept
BY SystemImplementsServer, SessionsKept

-----------------------------------------------------------------------------
(* What ends the server.                                                   *)

\* The client sends no answer to a friend request that its handler can parse;
\* what else cannot be parsed is a sign-out.
LEMMA RequestCodes ==
  ASSUME NEW req \in ClientRequests
  PROVE  /\ req.code \notin {"ADD_FRIEND_ADMIT", "ADD_FRIEND_REFUSE"}
         /\ req.code = "UNPARSABLE" =>
              \E code \in {"SIGN_OUT", "ADD_FRIEND_ADMIT", "ADD_FRIEND_REFUSE"} :
                req = NotParsed(code)
<1> DEFINE typed == UNION {TypedSign[c] : c \in Clients}
           signs == {PackMsg(code, PackSignData(sd)) :
                       code \in {"SIGN_IN", "SIGN_UP"}, sd \in typed}
           asks  == {PackMsg("ADD_FRIEND", PackAfData(afd)) : afd \in TypedPairs}
           Goal  == /\ req.code \notin {"ADD_FRIEND_ADMIT", "ADD_FRIEND_REFUSE"}
                    /\ req.code = "UNPARSABLE" =>
                         \E code \in {"SIGN_OUT", "ADD_FRIEND_ADMIT", "ADD_FRIEND_REFUSE"} :
                           req = NotParsed(code)
<1>1. ClientMessages = signs \cup asks \cup
        {PackMsg("PULL_FRIENDS_LIST", Sentence(ListText)), PackMsg("SIGN_OUT", Sentence("sign out"))} \cup
        Answer("ADD_FRIEND_ADMIT") \cup Answer("ADD_FRIEND_REFUSE")
  BY DEF ClientMessages
<1>2. PICK msg \in ClientMessages : req = Parsed(msg)
  BY DEF ClientRequests
<1>3. \A code, data : PackMsg(code, data).code = code /\ PackMsg(code, data).data = data
  BY DEF PackMsg
<1>4. \A code : NotParsed(code).code = "UNPARSABLE"
  BY DEF NotParsed
<1>5. ASSUME NEW code \in {"SIGN_IN", "SIGN_UP"}, NEW sd, msg = PackMsg(code, PackSignData(sd))
      PROVE  Goal
  <2>1. msg.code = code /\ HasMembers(msg.data, SignMembers)
    BY <1>3, <1>5 DEF PackSignData, HasMembers
  <2>2. req = [code |-> code, data |-> ParseSignData(msg.data)]
    BY <1>2, <2>1 DEF Parsed
  <2> QED
    BY <2>2
<1>6. ASSUME NEW afd, msg = PackMsg("ADD_FRIEND", PackAfData(afd))
      PROVE  Goal
  <2>1. msg.code = "ADD_FRIEND" /\ HasMembers(msg.data, AfMembers)
    BY <1>3, <1>6 DEF PackAfData, HasMembers
  <2>2. req = [code |-> "ADD_FRIEND", data |-> ParseAfData(msg.data)]
    BY <1>2, <2>1 DEF Parsed
  <2> QED
    BY <2>2
<1>7. CASE msg = PackMsg("PULL_FRIENDS_LIST", Sentence(ListText))
  <2>1. req = [code |-> "PULL_FRIENDS_LIST", data |-> msg.data.sentence]
    BY <1>2, <1>3, <1>7 DEF Parsed
  <2> QED
    BY <2>1
<1>8. ASSUME NEW code \in {"SIGN_OUT", "ADD_FRIEND_ADMIT", "ADD_FRIEND_REFUSE"}, NEW text,
             msg = PackMsg(code, Sentence(text))
      PROVE  Goal
  <2>1. msg.code = code /\ "object" \notin DOMAIN msg.data
    BY <1>3, <1>8 DEF Sentence
  <2>2. req = NotParsed(code)
    BY <1>2, <2>1 DEF Parsed, HasMembers
  <2> QED
    BY <1>4, <2>2
<1>9. \/ msg \in signs
      \/ msg \in asks
      \/ msg = PackMsg("PULL_FRIENDS_LIST", Sentence(ListText))
      \/ \E code \in {"SIGN_OUT", "ADD_FRIEND_ADMIT", "ADD_FRIEND_REFUSE"} :
           \E text : msg = PackMsg(code, Sentence(text))
  <2> HIDE DEF signs, asks
  <2> QED
    BY <1>1 DEF Answer
<1> QED
  BY <1>5, <1>6, <1>7, <1>8, <1>9

\* What waits at the server was sent by clients, so no friendship is ever
\* stored that list_friends could fault on (friend.c:55).
PlainInv ==
  /\ inbuf \in [Sockets -> Seq(ClientRequests)]
  /\ \A row \in tb_friend : row.relation \notin {2, 4}

LEMMA ServePlain ==
  ASSUME DataInv, PlainInv, NEW req \in ClientRequests, NEW s \in Sockets, Serve(s, req)
  PROVE  \A row \in tb_friend' : row.relation \notin {2, 4}
<1>1. CASE UNCHANGED tb_friend
  BY <1>1 DEF PlainInv
<1>2. ASSUME NEW rows \in SUBSET tb_friend, NEW code \in {1, 3}, SetRelation(rows, code)
      PROVE  \A row \in tb_friend' : row.relation \notin {2, 4}
  BY <1>2 DEF SetRelation, PlainInv, DataInv, FriendTypeOK, FriendRow
<1>3. ASSUME NEW d \in FriendData, AddStranger(d, s)
      PROVE  \A row \in tb_friend' : row.relation \notin {2, 4}
  BY <1>1, <1>3 DEF AddStranger, InsertFriend, FirstRequest, PlainInv
<1>4. ASSUME NEW d \in FriendData, NEW row \in Found(d), AddKnown(d, s, row)
      PROVE  \A r \in tb_friend' : r.relation \notin {2, 4}
  <2>1. {row} \in SUBSET tb_friend
    BY DEF Found, FriendRows
  <2> QED
    BY <1>1, <1>2, <1>4, <2>1 DEF AddKnown
<1>5. CASE req.code = "ADD_FRIEND"
  <2>1. req.data \in FriendData
    BY <1>5, RequestData, SystemAssumption, ServerAssumption
  <2> QED
    BY <1>3, <1>4, <1>5, <2>1 DEF Serve, AddFriend
<1>6. CASE req.code # "ADD_FRIEND"
  BY <1>1, <1>6, RequestCodes DEF Serve, ListFriends, dbVars
<1> QED
  BY <1>5, <1>6

LEMMA SystemStepPlain ==
  WireInv /\ ServerIInv /\ PlainInv /\ [SystemNext]_systemVars => PlainInv'
<1> SUFFICES ASSUME WireInv, ServerIInv, PlainInv, [SystemNext]_systemVars
             PROVE  PlainInv'
  OBVIOUS
<1>1. CASE UNCHANGED <<inbuf, tb_friend>>
  BY <1>1 DEF PlainInv
<1>2. ASSUME NEW k \in 1 .. MaxConnect, RecvRequest(k)
      PROVE  PlainInv'
  <2> DEFINE s == clients[k]
  <2>1. s \in Sockets /\ inbuf[s] # << >>
    BY <1>2, ServerAssumption DEF RecvRequest, Visits, ServerIInv, TableInv
  <2>2. inbuf[s] \in Seq(ClientRequests) /\ Head(inbuf[s]) \in ClientRequests
    BY <2>1 DEF PlainInv
  <2>3. \A row \in tb_friend' : row.relation \notin {2, 4}
    BY <1>2, <2>1, <2>2, ServePlain DEF RecvRequest, ServerIInv
  <2>4. PICK n \in 1 .. Len(inbuf[s]) :
          inbuf' = [inbuf EXCEPT ![s] = SubSeq(@, n + 1, Len(@))]
    BY <1>2 DEF RecvRequest
  <2>5. SubSeq(inbuf[s], n + 1, Len(inbuf[s])) \in Seq(ClientRequests)
    BY <2>2
  <2>6. inbuf' \in [Sockets -> Seq(ClientRequests)]
    BY <2>1, <2>4, <2>5 DEF PlainInv
  <2> QED
    BY <2>3, <2>6 DEF PlainInv
<1>3. ASSUME NEW c \in Clients, Transmit(c)
      PROVE  PlainInv'
  <2>1. conn[c] \in Sockets /\ Head(outbox[c]) \in ClientMessages
    BY <1>3 DEF Transmit, WireInv
  <2>2. Parsed(Head(outbox[c])) \in ClientRequests
    BY <2>1 DEF ClientRequests
  <2>3. Append(inbuf[conn[c]], Parsed(Head(outbox[c]))) \in Seq(ClientRequests)
    BY <2>1, <2>2 DEF PlainInv
  <2> QED
    BY <1>3, <2>1, <2>3 DEF Transmit, PeerSends, PlainInv, dbVars
<1> QED
  BY <1>1, <1>2, <1>3
     DEF SystemNext, ServerLoop, Admits, Accept, AcceptFailed, Turns, Select, RecvZero,
         RecvError, Skip, Serves, Joins, Connect, Hangup, PeerCloses, PeerResets,
         serverVars, systemVars, kernelVars, dbVars

LEMMA SystemInitPlain == SystemInit => PlainInv
<1>1. << >> \in Seq(ClientRequests)
  OBVIOUS
<1> QED
  BY <1>1 DEF SystemInit, ServerInit, FriendInit, PlainInv

\* The handler gave a message to send() for a connection that was reset.
SentToBroken == \E k \in DOMAIN out' : out'[k].to \in broken

LEMMA SendEnds ==
  ASSUME NEW msgs, Send(msgs), ~up'
  PROVE  SentToBroken
BY DEF Send, SentToBroken

LEMMA ServeEnds ==
  ASSUME PlainInv, NEW req \in ClientRequests, NEW s \in Sockets, Serve(s, req), up, ~up'
  PROVE  \/ \E code \in {"SIGN_OUT", "ADD_FRIEND_ADMIT", "ADD_FRIEND_REFUSE"} :
              req = NotParsed(code)
         \/ SentToBroken
<1>1. ASSUME NEW msgs, Send(msgs) PROVE SentToBroken
  BY <1>1, SendEnds
<1>2. ASSUME NEW d, AddFriend(d, s) PROVE SentToBroken
  BY <1>1, <1>2 DEF AddFriend, AddStranger, AddKnown, Reply
<1>3. ASSUME NEW name, ListFriends(name, s) PROVE SentToBroken
  BY <1>1, <1>3 DEF ListFriends, Reply, PlainInv
<1>4. ASSUME NEW sd, AccountRequest(sd, s) PROVE SentToBroken
  BY <1>1, <1>4 DEF AccountRequest, SignUp, SignDel, SignIn, SignOut, Reply
<1> QED
  BY <1>1, <1>2, <1>3, <1>4, RequestCodes DEF Serve, AccountRequest

\* list_friends faults on the first friendship it meets (friend.c:55), but no
\* user of client main.c can bring one about: each end of the process is the
\* step in which it reads a sign-out or an answer, whose data is a sentence, or
\* in which the handler itself sends to a connection that was reset.
THEOREM SystemEndsOnlyBy == SystemSpec => ServerEndsOnlyBy
<1> DEFINE Ends == \/ \E s \in Sockets,
                         code \in {"SIGN_OUT", "ADD_FRIEND_ADMIT", "ADD_FRIEND_REFUSE"} :
                        Reads(s) /\ Head(inbuf[s]) = NotParsed(code)
                   \/ SentToBroken
<1>1. ASSUME WireInv, ServerIInv, PlainInv, [SystemNext]_systemVars, up, ~up'
      PROVE  Ends
  <2>1. PICK k \in 1 .. MaxConnect : RecvRequest(k)
    BY <1>1
       DEF SystemNext, ServerLoop, Admits, Accept, AcceptFailed, Turns, Select, RecvZero,
           RecvError, Skip, Serves, Joins, Connect, Transmit, PeerSends, Hangup,
           PeerCloses, PeerResets, PeerReset, serverVars, systemVars
  <2> DEFINE s == clients[k]
  <2>2. s \in Sockets /\ inbuf[s] # << >>
    BY <1>1, <2>1, ServerAssumption DEF RecvRequest, Visits, ServerIInv, TableInv
  <2>3. inbuf[s] \in Seq(ClientRequests) /\ Head(inbuf[s]) \in ClientRequests
    BY <1>1, <2>2 DEF PlainInv
  <2>4. PICK n \in 1 .. Len(inbuf[s]) :
          inbuf' = [inbuf EXCEPT ![s] = SubSeq(@, n + 1, Len(@))]
    BY <2>1 DEF RecvRequest
  <2>5. inbuf'[s] = SubSeq(inbuf[s], n + 1, Len(inbuf[s]))
    BY <1>1, <2>2, <2>4 DEF PlainInv
  <2>6. Reads(s)
    BY <2>3, <2>5 DEF Reads
  <2>7. Serve(s, Head(inbuf[s]))
    BY <2>1 DEF RecvRequest
  <2>8. \/ \E code \in {"SIGN_OUT", "ADD_FRIEND_ADMIT", "ADD_FRIEND_REFUSE"} :
             Head(inbuf[s]) = NotParsed(code)
        \/ SentToBroken
    BY <1>1, <2>2, <2>3, <2>7, ServeEnds
  <2> QED
    BY <2>2, <2>6, <2>8
<1>2. SystemSpec => [](WireInv /\ ServerIInv /\ PlainInv)
  BY SystemInitPlain, SystemInductive, SystemStepPlain, PTL DEF SystemSpec
<1>3. WireInv /\ ServerIInv /\ PlainInv /\ [SystemNext]_systemVars =>
        [up /\ ~up' => Ends]_systemVars
  BY <1>1
<1>4. Ends <=> \/ \E s \in Sockets,
                     code \in {"SIGN_OUT", "ADD_FRIEND_ADMIT", "ADD_FRIEND_REFUSE"} :
                    Reads(s) /\ Head(inbuf[s]) = NotParsed(code)
               \/ \E k \in DOMAIN out' : out'[k].to \in broken
  BY DEF SentToBroken
<1>5. ServerEndsOnlyBy <=> [][up /\ ~up' => Ends]_systemVars
  BY <1>4 DEF ServerEndsOnlyBy, SentToBroken
<1> HIDE DEF Ends
<1> QED
  BY <1>2, <1>3, <1>5, PTL DEF SystemSpec

-----------------------------------------------------------------------------
(* Who gets to the menu.                                                   *)

Inner == {"menu", "friends", "prompt"}

\* Somebody has signed in over the connection of c.
SignedIn(c) == conn[c] # 0 /\ session[conn[c]] # {}

LoginMessages == {msg \in ClientMessages : msg.code \in {"SIGN_IN", "SIGN_UP"}}
LoginRequests == {req \in ClientRequests : req.code \in {"SIGN_IN", "SIGN_UP", "UNPARSABLE"}}
LoginReplies  == {"SIGN_UP_SUCCESS", "SIGN_UP_DUP_USER", "SIGN_IN_PW_ERROR", "SIGN_IN_NO_USER"}

\* A client at the login menu, and all that is under way to and from it.
AtLogin(c) ==
  /\ \A t \in Threads : at[c][t] \notin Inner
  /\ inbox[c] \in Seq(LoginReplies)
  /\ outbox[c] \in Seq(LoginMessages)
  /\ conn[c] # 0 => inbuf[conn[c]] \in Seq(LoginRequests)

ClientInv ==
  /\ at \in [Clients -> [Threads -> Places]]
  /\ inbox = [c \in Clients |-> inbox[c]]
  /\ \A c \in Clients : SignedIn(c) \/ AtLogin(c)

\* A client is accepted at most once, on a descriptor of its own.
ConnInv ==
  /\ boots = 1
  /\ \A c, d \in Clients : conn[c] = conn[d] /\ conn[c] # 0 => c = d
  /\ \A c \in Clients : conn[c] < nextfd
  /\ \A s \in Sockets : s >= nextfd => inbuf[s] = << >>
  /\ \A j, k \in DOMAIN waiting : waiting[j] = waiting[k] => j = k
  /\ \A k \in DOMAIN waiting : conn[waiting[k]] = 0 /\ at[waiting[k]]["main"] # "off"
  /\ \A c \in Clients : at[c]["main"] = "off" => conn[c] = 0

\* A thread that goes on changes nothing of another thread or client.
LEMMA GoesTo ==
  ASSUME ClientInv, NEW c \in Clients, NEW t \in Threads, NEW place \in Places \ {"off"},
         Goes(c, t, place)
  PROVE  /\ at' \in [Clients -> [Threads -> Places]]
         /\ \A d \in Clients \ {c} : at'[d] = at[d]
         /\ \A u \in Threads : at'[c][u] = IF u = t THEN place ELSE at[c][u]
<1>1. at \in [Clients -> [Threads -> Places]] /\ at' = [at EXCEPT ![c][t] = place]
  BY DEF ClientInv, Goes
<1> QED
  BY <1>1

LEMMA ExitsTo ==
  ASSUME ClientInv, NEW c \in Clients, Exits(c)
  PROVE  /\ at' \in [Clients -> [Threads -> Places]]
         /\ \A d \in Clients \ {c} : at'[d] = at[d]
         /\ \A u \in Threads : at'[c][u] = "gone"
<1>1. at \in [Clients -> [Threads -> Places]]
      /\ at' = [at EXCEPT ![c] = [t \in Threads |-> "gone"]]
  BY DEF ClientInv, Exits
<1>2. "gone" \in Places
  BY DEF Places
<1>3. [t \in Threads |-> "gone"] \in [Threads -> Places]
  BY <1>2
<1> QED
  BY <1>1, <1>3

\* A step of client c is one of a thread that goes on, or of the process.
LEMMA ClientMoves ==
  ASSUME NEW c \in Clients, ClientStep(c)
  PROVE  Exits(c) \/ \E t \in Threads, place \in Places \ {"off"} : Goes(c, t, place)
<1>1. /\ "main" \in Threads /\ "recv_work" \in Threads
      /\ {"login", "menu", "friends", "prompt", "recv", "ended"} \subseteq Places \ {"off"}
  BY DEF Threads, Places, Prompts
<1>2. ASSUME NEW t \in Threads, NEW msg, NEW place \in Places \ {"off"},
             SendMsg(c, t, msg, place)
      PROVE  Exits(c) \/ Goes(c, t, place)
  BY <1>2 DEF SendMsg
<1>3. CASE FunLogin(c)
  BY <1>1, <1>2, <1>3 DEF FunLogin, SendNothing
<1>4. ASSUME NEW t \in Threads, FunMain(c, t)
      PROVE  Exits(c) \/ \E place \in Places \ {"off"} : Goes(c, t, place)
  BY <1>1, <1>2, <1>4 DEF FunMain, SendNothing
<1>5. ASSUME NEW t \in Threads, AnswerRequest(c, t)
      PROVE  Exits(c) \/ \E place \in Places \ {"off"} : Goes(c, t, place)
  BY <1>1, <1>2, <1>5 DEF AnswerRequest
<1>6. ASSUME NEW t \in Threads, Receive(c, t)
      PROVE  \E place \in Places \ {"off"} : Goes(c, t, place)
  <2>1. \A code : Shows(code) \in Places \ {"off"}
    BY <1>1 DEF Shows
  <2> QED
    BY <1>1, <1>6, <2>1 DEF Receive
<1>7. CASE FriendMain(c) \/ RecvWorkEnds(c) \/ Interrupt(c)
  BY <1>1, <1>7 DEF FriendMain, RecvWorkEnds, Interrupt
<1> QED
  BY <1>3, <1>4, <1>5, <1>6, <1>7 DEF ClientStep

LEMMA ClientMovesOnly ==
  ASSUME ClientInv, WireInv, NEW c \in Clients, ClientStep(c)
  PROVE  /\ at' \in [Clients -> [Threads -> Places]]
         /\ inbox' = [d \in Clients |-> inbox'[d]]
         /\ \A d \in Clients \ {c} :
              at'[d] = at[d] /\ inbox'[d] = inbox[d] /\ outbox'[d] = outbox[d]
         /\ \A u \in Threads : at'[c][u] = "off" => at[c][u] = "off"
<1>1. /\ at' \in [Clients -> [Threads -> Places]]
      /\ \A d \in Clients \ {c} : at'[d] = at[d]
      /\ \A u \in Threads : at'[c][u] = "off" => at[c][u] = "off"
  BY ClientMoves, GoesTo, ExitsTo
<1>2. inbox' = inbox \/ \E q : inbox' = [inbox EXCEPT ![c] = q]
  BY DEF ClientStep, FunLogin, FunMain, AnswerRequest, FriendMain, RecvWorkEnds,
         Interrupt, Receive
<1>3. outbox' = outbox \/ \E q : outbox' = [outbox EXCEPT ![c] = q]
  BY DEF ClientStep, FunLogin, FunMain, AnswerRequest, FriendMain, RecvWorkEnds,
         Interrupt, Receive, SendMsg, SendNothing
<1>4. /\ inbox' = [d \in Clients |-> inbox'[d]]
      /\ \A d \in Clients \ {c} : inbox'[d] = inbox[d]
  BY <1>2 DEF ClientInv
<1>5. \A d \in Clients \ {c} : outbox'[d] = outbox[d]
  BY <1>3 DEF WireInv
<1> QED
  BY <1>1, <1>4, <1>5

\* From the login menu there is no way on but by a reply.
LEMMA LoginStays ==
  ASSUME ClientInv, WireInv, NEW c \in Clients, AtLogin(c), ClientStep(c),
         UNCHANGED <<serverVars, netVars>>
  PROVE  AtLogin(c)'
<1>1. conn' = conn /\ inbuf' = inbuf
  BY DEF serverVars, kernelVars, netVars
<1>2. ASSUME NEW t \in Threads, NEW place \in Places \ {"off"}, Goes(c, t, place),
             place \notin Inner
      PROVE  \A u \in Threads : at'[c][u] \notin Inner
  BY <1>2, GoesTo DEF AtLogin
<1>3. ASSUME Exits(c)
      PROVE  \A u \in Threads : at'[c][u] \notin Inner
  BY <1>3, ExitsTo DEF Inner
<1>4. /\ "main" \in Threads /\ "recv_work" \in Threads
      /\ {"login", "recv", "ended"} \subseteq Places \ {"off"}
      /\ {"login", "recv", "ended"} \cap Inner = {}
  BY DEF Threads, Places, Prompts, Inner
<1>5. CASE FunLogin(c)
  <2>1. inbox' = inbox
    BY <1>5 DEF FunLogin
  <2>2. ASSUME NEW sd \in TypedSign[c], NEW code \in {"SIGN_IN", "SIGN_UP"},
               SendMsg(c, "main", PackMsg(code, PackSignData(sd)), "recv")
        PROVE  AtLogin(c)'
    <3> DEFINE msg == PackMsg(code, PackSignData(sd))
    <3>1. msg \in ClientMessages
      BY MessagesSent
    <3>2. msg.code = code
      BY DEF PackMsg
    <3>3. msg \in LoginMessages
      BY <3>1, <3>2 DEF LoginMessages
    <3> HIDE DEF msg
    <3>4. SendMsg(c, "main", msg, "recv")
      BY <2>2 DEF msg
    <3>5. outbox'[c] = outbox[c] \/ outbox'[c] = Append(outbox[c], msg)
      BY <3>4 DEF SendMsg, WireInv
    <3>6. outbox'[c] \in Seq(LoginMessages)
      BY <3>3, <3>5 DEF AtLogin
    <3>7. \A u \in Threads : at'[c][u] \notin Inner
      BY <1>2, <1>3, <1>4, <3>4 DEF SendMsg
    <3> QED
      BY <1>1, <2>1, <3>6, <3>7 DEF AtLogin
  <2>3. CASE SendNothing(c, "main", "recv")
    BY <1>1, <1>2, <1>4, <2>1, <2>3 DEF SendNothing, AtLogin
  <2>4. CASE Exits(c) /\ UNCHANGED outbox
    BY <1>1, <1>3, <2>1, <2>4 DEF AtLogin
  <2> QED
    BY <1>5, <2>2, <2>3, <2>4 DEF FunLogin
<1>6. CASE (\E t \in Threads : FunMain(c, t) \/ AnswerRequest(c, t)) \/ FriendMain(c)
  BY <1>4, <1>6 DEF AtLogin, Inner, FunMain, AnswerRequest, FriendMain
<1>7. ASSUME NEW t \in Threads, Receive(c, t)
      PROVE  AtLogin(c)'
  <2>1. outbox' = outbox
    BY <1>7 DEF Receive
  <2>2. inbox[c] \in Seq(LoginReplies) /\ inbox[c] # << >>
    BY <1>7 DEF Receive, AtLogin
  <2>3. PICK n \in 1 .. Len(inbox[c]) :
          inbox' = [inbox EXCEPT ![c] = SubSeq(@, n + 1, Len(@))]
    BY <1>7 DEF Receive
  <2>4. inbox'[c] = SubSeq(inbox[c], n + 1, Len(inbox[c]))
    BY <2>3 DEF ClientInv
  <2>5. inbox'[c] \in Seq(LoginReplies)
    BY <2>2, <2>4
  <2>6. Head(inbox[c]) \in LoginReplies
    BY <2>2
  <2>7. Shows(Head(inbox[c])) = "login"
    BY <2>6 DEF Shows, LoginReplies
  <2>8. Goes(c, t, "login") \/ Goes(c, t, "recv")
    BY <1>7, <2>7 DEF Receive
  <2>9. \A u \in Threads : at'[c][u] \notin Inner
    BY <1>2, <1>4, <2>8
  <2> QED
    BY <1>1, <2>1, <2>5, <2>9 DEF AtLogin
<1>8. CASE RecvWorkEnds(c)
  BY <1>1, <1>2, <1>4, <1>8 DEF RecvWorkEnds, AtLogin
<1>9. CASE Interrupt(c)
  BY <1>1, <1>3, <1>9 DEF Interrupt, AtLogin
<1> QED
  BY <1>5, <1>6, <1>7, <1>8, <1>9 DEF ClientStep

\* A step of a client keeps what is known of all clients.
LEMMA ClientStepSafe ==
  ASSUME ClientInv, ConnInv, WireInv, NEW c \in Clients, ClientStep(c),
         UNCHANGED <<serverVars, netVars>>
  PROVE  ClientInv' /\ ConnInv'
<1>1. /\ UNCHANGED <<conn, waiting, session, inbuf, boots, nextfd>>
      /\ waiting \in Seq(Clients)
  BY DEF serverVars, kernelVars, netVars, WireInv
<1>2. /\ at' \in [Clients -> [Threads -> Places]]
      /\ inbox' = [d \in Clients |-> inbox'[d]]
      /\ \A d \in Clients \ {c} :
           at'[d] = at[d] /\ inbox'[d] = inbox[d] /\ outbox'[d] = outbox[d]
      /\ \A u \in Threads : at'[c][u] = "off" => at[c][u] = "off"
  BY ClientMovesOnly
<1>3. \A d \in Clients : SignedIn(d)' = SignedIn(d)
  BY <1>1 DEF SignedIn
<1>4. \A d \in Clients \ {c} : AtLogin(d) => AtLogin(d)'
  BY <1>1, <1>2 DEF AtLogin
<1>5. ClientInv'
  BY <1>2, <1>3, <1>4, LoginStays DEF ClientInv
<1>6. \A d \in Clients : at'[d]["main"] = "off" => at[d]["main"] = "off"
  BY <1>2 DEF Threads
<1>7. \A k \in DOMAIN waiting : waiting[k] \in Clients
  BY <1>1
<1>8. ConnInv'
  BY <1>1, <1>6, <1>7 DEF ConnInv
<1> QED
  BY <1>5, <1>8

\* What serve() sends to a client at the login menu.
LEMMA ServeReplies ==
  ASSUME NEW req \in ClientRequests, NEW s \in Sockets, Serve(s, req), out' # << >>,
         Head(out').code # "ADD_FRIEND_REQUEST"
  PROVE  /\ Head(out').to = s
         /\ req \in LoginRequests =>
              \/ Head(out').code \in LoginReplies
              \/ req.code = "SIGN_IN" /\ out' = <<[to |-> s, code |-> "SIGN_IN_SUCCESS"]>>
<1>1. ASSUME NEW code, Reply(s, code)
      PROVE  Head(out').to = s /\ Head(out').code = code
  BY <1>1 DEF Reply, Send
<1>2. CASE req.code = "SIGN_UP"
  BY <1>1, <1>2 DEF Serve, SignUp, LoginReplies
<1>3. CASE req.code = "SIGN_IN"
  <2>1. ASSUME Reply(s, "SIGN_IN_SUCCESS")
        PROVE  out' = <<[to |-> s, code |-> "SIGN_IN_SUCCESS"]>>
    BY <2>1 DEF Reply, Send
  <2> QED
    BY <1>1, <1>3, <2>1 DEF Serve, SignIn, LoginReplies
<1>4. CASE req.code = "UNPARSABLE"
  BY <1>4 DEF Serve, Unparsable, Die
<1>5. CASE req.code \notin {"SIGN_UP", "SIGN_IN", "UNPARSABLE"}
  <2>1. req \notin LoginRequests
    BY <1>5 DEF LoginRequests
  <2>2. CASE req.code \in {"SIGN_DEL", "SIGN_OUT"}
    BY <1>1, <2>1, <2>2 DEF Serve, SignDel, SignOut
  <2>3. CASE req.code = "PULL_FRIENDS_LIST"
    BY <1>1, <2>1, <2>3 DEF Serve, ListFriends, Die
  <2>4. CASE req.code = "ADD_FRIEND"
    <3>1. AddFriend(req.data, s)
      BY <2>4 DEF Serve
    <3>2. ASSUME NEW x, Send(RequestTo(x, req.data)) PROVE FALSE
      BY <3>2 DEF Send, RequestTo
    <3>3. ASSUME NEW code, Send(<<[to |-> s, code |-> code, data |-> req.data]>>)
          PROVE  Head(out').to = s
      BY <3>3 DEF Send
    <3> QED
      BY <1>1, <2>1, <3>1, <3>2, <3>3 DEF AddFriend, AddStranger, AddKnown
  <2>5. CASE req.code \in {"ADD_FRIEND_ADMIT", "ADD_FRIEND_REFUSE"}
    BY <2>5, RequestCodes
  <2>6. CASE req.code = "OTHER"
    BY <2>6 DEF Serve, Send
  <2> QED
    BY <1>5, <2>2, <2>3, <2>4, <2>5, <2>6 DEF Serve
<1> QED
  BY <1>2, <1>3, <1>4, <1>5

\* Who is not signed in after a request was served gets nothing that shows
\* him a menu behind the sign-in.
LEMMA ServesSent ==
  ASSUME WireInv, ServerIInv, ServerIInv', PlainInv, ConnInv,
         NEW k \in 1 .. MaxConnect, Serves(k),
         NEW c \in Clients, ~ SignedIn(c)', AtLogin(c)
  PROVE  Sent(c) \in Seq(LoginReplies)
<1> DEFINE s == clients[k]
           req == Head(inbuf[s])
<1>1. RecvRequest(k) /\ conn' = conn
  BY DEF Serves, netVars
<1>2. s \in Sockets /\ inbuf[s] # << >>
  BY <1>1, ServerAssumption DEF RecvRequest, Visits, ServerIInv, TableInv
<1>3. req \in ClientRequests /\ Serve(s, req)
  BY <1>1, <1>2 DEF PlainInv, RecvRequest
<1>4. CASE ~(out' # << >> /\ Head(out').to = conn[c])
  BY <1>4 DEF Sent
<1>5. CASE out' # << >> /\ Head(out').to = conn[c]
  <2>1. out' \in Seq(Messages)
    BY DEF ServerIInv, DataInv, FriendTypeOK
  <2>2. Head(out') = out'[1] /\ 1 \in DOMAIN out' /\ Head(out') \in Messages
    BY <1>5, <2>1
  <2>3. conn[c] \in Sockets /\ conn[c] # 0
    <3>1. Head(out').to \in Sockets
      BY <2>2 DEF Messages
    <3> QED
      BY <1>5, <3>1, SocketsAssumption
  <2>4. session'[conn[c]] = {}
    BY <1>1, <2>3 DEF SignedIn
  <2>5. Head(out').code # "ADD_FRIEND_REQUEST"
    <3>1. boots' = 1
      BY <1>1 DEF RecvRequest, ConnInv
    <3>2. RequestsStayPrivate'
      BY DEF ServerIInv, HistoryInv
    <3> QED
      BY <1>5, <2>2, <2>4, <3>1, <3>2 DEF RequestsStayPrivate
  <2>6. s = conn[c]
    BY <1>2, <1>3, <1>5, <2>5, ServeReplies
  <2>7. req \in LoginRequests
    <3>1. inbuf[s] \in Seq(LoginRequests)
      BY <2>3, <2>6 DEF AtLogin
    <3> QED
      BY <1>2, <3>1
  <2>8. ~(req.code = "SIGN_IN" /\ out' = <<[to |-> s, code |-> "SIGN_IN_SUCCESS"]>>)
    <3> SUFFICES ASSUME req.code = "SIGN_IN",
                        out' = <<[to |-> s, code |-> "SIGN_IN_SUCCESS"]>>
                 PROVE  FALSE
      OBVIOUS
    <3>1. session' = [session EXCEPT ![s] = @ \cup {req.data.username}]
      BY <1>1 DEF RecvRequest
    <3>2. session'[s] = session[s] \cup {req.data.username}
      BY <1>2, <3>1 DEF ServerIInv, HistoryInv
    <3> QED
      BY <2>4, <2>6, <3>2
  <2>9. Head(out').code \in LoginReplies
    BY <1>2, <1>3, <1>5, <2>5, <2>7, <2>8, ServeReplies
  <2> QED
    BY <1>5, <2>9 DEF Sent
<1> QED
  BY <1>4, <1>5

LEMMA ServesSafe ==
  ASSUME WireInv, ServerIInv, ServerIInv', PlainInv, ClientInv, ConnInv,
         NEW k \in 1 .. MaxConnect, Serves(k)
  PROVE  ClientInv' /\ ConnInv'
<1> DEFINE s == clients[k]
<1>1. /\ RecvRequest(k)
      /\ at' = at /\ conn' = conn /\ waiting' = waiting
      /\ nextfd' = nextfd /\ boots' = boots
  BY DEF Serves, netVars, RecvRequest
<1>2. s \in Sockets /\ inbuf[s] # << >>
  BY <1>1, ServerAssumption DEF RecvRequest, Visits, ServerIInv, TableInv
<1>3. PICK n \in 1 .. Len(inbuf[s]) :
        inbuf' = [inbuf EXCEPT ![s] = SubSeq(@, n + 1, Len(@))]
  BY <1>1 DEF RecvRequest
<1>4. inbuf'[s] = SubSeq(inbuf[s], n + 1, Len(inbuf[s]))
      /\ \A r \in Sockets \ {s} : inbuf'[r] = inbuf[r]
  BY <1>2, <1>3 DEF PlainInv
<1>5. inbox' = [c \in Clients |-> Arrived(c)] \/ inbox' = inbox
  BY DEF Serves
<1>6. outbox' = outbox \/ outbox' = [c \in Clients |-> << >>]
  BY DEF Serves
<1>7. \A c \in Clients : SignedIn(c) => SignedIn(c)'
  <2>1. \A r \in Sockets : session[r] \subseteq session'[r]
    BY <1>1, <1>2 DEF RecvRequest, ServerIInv, HistoryInv
  <2> QED
    BY <1>1, <2>1 DEF SignedIn, WireInv
<1>8. ASSUME NEW c \in Clients, ~ SignedIn(c)'
      PROVE  AtLogin(c)'
  <2>1. AtLogin(c)
    BY <1>7, <1>8 DEF ClientInv
  <2>2. inbox'[c] \in Seq(LoginReplies)
    <3>1. Sent(c) \in Seq(LoginReplies) /\ inbox[c] \in Seq(LoginReplies)
      BY <1>8, <2>1, ServesSent DEF AtLogin
    <3>2. inbox[c] \o Sent(c) \in Seq(LoginReplies)
      BY <3>1
    <3>3. Arrived(c) = inbox[c] \/ Arrived(c) = inbox[c] \o Sent(c)
      BY DEF Arrived
    <3> DEFINE arrived == [d \in Clients |-> Arrived(d)]
    <3>4. arrived[c] = Arrived(c)
      OBVIOUS
    <3>5. inbox' = arrived \/ inbox' = inbox
      BY <1>5
    <3> HIDE DEF arrived
    <3>6. inbox'[c] = Arrived(c) \/ inbox'[c] = inbox[c]
      BY <3>4, <3>5
    <3> QED
      BY <3>1, <3>2, <3>3, <3>6
  <2>3. outbox'[c] \in Seq(LoginMessages)
    <3>1. outbox'[c] = outbox[c] \/ outbox'[c] = << >>
      BY <1>6
    <3>2. << >> \in Seq(LoginMessages)
      OBVIOUS
    <3>3. outbox[c] \in Seq(LoginMessages)
      BY <2>1 DEF AtLogin
    <3> QED
      BY <3>1, <3>2, <3>3
  <2>4. conn[c] # 0 => inbuf'[conn[c]] \in Seq(LoginRequests)
    <3> SUFFICES ASSUME conn[c] # 0 PROVE inbuf'[conn[c]] \in Seq(LoginRequests)
      OBVIOUS
    <3>1. inbuf[conn[c]] \in Seq(LoginRequests) /\ conn[c] \in Sockets
      BY <2>1 DEF AtLogin, WireInv
    <3>2. CASE conn[c] = s
      <4>1. inbuf[s] \in Seq(LoginRequests)
        BY <3>1, <3>2
      <4>2. SubSeq(inbuf[s], n + 1, Len(inbuf[s])) \in Seq(LoginRequests)
        BY <4>1
      <4>3. inbuf'[conn[c]] = SubSeq(inbuf[s], n + 1, Len(inbuf[s]))
        BY <1>4, <3>2
      <4> QED
        BY <4>2, <4>3
    <3>3. CASE conn[c] # s
      BY <1>4, <3>1, <3>3
    <3> QED
      BY <3>2, <3>3
  <2> QED
    BY <1>1, <2>1, <2>2, <2>3, <2>4 DEF AtLogin
<1>9. ClientInv'
  <2>1. inbox' = [c \in Clients |-> inbox'[c]]
    BY <1>5 DEF ClientInv
  <2> QED
    BY <1>1, <1>8, <2>1 DEF ClientInv
<1>10. ConnInv'
  <2>1. \A r \in Sockets : r >= nextfd => inbuf'[r] = << >>
    BY <1>2, <1>4 DEF ConnInv
  <2> QED
    BY <1>1, <2>1 DEF ConnInv
<1> QED
  BY <1>9, <1>10

\* A client that is accepted has sent nothing over its new connection.
LEMMA AdmitsSafe ==
  ASSUME WireInv, ServerIInv, PlainInv, ClientInv, ConnInv, Admits
  PROVE  ClientInv' /\ ConnInv'
<1>1. UNCHANGED <<at, inbox, outbox, inbuf, session, boots>>
  BY DEF Admits, Accept
<1>2. CASE backlog' = backlog
  <2>1. UNCHANGED <<conn, waiting, nextfd>>
    BY <1>2 DEF Admits, Accept, netVars, ServerIInv, KernelInv
  <2> QED
    BY <1>1, <2>1 DEF ClientInv, ConnInv, SignedIn, AtLogin
<1>3. CASE backlog' # backlog
  <2>1. backlog \in Nat /\ backlog # 0
    BY DEF Admits, Accept, ServerIInv, LoopInv, KernelInv
  <2>2. waiting \in Seq(Clients) /\ waiting # << >>
    BY <2>1 DEF WireInv
  <2>3. PICK c \in Clients : c = Head(waiting)
    BY <2>2
  <2>4. /\ waiting' = Tail(waiting)
        /\ \/ nextfd' = nextfd /\ conn' = conn
           \/ /\ nextfd \in Sockets /\ nextfd' = nextfd + 1
              /\ conn' = [conn EXCEPT ![c] = nextfd]
    BY <1>3, <2>3, SocketsAssumption, ServerAssumption
       DEF Admits, Accept, ServerIInv, TableInv
  <2>5. /\ c \in Clients /\ c = waiting[1] /\ 1 \in DOMAIN waiting
        /\ Len(waiting') = Len(waiting) - 1
        /\ \A j \in DOMAIN waiting' :
             j + 1 \in DOMAIN waiting /\ waiting'[j] = waiting[j + 1] /\ waiting'[j] \in Clients
    BY <2>4, <2>2, <2>3
  <2>6. conn[c] = 0 /\ at[c]["main"] # "off"
    BY <2>5 DEF ConnInv
  <2>7. /\ \A j, k \in DOMAIN waiting' : waiting'[j] = waiting'[k] => j = k
        /\ \A k \in DOMAIN waiting' : /\ waiting'[k] # c
                                      /\ conn[waiting'[k]] = 0
                                      /\ at[waiting'[k]]["main"] # "off"
    <3>1. DOMAIN waiting' \subseteq Nat \ {0}
      BY <2>4, <2>2
    <3>2. \A j, k \in DOMAIN waiting' : waiting'[j] = waiting'[k] => j + 1 = k + 1
      BY <2>5 DEF ConnInv
    <3>3. \A j \in DOMAIN waiting' : waiting'[j] = c => j + 1 = 1
      BY <2>5 DEF ConnInv
    <3> QED
      BY <2>5, <3>1, <3>2, <3>3 DEF ConnInv
  <2>8. CASE nextfd' = nextfd /\ conn' = conn
    <3>1. ConnInv'
      BY <1>1, <2>7, <2>8 DEF ConnInv
    <3>2. ClientInv'
      BY <1>1, <2>8 DEF ClientInv, SignedIn, AtLogin
    <3> QED
      BY <3>1, <3>2
  <2>9. CASE nextfd \in Sockets /\ nextfd' = nextfd + 1 /\ conn' = [conn EXCEPT ![c] = nextfd]
    <3>1. conn'[c] = nextfd /\ \A d \in Clients \ {c} : conn'[d] = conn[d]
      BY <2>5, <2>9 DEF WireInv
    <3>2. nextfd \in Nat \ {0} /\ \A d \in Clients : conn[d] \in Nat /\ conn[d] < nextfd
      <4>1. \A d \in Clients : conn[d] \in Sockets \cup {0}
        BY DEF WireInv
      <4>2. \A d \in Clients : conn[d] < nextfd
        BY DEF ConnInv
      <4>3. Sockets \cup {0} \subseteq Nat
        BY SocketsAssumption
      <4>4. nextfd \in Nat \ {0}
        BY <2>9, SocketsAssumption
      <4> QED
        BY <4>1, <4>2, <4>3, <4>4
    <3>3. \A d, e \in Clients : conn'[d] = conn'[e] /\ conn'[d] # 0 => d = e
      BY <3>1, <3>2 DEF ConnInv
    <3>4. \A d \in Clients : conn'[d] < nextfd'
      BY <2>9, <3>1, <3>2
    <3>5. \A s \in Sockets : s >= nextfd' => inbuf'[s] = << >>
      <4>1. \A s \in Sockets : s \in Nat /\ (s >= nextfd + 1 => s >= nextfd)
        BY <3>2, SocketsAssumption
      <4> QED
        BY <1>1, <2>9, <4>1 DEF ConnInv
    <3>6. \A k \in DOMAIN waiting' : conn'[waiting'[k]] = 0
      BY <2>5, <2>7, <3>1
    <3>7. \A d \in Clients : at'[d]["main"] = "off" => conn'[d] = 0
      BY <1>1, <2>6, <3>1 DEF ConnInv
    <3>8. ConnInv'
      BY <1>1, <2>7, <3>3, <3>4, <3>5, <3>6, <3>7 DEF ConnInv
    <3>9. \A d \in Clients \ {c} : SignedIn(d)' \/ AtLogin(d)'
      BY <1>1, <3>1 DEF ClientInv, SignedIn, AtLogin
    <3>10. AtLogin(c)'
      <4>1. AtLogin(c)
        BY <2>5, <2>6 DEF ClientInv, SignedIn
      <4>2. inbuf[nextfd] = << >>
        <5>1. nextfd >= nextfd
          BY <3>2
        <5> QED
          BY <2>9, <5>1 DEF ConnInv
      <4>3. << >> \in Seq(LoginRequests)
        OBVIOUS
      <4>4. inbuf'[conn'[c]] \in Seq(LoginRequests)
        BY <1>1, <3>1, <4>2, <4>3
      <4> QED
        BY <1>1, <4>1, <4>4 DEF AtLogin
    <3>11. ClientInv'
      BY <1>1, <2>5, <3>9, <3>10 DEF ClientInv
    <3> QED
      BY <3>8, <3>11
  <2> QED
    BY <2>4, <2>8, <2>9
<1> QED
  BY <1>2, <1>3

LEMMA JoinsSafe ==
  ASSUME WireInv, ServerIInv, ClientInv, ConnInv, NEW c \in Clients, Joins(c)
  PROVE  ClientInv' /\ ConnInv'
<1>1. /\ UNCHANGED <<conn, inbox, outbox, inbuf, session, boots, nextfd>>
      /\ waiting' = Append(waiting, c) /\ waiting \in Seq(Clients)
      /\ at[c]["main"] = "off"
  BY DEF Joins, Starts, Connect, WireInv
<1>2. /\ at' \in [Clients -> [Threads -> Places]]
      /\ \A d \in Clients \ {c} : at'[d] = at[d]
      /\ \A t \in Threads : at'[c][t] \in {"login", "recv"}
  <2> DEFINE started == [t \in Threads |-> IF t = "main" THEN "login" ELSE "recv"]
  <2>1. started \in [Threads -> Places] /\ \A t \in Threads : started[t] \in {"login", "recv"}
    BY DEF Places, Prompts
  <2>2. at' = [at EXCEPT ![c] = started]
    BY DEF Joins, Starts
  <2> HIDE DEF started
  <2> QED
    BY <2>1, <2>2 DEF ClientInv
<1>3. "main" \in Threads
  BY DEF Threads
<1>4. conn[c] = 0
  BY <1>1 DEF ConnInv
<1>5. \A k \in DOMAIN waiting : waiting[k] \in Clients /\ waiting[k] # c
  BY <1>1 DEF ConnInv
<1>6. /\ DOMAIN waiting' = DOMAIN waiting \cup {Len(waiting) + 1}
      /\ Len(waiting) + 1 \notin DOMAIN waiting
      /\ waiting'[Len(waiting) + 1] = c
      /\ \A k \in DOMAIN waiting : waiting'[k] = waiting[k]
  BY <1>1
<1>7. ConnInv'
  <2>1. \A j, k \in DOMAIN waiting' : waiting'[j] = waiting'[k] => j = k
    BY <1>5, <1>6 DEF ConnInv
  <2>2. \A k \in DOMAIN waiting' : conn'[waiting'[k]] = 0 /\ at'[waiting'[k]]["main"] # "off"
    BY <1>1, <1>2, <1>3, <1>4, <1>5, <1>6 DEF ConnInv
  <2>3. \A d \in Clients : at'[d]["main"] = "off" => conn'[d] = 0
    BY <1>1, <1>2, <1>4 DEF ConnInv
  <2> QED
    BY <1>1, <2>1, <2>2, <2>3 DEF ConnInv
<1>8. ClientInv'
  <2>1. AtLogin(c)
    BY <1>4 DEF ClientInv, SignedIn
  <2>2. AtLogin(c)'
    BY <1>1, <1>2, <2>1 DEF AtLogin, Inner
  <2>3. \A d \in Clients \ {c} : SignedIn(d)' \/ AtLogin(d)'
    BY <1>1, <1>2 DEF ClientInv, SignedIn, AtLogin
  <2> QED
    BY <1>1, <1>2, <2>2, <2>3 DEF ClientInv
<1> QED
  BY <1>7, <1>8

LEMMA TransmitSafe ==
  ASSUME WireInv, ServerIInv, PlainInv, ClientInv, ConnInv, NEW c \in Clients, Transmit(c)
  PROVE  ClientInv' /\ ConnInv'
<1> DEFINE s == conn[c]
           req == Parsed(Head(outbox[c]))
<1>1. /\ UNCHANGED <<at, inbox, conn, waiting, session, boots, nextfd>>
      /\ outbox' = [outbox EXCEPT ![c] = Tail(@)]
      /\ inbuf' = [inbuf EXCEPT ![s] = Append(@, req)]
      /\ outbox[c] # << >>
  BY DEF Transmit, PeerSends, netVars
<1>2. s \in Sockets /\ s # 0
  BY DEF Transmit, WireInv
<1>3. /\ outbox'[c] = Tail(outbox[c])
      /\ \A d \in Clients \ {c} : outbox'[d] = outbox[d]
  BY <1>1 DEF WireInv
<1>4. /\ inbuf'[s] = Append(inbuf[s], req)
      /\ \A r \in Sockets \ {s} : inbuf'[r] = inbuf[r]
  BY <1>1, <1>2 DEF PlainInv
<1>5. \A d \in Clients \ {c} : AtLogin(d) => AtLogin(d)'
  <2>1. \A d \in Clients \ {c} : conn[d] # s /\ conn[d] \in Sockets \cup {0}
    BY <1>2 DEF ConnInv, WireInv
  <2> QED
    BY <1>1, <1>3, <1>4, <2>1 DEF AtLogin
<1>6. ASSUME AtLogin(c) PROVE AtLogin(c)'
  <2>1. /\ outbox[c] \in Seq(LoginMessages)
        /\ inbuf[s] \in Seq(LoginRequests)
    BY <1>2, <1>6 DEF AtLogin
  <2>2. Head(outbox[c]) \in LoginMessages /\ Tail(outbox[c]) \in Seq(LoginMessages)
    BY <1>1, <2>1
  <2>3. req \in LoginRequests
    <3> DEFINE msg == Head(outbox[c])
    <3>1. msg \in ClientMessages /\ msg.code \in {"SIGN_IN", "SIGN_UP"}
      BY <2>2 DEF LoginMessages
    <3> HIDE DEF msg
    <3>2. Parsed(msg) \in ClientRequests
      BY <3>1 DEF ClientRequests
    <3>3. Parsed(msg).code \in {"SIGN_IN", "SIGN_UP", "UNPARSABLE"}
      BY <3>1 DEF Parsed, NotParsed
    <3> QED
      BY <3>2, <3>3 DEF LoginRequests, msg
  <2>4. Append(inbuf[s], req) \in Seq(LoginRequests)
    BY <2>1, <2>3
  <2> QED
    BY <1>1, <1>3, <1>4, <1>6, <2>2, <2>4 DEF AtLogin
<1>7. \A d \in Clients : SignedIn(d)' = SignedIn(d)
  BY <1>1 DEF SignedIn
<1>8. ClientInv'
  BY <1>1, <1>5, <1>6, <1>7 DEF ClientInv
<1>9. ConnInv'
  <2>1. \A r \in Sockets : r >= nextfd => inbuf'[r] = << >>
    <3>1. s < nextfd /\ s \in Nat
      BY <1>2, SocketsAssumption DEF ConnInv
    <3>2. nextfd \in Nat
      BY <1>1, ServerAssumption DEF ServerIInv, TableInv
    <3>3. \A r \in Sockets : r >= nextfd => r # s
      BY <3>1, <3>2
    <3>4. \A r \in Sockets : r >= nextfd => inbuf[r] = << >>
      BY DEF ConnInv
    <3> QED
      BY <1>4, <3>3, <3>4
  <2> QED
    BY <1>1, <2>1 DEF ConnInv
<1> QED
  BY <1>8, <1>9

LEMMA SystemStepSafe ==
  WireInv /\ ServerIInv /\ PlainInv /\ ClientInv /\ ConnInv /\ [SystemNext]_systemVars =>
    ClientInv' /\ ConnInv'
<1> SUFFICES ASSUME WireInv, ServerIInv, PlainInv, ClientInv, ConnInv,
                    [SystemNext]_systemVars
             PROVE  ClientInv' /\ ConnInv'
  OBVIOUS
<1>1. ServerIInv'
  BY SystemStepServes, ServerStepKeepsInv
<1>2. ASSUME UNCHANGED <<at, inbox, outbox, conn, waiting, inbuf, session, boots, nextfd>>
      PROVE  ClientInv' /\ ConnInv'
  BY <1>2 DEF ClientInv, ConnInv, SignedIn, AtLogin
<1>3. CASE UNCHANGED systemVars
  BY <1>2, <1>3 DEF systemVars, serverVars, kernelVars, clientVars, netVars
<1>4. CASE Admits
  BY <1>4, AdmitsSafe
<1>5. CASE Turns
  BY <1>2, <1>5 DEF Turns, Select, RecvZero, RecvError, Skip, kernelVars, clientVars,
                    netVars
<1>6. ASSUME NEW k \in 1 .. MaxConnect, Serves(k)
      PROVE  ClientInv' /\ ConnInv'
  BY <1>1, <1>6, ServesSafe
<1>7. ASSUME NEW c \in Clients, Joins(c)
      PROVE  ClientInv' /\ ConnInv'
  BY <1>7, JoinsSafe
<1>8. ASSUME NEW c \in Clients, Transmit(c)
      PROVE  ClientInv' /\ ConnInv'
  BY <1>8, TransmitSafe
<1>9. ASSUME NEW c \in Clients, Hangup(c)
      PROVE  ClientInv' /\ ConnInv'
  <2>1. /\ UNCHANGED <<at, conn, waiting, inbuf, session, boots, nextfd>>
        /\ inbox' = [inbox EXCEPT ![c] = << >>]
        /\ outbox' = [outbox EXCEPT ![c] = << >>]
    BY <1>9 DEF Hangup, PeerCloses, PeerResets, netVars
  <2>2. << >> \in Seq(LoginReplies) /\ << >> \in Seq(LoginMessages)
    OBVIOUS
  <2>3. /\ inbox' = [d \in Clients |-> inbox'[d]]
        /\ inbox'[c] = << >> /\ \A d \in Clients \ {c} : inbox'[d] = inbox[d]
        /\ outbox'[c] = << >> /\ \A d \in Clients \ {c} : outbox'[d] = outbox[d]
    BY <2>1 DEF ClientInv, WireInv
  <2>4. \A d \in Clients : AtLogin(d) => AtLogin(d)'
    BY <2>1, <2>2, <2>3 DEF AtLogin
  <2> QED
    BY <2>1, <2>3, <2>4 DEF ClientInv, ConnInv, SignedIn
<1>10. ASSUME NEW c \in Clients, ClientStep(c), UNCHANGED <<serverVars, netVars>>
       PROVE  ClientInv' /\ ConnInv'
  BY <1>10, ClientStepSafe
<1> QED
  BY <1>3, <1>4, <1>5, <1>6, <1>7, <1>8, <1>9, <1>10 DEF SystemNext, ServerLoop

LEMMA SystemInitSafe == SystemInit => ClientInv /\ ConnInv
<1> SUFFICES ASSUME SystemInit PROVE ClientInv /\ ConnInv
  OBVIOUS
<1>1. /\ at = [c \in Clients |-> [t \in Threads |-> "off"]]
      /\ inbox = [c \in Clients |-> << >>] /\ outbox = [c \in Clients |-> << >>]
      /\ conn = [c \in Clients |-> 0] /\ waiting = << >> /\ boots = 1
      /\ nextfd = FirstFd /\ inbuf = [s \in Sockets |-> << >>]
  BY DEF SystemInit, ServerInit, ClientInit
<1>2. << >> \in Seq(LoginReplies) /\ << >> \in Seq(LoginMessages)
  OBVIOUS
<1>3. at \in [Clients -> [Threads -> Places]] /\ "off" \notin Inner
  BY <1>1 DEF Places, Inner
<1>4. ClientInv
  BY <1>1, <1>2, <1>3 DEF ClientInv, AtLogin
<1>5. ConnInv
  <2>1. FirstFd \in Nat \ {0}
    BY ServerAssumption
  <2> QED
    BY <1>1, <2>1 DEF ConnInv
<1> QED
  BY <1>4, <1>5

\* The menu, the list of friends and a friend request (client main.c:332) are
\* never shown to a client over whose connection nobody has signed in, in
\* whatever order requests, replies and departures come.
THEOREM SystemMenuNeedsSignIn == SystemSpec => []MenuNeedsSignIn
<1>1. SystemSpec => [](PlainInv /\ ClientInv /\ ConnInv)
  BY SystemInitPlain, SystemInitSafe, SystemInductive, SystemStepPlain,
     SystemStepSafe, PTL DEF SystemSpec
<1>2. ClientInv => MenuNeedsSignIn
  BY DEF ClientInv, AtLogin, Inner, SignedIn, MenuNeedsSignIn
<1> QED
  BY <1>1, <1>2, PTL

\* What the history and the clients' ends of the connections can be.
LinkInv ==
  /\ link \in [Clients -> {"none", "up", "ended"}]
  /\ lost \in [Clients -> BOOLEAN]

LEMMA SystemStepLink == LinkInv /\ [SystemNext]_systemVars => LinkInv'
<1> SUFFICES ASSUME LinkInv, [SystemNext]_systemVars
             PROVE  LinkInv'
  OBVIOUS
<1>1. CASE UNCHANGED <<link, lost>>
  BY <1>1 DEF LinkInv
<1>2. CASE Admits
  BY <1>2 DEF Admits, LinkInv
<1>3. ASSUME NEW k \in 1 .. MaxConnect, Serves(k)
      PROVE  LinkInv'
  <2>1. \/ link' = link
        \/ link' = [c \in Clients |-> IF link[c] = "up" THEN "ended" ELSE link[c]]
    BY <1>3 DEF Serves
  <2>2. lost' = [c \in Clients |->
          lost[c] \/ (conn[c] = clients[k] /\ Len(inbuf[clients[k]]) - Len(inbuf'[clients[k]]) > 1)]
    BY <1>3 DEF Serves
  <2>3. \A c \in Clients :
          (lost[c] \/ (conn[c] = clients[k] /\ Len(inbuf[clients[k]]) - Len(inbuf'[clients[k]]) > 1))
            \in BOOLEAN
    OBVIOUS
  <2>4. lost' \in [Clients -> BOOLEAN]
    BY <2>2, <2>3, Zenon
  <2>5. link' \in [Clients -> {"none", "up", "ended"}]
    BY <2>1 DEF LinkInv
  <2> QED
    BY <2>4, <2>5 DEF LinkInv
<1>4. ASSUME NEW c \in Clients, Joins(c)
      PROVE  LinkInv'
  BY <1>4 DEF Joins, Starts, LinkInv
<1>5. ASSUME NEW c \in Clients, NEW t \in Threads, Receive(c, t)
      PROVE  LinkInv'
  <2>1. link' = link
        /\ \E b \in BOOLEAN : lost' = [lost EXCEPT ![c] = b]
    <3>1. \A n : (lost[c] \/ n > 1 \/ ~Heeds(t, Head(inbox[c]))) \in BOOLEAN
      OBVIOUS
    <3>2. PICK n : lost' = [lost EXCEPT ![c] = lost[c] \/ n > 1 \/ ~Heeds(t, Head(inbox[c]))]
      BY <1>5 DEF Receive
    <3> QED
      BY <1>5, <3>1, <3>2, Zenon DEF Receive
  <2> QED
    BY <2>1 DEF LinkInv
<1> QED
  BY <1>1, <1>2, <1>3, <1>4, <1>5
     DEF SystemNext, ServerLoop, Turns, Transmit, Hangup, ClientStep, FunLogin, FunMain,
         AnswerRequest, FriendMain, RecvWorkEnds, Interrupt, systemVars, clientVars

\* Places, connections and waiting lists stay what they should be, and no two
\* clients are ever taken for the same one by the server.
THEOREM SystemInvariance == SystemSpec => []SystemTypeOK
<1>1. SystemInit => LinkInv
  BY DEF SystemInit, ClientInit, LinkInv
<1>2. SystemSpec => []LinkInv
  BY <1>1, SystemStepLink, PTL DEF SystemSpec
<1>3. SystemSpec => [](WireInv /\ ClientInv /\ ConnInv)
  BY SystemInitPlain, SystemInitSafe, SystemInductive, SystemStepPlain,
     SystemStepSafe, PTL DEF SystemSpec
<1>4. SystemSpec => []ServerTypeOK
  BY SystemImplementsServer, ServerInvariance
<1>5. WireInv /\ ClientInv /\ ConnInv /\ LinkInv /\ ServerTypeOK => SystemTypeOK
  BY DEF WireInv, ClientInv, ConnInv, LinkInv, SystemTypeOK
<1> QED
  BY <1>2, <1>3, <1>4, <1>5, PTL
=============================================================================
