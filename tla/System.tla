------------------------------- MODULE System -------------------------------
(***************************************************************************)
(* The server and its clients, put together: the peers of module Server    *)
(* are the client programs of module Client, and nobody else connects.     *)
(*                                                                         *)
(* A message takes two steps to the server, from the client's send() to    *)
(* the kernel's buffer and from there to recv(), and two steps back.  TCP  *)
(* keeps the order of each direction and loses nothing.                    *)
(***************************************************************************)
EXTENDS Server, Client

VARIABLES
  waiting,  \* the clients whose connections wait for accept(), in order
  conn      \* the server's descriptor for a client, 0 before accept()

netVars    == <<waiting, conn>>
systemVars == <<serverVars, clientVars, netVars>>

-----------------------------------------------------------------------------
(* From the clients to the server.                                         *)

\* Everything the client program sends: what is typed, in the objects the
\* handlers expect, and four sentences.
ClientMessages ==
  {PackMsg(code, PackSignData(sd)) :
     code \in {"SIGN_IN", "SIGN_UP"}, sd \in UNION {TypedSign[c] : c \in Clients}} \cup
  {PackMsg("ADD_FRIEND", PackAfData(afd)) : afd \in TypedPairs} \cup
  {PackMsg("PULL_FRIENDS_LIST", Sentence(ListText)), PackMsg("SIGN_OUT", Sentence("sign out"))} \cup
  Answer("ADD_FRIEND_ADMIT") \cup Answer("ADD_FRIEND_REFUSE")

\* What parse_msg and the parser of the handler make of a message.  Only
\* list_friends takes the data as it is.
Parsed(msg) ==
  CASE msg.code \in {"SIGN_UP", "SIGN_DEL", "SIGN_IN", "SIGN_OUT"}
         /\ HasMembers(msg.data, SignMembers)
         -> [code |-> msg.code, data |-> ParseSignData(msg.data)]
    [] msg.code \in {"ADD_FRIEND", "ADD_FRIEND_ADMIT", "ADD_FRIEND_REFUSE"}
         /\ HasMembers(msg.data, AfMembers)
         -> [code |-> msg.code, data |-> ParseAfData(msg.data)]
    [] msg.code = "PULL_FRIENDS_LIST"
         -> [code |-> msg.code, data |-> msg.data.sentence]
    [] OTHER -> NotParsed(msg.code)

ClientRequests == {Parsed(msg) : msg \in ClientMessages}

ASSUME SystemAssumption ==
  /\ ListText \in Users
  /\ \A c \in Clients : TypedSign[c] \subseteq SignData
  /\ TypedPairs \subseteq FriendData
  /\ ClientRequests \subseteq Requests
  /\ MaxSent \in Nat

Joins(c) ==
  /\ Starts(c)
  /\ Connect
  /\ waiting' = Append(waiting, c)
  /\ UNCHANGED conn

Transmit(c) ==
  /\ conn[c] # 0 /\ outbox[c] # << >>
  /\ PeerSends(conn[c], Parsed(Head(outbox[c])))
  /\ outbox' = [outbox EXCEPT ![c] = Tail(@)]
  /\ UNCHANGED <<at, link, inbox, lost, netVars>>

\* The kernel of a client that is gone closes the connection, behind all that
\* was sent, or resets it if there are replies nobody has read or will read;
\* what has not reached the server by then is thrown away.
Hangup(c) ==
  /\ Gone(c) /\ conn[c] # 0
  /\ \/ inbox[c] = << >> /\ outbox[c] = << >> /\ PeerCloses(conn[c])
     \/ inbox[c] # << >> /\ PeerResets(conn[c])
  /\ inbox' = [inbox EXCEPT ![c] = << >>]
  /\ outbox' = [outbox EXCEPT ![c] = << >>]
  /\ UNCHANGED <<at, link, lost, netVars>>

-----------------------------------------------------------------------------
(* The steps of the server, with what the clients see of them.             *)

\* A connection that accept() loses, or that is refused, ends for the client.
Admits ==
  /\ Accept
  /\ IF backlog' = backlog
     THEN UNCHANGED <<link, netVars>>
     ELSE LET c == Head(waiting) IN
            /\ waiting' = Tail(waiting)
            /\ IF nextfd' = nextfd
               THEN link' = [link EXCEPT ![c] = "ended"] /\ UNCHANGED conn
               ELSE conn' = [conn EXCEPT ![c] = nextfd] /\ UNCHANGED link
  /\ UNCHANGED <<at, inbox, outbox, lost>>

\* The code the handler has sent to client c, if any: no handler sends twice.
Sent(c) ==
  IF out' # << >> /\ Head(out').to = conn[c] THEN <<Head(out').code>> ELSE << >>

\* What is received by a client that is gone only matters in that it is there.
Arrived(c) ==
  IF conn[c] \in broken \/ (Gone(c) /\ inbox[c] # << >>)
  THEN inbox[c]
  ELSE inbox[c] \o Sent(c)

\* A request is served.  The process may end by it, and with it all
\* connections; what was on its way to it is lost.
Serves(k) ==
  /\ RecvRequest(k)
  /\ IF up'
     THEN /\ inbox' = [c \in Clients |-> Arrived(c)]
          /\ UNCHANGED <<link, outbox>>
     ELSE /\ link' = [c \in Clients |-> IF link[c] = "up" THEN "ended" ELSE link[c]]
          /\ outbox' = [c \in Clients |-> << >>]
          /\ UNCHANGED inbox
  /\ LET s == clients[k] IN
       lost' = [c \in Clients |-> lost[c] \/ (conn[c] = s /\ Len(inbuf[s]) - Len(inbuf'[s]) > 1)]
  /\ UNCHANGED <<at, netVars>>

\* The steps of the loop that no client sees.
Turns ==
  /\ \/ Select
     \/ \E k \in 1 .. MaxConnect : RecvZero(k) \/ RecvError(k)
     \/ Skip
  /\ UNCHANGED <<clientVars, netVars>>

ServerLoop == Admits \/ Turns \/ \E k \in 1 .. MaxConnect : Serves(k)

SystemInit ==
  /\ ServerInit
  /\ ClientInit
  /\ waiting = << >>
  /\ conn = [c \in Clients |-> 0]

SystemNext ==
  \/ ServerLoop
  \/ \E c \in Clients : \/ Joins(c)
                        \/ Transmit(c)
                        \/ Hangup(c)
                        \/ ClientStep(c) /\ UNCHANGED <<serverVars, netVars>>

SystemSpec == SystemInit /\ [][SystemNext]_systemVars

\* The server's thread and the kernels are scheduled again and again, and so
\* is a thread of a client that can return from recv().  Nobody has to type.
FairSystemSpec ==
  /\ SystemSpec
  /\ WF_systemVars(ServerLoop)
  /\ \A c \in Clients :
       /\ WF_systemVars(Transmit(c))
       /\ WF_systemVars(\E t \in Threads : Receive(c, t) /\ UNCHANGED <<serverVars, netVars>>)

-----------------------------------------------------------------------------
(* Properties.                                                             *)

SystemTypeOK ==
  /\ ServerTypeOK
  /\ at \in [Clients -> [Threads -> Places]]
  /\ link \in [Clients -> {"none", "up", "ended"}]
  /\ lost \in [Clients -> BOOLEAN]
  /\ waiting \in Seq(Clients) /\ Len(waiting) = backlog
  /\ conn \in [Clients -> Sockets \cup {0}]
  /\ \A c, d \in Clients : conn[c] = conn[d] /\ conn[c] # 0 => c = d

\* The menu, the list of friends and a friend request are only shown to the
\* user of a client over whose connection somebody has signed in.
MenuNeedsSignIn ==
  \A c \in Clients :
    (\E t \in Threads : at[c][t] \in {"menu", "friends", "prompt"}) =>
      conn[c] # 0 /\ session[conn[c]] # {}

\* What the clients send ends the server in three ways only: a sign-out or an
\* answer, which carry sentences (SignOutAnswered), or a send of the handler to
\* a connection that was reset.  All else that users
\* type is parsed, and list_friends, which faults on the first friendship,
\* never meets one.
ServerEndsOnlyBy ==
  [][up /\ ~up' =>
       \/ \E s \in Sockets, code \in {"SIGN_OUT", "ADD_FRIEND_ADMIT", "ADD_FRIEND_REFUSE"} :
            Reads(s) /\ Head(inbuf[s]) = NotParsed(code)
       \/ \E k \in DOMAIN out' : out'[k].to \in broken]_systemVars

\* A client never has more unread replies than there are clients.  Whether the
\* server's send() can block (account.c:16) depends on the sizes of the
\* kernels' buffers, which are not modelled: this bounds what they must hold.
RepliesFit ==
  \A c \in Clients : Len(inbox[c]) <= Cardinality(Clients)

\* A reply the menu waits for is not read by the thread that is there for chat
\* ("子线程只接收聊天业务", client main.c:258; main reads "接收服务器返回",
\* client main.c:330).
ReplyReachesMenu ==
  [][\A c \in Clients :
       Receive(c, "recv_work") => Head(inbox[c]) = "ADD_FRIEND_REQUEST"]_systemVars

Requested(c, codes) == \E k \in DOMAIN outbox[c] : outbox[c][k].code \in codes

\* Who signs in or up gets to the next menu, unless the server has ended or a
\* message was thrown away because two had arrived together or the wrong
\* thread read it.
SignAnswered ==
  \A c \in Clients :
    Requested(c, {"SIGN_IN", "SIGN_UP"}) ~>
      at[c]["main"] # "recv" \/ link[c] = "ended" \/ lost[c]

\* Who signs out gets back to the login menu ("退出登录成功", client
\* main.c:369).
SignOutAnswered ==
  \A c \in Clients :
    Requested(c, {"SIGN_OUT"}) ~> at[c]["main"] \in {"login", "gone"} \/ lost[c]
=============================================================================
