---------------------------- MODULE RepliesProofs ----------------------------
(***************************************************************************)
(* Proof that a client never has more unread replies than there are        *)
(* clients, so that the server's send() (account.c:16) finds room for its  *)
(* reply.                                                                  *)
(*                                                                         *)
(* The argument counts tickets.  A thread holds one as long as it may send *)
(* without having read a reply before, and so does a client that has not   *)
(* been started; so does a message a handler may answer, and an unread     *)
(* reply.  Every step hands tickets on or drops them, and none makes two   *)
(* of one: a menu that sends waits in recv(), a handler sends at most      *)
(* once, and the answer to a friend request, the one message after which   *)
(* the menu comes at once, is not parsed and gets no reply.                *)
(***************************************************************************)
EXTENDS SystemProofs, FunctionTheorems, FiniteSetTheorems

\* Thread t of client c may send, or will as soon as the client is started.
MaySend(c, t) == at[c][t] \in Prompts \/ (t = "main" /\ at[c][t] = "off")

\* The requests of a queue that a handler can parse.
Answerable(queue) == {k \in DOMAIN queue : queue[k].code # "UNPARSABLE"}

\* The messages of a queue that will be such requests.
WillBeAnswerable(queue) == {k \in DOMAIN queue : Parsed(queue[k]).code # "UNPARSABLE"}

Tickets ==
  {x \in {"thread"} \X Clients \X Threads : MaySend(x[2], x[3])} \cup
  (UNION {{<<"outbox", c, k>> : k \in WillBeAnswerable(outbox[c])} : c \in Clients}) \cup
  (UNION {{<<"server", s, k>> : k \in Answerable(inbuf[s])} : s \in Sockets}) \cup
  (UNION {{<<"inbox", c, k>> : k \in DOMAIN inbox[c]} : c \in Clients})

\* There are never more tickets than clients.
TicketInv == ExistsInjection(Tickets, Clients)

-----------------------------------------------------------------------------
(* Tickets, and what has to be shown of a step.                            *)

\* The four kinds of tickets.
IsTicket(x) ==
  \/ \E c \in Clients, t \in Threads : x = <<"thread", c, t>> /\ MaySend(c, t)
  \/ \E c \in Clients : \E k \in WillBeAnswerable(outbox[c]) : x = <<"outbox", c, k>>
  \/ \E s \in Sockets : \E k \in Answerable(inbuf[s]) : x = <<"server", s, k>>
  \/ \E c \in Clients : \E k \in DOMAIN inbox[c] : x = <<"inbox", c, k>>

\* Every ticket is of one of these kinds.
LEMMA TicketKinds == \A x : x \in Tickets <=> IsTicket(x)
<1> TAKE x
<1>1. x \in {y \in {"thread"} \X Clients \X Threads : MaySend(y[2], y[3])} <=>
        \E c \in Clients, t \in Threads : x = <<"thread", c, t>> /\ MaySend(c, t)
  OBVIOUS
<1>2. x \in UNION {{<<"outbox", c, k>> : k \in WillBeAnswerable(outbox[c])} : c \in Clients} <=>
        \E c \in Clients : \E k \in WillBeAnswerable(outbox[c]) : x = <<"outbox", c, k>>
  OBVIOUS
<1>3. x \in UNION {{<<"server", s, k>> : k \in Answerable(inbuf[s])} : s \in Sockets} <=>
        \E s \in Sockets : \E k \in Answerable(inbuf[s]) : x = <<"server", s, k>>
  OBVIOUS
<1>4. x \in UNION {{<<"inbox", c, k>> : k \in DOMAIN inbox[c]} : c \in Clients} <=>
        \E c \in Clients : \E k \in DOMAIN inbox[c] : x = <<"inbox", c, k>>
  OBVIOUS
<1> QED
  BY <1>1, <1>2, <1>3, <1>4 DEF Tickets, IsTicket

\* The same for the state after a step.
LEMMA TicketKindsNext == (\A x : x \in Tickets <=> IsTicket(x))'
BY TicketKinds, PTL

\* Elements of A may take the places of those of B, those that both have
\* their own: then A is not larger than B.
LEMMA Exchange ==
  ASSUME NEW A, NEW B, NEW P, NEW f \in [P -> B],
         A \ P \subseteq B,
         \A x, y \in P : f[x] = f[y] => x = y,
         \A x \in P : f[x] \notin A \ P
  PROVE  ExistsInjection(A, B)
<1> DEFINE g == [x \in A |-> IF x \in P THEN f[x] ELSE x]
<1>1. g \in [A -> B]
  OBVIOUS
<1>2. \A x, y \in A : g[x] = g[y] => x = y
  OBVIOUS
<1>3. g \in Injection(A, B)
  BY <1>1, <1>2, Fun_IsInj
<1> QED
  BY <1>3, Fun_ExistsInj

\* As Exchange, for one new element.
LEMMA ExchangeOne ==
  ASSUME NEW A, NEW B, NEW new, NEW old \in B,
         A \subseteq B \cup {new}, old \notin A \ {new}
  PROVE  ExistsInjection(A, B)
<1> DEFINE f == [x \in {new} |-> old]
<1>1. f \in [{new} -> B] /\ f[new] = old
  OBVIOUS
<1> HIDE DEF f
<1> QED
  BY <1>1, Exchange

\* A is B but that n messages are gone from the head of a queue, so that the
\* others have moved up, and that there may be a new element for the first.
MovedUp(A, B, kind, o, n, new) ==
  /\ n \in Nat \ {0}
  /\ \A k \in Nat : <<kind, o, k>> # new
  /\ new \in A => <<kind, o, 1>> \in B
  /\ \A k \in Nat : <<kind, o, k>> \in A => k # 0 /\ <<kind, o, k + n>> \in B
  /\ \A x \in A : x = new \/ x \in B \/ \E k \in Nat : x = <<kind, o, k>>

LEMMA ExchangeQueue ==
  ASSUME NEW A, NEW B, NEW kind, NEW o, NEW n, NEW new,
         MovedUp(A, B, kind, o, n, new)
  PROVE  ExistsInjection(A, B)
<1>0. /\ n \in Nat \ {0}
      /\ \A k \in Nat : <<kind, o, k>> # new
      /\ new \in A => <<kind, o, 1>> \in B
      /\ \A k \in Nat : <<kind, o, k>> \in A => k # 0 /\ <<kind, o, k + n>> \in B
      /\ \A x \in A : x = new \/ x \in B \/ \E k \in Nat : x = <<kind, o, k>>
  BY DEF MovedUp
<1> DEFINE first == <<kind, o, 1>>
           Moved == {x \in A : x = new \/ \E k \in Nat : x = <<kind, o, k>>}
           from == [x \in Moved |-> IF x = new THEN first ELSE <<kind, o, x[3] + n>>]
<1>1. ASSUME NEW x \in Moved
      PROVE  \/ x = new /\ from[x] = first /\ first \in B
             \/ \E k \in Nat \ {0} :
                  /\ x # new /\ x = <<kind, o, k>>
                  /\ from[x] = <<kind, o, k + n>> /\ <<kind, o, k + n>> \in B
  <2>1. CASE x = new
    BY <1>0, <2>1
  <2>2. CASE x # new
    <3>1. PICK k \in Nat : x = <<kind, o, k>>
      BY <2>2
    <3>2. from[x] = <<kind, o, k + n>>
      BY <2>2, <3>1
    <3> QED
      BY <1>0, <2>2, <3>1, <3>2
  <2> QED
    BY <2>1, <2>2
<1>2. from \in [Moved -> B]
  BY <1>1
<1>3. A \ Moved \subseteq B
  BY <1>0
<1>4. \A x \in Moved : from[x] \notin A \ Moved
  <2> SUFFICES ASSUME NEW x \in Moved, from[x] \in A PROVE from[x] \in Moved
    OBVIOUS
  <2>1. \E k \in Nat : from[x] = <<kind, o, k>>
    <3>1. \A k \in Nat \ {0} : k + n \in Nat
      BY <1>0
    <3> HIDE DEF Moved, from
    <3> QED
      BY <1>1, <3>1
  <2> HIDE DEF from
  <2> QED
    BY <2>1
<1>5. \A x, y \in Moved : from[x] = from[y] => x = y
  <2> SUFFICES ASSUME NEW x \in Moved, NEW y \in Moved, from[x] = from[y] PROVE x = y
    OBVIOUS
  <2>1. \A k \in Nat \ {0} : <<kind, o, k + n>> # first
    BY <1>0
  <2> HIDE DEF Moved, from, first
  <2>2. CASE x = new
    <3>1. from[y] = first
      BY <1>1, <2>2
    <3> QED
      BY <1>1, <2>1, <2>2, <3>1
  <2>3. CASE x # new
    <3>1. PICK k \in Nat \ {0} : x = <<kind, o, k>> /\ from[x] = <<kind, o, k + n>>
      BY <1>1, <2>3
    <3>2. y # new
      <4>1. from[x] # first
        BY <2>1, <3>1
      <4> QED
        BY <1>1, <4>1
    <3>3. PICK j \in Nat \ {0} : y = <<kind, o, j>> /\ from[y] = <<kind, o, j + n>>
      BY <1>1, <3>2
    <3>4. k + n = j + n
      BY <3>1, <3>3
    <3>5. k = j
      BY <1>0, <3>4
    <3> QED
      BY <3>1, <3>3, <3>5
  <2> QED
    BY <2>2, <2>3
<1> HIDE DEF Moved, from
<1> QED
  BY <1>2, <1>3, <1>4, <1>5, Exchange

\* As Exchange, when there is nothing new.
LEMMA NoMore ==
  ASSUME NEW A, NEW B, A \subseteq B
  PROVE  ExistsInjection(A, B)
<1> DEFINE f == [x \in A |-> x]
<1>1. f \in [A -> B] /\ \A x, y \in A : f[x] = f[y] => x = y
  OBVIOUS
<1>2. f \in Injection(A, B)
  BY <1>1, Fun_IsInj
<1> QED
  BY <1>2, Fun_ExistsInj

-----------------------------------------------------------------------------
(* The steps of the clients.                                               *)

ReplyCodes ==
  AccountCodes \cup FriendCodes \cup {"ADD_FRIEND_REQUEST", "ADD_FRIEND_DUP", "ADD_FRIEND_BLACK"}

InboxInv == inbox \in [Clients -> Seq(ReplyCodes)]

\* What is known of all reachable states (module SystemProofs).
KnownInv == WireInv /\ ServerIInv /\ PlainInv /\ ClientInv /\ ConnInv /\ InboxInv

\* The tickets of a step at which client c alone does something, and nothing
\* arrives at the server.
LEMMA TicketsOfOthers ==
  ASSUME NEW c \in Clients, UNCHANGED inbuf,
         \A d \in Clients \ {c} :
           at'[d] = at[d] /\ inbox'[d] = inbox[d] /\ outbox'[d] = outbox[d],
         NEW x \in Tickets', x \notin Tickets
  PROVE  \/ \E t \in Threads : x = <<"thread", c, t>> /\ MaySend(c, t)'
         \/ \E k \in WillBeAnswerable(outbox'[c]) : x = <<"outbox", c, k>>
         \/ \E k \in DOMAIN inbox'[c] : x = <<"inbox", c, k>>
<1>1. \A d \in Clients \ {c} : \A t \in Threads : MaySend(d, t)' = MaySend(d, t)
  BY DEF MaySend
<1>2. IsTicket(x)' /\ ~ IsTicket(x)
  BY TicketKinds, TicketKindsNext
<1> QED
  BY <1>1, <1>2 DEF IsTicket

\* A step of client c that sends nothing a handler can parse, and reads no
\* reply, lets no thread send that could not before.
LEMMA NothingNew ==
  ASSUME NEW c \in Clients, UNCHANGED inbuf,
         \A d \in Clients \ {c} :
           at'[d] = at[d] /\ inbox'[d] = inbox[d] /\ outbox'[d] = outbox[d],
         \A t \in Threads : MaySend(c, t)' => MaySend(c, t),
         \A k \in WillBeAnswerable(outbox'[c]) : k \in WillBeAnswerable(outbox[c]),
         \A k \in DOMAIN inbox'[c] : k \in DOMAIN inbox[c]
  PROVE  ExistsInjection(Tickets', Tickets)
<1>1. Tickets' \subseteq Tickets
  <2> SUFFICES ASSUME NEW x \in Tickets', x \notin Tickets PROVE FALSE
    OBVIOUS
  <2>1. ~ IsTicket(x)
    BY TicketKinds
  <2> QED
    BY <2>1, TicketsOfOthers DEF IsTicket
<1> QED
  BY <1>1, NoMore

\* The queue after a message was appended.
LEMMA Appended ==
  ASSUME NEW S, NEW q \in Seq(S), NEW e \in S
  PROVE  /\ DOMAIN Append(q, e) = DOMAIN q \cup {Len(q) + 1}
         /\ Append(q, e)[Len(q) + 1] = e
         /\ \A k \in DOMAIN q : Append(q, e)[k] = q[k]
         /\ Len(q) + 1 \notin DOMAIN q
OBVIOUS

\* The queue after its first message was taken.
LEMMA Taken ==
  ASSUME NEW S, NEW q \in Seq(S), q # << >>
  PROVE  /\ 1 \in DOMAIN q /\ q[1] = Head(q)
         /\ \A k \in DOMAIN Tail(q) :
              k \in Nat \ {0} /\ k + 1 \in DOMAIN q /\ Tail(q)[k] = q[k + 1]
<1>1. Tail(q) \in Seq(S) /\ Len(Tail(q)) = Len(q) - 1 /\ Len(q) \in Nat \ {0}
  OBVIOUS
<1>2. DOMAIN Tail(q) = 1 .. (Len(q) - 1) /\ DOMAIN q = 1 .. Len(q)
  BY <1>1
<1>3. \A k \in 1 .. (Len(q) - 1) : Tail(q)[k] = q[k + 1]
  OBVIOUS
<1>4. \A k \in 1 .. (Len(q) - 1) : k \in Nat \ {0} /\ k + 1 \in 1 .. Len(q)
  BY <1>1
<1>5. 1 \in 1 .. Len(q)
  BY <1>1
<1> QED
  BY <1>2, <1>3, <1>4, <1>5

\* A thread that sends hands its ticket to the message, or keeps it if the
\* message is none to be answered.
LEMMA SendMsgHandsOn ==
  ASSUME KnownInv, UNCHANGED <<inbox, inbuf>>, NEW c \in Clients, NEW t \in Threads,
         NEW msg \in ClientMessages, NEW place \in Places \ {"off"},
         at[c][t] \in Prompts, SendMsg(c, t, msg, place),
         place = "recv" \/ Parsed(msg).code = "UNPARSABLE"
  PROVE  ExistsInjection(Tickets', Tickets)
<1>1. \A d \in Clients \ {c} : inbox'[d] = inbox[d] /\ outbox'[d] = outbox[d]
  BY DEF SendMsg, KnownInv, WireInv
<1>2. CASE Exits(c) /\ UNCHANGED outbox
  <2>1. \A d \in Clients \ {c} : at'[d] = at[d]
    BY <1>2, ExitsTo DEF KnownInv
  <2>2. \A u \in Threads : ~ MaySend(c, u)'
    BY <1>2, ExitsTo DEF KnownInv, MaySend, Prompts
  <2> QED
    BY <1>1, <1>2, <2>1, <2>2, NothingNew
<1>3. CASE Goes(c, t, place)
  <2>1. /\ \A d \in Clients \ {c} : at'[d] = at[d]
        /\ \A u \in Threads : at'[c][u] = IF u = t THEN place ELSE at[c][u]
    BY <1>3, GoesTo DEF KnownInv
  <2>2. \A u \in Threads : MaySend(c, u)' => MaySend(c, u)
    BY <2>1 DEF MaySend
  <2>3. CASE UNCHANGED outbox
    BY <1>1, <2>1, <2>2, <2>3, NothingNew
  <2>4. CASE outbox' = [outbox EXCEPT ![c] = Append(@, msg)]
    <3> DEFINE n == Len(outbox[c]) + 1
    <3>1. outbox[c] \in Seq(ClientMessages) /\ outbox'[c] = Append(outbox[c], msg)
      BY <2>4 DEF KnownInv, WireInv
    <3>2. /\ DOMAIN outbox'[c] = DOMAIN outbox[c] \cup {n}
          /\ outbox'[c][n] = msg /\ \A k \in DOMAIN outbox[c] : outbox'[c][k] = outbox[c][k]
      BY <3>1, Appended
    <3> HIDE DEF n
    <3>3. CASE Parsed(msg).code = "UNPARSABLE"
      <4>1. \A k \in WillBeAnswerable(outbox'[c]) : k \in WillBeAnswerable(outbox[c])
        BY <3>2, <3>3 DEF WillBeAnswerable
      <4> QED
        BY <1>1, <2>1, <2>2, <4>1, NothingNew
    <3>4. CASE place = "recv"
      <4> DEFINE new == <<"outbox", c, n>>
                 old == <<"thread", c, t>>
      <4>1. MaySend(c, t) /\ ~ MaySend(c, t)'
        BY <2>1, <3>4 DEF MaySend, Prompts
      <4>2. old \in Tickets
        BY <4>1, TicketKinds DEF IsTicket
      <4>3. old \notin Tickets'
        <5>1. ~ IsTicket(old)'
          BY <4>1 DEF IsTicket
        <5> QED
          BY <5>1, TicketKindsNext
      <4>4. Tickets' \subseteq Tickets \cup {new}
        <5> SUFFICES ASSUME NEW x \in Tickets', x \notin Tickets PROVE x = new
          OBVIOUS
        <5>1. ~ IsTicket(x)
          BY TicketKinds
        <5>2. \/ \E u \in Threads : x = <<"thread", c, u>> /\ MaySend(c, u)'
              \/ \E k \in WillBeAnswerable(outbox'[c]) : x = <<"outbox", c, k>>
              \/ \E k \in DOMAIN inbox'[c] : x = <<"inbox", c, k>>
          BY <1>1, <2>1, TicketsOfOthers
        <5>3. \A k \in WillBeAnswerable(outbox'[c]) :
                k = n \/ k \in WillBeAnswerable(outbox[c])
          BY <3>2 DEF WillBeAnswerable
        <5> QED
          BY <2>2, <5>1, <5>2, <5>3 DEF IsTicket
      <4> HIDE DEF new, old
      <4> QED
        BY <4>2, <4>3, <4>4, ExchangeOne
    <3> QED
      BY <3>3, <3>4
  <2> QED
    BY <2>3, <2>4 DEF SendMsg
<1> QED
  BY <1>2, <1>3 DEF SendMsg

\* A thread that reads a reply has the ticket of the last one that was unread.
LEMMA ReceiveHandsOn ==
  ASSUME KnownInv, UNCHANGED inbuf, NEW c \in Clients, NEW t \in Threads, Receive(c, t)
  PROVE  ExistsInjection(Tickets', Tickets)
<1>0. PICK last : last = Len(inbox[c])
  OBVIOUS
<1> DEFINE new == <<"thread", c, t>>
           old == <<"inbox", c, last>>
<1>1. inbox[c] \in Seq(ReplyCodes) /\ inbox[c] # << >>
  BY DEF Receive, KnownInv, InboxInv
<1>2. PICK n \in 1 .. last : inbox' = [inbox EXCEPT ![c] = SubSeq(@, n + 1, Len(@))]
  BY <1>0 DEF Receive
<1>3. /\ inbox'[c] = SubSeq(inbox[c], n + 1, last)
      /\ \A d \in Clients \ {c} : inbox'[d] = inbox[d]
  BY <1>0, <1>2 DEF KnownInv, InboxInv
<1>4. DOMAIN inbox'[c] \subseteq DOMAIN inbox[c] /\ last \in DOMAIN inbox[c]
      /\ last \notin DOMAIN inbox'[c]
  BY <1>0, <1>1, <1>3
<1>5. outbox' = outbox
  BY DEF Receive
<1>6. PICK place \in Places \ {"off"} : Goes(c, t, place)
  <2>1. \A code : Shows(code) \in Places \ {"off"}
    BY DEF Shows, Places, Prompts
  <2>2. "recv" \in Places \ {"off"}
    BY DEF Places
  <2> QED
    BY <2>1, <2>2 DEF Receive
<1>7. /\ \A d \in Clients \ {c} : at'[d] = at[d]
      /\ \A u \in Threads : at'[c][u] = IF u = t THEN place ELSE at[c][u]
  BY <1>6, GoesTo DEF KnownInv
<1>8. \A u \in Threads : MaySend(c, u)' => u = t \/ MaySend(c, u)
  BY <1>7 DEF MaySend
<1>9. old \in Tickets
  BY <1>4, TicketKinds DEF IsTicket
<1>10. old \notin Tickets'
  <2>1. ~ IsTicket(old)'
    BY <1>4 DEF IsTicket
  <2> QED
    BY <2>1, TicketKindsNext
<1>11. Tickets' \subseteq Tickets \cup {new}
  <2> SUFFICES ASSUME NEW x \in Tickets', x \notin Tickets PROVE x = new
    OBVIOUS
  <2>1. ~ IsTicket(x)
    BY TicketKinds
  <2>2. \/ \E u \in Threads : x = <<"thread", c, u>> /\ MaySend(c, u)'
        \/ \E k \in WillBeAnswerable(outbox'[c]) : x = <<"outbox", c, k>>
        \/ \E k \in DOMAIN inbox'[c] : x = <<"inbox", c, k>>
    BY <1>3, <1>5, <1>7, TicketsOfOthers
  <2> QED
    BY <1>4, <1>5, <1>8, <2>1, <2>2 DEF IsTicket
<1> HIDE DEF new, old
<1> QED
  BY <1>9, <1>10, <1>11, ExchangeOne

\* The answers to a friend request are none that a handler parses.
LEMMA AnswersUnparsable ==
  ASSUME NEW code \in {"ADD_FRIEND_ADMIT", "ADD_FRIEND_REFUSE"}, NEW msg \in Answer(code)
  PROVE  msg \in ClientMessages /\ Parsed(msg).code = "UNPARSABLE"
<1>1. msg = PackMsg(code, Sentence("answer"))
  BY DEF Answer
<1>2. msg.code = code /\ msg.data = Sentence("answer")
  BY <1>1 DEF PackMsg
<1>3. ~ HasMembers(msg.data, AfMembers)
  BY <1>2 DEF HasMembers, Sentence
<1>4. Parsed(msg).code = "UNPARSABLE"
  BY <1>2, <1>3 DEF Parsed, NotParsed
<1>5. Answer(code) \subseteq ClientMessages
  BY MessagesSent
<1> QED
  BY <1>4, <1>5

\* No step of a client makes two tickets of one.
LEMMA ClientStepHandsOn ==
  ASSUME KnownInv, NEW c \in Clients, ClientStep(c), UNCHANGED <<serverVars, netVars>>
  PROVE  ExistsInjection(Tickets', Tickets)
<1>1. inbuf' = inbuf
  BY DEF serverVars, kernelVars
<1>2. /\ "main" \in Threads /\ "recv_work" \in Threads
      /\ {"recv", "menu", "ended"} \subseteq Places \ {"off"}
      /\ "menu" \in Prompts /\ {"recv", "ended"} \cap Prompts = {}
  BY DEF Threads, Places, Prompts
<1>3. ASSUME UNCHANGED <<inbox, outbox>>, NEW t \in Threads, NEW place \in Places \ {"off"},
             Goes(c, t, place), place \notin Prompts \/ at[c][t] \in Prompts
      PROVE  ExistsInjection(Tickets', Tickets)
  <2>1. /\ \A d \in Clients \ {c} : at'[d] = at[d]
        /\ \A u \in Threads : at'[c][u] = IF u = t THEN place ELSE at[c][u]
    BY <1>3, GoesTo DEF KnownInv
  <2>2. \A u \in Threads : MaySend(c, u)' => MaySend(c, u)
    BY <1>3, <2>1 DEF MaySend
  <2> QED
    BY <1>1, <1>3, <2>1, <2>2, NothingNew
<1>4. ASSUME UNCHANGED <<inbox, outbox>>, Exits(c)
      PROVE  ExistsInjection(Tickets', Tickets)
  <2>1. \A d \in Clients \ {c} : at'[d] = at[d]
    BY <1>4, ExitsTo DEF KnownInv
  <2>2. \A u \in Threads : ~ MaySend(c, u)'
    BY <1>4, ExitsTo DEF KnownInv, MaySend, Prompts
  <2> QED
    BY <1>1, <1>4, <2>1, <2>2, NothingNew
<1>5. CASE FunLogin(c)
  <2>1. at[c]["main"] \in Prompts /\ inbox' = inbox
    BY <1>5 DEF FunLogin, Prompts
  <2>2. ASSUME NEW sd \in TypedSign[c], NEW code \in {"SIGN_IN", "SIGN_UP"},
               SendMsg(c, "main", PackMsg(code, PackSignData(sd)), "recv")
        PROVE  ExistsInjection(Tickets', Tickets)
    BY <1>1, <1>2, <2>1, <2>2, MessagesSent, SendMsgHandsOn
  <2> QED
    BY <1>2, <1>3, <1>4, <1>5, <2>1, <2>2 DEF FunLogin, SendNothing
<1>6. ASSUME NEW t \in Threads, FunMain(c, t)
      PROVE  ExistsInjection(Tickets', Tickets)
  <2>1. at[c][t] \in Prompts /\ inbox' = inbox
    BY <1>6 DEF FunMain, Prompts
  <2>2. ASSUME NEW msg \in ClientMessages, SendMsg(c, t, msg, "recv")
        PROVE  ExistsInjection(Tickets', Tickets)
    BY <1>1, <1>2, <2>1, <2>2, SendMsgHandsOn
  <2> QED
    BY <1>2, <1>3, <1>6, <2>1, <2>2, MessagesSent DEF FunMain, SendNothing
<1>7. ASSUME NEW t \in Threads, AnswerRequest(c, t)
      PROVE  ExistsInjection(Tickets', Tickets)
  <2>1. at[c][t] \in Prompts /\ inbox' = inbox
    BY <1>7 DEF AnswerRequest, Prompts
  <2>2. PICK code \in {"ADD_FRIEND_ADMIT", "ADD_FRIEND_REFUSE"} :
          \E msg \in Answer(code) : SendMsg(c, t, msg, "menu")
    BY <1>7 DEF AnswerRequest
  <2> QED
    BY <1>1, <1>2, <2>1, <2>2, AnswersUnparsable, SendMsgHandsOn
<1>8. ASSUME NEW t \in Threads, Receive(c, t)
      PROVE  ExistsInjection(Tickets', Tickets)
  BY <1>1, <1>8, ReceiveHandsOn
<1>9. CASE FriendMain(c)
  <2>1. at[c]["main"] \in Prompts
    BY <1>9 DEF FriendMain, Prompts
  <2> QED
    BY <1>2, <1>3, <1>4, <1>9, <2>1 DEF FriendMain
<1>10. CASE RecvWorkEnds(c)
  BY <1>2, <1>3, <1>10 DEF RecvWorkEnds
<1>11. CASE Interrupt(c)
  BY <1>4, <1>11 DEF Interrupt
<1> QED
  BY <1>5, <1>6, <1>7, <1>8, <1>9, <1>10, <1>11 DEF ClientStep

\* The ticket of a client that is started goes to its thread main.
LEMMA JoinsHandsOn ==
  ASSUME KnownInv, NEW c \in Clients, Joins(c)
  PROVE  ExistsInjection(Tickets', Tickets)
<1>1. UNCHANGED <<inbox, outbox, inbuf>> /\ at[c]["main"] = "off"
  BY DEF Joins, Starts, Connect
<1>2. /\ \A d \in Clients \ {c} : at'[d] = at[d]
      /\ \A t \in Threads : at'[c][t] = IF t = "main" THEN "login" ELSE "recv"
  BY DEF Joins, Starts, KnownInv, ClientInv
<1>3. \A t \in Threads : MaySend(c, t)' => MaySend(c, t)
  BY <1>1, <1>2 DEF MaySend, Prompts
<1> QED
  BY <1>1, <1>2, <1>3, NothingNew

-----------------------------------------------------------------------------
(* Messages to the server, and the server's steps.                         *)

\* A message that reaches the server takes its ticket along.
LEMMA TransmitHandsOn ==
  ASSUME KnownInv, NEW c \in Clients, Transmit(c)
  PROVE  ExistsInjection(Tickets', Tickets)
<1>1. PICK s \in Sockets : s = conn[c]
  BY DEF Transmit, KnownInv, WireInv
<1>2. PICK m : m = Len(inbuf[s]) + 1
  OBVIOUS
<1> DEFINE msg == Head(outbox[c])
           req == Parsed(msg)
           new == <<"server", s, m>>
           first == <<"outbox", c, 1>>
<1>3. /\ UNCHANGED <<at, inbox>> /\ outbox[c] # << >>
      /\ outbox' = [outbox EXCEPT ![c] = Tail(@)]
      /\ inbuf' = [inbuf EXCEPT ![s] = Append(@, req)]
  BY <1>1 DEF Transmit, PeerSends
<1>4. outbox[c] \in Seq(ClientMessages) /\ inbuf[s] \in Seq(ClientRequests)
  BY <1>1 DEF KnownInv, WireInv, PlainInv
<1>5. /\ outbox'[c] = Tail(outbox[c])
      /\ \A d \in Clients \ {c} : outbox'[d] = outbox[d]
      /\ inbuf'[s] = Append(inbuf[s], req)
      /\ \A r \in Sockets \ {s} : inbuf'[r] = inbuf[r]
  BY <1>1, <1>3 DEF KnownInv, WireInv, PlainInv
<1>6. /\ \A k \in DOMAIN outbox'[c] :
           k \in Nat \ {0} /\ k + 1 \in DOMAIN outbox[c] /\ outbox'[c][k] = outbox[c][k + 1]
      /\ 1 \in DOMAIN outbox[c] /\ outbox[c][1] = msg
  <2>1. PICK q \in Seq(ClientMessages) : q = outbox[c] /\ q # << >> /\ outbox'[c] = Tail(q)
    BY <1>3, <1>4, <1>5
  <2>2. /\ 1 \in DOMAIN q /\ q[1] = Head(q)
        /\ \A k \in DOMAIN Tail(q) :
             k \in Nat \ {0} /\ k + 1 \in DOMAIN q /\ Tail(q)[k] = q[k + 1]
    BY <2>1, Taken
  <2> QED
    BY <2>1, <2>2
<1>7. req \in ClientRequests
  BY <1>4, <1>6 DEF ClientRequests
<1>8. /\ DOMAIN inbuf'[s] = DOMAIN inbuf[s] \cup {m} /\ m \notin DOMAIN inbuf[s]
      /\ inbuf'[s][m] = req /\ \A k \in DOMAIN inbuf[s] : inbuf'[s][k] = inbuf[s][k]
  BY <1>2, <1>4, <1>5, <1>7, Appended
<1> HIDE DEF msg
<1>9. \A k \in WillBeAnswerable(outbox'[c]) :
        k \in Nat \ {0} /\ k + 1 \in WillBeAnswerable(outbox[c])
  BY <1>6 DEF WillBeAnswerable
<1>10. new \in Tickets' => first \in Tickets
  <2> SUFFICES ASSUME IsTicket(new)' PROVE first \in Tickets
    BY TicketKindsNext
  <2>1. m \in Answerable(inbuf'[s])
    BY DEF IsTicket
  <2>2. 1 \in WillBeAnswerable(outbox[c])
    BY <1>6, <1>8, <2>1 DEF Answerable, WillBeAnswerable
  <2> QED
    BY <2>2, TicketKinds DEF IsTicket
<1>11. \A k \in Nat : <<"outbox", c, k>> \in Tickets' =>
                      k # 0 /\ <<"outbox", c, k + 1>> \in Tickets
  <2> SUFFICES ASSUME NEW k \in Nat, IsTicket(<<"outbox", c, k>>)'
               PROVE  k # 0 /\ <<"outbox", c, k + 1>> \in Tickets
    BY TicketKindsNext
  <2>1. k \in WillBeAnswerable(outbox'[c])
    BY DEF IsTicket
  <2> QED
    BY <1>9, <2>1, TicketKinds DEF IsTicket
<1>12. \A x \in Tickets' : x = new \/ x \in Tickets \/ \E k \in Nat : x = <<"outbox", c, k>>
  <2> SUFFICES ASSUME NEW x, IsTicket(x)', x # new, \A k \in Nat : x # <<"outbox", c, k>>
               PROVE  IsTicket(x)
    BY TicketKinds, TicketKindsNext
  <2>1. /\ \A d \in Clients, t \in Threads : MaySend(d, t)' = MaySend(d, t)
        /\ inbox' = inbox
    BY <1>3 DEF MaySend
  <2>2. \A k \in Answerable(inbuf'[s]) : k = m \/ k \in Answerable(inbuf[s])
    BY <1>8 DEF Answerable
  <2>3. \A k \in WillBeAnswerable(outbox'[c]) : x # <<"outbox", c, k>>
    BY <1>9
  <2> QED
    BY <1>5, <2>1, <2>2, <2>3 DEF IsTicket
<1>13. \A k \in Nat : <<"outbox", c, k>> # new
  OBVIOUS
<1> HIDE DEF new
<1>14. MovedUp(Tickets', Tickets, "outbox", c, 1, new)
  BY <1>10, <1>11, <1>12, <1>13 DEF MovedUp
<1> QED
  BY <1>14, ExchangeQueue

\* The server has sent something to client c.
SentTo(c) == out' # << >> /\ Head(out').to = conn[c] /\ conn[c] # 0

\* A handler sends to one client at most, and at most one reply.
LEMMA ServesInbox ==
  ASSUME KnownInv, ServerIInv', NEW k \in 1 .. MaxConnect, Serves(k), NEW c \in Clients
  PROVE  /\ inbox'[c] \in Seq(ReplyCodes)
         /\ \A m \in DOMAIN inbox'[c] :
              m \in DOMAIN inbox[c] \/ (m = Len(inbox[c]) + 1 /\ SentTo(c))
<1>1. inbox[c] \in Seq(ReplyCodes) /\ inbox = [d \in Clients |-> inbox[d]]
  BY DEF KnownInv, InboxInv
<1>2. ASSUME out' # << >>, Head(out').to = conn[c]
      PROVE  SentTo(c) /\ Head(out').code \in ReplyCodes
  <2>1. out' \in Seq(Messages)
    BY DEF ServerIInv, DataInv, FriendTypeOK
  <2>2. Head(out') \in Messages
    BY <1>2, <2>1
  <2>3. Head(out').to \in Sockets /\ Head(out').code \in ReplyCodes
    BY <2>2 DEF Messages, ReplyCodes
  <2> QED
    BY <1>2, <2>3, SocketsAssumption DEF SentTo
<1>3. \/ inbox'[c] = inbox[c]
      \/ /\ inbox'[c] = inbox[c] \o <<Head(out').code>>
         /\ SentTo(c) /\ Head(out').code \in ReplyCodes
  <2>1. \/ Arrived(c) = inbox[c]
        \/ /\ Arrived(c) = inbox[c] \o <<Head(out').code>>
           /\ SentTo(c) /\ Head(out').code \in ReplyCodes
    <3>1. CASE out' # << >> /\ Head(out').to = conn[c]
      BY <1>2, <3>1 DEF Arrived, Sent
    <3>2. CASE ~ (out' # << >> /\ Head(out').to = conn[c])
      <4>1. inbox[c] \o << >> = inbox[c]
        BY <1>1
      <4> QED
        BY <3>2, <4>1 DEF Arrived, Sent
    <3> QED
      BY <3>1, <3>2
  <2> DEFINE arrived == [d \in Clients |-> Arrived(d)]
  <2>2. arrived[c] = Arrived(c)
    OBVIOUS
  <2>3. inbox' = arrived \/ inbox' = inbox
    BY DEF Serves
  <2> HIDE DEF arrived
  <2>4. inbox'[c] = Arrived(c) \/ inbox'[c] = inbox[c]
    BY <2>2, <2>3
  <2> QED
    BY <2>1, <2>4
<1>4. CASE inbox'[c] = inbox[c]
  BY <1>1, <1>4
<1>5. CASE /\ inbox'[c] = inbox[c] \o <<Head(out').code>>
           /\ SentTo(c) /\ Head(out').code \in ReplyCodes
  <2>1. PICK code \in ReplyCodes : code = Head(out').code
    BY <1>5
  <2>2. inbox'[c] = inbox[c] \o <<code>>
    BY <1>5, <2>1
  <2>3. inbox[c] \o <<code>> \in Seq(ReplyCodes) /\ Len(inbox[c] \o <<code>>) = Len(inbox[c]) + 1
    BY <1>1, <2>1
  <2>4. \A m \in 1 .. (Len(inbox[c]) + 1) : m \in 1 .. Len(inbox[c]) \/ m = Len(inbox[c]) + 1
    BY <1>1
  <2>5. DOMAIN inbox'[c] = 1 .. (Len(inbox[c]) + 1) /\ DOMAIN inbox[c] = 1 .. Len(inbox[c])
    BY <1>1, <2>2, <2>3
  <2> QED
    BY <1>5, <2>2, <2>3, <2>4, <2>5
<1> QED
  BY <1>3, <1>4, <1>5

\* The request that is served gives its ticket to the reply, if there is one,
\* and the requests behind it move up.
LEMMA ServesHandsOn ==
  ASSUME KnownInv, ServerIInv', NEW k \in 1 .. MaxConnect, Serves(k)
  PROVE  ExistsInjection(Tickets', Tickets)
<1>1. /\ RecvRequest(k) /\ UNCHANGED <<at, conn>>
      /\ \A c \in Clients : outbox'[c] = outbox[c] \/ outbox'[c] = << >>
  BY DEF Serves, netVars
<1>2. PICK s \in Sockets : s = clients[k] /\ inbuf[s] # << >>
  BY <1>1, ServerAssumption DEF RecvRequest, Visits, KnownInv, ServerIInv, TableInv
<1>3. PICK n \in 1 .. Len(inbuf[s]) :
        inbuf' = [inbuf EXCEPT ![s] = SubSeq(@, n + 1, Len(@))]
  BY <1>1, <1>2 DEF RecvRequest
<1>4. PICK q \in Seq(ClientRequests) : q = inbuf[s] /\ n \in 1 .. Len(q)
  BY <1>3 DEF KnownInv, PlainInv
<1>5. /\ inbuf'[s] = SubSeq(q, n + 1, Len(q))
      /\ \A r \in Sockets \ {s} : inbuf'[r] = inbuf[r]
  BY <1>3, <1>4 DEF KnownInv, PlainInv
<1>6. n \in Nat \ {0} /\ 1 \in DOMAIN q /\ q[1] = Head(q) /\ Head(q) \in ClientRequests
  BY <1>4
<1>7. \A j \in DOMAIN inbuf'[s] :
        j \in Nat \ {0} /\ j + n \in DOMAIN q /\ inbuf'[s][j] = q[j + n]
  <2>1. /\ Len(SubSeq(q, n + 1, Len(q))) = Len(q) - n
        /\ \A j \in 1 .. (Len(q) - n) : SubSeq(q, n + 1, Len(q))[j] = q[j + n]
    BY <1>4
  <2>2. DOMAIN SubSeq(q, n + 1, Len(q)) = 1 .. (Len(q) - n) /\ DOMAIN q = 1 .. Len(q)
    BY <1>4, <2>1
  <2>3. \A j \in 1 .. (Len(q) - n) : j \in Nat \ {0} /\ j + n \in 1 .. Len(q)
    BY <1>4
  <2> QED
    BY <1>5, <2>1, <2>2, <2>3
<1>8. \A j \in Answerable(inbuf'[s]) : j \in Nat \ {0} /\ j + n \in Answerable(inbuf[s])
  BY <1>4, <1>7 DEF Answerable
<1> DEFINE first == <<"server", s, 1>>
<1>9. out' # << >> => first \in Tickets
  <2> SUFFICES ASSUME out' # << >> PROVE first \in Tickets
    OBVIOUS
  <2>1. Serve(s, Head(q))
    BY <1>1, <1>2, <1>4 DEF RecvRequest
  <2>2. Head(q).code # "UNPARSABLE"
    BY <2>1 DEF Serve, Unparsable, Die
  <2>3. 1 \in Answerable(inbuf[s])
    BY <1>4, <1>6, <2>2 DEF Answerable
  <2> QED
    BY <2>3, TicketKinds DEF IsTicket
<1>10. PICK new :
         /\ new \in Tickets' => out' # << >>
         /\ \A j \in Nat : <<"server", s, j>> # new
         /\ \A c \in Clients : SentTo(c) => new = <<"inbox", c, Len(inbox[c]) + 1>>
  <2>1. CASE \E c \in Clients : SentTo(c)
    <3>1. PICK c \in Clients : SentTo(c)
      BY <2>1
    <3>2. PICK m : m = Len(inbox[c]) + 1
      OBVIOUS
    <3>3. \A d \in Clients : SentTo(d) => d = c
      BY <3>1 DEF SentTo, KnownInv, ConnInv
    <3>4. out' # << >>
      BY <3>1 DEF SentTo
    <3> WITNESS <<"inbox", c, m>>
    <3> QED
      BY <3>2, <3>3, <3>4
  <2>2. CASE ~ \E c \in Clients : SentTo(c)
    <3> WITNESS <<"nobody", 0, 0>>
    <3>1. ~ IsTicket(<<"nobody", 0, 0>>)'
      BY DEF IsTicket
    <3> QED
      BY <2>2, <3>1, TicketKindsNext
  <2> QED
    BY <2>1, <2>2
<1>11. \A j \in Nat : <<"server", s, j>> \in Tickets' =>
                      j # 0 /\ <<"server", s, j + n>> \in Tickets
  <2> SUFFICES ASSUME NEW j \in Nat, IsTicket(<<"server", s, j>>)'
               PROVE  j # 0 /\ <<"server", s, j + n>> \in Tickets
    BY TicketKindsNext
  <2>1. j \in Answerable(inbuf'[s])
    BY DEF IsTicket
  <2> QED
    BY <1>8, <2>1, TicketKinds DEF IsTicket
<1>12. \A x \in Tickets' : x = new \/ x \in Tickets \/ \E j \in Nat : x = <<"server", s, j>>
  <2> SUFFICES ASSUME NEW x, IsTicket(x)', x # new, \A j \in Nat : x # <<"server", s, j>>
               PROVE  IsTicket(x)
    BY TicketKinds, TicketKindsNext
  <2>1. \A c \in Clients, t \in Threads : MaySend(c, t)' = MaySend(c, t)
    BY <1>1 DEF MaySend
  <2>2. \A c \in Clients : \A j \in WillBeAnswerable(outbox'[c]) : j \in WillBeAnswerable(outbox[c])
    BY <1>1 DEF WillBeAnswerable
  <2>3. \A j \in Answerable(inbuf'[s]) : x # <<"server", s, j>>
    BY <1>8
  <2>4. \A c \in Clients : \A m \in DOMAIN inbox'[c] :
          m \in DOMAIN inbox[c] \/ x # <<"inbox", c, m>>
    BY <1>10, ServesInbox
  <2> QED
    BY <1>5, <2>1, <2>2, <2>3, <2>4 DEF IsTicket
<1>13. MovedUp(Tickets', Tickets, "server", s, n, new)
  BY <1>6, <1>9, <1>10, <1>11, <1>12 DEF MovedUp
<1> QED
  BY <1>13, ExchangeQueue

\* No step of the system makes two tickets of one.
LEMMA StepKeepsTickets ==
  KnownInv /\ ServerIInv' /\ TicketInv /\ [SystemNext]_systemVars => TicketInv'
<1> SUFFICES ASSUME KnownInv, ServerIInv', TicketInv, [SystemNext]_systemVars
             PROVE  TicketInv'
  OBVIOUS
<1>1. ExistsInjection(Tickets', Tickets)
  <2>1. ASSUME UNCHANGED <<at, inbox, outbox, inbuf>>
        PROVE  ExistsInjection(Tickets', Tickets)
    <3>1. \A x : IsTicket(x)' => IsTicket(x)
      BY <2>1 DEF IsTicket, MaySend
    <3>2. Tickets' \subseteq Tickets
      BY <3>1, TicketKinds, TicketKindsNext
    <3> QED
      BY <3>2, NoMore
  <2>2. CASE UNCHANGED systemVars
    BY <2>1, <2>2 DEF systemVars, serverVars, kernelVars, clientVars
  <2>3. CASE Admits
    BY <2>1, <2>3 DEF Admits, Accept
  <2>4. CASE Turns
    BY <2>1, <2>4 DEF Turns, Select, RecvZero, RecvError, Skip, kernelVars, clientVars
  <2>5. ASSUME NEW k \in 1 .. MaxConnect, Serves(k)
        PROVE  ExistsInjection(Tickets', Tickets)
    BY <2>5, ServesHandsOn
  <2>6. ASSUME NEW c \in Clients, Joins(c)
        PROVE  ExistsInjection(Tickets', Tickets)
    BY <2>6, JoinsHandsOn
  <2>7. ASSUME NEW c \in Clients, Transmit(c)
        PROVE  ExistsInjection(Tickets', Tickets)
    BY <2>7, TransmitHandsOn
  <2>8. ASSUME NEW c \in Clients, Hangup(c)
        PROVE  ExistsInjection(Tickets', Tickets)
    <3>1. /\ UNCHANGED <<at, inbuf>>
          /\ inbox' = [inbox EXCEPT ![c] = << >>]
          /\ outbox' = [outbox EXCEPT ![c] = << >>]
      BY <2>8 DEF Hangup, PeerCloses, PeerResets
    <3>2. /\ inbox'[c] = << >> /\ outbox'[c] = << >>
          /\ \A d \in Clients \ {c} : inbox'[d] = inbox[d] /\ outbox'[d] = outbox[d]
      BY <3>1 DEF KnownInv, InboxInv, WireInv
    <3>3. \A t \in Threads : MaySend(c, t)' => MaySend(c, t)
      BY <3>1 DEF MaySend
    <3>4. WillBeAnswerable(outbox'[c]) = {} /\ DOMAIN inbox'[c] = {}
      BY <3>2 DEF WillBeAnswerable
    <3> QED
      BY <3>1, <3>2, <3>3, <3>4, NothingNew
  <2>9. ASSUME NEW c \in Clients, ClientStep(c), UNCHANGED <<serverVars, netVars>>
        PROVE  ExistsInjection(Tickets', Tickets)
    BY <2>9, ClientStepHandsOn
  <2> QED
    BY <2>2, <2>3, <2>4, <2>5, <2>6, <2>7, <2>8, <2>9 DEF SystemNext, ServerLoop
<1> QED
  BY <1>1, Fun_ExistsInjTransitive DEF TicketInv

\* What is received are codes that handlers send.
LEMMA StepKeepsInbox ==
  KnownInv /\ ServerIInv' /\ [SystemNext]_systemVars => InboxInv'
<1> SUFFICES ASSUME KnownInv, ServerIInv', [SystemNext]_systemVars
             PROVE  InboxInv'
  OBVIOUS
<1>1. CASE UNCHANGED inbox
  BY <1>1 DEF KnownInv, InboxInv
<1>2. ASSUME NEW k \in 1 .. MaxConnect, Serves(k)
      PROVE  InboxInv'
  <2>1. \A c \in Clients : inbox'[c] \in Seq(ReplyCodes)
    BY <1>2, ServesInbox
  <2>2. inbox' = [d \in Clients |-> inbox'[d]]
    <3>1. inbox' = [d \in Clients |-> Arrived(d)] \/ inbox' = inbox
      BY <1>2 DEF Serves
    <3> QED
      BY <3>1 DEF KnownInv, InboxInv
  <2> QED
    BY <2>1, <2>2 DEF InboxInv
<1>3. ASSUME NEW c \in Clients, NEW t \in Threads, Receive(c, t)
      PROVE  InboxInv'
  <2>1. PICK n \in 1 .. Len(inbox[c]) :
          inbox' = [inbox EXCEPT ![c] = SubSeq(@, n + 1, Len(@))]
    BY <1>3 DEF Receive
  <2>2. SubSeq(inbox[c], n + 1, Len(inbox[c])) \in Seq(ReplyCodes)
    BY DEF KnownInv, InboxInv
  <2> QED
    BY <2>1, <2>2 DEF KnownInv, InboxInv
<1>4. ASSUME NEW c \in Clients, Hangup(c)
      PROVE  InboxInv'
  <2>1. << >> \in Seq(ReplyCodes)
    OBVIOUS
  <2> QED
    BY <1>4, <2>1 DEF Hangup, KnownInv, InboxInv
<1> QED
  BY <1>1, <1>2, <1>3, <1>4
     DEF SystemNext, ServerLoop, Admits, Turns, Joins, Starts, Transmit, ClientStep,
         FunLogin, FunMain, AnswerRequest, FriendMain, RecvWorkEnds, Interrupt,
         systemVars, clientVars

\* Before it is started, a client has one ticket.
LEMMA InitTickets == SystemInit => InboxInv /\ TicketInv
<1> SUFFICES ASSUME SystemInit PROVE InboxInv /\ TicketInv
  OBVIOUS
<1>1. /\ at = [c \in Clients |-> [t \in Threads |-> "off"]]
      /\ inbox = [c \in Clients |-> << >>] /\ outbox = [c \in Clients |-> << >>]
      /\ inbuf = [s \in Sockets |-> << >>]
  BY DEF SystemInit, ServerInit, ClientInit
<1>2. << >> \in Seq(ReplyCodes) /\ DOMAIN << >> = {}
  OBVIOUS
<1>3. InboxInv
  BY <1>1, <1>2 DEF InboxInv
<1>4. \A c \in Clients, t \in Threads : MaySend(c, t) => t = "main"
  BY <1>1 DEF MaySend, Prompts
<1>5. \A x \in Tickets : \E c \in Clients : x = <<"thread", c, "main">>
  <2> SUFFICES ASSUME NEW x, IsTicket(x)
               PROVE  \E c \in Clients : x = <<"thread", c, "main">>
    BY TicketKinds
  <2> QED
    BY <1>1, <1>2, <1>4 DEF IsTicket, WillBeAnswerable, Answerable
<1>6. TicketInv
  <2> DEFINE owner == [x \in Tickets |-> x[2]]
  <2>1. owner \in [Tickets -> Clients]
    BY <1>5
  <2>2. \A x, y \in Tickets : owner[x] = owner[y] => x = y
    BY <1>5
  <2>3. owner \in Injection(Tickets, Clients)
    BY <2>1, <2>2, Fun_IsInj
  <2> QED
    BY <2>3, Fun_ExistsInj DEF TicketInv
<1> QED
  BY <1>3, <1>6

-----------------------------------------------------------------------------
\* However many clients there are, whatever their users type and in whatever
\* order messages come, the replies that lie unread at one client are never
\* more than the clients, however slowly it reads.  That is what the kernels'
\* buffers must hold if the server's send() (account.c:16) is not to wait.
THEOREM SystemRepliesFit ==
  ASSUME IsFiniteSet(Clients)
  PROVE  SystemSpec => []RepliesFit
<1>1. SystemSpec => [](WireInv /\ ServerIInv /\ PlainInv /\ ClientInv /\ ConnInv)
  BY SystemInitPlain, SystemInitSafe, SystemInductive, SystemStepPlain,
     SystemStepSafe, PTL DEF SystemSpec
<1>2. WireInv /\ ServerIInv /\ PlainInv /\ ClientInv /\ ConnInv /\ InboxInv <=> KnownInv
  BY DEF KnownInv
<1>3. SystemSpec => [](KnownInv /\ TicketInv)
  BY <1>1, <1>2, InitTickets, StepKeepsInbox, StepKeepsTickets, PTL DEF SystemSpec
<1>4. KnownInv /\ TicketInv => RepliesFit
  <2> SUFFICES ASSUME KnownInv, TicketInv, NEW c \in Clients
               PROVE  Len(inbox[c]) <= Cardinality(Clients)
    BY DEF RepliesFit
  <2> DEFINE unread == 1 .. Len(inbox[c])
             ticket == [k \in unread |-> <<"inbox", c, k>>]
  <2>1. Len(inbox[c]) \in Nat /\ DOMAIN inbox[c] = unread
    BY DEF KnownInv, InboxInv
  <2>2. ticket \in [unread -> Tickets]
    BY <2>1, TicketKinds DEF IsTicket
  <2>3. \A j, k \in unread : ticket[j] = ticket[k] => j = k
    OBVIOUS
  <2>4. ticket \in Injection(unread, Tickets)
    BY <2>2, <2>3, Fun_IsInj
  <2> HIDE DEF ticket
  <2>5. ExistsInjection(unread, Clients)
    BY <2>4, Fun_ExistsInj, Fun_ExistsInjTransitive DEF TicketInv
  <2>6. Cardinality(unread) <= Cardinality(Clients)
    BY <2>5, Fun_ExistsInj, FS_Injection
  <2>7. Cardinality(unread) = Len(inbox[c])
    BY <2>1, FS_Interval
  <2> QED
    BY <2>6, <2>7
<1> QED
  BY <1>3, <1>4, PTL
=============================================================================
