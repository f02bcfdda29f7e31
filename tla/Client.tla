------------------------------- MODULE Client -------------------------------
(***************************************************************************)
(* The clients, client/src/main/main.c: in each process the thread main,   *)
(* which shows the menus and waits for what they bring about, and the      *)
(* thread recv_work, which is there for friend requests.  Both read the    *)
(* same socket, and both may stand at the keyboard at once.                *)
(*                                                                         *)
(* A step is one passage from waiting (at the keyboard or in recv()) to    *)
(* waiting.  Other modules connect the sockets to a server.                *)
(***************************************************************************)
EXTENDS Naturals, Sequences, Json

CONSTANTS
  Clients,     \* the client processes
  TypedSign,   \* what the user of a client types as name and password
  TypedPairs,  \* what users type as their own and a friend's name
  ListText,    \* the sentence that comes with PULL_FRIENDS_LIST
  MaxSent      \* bound: messages of a client on their way to the server

Threads == {"main", "recv_work"}

VARIABLES
  at,      \* where a thread waits: at a menu, in recv(), or nowhere any more
  link,    \* the client's end of its connection: "none", "up" or "ended"
  inbox,   \* the codes of the replies received and not yet read
  outbox,  \* the messages sent that have not reached the server
  lost     \* history: was a message of or to the client thrown away unheeded?

clientVars == <<at, link, inbox, outbox, lost>>

Prompts == {"login", "menu", "friends", "prompt"}
Places  == Prompts \cup {"off", "recv", "ended", "gone"}

Gone(c) == at[c]["main"] = "gone"

-----------------------------------------------------------------------------
Goes(c, t, place) == at' = [at EXCEPT ![c][t] = place]

\* exit(), a fault, SIGPIPE or the user's interrupt: both threads are gone.
Exits(c) == at' = [at EXCEPT ![c] = [t \in Threads |-> "gone"]]

\* send_msg() by thread t, which then waits at the given place.  Once the
\* server's end is gone send() fails or raises SIGPIPE; once recv_work has
\* closed the socket it only fails.
SendMsg(c, t, msg, place) ==
  \/ /\ link[c] = "up" /\ Len(outbox[c]) < MaxSent
     /\ outbox' = [outbox EXCEPT ![c] = Append(@, msg)]
     /\ Goes(c, t, place)
  \/ /\ link[c] = "ended"
     /\ \/ Goes(c, t, place)
        \/ at[c]["recv_work"] # "ended" /\ Exits(c)
     /\ UNCHANGED outbox

\* A menu entry that sends nothing.
SendNothing(c, t, place) == Goes(c, t, place) /\ UNCHANGED outbox

\* main() up to fun_login(): the connection is made and recv_work started.
Starts(c) ==
  /\ at[c]["main"] = "off"
  /\ link' = [link EXCEPT ![c] = "up"]
  /\ at' = [at EXCEPT ![c] = [t \in Threads |->
                                IF t = "main" THEN "login" ELSE "recv"]]
  /\ UNCHANGED <<inbox, outbox, lost>>

\* fun_login: sign in, sign up, exit(-1), or nothing after two wrong entries.
FunLogin(c) ==
  /\ at[c]["main"] = "login"
  /\ \/ \E sd \in TypedSign[c], code \in {"SIGN_IN", "SIGN_UP"} :
          SendMsg(c, "main", PackMsg(code, PackSignData(sd)), "recv")
     \/ SendNothing(c, "main", "recv")
     \/ Exits(c) /\ UNCHANGED outbox
  /\ UNCHANGED <<link, inbox, lost>>

\* Mutated form of FunMain: the menu is shown again at once after a request.
FunMainAgain(c, t) ==
  /\ at[c][t] = "menu"
  /\ \/ \E afd \in TypedPairs :
          SendMsg(c, t, PackMsg("ADD_FRIEND", PackAfData(afd)), "menu")
     \/ SendNothing(c, t, "recv")
  /\ UNCHANGED <<link, inbox, lost>>

\* fun_main: the friend list, a friend request, signing out, or nothing.  The
\* user types his own name, too, and nobody compares it with the sign-in.
FunMain(c, t) ==
  /\ at[c][t] = "menu"
  /\ \/ SendMsg(c, t, PackMsg("PULL_FRIENDS_LIST", Sentence(ListText)), "recv")
     \/ \E afd \in TypedPairs :
          SendMsg(c, t, PackMsg("ADD_FRIEND", PackAfData(afd)), "recv")
     \/ SendMsg(c, t, PackMsg("SIGN_OUT", Sentence("sign out")), "recv")
     \/ SendNothing(c, t, "recv")
  /\ UNCHANGED <<link, inbox, lost>>

\* The answer to a friend request carries a sentence and not the pair.
Answer(code) == {PackMsg(code, Sentence("answer"))}

\* The user admits or refuses a friend request; then fun_main.
AnswerRequest(c, t) ==
  /\ at[c][t] = "prompt"
  /\ \E code \in {"ADD_FRIEND_ADMIT", "ADD_FRIEND_REFUSE"} :
       \E msg \in Answer(code) : SendMsg(c, t, msg, "menu")
  /\ UNCHANGED <<link, inbox, lost>>

\* friend_main.  No LISTING_FRIEND ever arrives (ListFriends of module Friend
\* faults instead), so count is 0 and data[] is empty: any number but 113, which
\* leads to the menu, copies from NULL.
FriendMain(c) ==
  /\ at[c]["main"] = "friends"
  /\ Goes(c, "main", "menu") \/ Exits(c)
  /\ UNCHANGED <<link, inbox, outbox, lost>>

\* Mutated form of Shows: one case is missing.
ShowsButNoUser(code) ==
  CASE code \in {"SIGN_UP_SUCCESS", "SIGN_UP_DUP_USER", "SIGN_IN_PW_ERROR"} -> "login"
    [] code \in {"SIGN_IN_SUCCESS", "ADD_FRIEND_NO_USER"} -> "menu"
    [] code = "LISTING_FRIEND_FINISHED" -> "friends"
    [] code = "ADD_FRIEND_REQUEST" -> "prompt"
    [] OTHER -> "recv"

\* Mutated form of Shows: after the sign-up the menu comes and not the login.
ShowsMenuAfterSignUp(code) ==
  CASE code \in {"SIGN_UP_DUP_USER", "SIGN_IN_PW_ERROR", "SIGN_IN_NO_USER"} -> "login"
    [] code \in {"SIGN_UP_SUCCESS", "SIGN_IN_SUCCESS", "ADD_FRIEND_NO_USER"} -> "menu"
    [] code = "LISTING_FRIEND_FINISHED" -> "friends"
    [] code = "ADD_FRIEND_REQUEST" -> "prompt"
    [] OTHER -> "recv"

\* Where main waits after a reply of this code.
Shows(code) ==
  CASE code \in {"SIGN_UP_SUCCESS", "SIGN_UP_DUP_USER", "SIGN_IN_PW_ERROR",
                 "SIGN_IN_NO_USER", "SIGN_OUT_SUCCESS", "SIGN_DEL_SUCCESS"} -> "login"
    [] code \in {"SIGN_IN_SUCCESS", "SIGN_DEL_NO_USER", "SIGN_DEL_PW_ERROR",
                 "ADD_FRIEND_NO_USER", "ADD_FRIEND_DUP", "ADD_FRIEND_BLACK"} -> "menu"
    [] code = "LISTING_FRIEND_FINISHED" -> "friends"
    [] code = "ADD_FRIEND_REQUEST" -> "prompt"
    [] OTHER -> "recv"

\* recv_work heeds friend requests only.
Heeds(t, code) == t = "main" \/ code = "ADD_FRIEND_REQUEST"

\* recv() by thread t returns what has arrived, one reply or several; the NUL
\* behind the first one ends the parse and the others are lost.
Receive(c, t) ==
  /\ at[c][t] = "recv"
  /\ inbox[c] # << >>
  /\ \E n \in 1 .. Len(inbox[c]) :
       /\ inbox' = [inbox EXCEPT ![c] = SubSeq(@, n + 1, Len(@))]
       /\ lost' = [lost EXCEPT ![c] = @ \/ n > 1 \/ ~Heeds(t, Head(inbox[c]))]
  /\ Goes(c, t, IF Heeds(t, Head(inbox[c])) THEN Shows(Head(inbox[c])) ELSE "recv")
  /\ UNCHANGED <<link, outbox>>

\* recv() by recv_work returns 0: it closes the socket and ends.  In main the
\* same changes nothing, it calls recv() again.
RecvWorkEnds(c) ==
  /\ link[c] = "ended" /\ inbox[c] = << >>
  /\ at[c]["recv_work"] = "recv"
  /\ Goes(c, "recv_work", "ended")
  /\ UNCHANGED <<link, inbox, outbox, lost>>

\* The user interrupts the process.
Interrupt(c) ==
  /\ at[c]["main"] \notin {"off", "gone"}
  /\ Exits(c)
  /\ UNCHANGED <<link, inbox, outbox, lost>>

ClientStep(c) ==
  \/ FunLogin(c)
  \/ \E t \in Threads : FunMain(c, t) \/ AnswerRequest(c, t) \/ Receive(c, t)
  \/ FriendMain(c)
  \/ RecvWorkEnds(c)
  \/ Interrupt(c)

ClientInit ==
  /\ at = [c \in Clients |-> [t \in Threads |-> "off"]]
  /\ link = [c \in Clients |-> "none"]
  /\ inbox = [c \in Clients |-> << >>]
  /\ outbox = [c \in Clients |-> << >>]
  /\ lost = [c \in Clients |-> FALSE]
=============================================================================
