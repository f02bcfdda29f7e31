# A TLA+ model of cqq

cqq is a small chat system: one server process that keeps accounts and
friendships in an SQLite file and serves its clients with a `select()` loop, and
a text-menu client. This directory holds TLA+ modules translated from its
source, TLC configurations that check them on small instances, and proofs that
TLAPS checks for every value of the constants. Paths below are relative to the
repository (`src/`).

```
tlc -workers 2 -config MCServer.cfg MCServer      # one run; see the table of runs
tlapm AccountProofs.tla                           # likewise the other *Proofs modules
```

## 1. Inventory

| Component | Source | State | Operations |
|---|---|---|---|
| Account service | `server/src/service/account/account.c` | table `tb_account` (name, password, descriptor) | `sign_up`, `sign_del`, `sign_in`, `sign_out`, `update_socket` |
| Friend service | `server/src/service/friend/friend.c` | tables `tb_friend` (pair, relation), `tb_fmsg` | `list_friends`, `add_friend`, `add_friend_admit`, `add_friend_refuse` |
| Select loop and client table | `server/src/main/main.c` | array `clients`, its length and capacity, the descriptor set, `select()`'s result | `add_client`, `del_client_by_socket`, `free_clients`, `serve`, the loop |
| SQLite helpers | `server/src/lib/sqlite_util/` | the open database, the results of `db_select` on the heap | `db_open`, `db_create_table`, `db_insert`, `db_select`, `db_update`, `db_delete`, `free_select_rows_list` |
| JSON helpers | `server/src/lib/json_util/`, `client/src/lib/json_util/` | none | `pack_*`, `parse_*` |
| Friend chat service | `server/src/service/friend_chat/friend_chat.c` | table `tb_fcmsg` | offline and online messages; `serve()` dispatches nothing to it |
| Heart beat | `server/src/service/heart_beat/` | none | the source is empty |
| Linked list | `*/src/lib/linux_list/linux_list.h` | – | vendored from the Linux kernel; the result lists use five of its operations |
| Client | `client/src/main/main.c` | one socket, two threads, and where each of them waits | `fun_login`, `fun_main`, `friend_main`, the reply loop of `main`, `recv_work` |
| Build and documents | `README.md`, `网络项目开题.txt`, makefiles | – | – |

**Interaction.** A client sends `{code, data}` as JSON over TCP. `main()` waits
in `select()`, accepts at most one connection a round, then visits its clients in
order and calls `recv()` on those whose bit is set. A message goes through
`serve()` to one handler, which reads and writes the tables and `send()`s replies
itself, sometimes to another client: `add_friend` forwards a request to the
descriptor that `tb_account` holds for the one who is asked. Presence is thus a
descriptor number in a table on disk, written by the account service at the
sign-in, reset by the loop when it drops a client, and read by the friend
service. A client has two threads that both `recv()` on its one socket: `main`
shows a menu according to each reply, `recv_work` heeds friend requests only and
drops everything else.

**What is hard.**

* *Order*: peers connect, send, close and reset between any two steps of the
  loop. A client is deleted while the loop runs over the table it is deleted from.
* *Stale state*: presence outlives connections, and the database outlives the
  process. Descriptors are numbers that a later process gives to others.
* *Failure*: nothing catches SIGPIPE and no result of a statement is looked at,
  so a handler may end half-way or report what did not happen. Several SQL
  statements lack a quote or parenthesis and are refused by SQLite every time.
* *Limits*: the table grows by doubling up to `MAX_CONNECT`, and `select()` is
  told to look at `MAX_CONNECT + 1` descriptors although a dropped client's
  descriptor is never closed, so descriptors are never used again.
* *Liveness*: a closed client is dropped only in a round in which `select()`
  returned exactly 1.
* *Threads*: which of a client's threads gets a reply is up to the kernel, and the
  wrong one drops it. Both may stand at the keyboard, and at the same menu.
* *Heap*: a handler makes and releases result lists while it loops over another,
  and half of the handlers release none.
* *Protocol*: the client sends sentences where the server parses an object; the
  row of two users is stored under the one who asked first, and what later
  requests and answers do depends on that order.

**What makes each component correct.**

* Account service: one row per name; credentials are neither lost nor changed by
  a failure or a restart, and who is told that he is registered is
  (`RefinesRegistry`). That this is so whatever he chose, that who has signed out
  is offline and that an account can be deleted is what the program says and does
  not do (`AccountRepliesTrue`).
* Friend service: one row for two users whoever asked (`OneRowPerPair`); no row
  without the account it was addressed to (`TargetHasAccount`); asking, answering
  and parting as two users would expect, with every request that is shown also
  stored (`RefinesContacts`).
* Client table and loop: within its memory and in order (`TableSound`); no ready
  client passed over (`NoReadyClientSkipped`); every client that `select()` looks
  at is read (`RequestsRead`); departures are noticed (`LoneDepartureNoticed` of
  one; of any, `DepartureNoticed`, they are not).
* Together: a friend request is shown only on connections of its two users
  (`RequestsStayPrivate`), and a departing client takes nobody else offline
  (`LiveSessionKept`).
* Client: the menu is shown only to whom the server has signed in
  (`MenuNeedsSignIn`); who asks to sign in gets an answer (`SignAnswered`); unread
  replies stay few (`RepliesFit`); what users type cannot end the server but in
  the known ways (`ServerEndsOnlyBy`).
* Result lists: sound rings with the right count (`RowsInv`), no use after free
  (`MemorySafe`), no leak beyond the known ones (`OnlyKnownLeaks`), and what a
  handler sees is the sequence SQLite delivered (`RefinesResultRows`).

## 2. Modules

| Module | Models | Extends |
|---|---|---|
| `Account` | `account.c` over the rows of `tb_account`, `send_msg`, the end of the process in a handler, its restart | – |
| `Registry` | abstract: a set of credentials, one per name, and what users are told of it | – |
| `Friend` | `friend.c` over the rows of `tb_friend`, beside the account service | `Account` |
| `Contacts` | abstract: who asked whom, who is a friend of whom, which requests are shown | – |
| `Server` | `main.c`: client table, loop, `serve()`; the kernel's side of the sockets; peers; end and start of the process | `Friend` |
| `Json` | `json_util.c` of both programs: what is packed, what is missing when parsed | – |
| `Client` | the client's `main.c`: two threads, one socket, menus and replies | `Json` |
| `System` | a server and its clients; messages on their way between them | `Server`, `Client` |
| `SelectRows` | `sqlite_util` and the list operations it uses: results as rings of blocks on the heap | – |
| `ResultRows` | abstract: results as sequences of rows, and a loop over one | – |
| `MCFriend`, `MCServer`, `MCSystem`, `MCSelectRows` | the instances TLC checks, the requests peers send and what users type in them | the module of that name |
| `AccountProofs`, `FriendProofs`, `ServerProofs`, `SystemProofs`, `SelectRowsProofs` | theorems and their proofs | the module of that name |
| `RepliesProofs` | the proof of `RepliesFit` of `System` | `SystemProofs` |

**State.** `tb_account` and `tb_friend` are sets of rows (records), the columns
being those of the `create table` statements. `out` is what the last handler gave
to `send()`, `up` whether the process runs, `broken` the sockets whose peer has
reset them. In `Server`, `clients` is the array as a sequence of descriptors (the
other members of `struct client` are never read), `capcity` its allocated length
(the source's spelling), `fdset`, `select_ret` and `i` are the variables of
`main()`; `pc` says which of its three blocks is next. `nextfd`, `peer`, `inbuf`
and `backlog` are the kernel's. `boots` and `session` are history: how often the
process has been started, and who signed in over which socket of this process.

In `Client`, `at[c][t]` is where thread `t` of client `c` waits: at a prompt
(`"login"`, `"menu"`, `"friends"`, `"prompt"`), in `recv()`, or nowhere any more;
`link` is its end of the connection, `inbox` the replies it has received and not
read, `outbox` the messages on their way to the server. `System` adds `conn`, the
server's descriptor for a client, and `waiting`, the connections that wait for
`accept()`. `lost` is history: whether a message of or to a client was thrown away
unheeded. In `SelectRows`, `next`, `prev`, `index` and `argv` are the members of
`struct select_row` by block, `alloc` the allocated blocks, `task` the call that
runs, `pos` the cursor of a handler's loop; `chain` (the blocks of each result in
their order), `leaked` and `used` are history.

**Actions.** One per handler, and in `Server` one per block of the loop:
`Select`, `Accept`, a visit to one client (`RecvRequest`, `RecvZero`,
`RecvError`), `Skip`. Handlers are atomic because the server is one thread and
nothing else opens the database; the peers act between blocks. A step of a client
is one passage of a thread from waiting to waiting: one menu entry with what it
sends, or one `recv()` with the menu it leads to. `System` takes `Server`'s
actions as they are and adds what the clients see of each: `Admits` is `Accept`
with the connection coming up or ending, `Serves` is `RecvRequest` with the
replies delivered, `Transmit` is `PeerSends` with the message `Parsed`, `Hangup` is
`PeerCloses` or `PeerResets` of a client that is gone. In `SelectRows` a step is
one call of `select_callback` or one turn of a loop.

**Data.** A `SELECT` is a set filter, an `UPDATE` replaces the rows it matches, an
`INSERT` is refused by the primary key. Statements SQLite refuses are modelled by
that: `SignOut` and `SignDel` change nothing, an answer in the opposite order
(`StoreAnswer`) changes nothing, and `tb_fmsg` is no variable because no statement
on it compiles. Names and passwords are members of small sets; those that hold an
unpaired apostrophe are `Unquotable`, and a statement that quotes one does not
compile (`Compiles`): the `INSERT` of `sign_up` and `add_friend` is refused, and
success is reported, or the request forwarded, all the same. Texts that make a
different statement compile are left out. JSON is abstracted to its fields. A
request whose data lacks a field its handler copies is `NotParsed(code)`: `strcpy`
from NULL ends the process.

**Abstract specifications.** `Registry` lets a user register and unregister, each
together with what he is told, and two more things happen: he is told that he is
registered when his texts are `Unquotable` and nothing is stored
(`RegisterInVain`), and he is told of something else (`TellOther`). A step that
repeats the last reply and changes nothing looks like no step. The account service
never takes `Unregister` (finding 6). `Contacts` shows a request to a user only in
the step that stores it (`Ask`), or, if a name is `Unquotable`, stores nothing
(`AskInVain`); only `Befriend` makes friends, of two users between whom there has been contact.

**Choices that stand for what the code leaves open.**

* `send()` to a reset socket either fails or raises SIGPIPE, which ends the
  process: which one depends on what the kernel reported before (`Send`).
* `accept()` may fail with EINVAL since `caddr_size` is not initialised
  (`main.c:134`): `Accept` may lose any connection.
* One `recv()` returns one message or several that arrived together; the NUL
  behind the first ends the parse, and the rest is lost (`RecvRequest`).
* `list_friends` passes an `int` as a string to json-c for the first friend it
  lists (`pack_fdata`); the process faults (`ListFriends`).
* `select()` copies back only the words of the descriptor sets that hold
  descriptors below `nfds`. The bits of descriptors from `CopiedBack` on (832 for
  `nfds` 801) stay as `FD_SET` left them, and `recv()` on such a client blocks.
  In the model the loop then has no step until that peer sends or closes.
* `recv()` of a client's two threads: either may get what has arrived (`Receive`),
  as one reply or as several of which only the first is parsed.
* A client whose server is gone: `send()` fails or raises SIGPIPE (`SendMsg`).
* A client that leaves replies unread resets the connection, at any time, and what
  it sent and has not reached the server is thrown away; one that does not closes
  it behind all it sent (`Hangup`).
* `friend_main` reads a number and indexes an array that is empty, as
  `LISTING_FRIEND` never arrives: 113, the code of the `q` it announces, leads to
  the menu, any other number copies from NULL (`FriendMain`).

## 3. Runs

| Run | cfg | Shows | States |
|---|---|---|---|
| `client_table` | MCServer | `ServerTypeOK`, `TableSound`, `NoReadyClientSkipped` beyond every limit of the table and of `select()`; `RequestsRead`, `LoneDepartureNoticed` under fairness | 108 902 |
| `services` | MCServices | `FriendInv`, `OneRowPerPair`, `TargetHasAccount`, `RefinesRegistry`, `RefinesContacts` of the whole process with requests of every code, refused `INSERT`s, handlers that end half-way, kills and restarts | 927 168 |
| `system` | MCSystem | `SystemTypeOK`, `MenuNeedsSignIn`, `RepliesFit`, `RequestsStayPrivate`, `ServerEndsOnlyBy`, `LiveSessionKept` with two clients | 2 547 066 |
| `system_live` | MCSystemLive | `SignAnswered` under fairness | 251 553 |
| `rows` | MCSelectRows | `RowsInv`, `OnlyKnownLeaks`, `MemorySafe`, `RefinesResultRows` | 7 594 |
| `request_reaches_friend` | RequestReachesFriend | violated: finding 1 | |
| `online_means_connected` | OnlineMeansConnected | violated: finding 2 | |
| `socket_is_of_user` | SocketIsOfItsUser | violated: finding 3 | |
| `reply_reaches_menu` | ReplyReachesMenu | violated: finding 4 | |
| `sign_out_answered` | SignOutAnswered | violated: finding 5 | |
| `account_replies_true` | AccountRepliesTrue | violated: finding 6 | |
| `departure_noticed` | DepartureNoticed | violated: finding 7 | |

The module of a run is `MCFriend` for `request_reaches_friend`, which needs the
services alone; `MCSystem` for the server with its clients (`system`, `system_live`,
`reply_reaches_menu`, `sign_out_answered`); `MCSelectRows` for `rows`; and `MCServer`
for the rest.

**Bounds.**

* Two users: friend requests relate two, and a user may ask himself. Two
  passwords where a wrong one matters (`services`, `account_replies_true`), one
  elsewhere. A third user in `services` has an apostrophe in his name; nobody has
  in the other runs, where a refused `INSERT` would add nothing.
* Every run starts from empty tables, as a first start without a database file
  does. The repository ships `server/test.db`, which need not be empty; starts on
  tables with rows are those after a `Restart` or `Boot`.
* `client_table`: `MaxConnect` 2, `InitialCapacity` 1, four descriptors and `CopiedBack` 4, so that the table doubles, is full, refuses a connection, holds
  a descriptor that `select()` ignores (3) and one whose bit stays set (4), and
  runs out of descriptors. Descriptor 0 is the listening one; the source's is 4 or
  so, and only its being below `nfds` matters.
* `MaxQueued` 2 in this run, so that messages coalesce and one waits behind
  another; 1 elsewhere. `MaxBacklog` 1: `accept()` takes one connection a round,
  and a second one in the queue acts as one that arrives later.
* `services`: two starts and one socket at a time, since the tables and not the
  connections are at issue; every request code. Both users ask each other and the
  answers name them in one order, which is that of the row or the opposite one.
  `account_replies_true`: the same with one start.
* `system`: two clients, enough for one's departure to disturb another and for a
  user to sign in twice: both users may sit at the first client (`AnyNames`). The
  users ask one pair, and one whose name is the sentence the client sends with
  `PULL_FRIENDS_LIST` (`ListText`): the server takes that sentence for the name
  whose friends it lists, so this is the one user whose list could hold anything.
  One message of each client on its way and one at the server (`MaxSent`,
  `MaxQueued`): `main` waits for a reply before it sends again, so only
  `recv_work`, after a friend request, can add a second. One start, as a client
  does not reconnect.
* `departure_noticed`: two descriptors, both below `nfds`; two clients are what it
  takes.
* `system_live`: each user at his own client, and no friend requests: without them
  a client has at most one message unanswered, so the bounds cut nothing off. The
  question is who reads a reply.
* `rows`: up to three results at once, as many as a handler holds, of up to two
  rows each, in six blocks. Handlers ask for at most one row, but for
  `list_friends`; two rows give a first, a last and a neighbour. A block that
  leaks is not given back, so the run ends when the blocks are used up.
* The blocks of `rows` are interchangeable and its properties are safety
  properties, so they are declared symmetric. No other run uses symmetry: sockets
  are ordered, and the runs on users check refinements or liveness.

The runs on the server and on `rows` do not check for deadlock: the process may
have ended for good (`MaxBoots`), every peer or user may stay silent, and the
blocks may be used up. `request_reaches_friend` does.

**Fairness.** `FairServerSpec` assumes weak fairness of `Loop`, the steps of the
server's one thread, and nothing of its peers. `FairSystemSpec` assumes weak
fairness of `ServerLoop`, the same thread; of `Transmit`, the kernels that carry a
message; and of `Receive` by some thread of a client in which a thread waits in
`recv()` with a reply there. Which of two waiting threads gets it is not assumed.
Nothing is assumed of the users, of connections arriving, of the failure of
`select()` or of restarts.

`SignAnswered` is what remains of "a sign-in is answered": its last disjuncts name
the two ways in which it is not, the end of the server and a message that was
thrown away because the wrong thread read it (or two had arrived together, which
friend requests would bring about).

`RequestsRead` is stated of the descriptors that `select()` looks at, and the run
has clients on others, too. Those are admitted and never watched: as no client's
descriptor is ever closed, this comes about after some 800 connections in the life
of a process (`main.c:149`). Both liveness properties of `client_table` have one
premise: the loop does not wait for ever in `recv()` for a client whose bit stays
set though it has sent nothing (`Blocked`), which the run reaches with descriptor 4.
`LoneDepartureNoticed` is what remains of the intention of `main.c:187`: a departed
client is dropped if it is alone in being ready from some time on. That any
departed client is dropped, even when nobody connects or sends any more, is
finding 7.

**Mutants.** Each property of a passing run has a mutated definition (the comment
"Mutated form of ...") that a plausible mistake in the code would give and under
which TLC refutes the property, e.g. `DelClientAfterShift`: the descriptor is read
after the shift, and another client's account goes offline.

## 4. Findings

1. `friend.c:108` `is_reverse ? friendname : username` selects the account that is
   notified of a repeated request. If the row is stored under the asking user it
   is his own: the request never reaches his friend.
2. `main.c:53` calls `update_socket` inside the loop that shifts the later
   clients: the account of the last client of the table stays online for ever.
3. `account.h:14` keeps descriptors in a table that outlives the process: after a
   restart a friend request goes to whoever has that number now.
4. Client `main.c:266`: `recv_work` is there for chat only and yet reads from the
   socket that `main` reads its replies from. It may get the reply to a sign-in and
   drops it; `main` waits for it for ever.
5. Client `main.c:229` signs out with a sentence for data, which `sign_out` parses
   as name and password: `strcpy` copies from NULL and the server ends. The menu's
   "8:退出登录" never leads back to the login.
6. `account.c:44`: the where clause of `sign_del` is not closed. The `SELECT` is
   refused and its empty result taken for a user who does not exist: who has an
   account is told that there is none and cannot delete it, although
   `网络项目开题.txt:20` and both programs promise it. TLC's trace is this one; two
   more replies break `AccountRepliesTrue`, each with the other two left out of it.
   `sign_out` (`account.c:98`) has the same slip, reports success and leaves the
   account online. `sign_up` (`account.c:33`) does not look at the result of
   `db_insert`: with an apostrophe in a name or password nothing is stored and the
   user is told that he is registered (`RegisterInVain`).
7. `main.c:195`: a client that is gone is deleted only if `select()` returned 1. Two
   that are gone are both ready in every round, so neither is ever deleted.

Two more slips are modelled and reached, and have no run of their own.
`friend.c:227` writes the where clause for a row in the opposite order into
`set_buf`, overwritten two lines on: the `UPDATE` is refused and the answer is lost
(`StoreAnswer`). Client `main.c:428` answers a friend request with a sentence for
data, which `add_friend_admit` parses as a pair: the user sees "已同意", and the
server ends (`ServerEndsOnlyBy` names this step, as it does the sign-out).

`SocketIsOfItsUser` (finding 3) and `RequestsStayPrivate` differ only in
`boots = 1`: restarts are the one way in which a request reaches a stranger.

## 5. Proofs

Every safety property, action property and refinement that a passing run checks is
also a theorem. All six proof modules are checked to the last leaf. They assume only
the named assumptions on the constants: `SocketsAssumption` (descriptors are
positive), `ServerAssumption` (descriptors are an interval; `MaxConnect`,
`InitialCapacity` positive; `CopiedBack > MaxConnect`; `Requests` are requests),
`SystemAssumption` (what users type is a name, a password or a pair; what the clients
send is in `Requests`) and `RowsAssumption` (`Null` is no row, `Poison` no block, and
the bounds of `SelectRows` are numbers). `Users`, `Passwords`, `Unquotable`, `Clients`, `Blocks` and the bounds are
arbitrary, and may be infinite; only `SystemRepliesFit` adds that there are finitely
many clients, without which a number of them means nothing.

* **`AccountProofs`.** `AccountInv` is inductive. `AccountInvariance`;
  `AccountImplementsRegistry` (`RefinesRegistry`): `SignUp` maps to `Register`, or to
  `RegisterInVain` if SQLite refuses the row, and every other step to `TellOther` or
  a stutter, because `Rebind` leaves credentials alone.
* **`FriendProofs`.** `FriendIInv` is `FriendInv` with `OneRowPerPair` and
  `TargetHasAccount`. Uniqueness is inductive only because `add_friend` inserts
  when neither order has a row (`Found(d) = {}`), and `TargetHasAccount` needs that
  no account step loses a name, taken from the registry's refinement.
  `FriendInvariance`, `PairsUnique`, `TargetsExist`. `FriendImplementsContacts`
  (`RefinesContacts`): an `UPDATE` of the one row of a pair decides what holds between
  these two users and between no others (`SetRelationDecides`), which fails as soon
  as a pair has two rows; hence `OneRowPerPair` comes first. A step that shows a
  request is the one that stores it, or ends the process and shows nothing
  (`SendShows`); without an apostrophe in a name there is no third way.
* **`ServerProofs`.** `ServerIInv` has five parts. `DataInv`: the services'
  invariants carry over, by the services' lemmas and `ServeCases`. `TableInv`: the
  clients are strictly ascending and below `nextfd`, which is why a new one can be
  appended and why `RemoveAt` keeps them distinct. `LoopInv`: among others,
  `accept()` is reached only with a connection waiting. `KernelInv`: types.
  `HistoryInv`: `BoundInv`, that in the first process the descriptor stored for a
  user is one he signed in over; it is what makes `RequestsStayPrivate` inductive.
  - `ServerInvariance`, `ClientTableSound`, `RequestsPrivate`.
  - `NoneSkipped` (`NoReadyClientSkipped`) needs two more facts: `CountInv`, that
    `select_ret` is the number of bits below `nfds` in `fdset`, also in the middle
    of a round, and the ascending order: if the deleted client is one whose bit
    `select()` did not set, all later ones are such, too.
  - `SessionsKept` (`LiveSessionKept`): the deleted descriptor is no longer in the
    table, so a row that is bound to one that is there keeps its socket.
  - `ServerImplementsRegistry` and `ServerImplementsContacts`: a request that is served
    is a step of a service, and nothing else in the process, its end and its start
    included, loses or changes a registration or a contact, or tells of one.

* **`SystemProofs`.** `WireInv`: what is on its way was sent by a client.
  - `SystemImplementsServer`: a step of the system is one of `Server`'s loop or peers,
    or changes nothing of it. `SystemPrivate` and `SystemKeepsSessions` follow from it.
  - `SystemEndsOnlyBy` (`ServerEndsOnlyBy`): the step in which the process ends reads a
    sign-out or an answer, or its handler sends to a connection that was reset. It
    rests on `RequestCodes`, that all else a client sends is parsed, and on
    `PlainInv`: an answer carries a sentence (client `main.c:282`), which no handler
    parses, so relation 2 is never stored and `list_friends` never meets the
    friendship it would fault on.
  - `SystemMenuNeedsSignIn` (`MenuNeedsSignIn`) rests on `ClientInv` and `ConnInv`. As
    long as nobody has signed in over a client's connection, its threads stand
    before the login menu or in `recv()`, its messages on their way in both places
    are sign-ins and sign-ups, and its unread replies are refusals of these or
    `SIGN_UP_SUCCESS`. A request shown to it would contradict
    `RequestsStayPrivate`. `ConnInv`: a client is accepted once, on a descriptor that
    no other has and nothing was sent over.
  - `SystemInvariance` (`SystemTypeOK`).

* **`RepliesProofs`.** `SystemRepliesFit` (`RepliesFit`). That a client's unread replies
  are bounded says nothing of where the replies come from, so it is not inductive.
  `TicketInv` counts what can still become a reply, wherever it is: a thread at the
  keyboard or a client not yet started, a message on its way or at the server that a
  handler can parse, an unread reply. `Tickets` names each of these by its place, and
  `TicketInv` says that there is an injection from them into the clients.
  - It holds at first, when each client has the one ticket of its thread `main`.
  - For each step an injection from the new tickets into the old ones is given: a
    menu that sends hands its ticket to the message (`SendMsgHandsOn`), a message
    takes it along to the server (`TransmitHandsOn`), a request that is served gives
    it to the reply, whichever client that goes to (`ServesHandsOn`), and a thread
    that reads has the ticket of the last unread reply (`ReceiveHandsOn`).
    `MovedUp` covers the queues, whose messages change place when the first is taken.
  - It says nothing of the sizes of buffers: whether `send()` waits is up to the kernels.
  - The one message after which a menu comes without a reply, the answer to a friend
    request, has no ticket, since its handler cannot parse it (`AnswersUnparsable`).
    With a client that sent the pair instead, the theorem would not hold.

* **`SelectRowsProofs`.** `RowsIInv` has six parts beside the types. `BlockAt(h, k)` is the
  block at place `k` of the ring of `h`, with the head at place 0 and again behind
  the last row.
  - `LinkInv`: neighbours point to each other. `ApartInv`: a block has one place, in
    one ring, so that an insertion or a release touches no ring but its own.
  - `HeapInv`: an allocated block is in a ring or leaked, never both. `OnlyKnownLeaks`
    allows both, and then letting go of a result could free what another holds.
  - `CountInv`: every block of a result at hand has its place for its index, where
    `RowsInv` only speaks of the last one; the next index is computed from it.
  - `TaskInv`: what `db_select` or `free_select_rows_list` is at, and that a release at
    place `k + 1` has freed the columns of the rows up to `k`. Without it the second loop
    might free a block before its columns.
  - `PosInv`: a handler's loop stands on a row of a result that nothing is done with.
  - `RowsInvariance` (`RowsInv`): `RingWrittenOut` and `RingSize` turn places back into the
    sequence `Ring(h)` and count its blocks. `LeaksKnown` (`OnlyKnownLeaks`).
  - `RowsMemorySafe` (`MemorySafe`): one case per action in `StepIsSafe`, each by the place
    of the blocks it uses.
  - `RowsImplementResults` (`RefinesResultRows`): what a handler sees of a result is the
    sequence of rows SQLite delivered. A callback is `Deliver`, a turn of a loop is
    `Advance`. A result is discarded as soon as its release begins; the rest of
    the release is a stutter.

**Model-checked only.** Liveness (`SignAnswered`, `RequestsRead`,
`LoneDepartureNoticed`), which is out of the prover's reach.

## 6. What is not modelled

* The friend chat service: no code reaches it, and its table, which is created, is
  read by nothing. Were it dispatched, `parse_fmdata` would fault on every message
  (`json_util.c:101` copies to address 0), and the `SELECT` of `list_offline_msg`
  names a column that does not exist; there is no behaviour to check.
* The heart beat: the source is empty.
* `tb_fmsg`: no statement on it compiles. `del_friend` is empty, `black_friend`
  is declared and not defined. `set_client_username`, `set_client_sockaddr`,
  `update_socket_by_username`, `db_close` and the client's `parse_fdata` are not
  reached by any message.
* The rest of `linux_list.h`: vendored, and unused.
* Sizes of kernel buffers: `RepliesFit` bounds what a client leaves unread instead.
  Messages that arrive in parts. SQLite's own use of descriptors, and I/O errors of
  the database. Resets of connections that are not yet accepted. Allocation failures.
* A client that finds no server: it returns -1 and has no state.
* Text: the wording of messages and screens, lengths of names and statements against
  their buffers (`scanf("%s", &c)` writes one byte past a `char`), passwords in the
  clear. Fixed-size buffers are taken to be large enough.

## 7. Plan

What is left is the safety part of `SignAnswered`, as an invariant that can be proved:
a client that waits for the reply to a sign-in has it, or its request, under way,
unless `lost` says otherwise. It needs a history variable for what `main` waits for.
