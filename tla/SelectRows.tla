----------------------------- MODULE SelectRows -----------------------------
(***************************************************************************)
(* lib/sqlite_util and the part of lib/linux_list it uses: the results of  *)
(* db_select as doubly linked rings of blocks on the heap.  A ring has a   *)
(* head, which is a struct select_row without columns, and a block per     *)
(* row.  A handler holds several results at once (add_friend up to three), *)
(* loops over one while it makes and releases others (list_friends), and   *)
(* frees each with free_select_rows_list or forgets it.                    *)
(*                                                                         *)
(* One thread does all of it; a step is one call of SQLite's callback, one *)
(* turn of a loop, or what lies between.                                   *)
(***************************************************************************)
EXTENDS Naturals, Sequences, FiniteSets, SequencesExt

CONSTANTS
  Blocks,      \* blocks malloc() hands out for a struct select_row
  Rows,        \* the columns of a row, as one value
  Null,        \* no columns: they are not allocated, or freed
  Poison,      \* LIST_POISON1 and LIST_POISON2
  MaxRows,     \* bound: rows of one result
  MaxResults   \* bound: results a handler holds at once

ASSUME RowsAssumption ==
  /\ Null \notin Rows /\ Poison \notin Blocks
  /\ MaxRows \in Nat /\ MaxResults \in Nat

VARIABLES
  alloc,   \* the allocated blocks
  next, prev, index, argv,  \* the members of struct select_row, by block
  task,    \* the call that runs: db_select, or one loop of the release
  pos,     \* {} or the cursor of a handler's loop over a result
  chain,   \* history: the blocks of each result at hand, in their order
  leaked,  \* history: the blocks nothing points to any more
  used     \* history: the blocks the last step dereferenced

heapVars == <<alloc, next, prev, index, argv>>
rowsVars == <<heapVars, task, pos, chain, leaked, used>>

Idle == [call |-> "none"]

Results == DOMAIN chain

\* A result a handler may use: its release has not begun.
AtHand(h) ==
  h \in Results /\ (task.call \in {"columns", "blocks"} => task.head # h)

-----------------------------------------------------------------------------
(* linux_list.h                                                            *)

InitListHead(h) ==
  /\ next' = [next EXCEPT ![h] = h]
  /\ prev' = [prev EXCEPT ![h] = h]

\* __list_add
ListInsert(new, before, after) ==
  /\ prev' = [prev EXCEPT ![after] = new, ![new] = before]
  /\ next' = [next EXCEPT ![new] = after, ![before] = new]

\* Mutated form of ListAddTail: list_add in its place.
ListAddFront(new, head) == ListInsert(new, head, next[head])

ListAddTail(new, head) == ListInsert(new, prev[head], head)

\* list_del
ListDel(entry) ==
  /\ prev' = [prev EXCEPT ![next[entry]] = prev[entry], ![entry] = Poison]
  /\ next' = [next EXCEPT ![prev[entry]] = next[entry], ![entry] = Poison]

-----------------------------------------------------------------------------
(* db_select and select_callback                                           *)

\* SQLite has these rows left for the callback; after the last one, or if the
\* statement was refused, db_select returns.
Running(h, rows) ==
  IF rows = << >> THEN Idle ELSE [call |-> "select", head |-> h, rows |-> rows]

\* db_select with a result of these rows, none if the statement is refused.
DbSelect(h, rows) ==
  /\ task = Idle /\ Cardinality(Results) < MaxResults
  /\ h \notin alloc
  /\ alloc' = alloc \cup {h}
  /\ InitListHead(h)
  /\ index' = [index EXCEPT ![h] = 0]
  /\ task' = Running(h, rows)
  /\ chain' = [g \in Results \cup {h} |-> IF g = h THEN << >> ELSE chain[g]]
  /\ used' = {h}
  /\ UNCHANGED <<argv, pos, leaked>>

\* Mutated form of NextIndex: the index follows that of the head.
NextIndexOfHead(h) == index[h] + 1

NextIndex(h) == index[prev[h]] + 1

SelectCallback(h, b) ==
  /\ task.call = "select" /\ task.head = h
  /\ b \notin alloc
  /\ alloc' = alloc \cup {b}
  /\ index' = [index EXCEPT ![b] = NextIndex(h)]
  /\ argv' = [argv EXCEPT ![b] = Head(task.rows)]
  /\ ListAddTail(b, h)
  /\ task' = Running(h, Tail(task.rows))
  /\ chain' = [chain EXCEPT ![h] = Append(@, b)]
  /\ used' = {h, prev[h], b}
  /\ UNCHANGED <<pos, leaked>>

-----------------------------------------------------------------------------
(* What handlers do with a result.                                         *)

\* The loop stands at block b of result h, or is left when b is the head.
Cursor(h, b) == IF b = h THEN {} ELSE {[head |-> h, at |-> b]}

\* list_for_each_entry begins; over a result without rows it does nothing.
LoopBegins(h) ==
  /\ task = Idle /\ pos = {} /\ h \in Results
  /\ next[h] # h
  /\ pos' = Cursor(h, next[h])
  /\ used' = {h}
  /\ UNCHANGED <<heapVars, task, chain, leaked>>

LoopGoesOn ==
  \E p \in pos :
    /\ task = Idle
    /\ pos' = Cursor(p.head, next[p.at])
    /\ used' = {p.at}
    /\ UNCHANGED <<heapVars, task, chain, leaked>>

\* No handler lets go of the result it is looping over.
MayLetGo(h) == task = Idle /\ h \in Results /\ \A p \in pos : p.head # h

\* add_friend and the answers return without freeing their results.
Forget(h) ==
  /\ MayLetGo(h)
  /\ chain' = [g \in Results \ {h} |-> chain[g]]
  /\ leaked' = leaked \cup {h} \cup Range(chain[h])
  /\ used' = {}
  /\ UNCHANGED <<heapVars, task, pos>>

-----------------------------------------------------------------------------
(* free_select_rows_list: a loop that frees the columns of each row, then  *)
(* one that takes the first block off the ring until there is none.        *)

Call(loop, h, b) == [call |-> loop, head |-> h, at |-> b]

\* Mutated form of FreeRows: the first loop is left out.
FreeRowsBlocksOnly(h) ==
  /\ MayLetGo(h)
  /\ task' = Call("blocks", h, h)
  /\ used' = {h}
  /\ UNCHANGED <<heapVars, pos, chain, leaked>>

FreeRows(h) ==
  /\ MayLetGo(h)
  /\ task' = Call("columns", h, next[h])
  /\ used' = {h}
  /\ UNCHANGED <<heapVars, pos, chain, leaked>>

\* Mutated form of FreeColumns: the block is freed along with its columns.
FreeColumnsAndBlock ==
  /\ task.call = "columns" /\ task.at # task.head
  /\ argv' = [argv EXCEPT ![task.at] = Null]
  /\ alloc' = alloc \ {task.at}
  /\ task' = Call("columns", task.head, next[task.at])
  /\ used' = {task.at}
  /\ UNCHANGED <<next, prev, index, pos, chain, leaked>>

FreeColumns ==
  /\ task.call = "columns" /\ task.at # task.head
  /\ argv' = [argv EXCEPT ![task.at] = Null]
  /\ task' = Call("columns", task.head, next[task.at])
  /\ used' = {task.at}
  /\ UNCHANGED <<alloc, next, prev, index, pos, chain, leaked>>

ColumnsFreed ==
  /\ task.call = "columns" /\ task.at = task.head
  /\ task' = Call("blocks", task.head, task.head)
  /\ used' = {}
  /\ UNCHANGED <<heapVars, pos, chain, leaked>>

FreeBlock ==
  /\ task.call = "blocks"
  /\ LET b == next[task.head] IN
       /\ b # task.head
       /\ ListDel(b)
       /\ alloc' = alloc \ {b}
       /\ used' = {task.head, b, next[b], prev[b]}
  /\ chain' = [chain EXCEPT ![task.head] = Tail(@)]
  /\ UNCHANGED <<index, argv, task, pos, leaked>>

\* "row_head = NULL" sets the parameter: the head itself is never freed.
RowsFreed ==
  /\ task.call = "blocks" /\ next[task.head] = task.head
  /\ task' = Idle
  /\ chain' = [g \in Results \ {task.head} |-> chain[g]]
  /\ leaked' = leaked \cup {task.head}
  /\ used' = {task.head}
  /\ UNCHANGED <<heapVars, pos>>

-----------------------------------------------------------------------------
RowsInit ==
  /\ alloc = {}
  /\ next = [b \in Blocks |-> Poison] /\ prev = next
  /\ index = [b \in Blocks |-> 0]
  /\ argv = [b \in Blocks |-> Null]
  /\ task = Idle /\ pos = {}
  /\ chain = << >> /\ leaked = {} /\ used = {}

RowsNext ==
  \/ \E h \in Blocks : \/ \E rows \in BoundedSeq(Rows, MaxRows) : DbSelect(h, rows)
                       \/ \E b \in Blocks : SelectCallback(h, b)
                       \/ LoopBegins(h)
                       \/ Forget(h)
                       \/ FreeRows(h)
  \/ LoopGoesOn
  \/ FreeColumns \/ ColumnsFreed \/ FreeBlock \/ RowsFreed

RowsSpec == RowsInit /\ [][RowsNext]_rowsVars

-----------------------------------------------------------------------------
(* Properties.                                                             *)

RowsTypeOK ==
  /\ alloc \subseteq Blocks
  /\ next \in [Blocks -> Blocks \cup {Poison}]
  /\ prev \in [Blocks -> Blocks \cup {Poison}]
  /\ index \in [Blocks -> Nat]
  /\ argv \in [Blocks -> Rows \cup {Null}]
  /\ Results \subseteq Blocks
  /\ \A h \in Results : chain[h] \in Seq(Blocks)
  /\ leaked \subseteq Blocks /\ used \subseteq Blocks

\* The blocks of a result in the order of its ring, the head at both ends.
Ring(h) == <<h>> \o chain[h] \o <<h>>

\* Every result is a ring that can be walked both ways, also while it grows
\* or is taken apart, and two results have no block in common.
RingsSound ==
  /\ \A h \in Results : \A k \in 1 .. Len(chain[h]) + 1 :
       next[Ring(h)[k]] = Ring(h)[k + 1] /\ prev[Ring(h)[k + 1]] = Ring(h)[k]
  /\ \A h \in Results : Cardinality(Range(Ring(h))) = Len(chain[h]) + 1
  /\ \A g, h \in Results : g # h => Range(Ring(g)) \cap Range(Ring(h)) = {}

\* What handlers take for the number of rows, the index of the block before
\* the head, is that.
CountIsRight ==
  \A h \in Results : AtHand(h) => index[prev[h]] = Len(chain[h])

RowsInv == RowsTypeOK /\ RingsSound /\ CountIsRight

\* No step reads or writes a block that was not allocated when it began, save
\* the one it allocates.
MemorySafe == [][used' \subseteq alloc \cup alloc']_rowsVars

\* free_select_rows_list frees all but the head: every allocated block belongs
\* to a result at hand or was left behind as a head or by a handler that
\* forgot its result, and a block is not freed before its columns.
OnlyKnownLeaks ==
  /\ alloc = leaked \cup UNION {Range(Ring(h)) : h \in Results}
  /\ \A b \in Blocks \ alloc : argv[b] = Null

\* Rings of blocks implement sequences of rows (module ResultRows): what the
\* links and the cursor show to a handler is what SQLite delivered, whatever
\* else it selects and frees in between.
ResultsOf == INSTANCE ResultRows WITH
  Handles <- Blocks,
  results <- [h \in {g \in Results : AtHand(g)} |->
                [k \in DOMAIN chain[h] |-> argv[chain[h][k]]]],
  visited <- {[result |-> p.head,
               row |-> CHOOSE k \in DOMAIN chain[p.head] : chain[p.head][k] = p.at] :
                p \in pos}

RefinesResultRows == ResultsOf!ResultSpec
=============================================================================
