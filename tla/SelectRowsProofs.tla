-------------------------- MODULE SelectRowsProofs --------------------------
(***************************************************************************)
(* Proofs about the results of db_select, for any heap, any rows and any   *)
(* number of results at hand.                                              *)
(***************************************************************************)
EXTENDS SelectRows, TLAPS, FiniteSetTheorems, FunctionTheorems, SequenceTheorems

-----------------------------------------------------------------------------
(* The inductive invariant.                                                *)

\* The block at place k of the ring of head h: the head is at place 0 and
\* again behind the last row.
BlockAt(h, k) == IF k \in 1 .. Len(chain[h]) THEN chain[h][k] ELSE h

Places(h) == 0 .. Len(chain[h])

\* Neighbours in a ring point to each other.
LinkInv ==
  \A h \in Results : \A k \in Places(h) :
    next[BlockAt(h, k)] = BlockAt(h, k + 1) /\ prev[BlockAt(h, k + 1)] = BlockAt(h, k)

\* A block has one place, in one ring.
ApartInv ==
  \A g, h \in Results : \A j \in Places(g), k \in Places(h) :
    BlockAt(g, j) = BlockAt(h, k) => g = h /\ j = k

\* What is allocated is in a ring or leaked, and not both; what is not
\* allocated has no columns.
HeapInv ==
  /\ \A h \in Results : \A k \in Places(h) : BlockAt(h, k) \in alloc \ leaked
  /\ leaked \subseteq alloc
  /\ \A b \in alloc \ leaked : \E h \in Results : \E k \in Places(h) : b = BlockAt(h, k)
  /\ \A b \in Blocks \ alloc : argv[b] = Null

\* The blocks of a result at hand are numbered by their places and have their
\* columns.
CountInv ==
  \A h \in Results : AtHand(h) =>
    /\ \A k \in Places(h) : index[BlockAt(h, k)] = k
    /\ \A k \in 1 .. Len(chain[h]) : argv[chain[h][k]] \in Rows

\* The columns of the first n rows of a result are freed.
Freed(h, n) == \A k \in 1 .. n : argv[BlockAt(h, k)] = Null

\* What runs, and how far it has come.
TaskInv ==
  \/ task = Idle
  \/ \E h \in Results, rows \in Seq(Rows) :
       rows # << >> /\ task = [call |-> "select", head |-> h, rows |-> rows]
  \/ \E h \in Results : \E k \in Places(h) :
       task = Call("columns", h, BlockAt(h, k + 1)) /\ Freed(h, k)
  \/ \E h \in Results : task = Call("blocks", h, h) /\ Freed(h, Len(chain[h]))

\* A loop of a handler stands at a row of a result nothing else is done with.
PosInv ==
  \/ pos = {}
  \/ \E h \in Results : \E k \in 1 .. Len(chain[h]) :
       /\ pos = {[head |-> h, at |-> chain[h][k]]}
       /\ task # Idle => task.head # h

RowsIInv ==
  RowsTypeOK /\ LinkInv /\ ApartInv /\ HeapInv /\ CountInv /\ TaskInv /\ PosInv

-----------------------------------------------------------------------------
(* Facts about rings and tasks.                                            *)

\* The places of a ring and its blocks.
LEMMA RingBlocks ==
  ASSUME RowsTypeOK, NEW h \in Results
  PROVE  /\ h \in Blocks /\ chain[h] \in Seq(Blocks) /\ Len(chain[h]) \in Nat
         /\ \A k \in Int : BlockAt(h, k) \in Blocks
         /\ BlockAt(h, 0) = h /\ BlockAt(h, Len(chain[h]) + 1) = h
         /\ \A k \in 1 .. Len(chain[h]) : BlockAt(h, k) = chain[h][k] /\ k \in Places(h)
         /\ 0 \in Places(h) /\ Len(chain[h]) \in Places(h)
<1>1. h \in Blocks /\ chain[h] \in Seq(Blocks)
  BY DEF RowsTypeOK
<1>2. Len(chain[h]) \in Nat /\ \A k \in 1 .. Len(chain[h]) : chain[h][k] \in Blocks
  BY <1>1
<1>3. QED
  BY <1>1, <1>2 DEF BlockAt, Places

\* The blocks and the head of a result are all different.
LEMMA RingApart ==
  ASSUME RowsTypeOK, ApartInv, NEW h \in Results
  PROVE  /\ \A k \in 1 .. Len(chain[h]) : chain[h][k] # h
         /\ \A j, k \in 1 .. Len(chain[h]) : chain[h][j] = chain[h][k] => j = k
<1>1. \A k \in 1 .. Len(chain[h]) : BlockAt(h, k) = chain[h][k] /\ k \in Places(h)
  BY RingBlocks
<1>2. BlockAt(h, 0) = h /\ 0 \in Places(h) /\ Len(chain[h]) \in Nat
  BY RingBlocks
<1>3. QED
  BY <1>1, <1>2 DEF ApartInv

\* What the call that runs says about the task.
LEMMA TaskCases ==
  ASSUME TaskInv
  PROVE  /\ task.call = "select" =>
              \E h \in Results, rows \in Seq(Rows) :
                rows # << >> /\ task = [call |-> "select", head |-> h, rows |-> rows]
         /\ task.call = "columns" =>
              \E h \in Results : \E k \in Places(h) :
                task = Call("columns", h, BlockAt(h, k + 1)) /\ Freed(h, k)
         /\ task.call = "blocks" =>
              \E h \in Results : task = Call("blocks", h, h) /\ Freed(h, Len(chain[h]))
         /\ task.call \notin {"select", "columns", "blocks"} => task = Idle
         /\ task # Idle => task.head \in Results
  BY DEF TaskInv, Call, Idle

\* Nothing is being released while a select runs or no call does.
LEMMA AllAtHand ==
  ASSUME task = Idle \/ task.call = "select"
  PROVE  \A h \in Results : AtHand(h)
  BY DEF AtHand, Idle

\* Steps that touch neither the links nor the results leave the rings alone.
LEMMA RingsFrame ==
  ASSUME LinkInv, ApartInv, HeapInv,
         UNCHANGED <<alloc, next, prev, argv, chain, leaked>>
  PROVE  LinkInv' /\ ApartInv' /\ HeapInv'
<1>1. \A h, k : BlockAt(h, k)' = BlockAt(h, k)
  BY DEF BlockAt
<1>2. \A h : Places(h)' = Places(h)
  BY DEF Places
<1>3. Results' = Results
  BY DEF Results
<1>4. QED
  BY <1>1, <1>2, <1>3 DEF LinkInv, ApartInv, HeapInv

\* A result that a step does not touch keeps its ring.
LEMMA SameRing ==
  ASSUME NEW h, chain'[h] = chain[h]
  PROVE  /\ \A k : BlockAt(h, k)' = BlockAt(h, k)
         /\ Places(h)' = Places(h)
  BY DEF BlockAt, Places

\* Every block of a ring is allocated and not leaked.
LEMMA RingAllocated ==
  ASSUME RowsTypeOK, HeapInv, NEW h \in Results
  PROVE  /\ \A k \in 0 .. Len(chain[h]) + 1 : BlockAt(h, k) \in alloc \ leaked
         /\ h \in alloc \ leaked
<1>1. BlockAt(h, 0) = h /\ BlockAt(h, Len(chain[h]) + 1) = h /\ Len(chain[h]) \in Nat
  BY RingBlocks
<1>2. \A k \in Places(h) : BlockAt(h, k) \in alloc \ leaked
  BY DEF HeapInv
<1>3. h \in alloc \ leaked
  BY <1>1, <1>2 DEF Places
<1>4. QED
  BY <1>1, <1>2, <1>3 DEF Places

-----------------------------------------------------------------------------
(* One lemma for each action.                                              *)

LEMMA DbSelectStep ==
  ASSUME RowsIInv, NEW h \in Blocks, NEW rows \in BoundedSeq(Rows, MaxRows),
         DbSelect(h, rows)
  PROVE  RowsIInv'
<1> USE DEF RowsIInv
<1>1. /\ task = Idle /\ h \notin alloc
      /\ alloc' = alloc \cup {h}
      /\ next' = [next EXCEPT ![h] = h] /\ prev' = [prev EXCEPT ![h] = h]
      /\ index' = [index EXCEPT ![h] = 0]
      /\ task' = Running(h, rows)
      /\ chain' = [g \in Results \cup {h} |-> IF g = h THEN << >> ELSE chain[g]]
      /\ used' = {h}
      /\ argv' = argv /\ pos' = pos /\ leaked' = leaked
  BY DEF DbSelect, InitListHead
<1>2. h \notin Results /\ h \notin leaked
  BY <1>1, RingAllocated DEF HeapInv
<1>3. /\ Results' = Results \cup {h}
      /\ chain'[h] = << >>
      /\ \A g \in Results : chain'[g] = chain[g]
  BY <1>1, <1>2 DEF Results
<1>4. \A g \in Results : /\ \A k : BlockAt(g, k)' = BlockAt(g, k)
                         /\ Places(g)' = Places(g)
  BY <1>3, SameRing
<1>5. Places(h)' = {0} /\ \A k : BlockAt(h, k)' = h
  BY <1>3 DEF Places, BlockAt
<1>6. \A g \in Results : \A k \in 0 .. Len(chain[g]) + 1 :
         BlockAt(g, k) # h /\ BlockAt(g, k) \in alloc \ leaked /\ BlockAt(g, k) \in Blocks
  BY <1>1, RingAllocated DEF RowsTypeOK
<1>7. \A g \in Results : Len(chain[g]) \in Nat /\ Places(g) = 0 .. Len(chain[g])
  BY RingBlocks DEF Places
<1>8. rows \in Seq(Rows)
  BY RowsAssumption DEF BoundedSeq, SeqOf
<1>9. RowsTypeOK'
  BY <1>1, <1>3 DEF RowsTypeOK
<1>10. LinkInv'
  <2>1. ASSUME NEW g \in Results, NEW k \in Places(g)
        PROVE  next'[BlockAt(g, k)] = BlockAt(g, k + 1) /\ prev'[BlockAt(g, k + 1)] = BlockAt(g, k)
    <3>1. BlockAt(g, k) # h /\ BlockAt(g, k + 1) # h
      BY <1>6, <1>7
    <3>2. QED
      BY <3>1, <1>1, <1>6, <1>7 DEF LinkInv, RowsTypeOK
  <2>2. next'[h] = h /\ prev'[h] = h
    BY <1>1 DEF RowsTypeOK
  <2>3. QED
    BY <2>1, <2>2, <1>3, <1>4, <1>5 DEF LinkInv
<1>11. ApartInv'
  BY <1>1, <1>3, <1>4, <1>5, <1>6, <1>7 DEF ApartInv
<1>12. HeapInv'
  <2>1. (leaked \subseteq alloc)' /\ (\A b \in Blocks \ alloc : argv[b] = Null)'
    BY <1>1 DEF HeapInv
  <2>2. (\A g \in Results : \A k \in Places(g) : BlockAt(g, k) \in alloc \ leaked)'
    BY <1>1, <1>2, <1>3, <1>4, <1>5, <1>6, <1>7
  <2>3. ASSUME NEW b \in (alloc \ leaked)'
        PROVE  (\E g \in Results : \E k \in Places(g) : b = BlockAt(g, k))'
    <3>1. CASE b = h
      BY <3>1, <1>3, <1>5
    <3>2. CASE b # h
      BY <3>2, <1>1, <1>3, <1>4 DEF HeapInv
    <3>3. QED
      BY <3>1, <3>2
  <2>4. QED
    BY <2>1, <2>2, <2>3 DEF HeapInv
<1>13. task' = Idle \/ task'.call = "select"
  BY <1>1 DEF Running
<1>14. CountInv'
  <2>1. \A g \in Results : AtHand(g)
    BY <1>1, AllAtHand
  <2>2. ASSUME NEW g \in Results'
        PROVE  /\ \A k \in Places(g)' : index'[BlockAt(g, k)'] = k
               /\ \A k \in 1 .. Len(chain'[g]) : argv'[chain'[g][k]] \in Rows
    <3>1. CASE g = h
      BY <3>1, <1>1, <1>3, <1>5 DEF RowsTypeOK
    <3>2. CASE g \in Results
      BY <3>2, <2>1, <1>1, <1>3, <1>4, <1>6, <1>7 DEF CountInv, RowsTypeOK
    <3>3. QED
      BY <3>1, <3>2, <1>3
  <2>3. QED
    BY <2>2 DEF CountInv
<1>15. TaskInv'
  BY <1>1, <1>3, <1>8 DEF TaskInv, Running
<1>16. PosInv'
  <2>1. task' # Idle => task'.head = h
    BY <1>1 DEF Running
  <2>2. QED
    BY <2>1, <1>1, <1>2, <1>3 DEF PosInv
<1>17. QED
  BY <1>9, <1>10, <1>11, <1>12, <1>14, <1>15, <1>16

LEMMA SelectCallbackStep ==
  ASSUME RowsIInv, NEW h \in Blocks, NEW b \in Blocks, SelectCallback(h, b)
  PROVE  RowsIInv'
<1> USE DEF RowsIInv
<1>1. PICK rows \in Seq(Rows) :
        rows # << >> /\ task = [call |-> "select", head |-> h, rows |-> rows] /\ h \in Results
  BY TaskCases DEF SelectCallback
<1>0. PICK L \in Nat, last \in Blocks : L = Len(chain[h]) /\ last = BlockAt(h, L)
  BY <1>1, RingBlocks
<1>2. /\ L = Len(chain[h]) /\ last = BlockAt(h, L) /\ chain[h] \in Seq(Blocks) /\ L \in Places(h)
      /\ BlockAt(h, 0) = h /\ BlockAt(h, L + 1) = h /\ Places(h) = 0 .. L
  BY <1>0, <1>1, RingBlocks DEF Places
<1>3. prev[h] = last
  BY <1>1, <1>2 DEF LinkInv
<1>4. /\ b \notin alloc
      /\ alloc' = alloc \cup {b}
      /\ index' = [index EXCEPT ![b] = index[last] + 1]
      /\ argv' = [argv EXCEPT ![b] = Head(rows)]
      /\ prev' = [prev EXCEPT ![h] = b, ![b] = last]
      /\ next' = [next EXCEPT ![b] = h, ![last] = b]
      /\ task' = Running(h, Tail(rows))
      /\ chain' = [chain EXCEPT ![h] = Append(@, b)]
      /\ used' = {h, last, b}
      /\ pos' = pos /\ leaked' = leaked
  BY <1>1, <1>3 DEF SelectCallback, NextIndex, ListAddTail, ListInsert
<1>5. /\ Results' = Results
      /\ chain'[h] = Append(chain[h], b)
      /\ \A g \in Results : g # h => chain'[g] = chain[g]
  BY <1>1, <1>4 DEF Results
<1>6. \A g \in Results : g # h => /\ \A k : BlockAt(g, k)' = BlockAt(g, k)
                                  /\ Places(g)' = Places(g)
  BY <1>5, SameRing
<1>7. /\ Append(chain[h], b) \in Seq(Blocks) /\ Len(Append(chain[h], b)) = L + 1
      /\ \A k \in 1 .. L : Append(chain[h], b)[k] = chain[h][k]
      /\ Append(chain[h], b)[L + 1] = b
  BY <1>2, AppendProperties
<1>8. /\ Places(h)' = 0 .. L + 1
      /\ \A k \in 0 .. L : BlockAt(h, k)' = BlockAt(h, k)
      /\ BlockAt(h, L + 1)' = b /\ BlockAt(h, L + 2)' = h
  BY <1>2, <1>5, <1>7 DEF Places, BlockAt
<1>9. \A g \in Results : \A k \in 0 .. Len(chain[g]) + 1 :
         BlockAt(g, k) # b /\ BlockAt(g, k) \in alloc \ leaked /\ BlockAt(g, k) \in Blocks
  BY <1>4, RingAllocated DEF RowsTypeOK
<1>10. \A g \in Results : Len(chain[g]) \in Nat /\ Places(g) = 0 .. Len(chain[g])
  BY RingBlocks DEF Places
<1>11. h # b /\ last # b /\ b \notin leaked /\ b \notin Results
  BY <1>1, <1>2, <1>4, <1>9, RingAllocated DEF HeapInv
<1>12. /\ \A k \in 0 .. L - 1 : BlockAt(h, k) # last
       /\ \A k \in 1 .. L : BlockAt(h, k) # h
       /\ \A g \in Results : g # h => \A k \in Places(g) : BlockAt(g, k) \notin {h, last}
  BY <1>1, <1>2 DEF ApartInv
<1>13. \A g \in Results : AtHand(g)
  BY <1>1, AllAtHand
<1>14. index[last] = L
  BY <1>1, <1>2, <1>13 DEF CountInv
<1>15. Head(rows) \in Rows /\ Tail(rows) \in Seq(Rows)
  BY <1>1, HeadTailProperties
<1>16. RowsTypeOK'
  <2>1. /\ next' \in [Blocks -> Blocks \cup {Poison}]
        /\ prev' \in [Blocks -> Blocks \cup {Poison}]
    BY <1>4 DEF RowsTypeOK
  <2>2. index' \in [Blocks -> Nat]
    BY <1>4, <1>14 DEF RowsTypeOK
  <2>3. argv' \in [Blocks -> Rows \cup {Null}]
    <3>1. argv \in [Blocks -> Rows \cup {Null}] /\ argv' = [argv EXCEPT ![b] = Head(rows)]
      BY <1>4 DEF RowsTypeOK
    <3>2. QED
      BY <3>1, <1>15
  <2>4. \A g \in Results : chain'[g] \in Seq(Blocks)
    BY <1>5, <1>7 DEF RowsTypeOK
  <2>5. QED
    BY <2>1, <2>2, <2>3, <2>4, <1>4, <1>5 DEF RowsTypeOK
<1>17. LinkInv'
  <2>1. ASSUME NEW g \in Results, g # h, NEW k \in Places(g)
        PROVE  next'[BlockAt(g, k)] = BlockAt(g, k + 1) /\ prev'[BlockAt(g, k + 1)] = BlockAt(g, k)
    <3>1. BlockAt(g, k) \notin {b, h, last}
      BY <2>1, <1>9, <1>10, <1>12
    <3>2. BlockAt(g, k + 1) \notin {b, h, last}
      <4>1. CASE k + 1 \in Places(g)
        BY <4>1, <2>1, <1>9, <1>10, <1>12
      <4>2. CASE k + 1 \notin Places(g)
        <5>1. BlockAt(g, k + 1) = BlockAt(g, 0) /\ 0 \in Places(g)
          BY <4>2, <2>1, <1>10, RingBlocks
        <5>2. QED
          BY <5>1, <2>1, <1>9, <1>10, <1>12
      <4>3. QED
        BY <4>1, <4>2
    <3>3. QED
      BY <3>1, <3>2, <2>1, <1>4, <1>9, <1>10 DEF LinkInv, RowsTypeOK
  <2>2. ASSUME NEW k \in 0 .. L - 1
        PROVE  next'[BlockAt(h, k)] = BlockAt(h, k + 1) /\ prev'[BlockAt(h, k + 1)] = BlockAt(h, k)
    <3>1. BlockAt(h, k) \notin {b, last} /\ BlockAt(h, k + 1) \notin {b, h}
      BY <1>1, <1>2, <1>9, <1>12
    <3>2. k \in Places(h) /\ BlockAt(h, k) \in Blocks /\ BlockAt(h, k + 1) \in Blocks
      BY <1>1, <1>2, <1>9
    <3>3. QED
      BY <3>1, <3>2, <1>1, <1>4 DEF LinkInv, RowsTypeOK
  <2>3. next'[last] = b /\ prev'[b] = last /\ next'[b] = h /\ prev'[h] = b
    BY <1>1, <1>2, <1>4, <1>11 DEF RowsTypeOK
  <2>4. \A k \in Places(h)' : k \in 0 .. L - 1 \/ k = L \/ k = L + 1
    BY <1>2, <1>8
  <2>5. \A k \in 0 .. L - 1 : k \in 0 .. L /\ k + 1 \in 0 .. L
    BY <1>2
  <2>6. \A k \in Places(h)' : /\ next'[BlockAt(h, k)'] = BlockAt(h, k + 1)'
                              /\ prev'[BlockAt(h, k + 1)'] = BlockAt(h, k)'
    <3>1. L + 1 + 1 = L + 2 /\ L \in 0 .. L
      BY <1>2
    <3>2. /\ next'[BlockAt(h, L)'] = BlockAt(h, L + 1)'
          /\ prev'[BlockAt(h, L + 1)'] = BlockAt(h, L)'
          /\ next'[BlockAt(h, L + 1)'] = BlockAt(h, L + 2)'
          /\ prev'[BlockAt(h, L + 2)'] = BlockAt(h, L + 1)'
      BY <3>1, <2>3, <1>2, <1>8
    <3>3. \A k \in 0 .. L - 1 : /\ next'[BlockAt(h, k)'] = BlockAt(h, k + 1)'
                                /\ prev'[BlockAt(h, k + 1)'] = BlockAt(h, k)'
      BY <2>2, <2>5, <1>8
    <3>4. QED
      BY <3>1, <3>2, <3>3, <2>4
  <2>7. QED
    BY <2>1, <2>6, <1>5, <1>6 DEF LinkInv
<1>18. ApartInv'
  <2>1. \A g \in Results : \A k \in Places(g)' :
          \/ k \in Places(g) /\ BlockAt(g, k)' = BlockAt(g, k) /\ BlockAt(g, k) # b
          \/ g = h /\ k = L + 1 /\ BlockAt(g, k)' = b
    BY <1>1, <1>2, <1>6, <1>8, <1>9, <1>10
  <2>2. QED
    BY <2>1, <1>5 DEF ApartInv
<1>19. HeapInv'
  <2>1. (leaked \subseteq alloc)' /\ (\A c \in Blocks \ alloc : argv[c] = Null)'
    BY <1>4 DEF HeapInv, RowsTypeOK
  <2>2. (\A g \in Results : \A k \in Places(g) : BlockAt(g, k) \in alloc \ leaked)'
    <3>1. ASSUME NEW g \in Results, g # h, NEW k \in Places(g)'
          PROVE  BlockAt(g, k)' \in (alloc \cup {b}) \ leaked
      BY <3>1, <1>6, <1>9, <1>10
    <3>2. ASSUME NEW k \in Places(h)'
          PROVE  BlockAt(h, k)' \in (alloc \cup {b}) \ leaked
      <4>1. CASE k = L + 1
        BY <4>1, <1>8, <1>11
      <4>2. CASE k \in 0 .. L
        BY <4>2, <1>1, <1>2, <1>8, <1>9
      <4>3. QED
        BY <4>1, <4>2, <1>2, <1>8
    <3>3. QED
      BY <3>1, <3>2, <1>4, <1>5
  <2>3. ASSUME NEW c \in (alloc \ leaked)'
        PROVE  (\E g \in Results : \E k \in Places(g) : c = BlockAt(g, k))'
    <3>1. CASE c = b
      <4>1. L + 1 \in Places(h)' /\ c = BlockAt(h, L + 1)'
        BY <3>1, <1>2, <1>8
      <4>2. QED
        BY <4>1, <1>1, <1>5
    <3>2. CASE c # b
      <4>1. PICK g \in Results : \E k \in Places(g) : c = BlockAt(g, k)
        BY <3>2, <1>4 DEF HeapInv
      <4>2. \A k \in Places(g) : k \in Places(g)' /\ BlockAt(g, k)' = BlockAt(g, k)
        BY <4>1, <1>2, <1>6, <1>8
      <4>3. QED
        BY <4>1, <4>2, <1>5
    <3>3. QED
      BY <3>1, <3>2
  <2>4. QED
    BY <2>1, <2>2, <2>3 DEF HeapInv
<1>20. CountInv'
  <2>1. ASSUME NEW g \in Results
        PROVE  /\ \A k \in Places(g)' : index'[BlockAt(g, k)'] = k
               /\ \A k \in 1 .. Len(chain'[g]) : argv'[chain'[g][k]] \in Rows
    <3>0. /\ \A k \in Places(g) : index[BlockAt(g, k)] = k
          /\ \A k \in 1 .. Len(chain[g]) : argv[chain[g][k]] \in Rows
      BY <1>13 DEF CountInv
    <3>1. \A k \in Places(g) : index'[BlockAt(g, k)] = k
      BY <3>0, <1>4, <1>9, <1>10 DEF RowsTypeOK
    <3>2. \A k \in 1 .. Len(chain[g]) : argv'[chain[g][k]] \in Rows
      <4>1. \A k \in 1 .. Len(chain[g]) : chain[g][k] = BlockAt(g, k)
        BY RingBlocks
      <4>2. \A k \in 1 .. Len(chain[g]) : chain[g][k] # b /\ chain[g][k] \in Blocks
        BY <4>1, <1>9, <1>10
      <4>3. QED
        BY <4>2, <3>0, <1>4 DEF RowsTypeOK
    <3>3. index'[b] = L + 1 /\ argv'[b] \in Rows
      BY <1>4, <1>14, <1>15, <1>2 DEF RowsTypeOK
    <3>4. CASE g # h
      BY <3>1, <3>2, <3>4, <1>5, <1>6
    <3>5. CASE g = h
      <4>1. ASSUME NEW k \in Places(h)' PROVE index'[BlockAt(h, k)'] = k
        <5>1. CASE k = L + 1
          BY <5>1, <3>3, <1>8
        <5>2. CASE k \in 0 .. L
          BY <5>2, <3>1, <3>5, <1>2, <1>8
        <5>3. QED
          BY <5>1, <5>2, <1>2, <1>8
      <4>2. \A k \in 1 .. Len(chain'[h]) : argv'[chain'[h][k]] \in Rows
        BY <3>2, <3>3, <3>5, <1>2, <1>5, <1>7
      <4>3. QED
        BY <4>1, <4>2, <3>5
    <3>6. QED
      BY <3>4, <3>5
  <2>2. QED
    BY <2>1, <1>5 DEF CountInv
<1>21. TaskInv'
  BY <1>1, <1>4, <1>5, <1>15 DEF TaskInv, Running
<1>22. PosInv'
  <2>1. CASE pos = {}
    BY <2>1, <1>4 DEF PosInv
  <2>2. CASE pos # {}
    <3>1. PICK g \in Results :
            g # h /\ \E k \in 1 .. Len(chain[g]) : pos = {[head |-> g, at |-> chain[g][k]]}
      BY <2>2, <1>1 DEF PosInv, Idle
    <3>2. task' # Idle => task'.head = h
      BY <1>4 DEF Running
    <3>3. QED
      BY <3>1, <3>2, <1>4, <1>5 DEF PosInv
  <2>3. QED
    BY <2>1, <2>2
<1>23. QED
  BY <1>16, <1>17, <1>18, <1>19, <1>20, <1>21, <1>22

\* A loop over a result moves, and nothing else does.
LEMMA LoopStep ==
  ASSUME RowsIInv, task = Idle, UNCHANGED <<heapVars, task, chain, leaked>>,
         used' \subseteq Blocks,
         \/ pos' = {}
         \/ \E h \in Results : \E k \in 1 .. Len(chain[h]) :
              pos' = {[head |-> h, at |-> chain[h][k]]}
  PROVE  RowsIInv'
<1> USE DEF RowsIInv
<1>1. UNCHANGED <<alloc, next, prev, index, argv, task, chain, leaked>>
  BY DEF heapVars
<1>2. Results' = Results
  BY <1>1 DEF Results
<1>3. RowsTypeOK'
  BY <1>1, <1>2 DEF RowsTypeOK
<1>4. LinkInv' /\ ApartInv' /\ HeapInv'
  BY <1>1, RingsFrame
<1>5. (\A h, k : BlockAt(h, k)' = BlockAt(h, k)) /\ (\A h : Places(h)' = Places(h))
  BY <1>1 DEF BlockAt, Places
<1>6. CountInv'
  BY <1>1, <1>2, <1>5 DEF CountInv, AtHand
<1>7. TaskInv' /\ PosInv'
  BY <1>1, <1>2 DEF TaskInv, PosInv
<1>8. QED
  BY <1>3, <1>4, <1>6, <1>7

\* The block behind place k of a ring, and what the cursor makes of it.
LEMMA NextPlace ==
  ASSUME RowsTypeOK, LinkInv, ApartInv, NEW h \in Results, NEW k \in Places(h)
  PROVE  /\ k < Len(chain[h]) => /\ k + 1 \in 1 .. Len(chain[h])
                                 /\ next[BlockAt(h, k)] = chain[h][k + 1]
                                 /\ chain[h][k + 1] # h
         /\ k = Len(chain[h]) => next[BlockAt(h, k)] = h
<1>1. /\ Len(chain[h]) \in Nat /\ k \in 0 .. Len(chain[h])
      /\ BlockAt(h, Len(chain[h]) + 1) = h
      /\ \A j \in 1 .. Len(chain[h]) : BlockAt(h, j) = chain[h][j]
  BY RingBlocks DEF Places
<1>2. next[BlockAt(h, k)] = BlockAt(h, k + 1)
  BY DEF LinkInv
<1>3. QED
  BY <1>1, <1>2, RingApart

LEMMA LoopBeginsStep ==
  ASSUME RowsIInv, NEW h \in Blocks, LoopBegins(h)
  PROVE  RowsIInv'
<1> USE DEF RowsIInv
<1>1. /\ task = Idle /\ h \in Results /\ next[h] # h
      /\ pos' = Cursor(h, next[h]) /\ used' = {h}
      /\ UNCHANGED <<heapVars, task, chain, leaked>>
  BY DEF LoopBegins
<1>2. BlockAt(h, 0) = h /\ 0 \in Places(h) /\ Len(chain[h]) \in Nat
  BY <1>1, RingBlocks
<1>3. 1 \in 1 .. Len(chain[h]) /\ next[h] = chain[h][1]
  BY <1>1, <1>2, NextPlace
<1>4. pos' = {[head |-> h, at |-> chain[h][1]]}
  BY <1>1, <1>3 DEF Cursor
<1>5. QED
  BY <1>1, <1>3, <1>4, LoopStep

LEMMA LoopGoesOnStep ==
  ASSUME RowsIInv, LoopGoesOn
  PROVE  RowsIInv'
<1> USE DEF RowsIInv
<1>1. PICK p \in pos : /\ task = Idle
                       /\ pos' = Cursor(p.head, next[p.at])
                       /\ used' = {p.at}
                       /\ UNCHANGED <<heapVars, task, chain, leaked>>
  BY DEF LoopGoesOn
<1>2. PICK h \in Results : \E k \in 1 .. Len(chain[h]) : p = [head |-> h, at |-> chain[h][k]]
  BY DEF PosInv
<1>3. PICK k \in 1 .. Len(chain[h]) : p = [head |-> h, at |-> chain[h][k]]
  BY <1>2
<1>4. k \in Places(h) /\ BlockAt(h, k) = chain[h][k] /\ chain[h][k] \in Blocks
      /\ Len(chain[h]) \in Nat
  BY RingBlocks
<1>5. CASE k = Len(chain[h])
  <2>1. next[p.at] = h /\ p.head = h
    BY <1>3, <1>4, <1>5, NextPlace
  <2>2. QED
    BY <2>1, <1>1, <1>3, <1>4, LoopStep DEF Cursor
<1>6. CASE k # Len(chain[h])
  <2>1. k + 1 \in 1 .. Len(chain[h]) /\ next[p.at] = chain[h][k + 1] /\ chain[h][k + 1] # h
    BY <1>3, <1>4, <1>6, NextPlace
  <2>2. pos' = {[head |-> h, at |-> chain[h][k + 1]]}
    BY <2>1, <1>1, <1>3 DEF Cursor
  <2>3. QED
    BY <2>1, <2>2, <1>1, <1>3, <1>4, LoopStep
<1>7. QED
  BY <1>5, <1>6

\* A result is gone, and its blocks are leaked.
LEMMA LetGoStep ==
  ASSUME RowsIInv, NEW h \in Results,
         task = Idle \/ task.head = h, \A p \in pos : p.head # h,
         chain' = [g \in Results \ {h} |-> chain[g]],
         leaked' = leaked \cup {BlockAt(h, k) : k \in Places(h)},
         task' = Idle, used' \subseteq Blocks, UNCHANGED <<heapVars, pos>>
  PROVE  RowsIInv'
<1> USE DEF RowsIInv
<1>1. UNCHANGED <<alloc, next, prev, index, argv, pos>>
  BY DEF heapVars
<1>2. /\ Results' = Results \ {h}
      /\ \A g \in Results' : chain'[g] = chain[g]
  BY DEF Results
<1>3. \A g \in Results' : /\ \A k : BlockAt(g, k)' = BlockAt(g, k)
                          /\ Places(g)' = Places(g)
  BY <1>2, SameRing
<1>4. \A k \in Places(h) : BlockAt(h, k) \in alloc /\ BlockAt(h, k) \in Blocks
  BY DEF HeapInv, RowsTypeOK
<1>5. RowsTypeOK'
  BY <1>1, <1>2, <1>4 DEF RowsTypeOK
<1>6. LinkInv'
  BY <1>1, <1>2, <1>3 DEF LinkInv
<1>7. ApartInv'
  BY <1>2, <1>3 DEF ApartInv
<1>8. HeapInv'
  <2>1. (leaked \subseteq alloc)' /\ (\A b \in Blocks \ alloc : argv[b] = Null)'
    BY <1>1, <1>4 DEF HeapInv
  <2>2. ASSUME NEW g \in Results', NEW k \in Places(g)
        PROVE  BlockAt(g, k) \in alloc \ leaked'
    <3>1. BlockAt(g, k) \in alloc \ leaked
      BY <2>2, <1>2 DEF HeapInv
    <3>2. BlockAt(g, k) \notin {BlockAt(h, j) : j \in Places(h)}
      BY <2>2, <1>2 DEF ApartInv
    <3>3. QED
      BY <3>1, <3>2
  <2>3. ASSUME NEW b \in alloc \ leaked'
        PROVE  \E g \in Results' : \E k \in Places(g) : b = BlockAt(g, k)
    <3>1. PICK g \in Results : \E k \in Places(g) : b = BlockAt(g, k)
      BY <2>3 DEF HeapInv
    <3>2. g # h
      BY <3>1, <2>3
    <3>3. QED
      BY <3>1, <3>2, <1>2
  <2>4. QED
    BY <2>1, <2>2, <2>3, <1>1, <1>3 DEF HeapInv
<1>9. CountInv'
  <2>1. \A g \in Results' : AtHand(g)
    BY <1>2 DEF AtHand, Idle
  <2>2. QED
    BY <2>1, <1>1, <1>2, <1>3 DEF CountInv
<1>10. TaskInv'
  BY DEF TaskInv
<1>11. PosInv'
  <2>1. CASE pos = {}
    BY <2>1, <1>1 DEF PosInv
  <2>2. CASE pos # {}
    <3>1. PICK g \in Results : \E k \in 1 .. Len(chain[g]) :
            pos = {[head |-> g, at |-> chain[g][k]]}
      BY <2>2 DEF PosInv
    <3>2. g # h
      BY <3>1
    <3>3. QED
      BY <3>1, <3>2, <1>1, <1>2 DEF PosInv
  <2>3. QED
    BY <2>1, <2>2
<1>12. QED
  BY <1>5, <1>6, <1>7, <1>8, <1>9, <1>10, <1>11

LEMMA ForgetStep ==
  ASSUME RowsIInv, NEW h \in Blocks, Forget(h)
  PROVE  RowsIInv'
<1> USE DEF RowsIInv
<1>1. /\ task = Idle /\ h \in Results /\ \A p \in pos : p.head # h
      /\ chain' = [g \in Results \ {h} |-> chain[g]]
      /\ leaked' = leaked \cup {h} \cup Range(chain[h])
      /\ used' = {} /\ UNCHANGED <<heapVars, task, pos>>
  BY DEF Forget, MayLetGo
<1>2. {h} \cup Range(chain[h]) = {BlockAt(h, k) : k \in Places(h)}
  <2>1. /\ Len(chain[h]) \in Nat /\ chain[h] \in Seq(Blocks) /\ BlockAt(h, 0) = h
        /\ \A k \in 1 .. Len(chain[h]) : BlockAt(h, k) = chain[h][k]
    BY <1>1, RingBlocks
  <2>2. Range(chain[h]) = {chain[h][k] : k \in 1 .. Len(chain[h])}
    BY <2>1 DEF Range
  <2>3. Places(h) = {0} \cup 1 .. Len(chain[h])
    BY <2>1 DEF Places
  <2>4. QED
    BY <2>1, <2>2, <2>3
<1>3. QED
  BY <1>1, <1>2, LetGoStep

LEMMA RowsFreedStep ==
  ASSUME RowsIInv, RowsFreed
  PROVE  RowsIInv'
<1> USE DEF RowsIInv
<1>1. PICK h \in Results : task = Call("blocks", h, h)
  BY TaskCases DEF RowsFreed
<1>2. /\ task.head = h /\ task # Idle /\ next[h] = h
      /\ task' = Idle
      /\ chain' = [g \in Results \ {h} |-> chain[g]]
      /\ leaked' = leaked \cup {h}
      /\ used' = {h} /\ UNCHANGED <<heapVars, pos>>
  BY <1>1 DEF RowsFreed, Call, Idle
<1>3. Len(chain[h]) \in Nat /\ BlockAt(h, 0) = h /\ 0 \in Places(h) /\ h \in Blocks
  BY RingBlocks
<1>4. Len(chain[h]) = 0
  BY <1>2, <1>3, NextPlace
<1>5. {h} = {BlockAt(h, k) : k \in Places(h)}
  BY <1>3, <1>4 DEF Places
<1>6. \A p \in pos : p.head # h
  BY <1>2 DEF PosInv
<1>7. QED
  BY <1>2, <1>3, <1>5, <1>6, LetGoStep

LEMMA FreeRowsStep ==
  ASSUME RowsIInv, NEW h \in Blocks, FreeRows(h)
  PROVE  RowsIInv'
<1> USE DEF RowsIInv
<1>1. /\ task = Idle /\ h \in Results /\ \A p \in pos : p.head # h
      /\ task' = Call("columns", h, next[h]) /\ used' = {h}
      /\ UNCHANGED <<alloc, next, prev, index, argv, pos, chain, leaked>>
  BY DEF FreeRows, MayLetGo, heapVars
<1>2. Results' = Results /\ (\A g, k : BlockAt(g, k)' = BlockAt(g, k))
      /\ \A g : Places(g)' = Places(g)
  BY <1>1 DEF Results, BlockAt, Places
<1>3. RowsTypeOK' /\ LinkInv' /\ ApartInv' /\ HeapInv'
  BY <1>1, <1>2, RingsFrame DEF RowsTypeOK
<1>4. CountInv'
  BY <1>1, <1>2, AllAtHand DEF CountInv
<1>5. TaskInv'
  <2>1. 0 \in Places(h) /\ BlockAt(h, 0) = h
    BY <1>1, RingBlocks
  <2>2. next[h] = BlockAt(h, 0 + 1)
    BY <2>1, <1>1 DEF LinkInv
  <2>3. Freed(h, 0)'
    BY DEF Freed
  <2>4. task' = Call("columns", h, BlockAt(h, 0 + 1)') /\ 0 \in Places(h)' /\ h \in Results'
    BY <2>1, <2>2, <1>1, <1>2
  <2>5. QED
    BY <2>3, <2>4 DEF TaskInv
<1>6. PosInv'
  <2>1. CASE pos = {}
    BY <2>1, <1>1 DEF PosInv
  <2>2. CASE pos # {}
    <3>1. PICK g \in Results : \E k \in 1 .. Len(chain[g]) :
            pos = {[head |-> g, at |-> chain[g][k]]}
      BY <2>2 DEF PosInv
    <3>2. g # h /\ task'.head = h
      BY <3>1, <1>1 DEF Call
    <3>3. QED
      BY <3>1, <3>2, <1>1, <1>2 DEF PosInv
  <2>3. QED
    BY <2>1, <2>2
<1>7. QED
  BY <1>3, <1>4, <1>5, <1>6

LEMMA FreeColumnsStep ==
  ASSUME RowsIInv, FreeColumns
  PROVE  RowsIInv'
<1> USE DEF RowsIInv
<1>1. PICK h \in Results : \E k \in Places(h) :
        task = Call("columns", h, BlockAt(h, k + 1)) /\ Freed(h, k)
  BY TaskCases DEF FreeColumns
<1>2. PICK k \in Places(h) : task = Call("columns", h, BlockAt(h, k + 1)) /\ Freed(h, k)
  BY <1>1
<1>3. PICK b \in Blocks : b = BlockAt(h, k + 1)
  BY RingBlocks DEF Places
<1>4. /\ b # h
      /\ argv' = [argv EXCEPT ![b] = Null]
      /\ task' = Call("columns", h, next[b]) /\ used' = {b}
      /\ UNCHANGED <<alloc, next, prev, index, pos, chain, leaked>>
  BY <1>2, <1>3 DEF FreeColumns, Call
<1>5. /\ Len(chain[h]) \in Nat /\ k \in 0 .. Len(chain[h]) /\ BlockAt(h, Len(chain[h]) + 1) = h
      /\ k + 1 # Len(chain[h]) + 1
  BY <1>3, <1>4, RingBlocks DEF Places
<1>6. k + 1 \in Places(h) /\ k + 1 \in 1 .. Len(chain[h]) /\ k + 1 + 1 \in Int
  BY <1>5 DEF Places
<1>7. /\ Results' = Results
      /\ \A g, j : BlockAt(g, j)' = BlockAt(g, j)
      /\ \A g : Places(g)' = Places(g)
  BY <1>4 DEF Results, BlockAt, Places
<1>8. RowsTypeOK'
  BY <1>4, <1>7 DEF RowsTypeOK
<1>9. LinkInv' /\ ApartInv'
  BY <1>4, <1>7 DEF LinkInv, ApartInv
<1>10. HeapInv'
  BY <1>4, <1>7 DEF HeapInv, RowsTypeOK
<1>11. CountInv'
  <2>1. ASSUME NEW g \in Results, AtHand(g)'
        PROVE  /\ \A j \in Places(g) : index[BlockAt(g, j)] = j
               /\ \A j \in 1 .. Len(chain[g]) : argv'[chain[g][j]] \in Rows
    <3>1. AtHand(g) /\ g # h
      BY <2>1, <1>2, <1>4, <1>7 DEF AtHand, Call
    <3>2. \A j \in 1 .. Len(chain[g]) : chain[g][j] = BlockAt(g, j) /\ j \in Places(g)
      BY RingBlocks
    <3>3. \A j \in 1 .. Len(chain[g]) : chain[g][j] # b
      BY <3>1, <3>2, <1>3, <1>6 DEF ApartInv
    <3>4. \A j \in 1 .. Len(chain[g]) : chain[g][j] \in Blocks
      BY <3>2, RingBlocks
    <3>5. QED
      BY <3>1, <3>3, <3>4, <1>4 DEF CountInv, RowsTypeOK
  <2>2. QED
    BY <2>1, <1>4, <1>7 DEF CountInv
<1>12. TaskInv'
  <2>1. next[b] = BlockAt(h, k + 1 + 1)
    BY <1>3, <1>6 DEF LinkInv
  <2>2. \A j \in 1 .. k + 1 : argv'[BlockAt(h, j)] = Null
    <3>1. \A j \in 1 .. k + 1 : BlockAt(h, j) \in Blocks /\ (j \in 1 .. k \/ j = k + 1)
      BY <1>5, RingBlocks
    <3>2. QED
      BY <3>1, <1>2, <1>3, <1>4 DEF Freed, RowsTypeOK
  <2>3. PICK n : n = k + 1
    OBVIOUS
  <2>4. n \in Places(h)' /\ h \in Results' /\ Freed(h, n)'
    BY <2>2, <2>3, <1>6, <1>7 DEF Freed
  <2>5. task' = Call("columns", h, BlockAt(h, n + 1)')
    BY <2>1, <2>3, <1>4, <1>7
  <2>6. QED
    BY <2>4, <2>5 DEF TaskInv
<1>13. PosInv'
  BY <1>2, <1>4, <1>7 DEF PosInv, Call, Idle
<1>14. QED
  BY <1>8, <1>9, <1>10, <1>11, <1>12, <1>13

LEMMA ColumnsFreedStep ==
  ASSUME RowsIInv, ColumnsFreed
  PROVE  RowsIInv'
<1> USE DEF RowsIInv
<1>1. PICK h \in Results : \E k \in Places(h) :
        task = Call("columns", h, BlockAt(h, k + 1)) /\ Freed(h, k)
  BY TaskCases DEF ColumnsFreed
<1>2. PICK k \in Places(h) : task = Call("columns", h, BlockAt(h, k + 1)) /\ Freed(h, k)
  BY <1>1
<1>3. /\ BlockAt(h, k + 1) = h
      /\ task' = Call("blocks", h, h) /\ used' = {}
      /\ UNCHANGED <<alloc, next, prev, index, argv, pos, chain, leaked>>
  BY <1>2 DEF ColumnsFreed, Call, heapVars
<1>4. k = Len(chain[h])
  <2>1. k \in 0 .. Len(chain[h]) /\ Len(chain[h]) \in Nat
    BY RingBlocks DEF Places
  <2>2. k + 1 \in 1 .. Len(chain[h]) => BlockAt(h, k + 1) # h
    BY RingBlocks, RingApart
  <2>3. QED
    BY <2>1, <2>2, <1>3
<1>5. /\ Results' = Results
      /\ \A g, j : BlockAt(g, j)' = BlockAt(g, j)
      /\ \A g : Places(g)' = Places(g)
  BY <1>3 DEF Results, BlockAt, Places
<1>6. RowsTypeOK' /\ LinkInv' /\ ApartInv' /\ HeapInv'
  BY <1>3, <1>5, RingsFrame DEF RowsTypeOK
<1>7. CountInv'
  BY <1>2, <1>3, <1>5 DEF CountInv, AtHand, Call
<1>8. TaskInv'
  BY <1>2, <1>3, <1>4, <1>5 DEF TaskInv, Freed
<1>9. PosInv'
  BY <1>2, <1>3, <1>5 DEF PosInv, Call, Idle
<1>10. QED
  BY <1>6, <1>7, <1>8, <1>9

\* The first block leaves its ring: what was at place k + 1 is at place k.
LEMMA FreeBlockRing ==
  ASSUME RowsTypeOK, NEW h \in Results, chain[h] # << >>, NEW L \in Nat, L = Len(chain[h]),
         h \in Results', chain'[h] = Tail(chain[h])
  PROVE  /\ Places(h)' = 0 .. L - 1 /\ Len(chain'[h]) = L - 1 /\ L \in Nat \ {0}
         /\ chain'[h] \in Seq(Blocks)
         /\ \A k \in 1 .. L - 1 : chain'[h][k] = chain[h][k + 1]
         /\ \A k \in 1 .. L : BlockAt(h, k)' = BlockAt(h, k + 1)
         /\ BlockAt(h, 0)' = h
<1>1. chain[h] \in Seq(Blocks)
  BY RingBlocks
<1>2. /\ Len(chain'[h]) = L - 1 /\ L \in Nat \ {0} /\ chain'[h] \in Seq(Blocks)
      /\ \A k \in 1 .. L - 1 : chain'[h][k] = chain[h][k + 1]
  BY <1>1, HeadTailProperties, EmptySeq
<1>3. QED
  BY <1>2 DEF Places, BlockAt

LEMMA FreeBlockStep ==
  ASSUME RowsIInv, FreeBlock
  PROVE  RowsIInv'
<1> USE DEF RowsIInv
<1>1. PICK h \in Results : task = Call("blocks", h, h) /\ Freed(h, Len(chain[h]))
  BY TaskCases DEF FreeBlock
<1>2. PICK L \in Nat : L = Len(chain[h])
  BY RingBlocks
<1>3. BlockAt(h, 0) = h /\ BlockAt(h, L + 1) = h /\ Places(h) = 0 .. L /\ chain[h] \in Seq(Blocks)
  BY <1>2, RingBlocks DEF Places
<1>4. PICK b : b = next[h]
  OBVIOUS
<1>5. /\ b # h
      /\ prev' = [prev EXCEPT ![next[b]] = prev[b], ![b] = Poison]
      /\ next' = [next EXCEPT ![prev[b]] = next[b], ![b] = Poison]
      /\ alloc' = alloc \ {b}
      /\ used' = {h, b, next[b], prev[b]}
      /\ chain' = [chain EXCEPT ![h] = Tail(@)]
      /\ UNCHANGED <<index, argv, task, pos, leaked>>
  BY <1>1, <1>4 DEF FreeBlock, ListDel, Call
<1>6. L # 0 /\ b = BlockAt(h, 1) /\ 1 \in Places(h) /\ 1 \in 1 .. L
  <2>1. 0 \in Places(h)
    BY <1>3
  <2>2. L # 0 /\ b = chain[h][0 + 1] /\ 0 + 1 \in 1 .. L
    BY <2>1, <1>2, <1>3, <1>4, <1>5, NextPlace
  <2>3. QED
    BY <2>2, <1>2, RingBlocks
<1>7. PICK c : c = BlockAt(h, 2)
  OBVIOUS
<1>8. next[b] = c /\ prev[b] = h
  <2>1. next[BlockAt(h, 1)] = BlockAt(h, 1 + 1) /\ prev[BlockAt(h, 0 + 1)] = BlockAt(h, 0)
    BY <1>3, <1>6 DEF LinkInv
  <2>2. QED
    BY <2>1, <1>3, <1>6, <1>7
<1>9. /\ Results' = Results
      /\ chain'[h] = Tail(chain[h])
      /\ \A g \in Results : g # h => chain'[g] = chain[g]
  BY <1>5 DEF Results
<1>10. chain[h] # << >>
  BY <1>2, <1>6
<1>11. /\ Places(h)' = 0 .. L - 1 /\ Len(chain'[h]) = L - 1
       /\ chain'[h] \in Seq(Blocks)
       /\ \A k \in 1 .. L : BlockAt(h, k)' = BlockAt(h, k + 1)
       /\ BlockAt(h, 0)' = h
  BY <1>2, <1>9, <1>10, FreeBlockRing
<1>12. \A g \in Results : g # h => /\ \A k : BlockAt(g, k)' = BlockAt(g, k)
                                   /\ Places(g)' = Places(g)
  BY <1>9, SameRing
<1>13. \A g \in Results : \A k \in 0 .. Len(chain[g]) + 1 :
          BlockAt(g, k) \in alloc \ leaked /\ BlockAt(g, k) \in Blocks
  BY RingAllocated DEF RowsTypeOK
<1>14. \A g \in Results : Len(chain[g]) \in Nat /\ Places(g) = 0 .. Len(chain[g])
  BY RingBlocks DEF Places
<1>15. b \in Blocks /\ c \in Blocks /\ h \in Blocks /\ b # c /\ b \in alloc \ leaked
  <2>1. b \in Blocks /\ c \in Blocks /\ b \in alloc \ leaked /\ h \in Blocks
    BY <1>2, <1>6, <1>7, <1>13, RingBlocks
  <2>2. CASE L = 1
    BY <2>1, <2>2, <1>3, <1>5, <1>7
  <2>3. CASE L # 1
    BY <2>1, <2>3, <1>2, <1>3, <1>6, <1>7 DEF ApartInv
  <2>4. QED
    BY <2>1, <2>2, <2>3
<1>16. \A k \in 2 .. L + 1 : BlockAt(h, k) # b
  <2>1. \A k \in 2 .. L : k \in Places(h) /\ k # 1
    BY <1>3
  <2>2. \A k \in 2 .. L : BlockAt(h, k) # b
    BY <2>1, <1>6 DEF ApartInv
  <2>3. \A k \in 2 .. L + 1 : k \in 2 .. L \/ k = L + 1
    OBVIOUS
  <2>4. QED
    BY <2>2, <2>3, <1>3, <1>5
<1>17. \A k \in 3 .. L + 1 : BlockAt(h, k) # c
  <2>1. ASSUME NEW k \in 3 .. L + 1 PROVE BlockAt(h, k) # BlockAt(h, 2)
    <3>1. 2 \in Places(h) /\ 0 \in Places(h)
      BY <2>1, <1>3
    <3>2. CASE k = L + 1
      BY <3>1, <3>2, <1>3 DEF ApartInv
    <3>3. CASE k \in Places(h)
      BY <3>1, <3>3, <2>1 DEF ApartInv
    <3>4. QED
      BY <2>1, <3>2, <3>3, <1>3
  <2>2. QED
    BY <2>1, <1>7
<1>18. \A g \in Results : g # h => \A k \in 0 .. Len(chain[g]) + 1 : BlockAt(g, k) \notin {h, b, c}
  <2>1. c \in {BlockAt(h, k) : k \in Places(h)}
    <3>1. CASE L = 1
      BY <3>1, <1>3, <1>7
    <3>2. CASE L # 1
      BY <3>2, <1>3, <1>6, <1>7
    <3>3. QED
      BY <3>1, <3>2
  <2>2. {h, b, c} \subseteq {BlockAt(h, k) : k \in Places(h)}
    BY <2>1, <1>3, <1>6
  <2>3. ASSUME NEW g \in Results, g # h, NEW k \in 0 .. Len(chain[g]) + 1
        PROVE  \E j \in Places(g) : BlockAt(g, k) = BlockAt(g, j)
    <3>1. /\ BlockAt(g, 0) = g /\ BlockAt(g, Len(chain[g]) + 1) = g
          /\ 0 \in Places(g) /\ Len(chain[g]) \in Nat
      BY RingBlocks
    <3>2. k \in Places(g) \/ k = Len(chain[g]) + 1
      BY <3>1, <1>14
    <3>3. QED
      BY <3>1, <3>2
  <2>4. QED
    BY <2>2, <2>3 DEF ApartInv
<1>19. RowsTypeOK'
  <2>1. next' \in [Blocks -> Blocks \cup {Poison}] /\ prev' \in [Blocks -> Blocks \cup {Poison}]
    BY <1>5, <1>8, <1>15 DEF RowsTypeOK
  <2>2. \A g \in Results : chain'[g] \in Seq(Blocks)
    BY <1>9, <1>11 DEF RowsTypeOK
  <2>3. QED
    BY <2>1, <2>2, <1>5, <1>8, <1>9, <1>15 DEF RowsTypeOK
<1>20. LinkInv'
  <2>1. ASSUME NEW g \in Results, g # h, NEW k \in Places(g)
        PROVE  next'[BlockAt(g, k)] = BlockAt(g, k + 1) /\ prev'[BlockAt(g, k + 1)] = BlockAt(g, k)
    <3>1. BlockAt(g, k) \notin {h, b, c} /\ BlockAt(g, k + 1) \notin {h, b, c}
          /\ BlockAt(g, k) \in Blocks /\ BlockAt(g, k + 1) \in Blocks
      BY <2>1, <1>13, <1>14, <1>18
    <3>2. QED
      BY <3>1, <2>1, <1>5, <1>8 DEF LinkInv, RowsTypeOK
  <2>2. next'[h] = c /\ prev'[c] = h
    BY <1>5, <1>8, <1>15 DEF RowsTypeOK
  <2>3. ASSUME NEW k \in 1 .. L - 1
        PROVE  /\ next'[BlockAt(h, k + 1)] = BlockAt(h, k + 2)
               /\ prev'[BlockAt(h, k + 2)] = BlockAt(h, k + 1)
    <3>1. k + 1 \in Places(h) /\ k + 1 \in 2 .. L + 1 /\ k + 2 \in 3 .. L + 1 /\ k + 1 + 1 = k + 2
          /\ k + 1 \in 0 .. Len(chain[h]) + 1 /\ k + 2 \in 0 .. Len(chain[h]) + 1 /\ k + 1 # 0
          /\ k + 2 \in 2 .. L + 1 /\ 0 \in Places(h)
      BY <1>2, <1>3
    <3>2. BlockAt(h, k + 1) \notin {b, h} /\ BlockAt(h, k + 2) \notin {b, c}
      BY <3>1, <1>3, <1>16, <1>17 DEF ApartInv
    <3>3. BlockAt(h, k + 1) \in Blocks /\ BlockAt(h, k + 2) \in Blocks
      BY <3>1, <1>13
    <3>4. next[BlockAt(h, k + 1)] = BlockAt(h, k + 2) /\ prev[BlockAt(h, k + 2)] = BlockAt(h, k + 1)
      BY <3>1 DEF LinkInv
    <3>5. QED
      BY <3>2, <3>3, <3>4, <1>5, <1>8 DEF RowsTypeOK
  <2>4. ASSUME NEW k \in Places(h)'
        PROVE  /\ next'[BlockAt(h, k)'] = BlockAt(h, k + 1)'
               /\ prev'[BlockAt(h, k + 1)'] = BlockAt(h, k)'
    <3>1. CASE k = 0
      <4>1. BlockAt(h, k)' = h /\ BlockAt(h, k + 1)' = c
        BY <3>1, <1>6, <1>7, <1>11
      <4>2. QED
        BY <4>1, <2>2
    <3>2. CASE k \in 1 .. L - 1
      <4>1. k \in 1 .. L /\ k + 1 \in 1 .. L /\ k + 1 + 1 = k + 2
        BY <3>2
      <4>2. BlockAt(h, k)' = BlockAt(h, k + 1) /\ BlockAt(h, k + 1)' = BlockAt(h, k + 2)
        BY <4>1, <1>11
      <4>3. QED
        BY <4>2, <3>2, <2>3
    <3>3. QED
      BY <2>4, <3>1, <3>2, <1>11
  <2>5. QED
    BY <2>1, <2>4, <1>9, <1>12 DEF LinkInv
<1>21. \A k \in Places(h)' : /\ k = 0 => BlockAt(h, k)' = BlockAt(h, 0)
                             /\ k # 0 => /\ k + 1 \in Places(h) /\ k \in 1 .. L - 1
                                         /\ BlockAt(h, k)' = BlockAt(h, k + 1)
  BY <1>3, <1>11
<1>22. ApartInv'
  <2>1. ASSUME NEW g \in Results, g # h, NEW j \in Places(g), NEW k \in Places(h)'
        PROVE  BlockAt(g, j) # BlockAt(h, k)'
    BY <2>1, <1>3, <1>21 DEF ApartInv
  <2>2. ASSUME NEW j \in Places(h)', NEW k \in Places(h)', BlockAt(h, j)' = BlockAt(h, k)'
        PROVE  j = k
    <3>1. 0 \in Places(h) /\ j \in Int /\ k \in Int
      BY <1>3, <1>11
    <3>2. QED
      BY <2>2, <3>1, <1>21 DEF ApartInv
  <2>3. QED
    BY <2>1, <2>2, <1>9, <1>12 DEF ApartInv
<1>23. HeapInv'
  <2>1. (leaked \subseteq alloc)'
    BY <1>5, <1>15 DEF HeapInv
  <2>2. (\A d \in Blocks \ alloc : argv[d] = Null)'
    <3>1. argv[b] = Null
      BY <1>1, <1>2, <1>6 DEF Freed
    <3>2. QED
      BY <3>1, <1>5 DEF HeapInv
  <2>3. ASSUME NEW g \in Results, g # h, NEW k \in Places(g)
        PROVE  BlockAt(g, k) \in (alloc \ {b}) \ leaked
    BY <2>3, <1>13, <1>14, <1>18
  <2>4. ASSUME NEW k \in Places(h)'
        PROVE  BlockAt(h, k)' \in (alloc \ {b}) \ leaked
    <3>1. CASE k = 0
      BY <3>1, <1>5, <1>11, RingAllocated
    <3>2. CASE k # 0
      <4>1. k + 1 \in 2 .. L + 1 /\ k + 1 \in 0 .. Len(chain[h]) + 1
        BY <3>2, <1>2, <1>21
      <4>2. QED
        BY <4>1, <3>2, <1>13, <1>16, <1>21
    <3>3. QED
      BY <3>1, <3>2
  <2>5. ASSUME NEW d \in (alloc \ {b}) \ leaked
        PROVE  (\E g \in Results : g # h /\ \E k \in Places(g) : d = BlockAt(g, k))
               \/ \E k \in Places(h)' : d = BlockAt(h, k)'
    <3>1. PICK g \in Results : \E k \in Places(g) : d = BlockAt(g, k)
      BY <2>5 DEF HeapInv
    <3>2. CASE g # h
      BY <3>1, <3>2
    <3>3. CASE g = h
      <4>1. PICK k \in Places(h) : d = BlockAt(h, k)
        BY <3>1, <3>3
      <4>2. CASE k = 0
        <5>1. 0 \in Places(h)' /\ d = BlockAt(h, 0)'
          BY <4>1, <4>2, <1>3, <1>6, <1>11
        <5>2. QED
          BY <5>1
      <4>3. CASE k # 0
        <5>1. k \in 2 .. L
          BY <4>1, <4>3, <2>5, <1>3, <1>6
        <5>2. PICK j \in 1 .. L - 1 : k = j + 1
          <6>1. k - 1 \in 1 .. L - 1 /\ k = k - 1 + 1
            BY <5>1
          <6>2. QED
            BY <6>1
        <5>3. j \in Places(h)' /\ j # 0
          BY <1>11
        <5>4. d = BlockAt(h, j)'
          BY <5>2, <5>3, <4>1, <1>21
        <5>5. QED
          BY <5>3, <5>4
      <4>4. QED
        BY <4>2, <4>3
    <3>4. QED
      BY <3>2, <3>3
  <2>6. QED
    BY <2>1, <2>2, <2>3, <2>4, <2>5, <1>5, <1>9, <1>12 DEF HeapInv
<1>24. CountInv'
  <2>1. \A g \in Results : AtHand(g)' => AtHand(g) /\ g # h
    BY <1>1, <1>5, <1>9 DEF AtHand, Call
  <2>2. QED
    BY <2>1, <1>5, <1>9, <1>12 DEF CountInv
<1>25. TaskInv'
  <2>1. Freed(h, Len(chain[h]))'
    <3>1. \A k \in 1 .. L - 1 : k + 1 \in 1 .. L /\ k \in 1 .. L
      OBVIOUS
    <3>2. \A k \in 1 .. L - 1 : argv'[BlockAt(h, k)'] = Null
      BY <3>1, <1>1, <1>2, <1>5, <1>11 DEF Freed
    <3>3. QED
      BY <3>2, <1>11 DEF Freed
  <2>2. QED
    BY <2>1, <1>1, <1>5, <1>9 DEF TaskInv
<1>26. PosInv'
  <2>1. CASE pos = {}
    BY <2>1, <1>5 DEF PosInv
  <2>2. CASE pos # {}
    <3>1. PICK g \in Results : /\ \E k \in 1 .. Len(chain[g]) : pos = {[head |-> g, at |-> chain[g][k]]}
                               /\ g # h /\ (task # Idle => task.head # g)
      BY <2>2, <1>1 DEF PosInv, Call, Idle
    <3>2. QED
      BY <3>1, <1>5, <1>9 DEF PosInv
  <2>3. QED
    BY <2>1, <2>2
<1>27. QED
  BY <1>19, <1>20, <1>22, <1>23, <1>24, <1>25, <1>26

LEMMA RowsInitInv == RowsInit => RowsIInv
<1> SUFFICES ASSUME RowsInit PROVE RowsIInv
  OBVIOUS
<1>1. Results = {}
  BY DEF RowsInit, Results
<1>2. RowsTypeOK
  BY <1>1 DEF RowsInit, RowsTypeOK
<1>3. LinkInv /\ ApartInv /\ HeapInv /\ CountInv
  BY <1>1 DEF RowsInit, LinkInv, ApartInv, HeapInv, CountInv
<1>4. QED
  BY <1>2, <1>3 DEF RowsInit, RowsIInv, TaskInv, PosInv

LEMMA RowsStepKeepsInv == RowsIInv /\ [RowsNext]_rowsVars => RowsIInv'
<1> SUFFICES ASSUME RowsIInv, [RowsNext]_rowsVars PROVE RowsIInv'
  OBVIOUS
<1>1. CASE UNCHANGED rowsVars
  <2>1. UNCHANGED <<alloc, next, prev, index, argv, task, pos, chain, leaked, used>>
    BY <1>1 DEF rowsVars, heapVars
  <2>2. Results' = Results /\ (\A h, k : BlockAt(h, k)' = BlockAt(h, k))
        /\ \A h : Places(h)' = Places(h)
    BY <2>1 DEF Results, BlockAt, Places
  <2>3. LinkInv' /\ ApartInv' /\ HeapInv'
    BY <2>1, RingsFrame DEF RowsIInv
  <2>4. RowsTypeOK' /\ CountInv' /\ TaskInv' /\ PosInv'
    BY <2>1, <2>2 DEF RowsIInv, RowsTypeOK, CountInv, AtHand, TaskInv, Freed, PosInv
  <2>5. QED
    BY <2>3, <2>4 DEF RowsIInv
<1>2. ASSUME NEW h \in Blocks, NEW rows \in BoundedSeq(Rows, MaxRows), DbSelect(h, rows)
      PROVE  RowsIInv'
  BY <1>2, DbSelectStep
<1>3. ASSUME NEW h \in Blocks, NEW b \in Blocks, SelectCallback(h, b)
      PROVE  RowsIInv'
  BY <1>3, SelectCallbackStep
<1>4. ASSUME NEW h \in Blocks, LoopBegins(h) \/ Forget(h) \/ FreeRows(h)
      PROVE  RowsIInv'
  BY <1>4, LoopBeginsStep, ForgetStep, FreeRowsStep
<1>5. CASE LoopGoesOn
  BY <1>5, LoopGoesOnStep
<1>6. CASE FreeColumns \/ ColumnsFreed \/ FreeBlock \/ RowsFreed
  BY <1>6, FreeColumnsStep, ColumnsFreedStep, FreeBlockStep, RowsFreedStep
<1>7. QED
  BY <1>1, <1>2, <1>3, <1>4, <1>5, <1>6 DEF RowsNext

LEMMA RowsInductive == RowsSpec => []RowsIInv
<1>1. RowsInit => RowsIInv
  BY RowsInitInv
<1>2. RowsIInv /\ [RowsNext]_rowsVars => RowsIInv'
  BY RowsStepKeepsInv
<1>3. QED
  BY <1>1, <1>2, PTL DEF RowsSpec

-----------------------------------------------------------------------------
(* Rings can be walked and counted, and the heap is accounted for.         *)

\* A ring written out: the head, the rows and the head again.
LEMMA RingWrittenOut ==
  ASSUME RowsTypeOK, NEW h \in Results
  PROVE  /\ Ring(h) \in Seq(Blocks) /\ Len(Ring(h)) = Len(chain[h]) + 2
         /\ \A k \in 1 .. Len(chain[h]) + 2 : Ring(h)[k] = BlockAt(h, k - 1)
         /\ Range(Ring(h)) = {BlockAt(h, k) : k \in Places(h)}
<1>1. /\ h \in Blocks /\ chain[h] \in Seq(Blocks) /\ Len(chain[h]) \in Nat
      /\ BlockAt(h, 0) = h /\ BlockAt(h, Len(chain[h]) + 1) = h
  BY RingBlocks
<1> DEFINE front == <<h>> \o chain[h]
<1>2. <<h>> \in Seq(Blocks) /\ Len(<<h>>) = 1 /\ <<h>>[1] = h
  BY <1>1
<1>3. /\ front \in Seq(Blocks) /\ Len(front) = 1 + Len(chain[h])
      /\ \A k \in 1 .. 1 + Len(chain[h]) :
           front[k] = IF k <= 1 THEN <<h>>[k] ELSE chain[h][k - 1]
  BY <1>1, <1>2, ConcatProperties
<1> HIDE DEF front
<1>4. /\ front \o <<h>> \in Seq(Blocks) /\ Len(front \o <<h>>) = Len(chain[h]) + 2
      /\ \A k \in 1 .. Len(chain[h]) + 2 :
           (front \o <<h>>)[k] = IF k <= 1 + Len(chain[h]) THEN front[k]
                                 ELSE <<h>>[k - (1 + Len(chain[h]))]
  <2>1. /\ front \o <<h>> \in Seq(Blocks)
        /\ Len(front \o <<h>>) = Len(front) + Len(<<h>>)
        /\ \A k \in 1 .. Len(front) + Len(<<h>>) :
             (front \o <<h>>)[k] = IF k <= Len(front) THEN front[k] ELSE <<h>>[k - Len(front)]
    BY <1>2, <1>3, ConcatProperties
  <2>2. Len(front) = 1 + Len(chain[h]) /\ Len(front) + Len(<<h>>) = Len(chain[h]) + 2
    BY <1>1, <1>2, <1>3
  <2>3. QED
    BY <2>1, <2>2
<1>5. Ring(h) = front \o <<h>>
  BY DEF Ring, front
<1>6. \A k \in 1 .. Len(chain[h]) + 2 : Ring(h)[k] = BlockAt(h, k - 1)
  <2>1. ASSUME NEW k \in 1 .. Len(chain[h]) + 2
        PROVE  Ring(h)[k] = BlockAt(h, k - 1)
    <3>1. CASE k = 1
      BY <3>1, <1>1, <1>2, <1>3, <1>4, <1>5
    <3>2. CASE k \in 2 .. Len(chain[h]) + 1
      <4>1. Ring(h)[k] = chain[h][k - 1] /\ k - 1 \in 1 .. Len(chain[h])
        BY <3>2, <1>1, <1>3, <1>4, <1>5
      <4>2. QED
        BY <4>1, RingBlocks
    <3>3. CASE k = Len(chain[h]) + 2
      BY <3>3, <1>1, <1>2, <1>4, <1>5
    <3>4. QED
      BY <3>1, <3>2, <3>3, <1>1
  <2>2. QED
    BY <2>1
<1>7. Range(Ring(h)) = {BlockAt(h, k) : k \in Places(h)}
  <2>1. Range(Ring(h)) = {Ring(h)[k] : k \in 1 .. Len(chain[h]) + 2}
    BY <1>4, <1>5, LenProperties DEF Range
  <2>2. ASSUME NEW k \in Places(h)
        PROVE  BlockAt(h, k) \in Range(Ring(h))
    <3>1. k + 1 \in 1 .. Len(chain[h]) + 2 /\ k \in Int
      BY <1>1 DEF Places
    <3>2. \A j \in 1 .. Len(chain[h]) + 2 : j = k + 1 => Ring(h)[j] = BlockAt(h, k)
      BY <3>1, <1>1, <1>6
    <3>3. QED
      BY <3>1, <3>2, <2>1
  <2>3. ASSUME NEW k \in 1 .. Len(chain[h]) + 2
        PROVE  \E j \in Places(h) : Ring(h)[k] = BlockAt(h, j)
    <3>1. k - 1 \in Places(h) \/ k - 1 = Len(chain[h]) + 1
      BY <1>1 DEF Places
    <3>2. 0 \in Places(h) /\ BlockAt(h, Len(chain[h]) + 1) = BlockAt(h, 0)
      BY <1>1 DEF Places
    <3>3. QED
      BY <3>1, <3>2, <1>6
  <2>4. QED
    BY <2>1, <2>2, <2>3
<1>8. QED
  BY <1>4, <1>5, <1>6, <1>7

\* As many blocks as rows, and the head.
LEMMA RingSize ==
  ASSUME RowsTypeOK, ApartInv, NEW h \in Results
  PROVE  Cardinality(Range(Ring(h))) = Len(chain[h]) + 1
<1>1. Range(Ring(h)) = {BlockAt(h, k) : k \in Places(h)}
  BY RingWrittenOut
<1>2. Len(chain[h]) \in Nat /\ Places(h) = 0 .. Len(chain[h])
  BY RingBlocks DEF Places
<1> DEFINE f == [k \in Places(h) |-> BlockAt(h, k)]
<1>3. f \in Bijection(Places(h), Range(Ring(h)))
  <2>1. f \in [Places(h) -> Range(Ring(h))]
    BY <1>1
  <2>2. \A j, k \in Places(h) : f[j] = f[k] => j = k
    BY DEF ApartInv
  <2>3. \A b \in Range(Ring(h)) : \E k \in Places(h) : f[k] = b
    BY <1>1
  <2>4. QED
    BY <2>1, <2>2, <2>3, Fun_IsBij
<1>4. IsFiniteSet(Places(h)) /\ Cardinality(Places(h)) = Len(chain[h]) + 1
  BY <1>2, FS_Interval
<1>5. QED
  BY <1>3, <1>4, FS_Bijection DEF ExistsBijection

LEMMA IInvRows == RowsIInv => RowsInv
<1> SUFFICES ASSUME RowsIInv PROVE RowsInv
  OBVIOUS
<1> USE DEF RowsIInv
<1>1. ASSUME NEW h \in Results, NEW k \in 1 .. Len(chain[h]) + 1
      PROVE  next[Ring(h)[k]] = Ring(h)[k + 1] /\ prev[Ring(h)[k + 1]] = Ring(h)[k]
  <2>1. Len(chain[h]) \in Nat /\ Places(h) = 0 .. Len(chain[h])
    BY RingBlocks DEF Places
  <2>2. k - 1 \in Places(h) /\ k - 1 + 1 = k /\ k + 1 - 1 = k
        /\ k \in 1 .. Len(chain[h]) + 2 /\ k + 1 \in 1 .. Len(chain[h]) + 2
    BY <2>1
  <2>3. Ring(h)[k] = BlockAt(h, k - 1) /\ Ring(h)[k + 1] = BlockAt(h, k)
    BY <2>2, RingWrittenOut
  <2>4. next[BlockAt(h, k - 1)] = BlockAt(h, k) /\ prev[BlockAt(h, k)] = BlockAt(h, k - 1)
    BY <2>2 DEF LinkInv
  <2>5. QED
    BY <2>3, <2>4
<1>2. ASSUME NEW g \in Results, NEW h \in Results, g # h
      PROVE  Range(Ring(g)) \cap Range(Ring(h)) = {}
  BY <1>2, RingWrittenOut DEF ApartInv
<1>3. RingsSound
  BY <1>1, <1>2, RingSize DEF RingsSound
<1>4. CountIsRight
  <2>1. ASSUME NEW h \in Results, AtHand(h) PROVE index[prev[h]] = Len(chain[h])
    <3>1. Len(chain[h]) \in Places(h) /\ BlockAt(h, Len(chain[h]) + 1) = h
      BY RingBlocks
    <3>2. QED
      BY <3>1, <2>1 DEF LinkInv, CountInv
  <2>2. QED
    BY <2>1 DEF CountIsRight
<1>5. QED
  BY <1>3, <1>4 DEF RowsInv

\* The rings of results are well formed and apart, and handlers read off them
\* the right number of rows, at every step of db_select and of the release.
THEOREM RowsInvariance == RowsSpec => []RowsInv
<1>1. RowsIInv => RowsInv
  BY IInvRows
<1>2. QED
  BY <1>1, RowsInductive, PTL

LEMMA IInvLeaks == RowsIInv => OnlyKnownLeaks
<1> SUFFICES ASSUME RowsIInv PROVE OnlyKnownLeaks
  OBVIOUS
<1> USE DEF RowsIInv
<1>1. \A h \in Results : Range(Ring(h)) = {BlockAt(h, k) : k \in Places(h)}
  BY RingWrittenOut
<1>2. ASSUME NEW b PROVE b \in UNION {Range(Ring(h)) : h \in Results} <=>
                           \E h \in Results : \E k \in Places(h) : b = BlockAt(h, k)
  BY <1>1
<1>3. alloc = leaked \cup UNION {Range(Ring(h)) : h \in Results}
  BY <1>2 DEF HeapInv
<1>4. QED
  BY <1>3 DEF HeapInv, OnlyKnownLeaks

\* Nothing but the heads of released results and the results handlers forget
\* is ever left allocated (sqlite_util.c:62, friend.c:190), and no block is
\* freed before its columns.
THEOREM LeaksKnown == RowsSpec => []OnlyKnownLeaks
<1>1. RowsIInv => OnlyKnownLeaks
  BY IInvLeaks
<1>2. QED
  BY <1>1, RowsInductive, PTL

-----------------------------------------------------------------------------
(* Memory safety.                                                          *)

LEMMA StepIsSafe ==
  ASSUME RowsIInv, RowsNext
  PROVE  used' \subseteq alloc \cup alloc'
<1> USE DEF RowsIInv
<1>1. \A h \in Results : h \in alloc
  BY RingAllocated
<1>2. ASSUME NEW h \in Blocks, NEW rows \in BoundedSeq(Rows, MaxRows), DbSelect(h, rows)
      PROVE  used' \subseteq alloc \cup alloc'
  BY <1>2 DEF DbSelect
<1>3. ASSUME NEW h \in Blocks, NEW b \in Blocks, SelectCallback(h, b)
      PROVE  used' \subseteq alloc \cup alloc'
  <2>1. h \in Results
    BY <1>3, TaskCases DEF SelectCallback
  <2>2. BlockAt(h, Len(chain[h]) + 1) = h /\ Len(chain[h]) \in Places(h)
    BY <2>1, RingBlocks
  <2>3. prev[h] \in alloc
    BY <2>1, <2>2 DEF LinkInv, HeapInv
  <2>4. QED
    BY <2>1, <2>3, <1>1, <1>3 DEF SelectCallback
<1>4. ASSUME NEW h \in Blocks, LoopBegins(h) \/ Forget(h) \/ FreeRows(h)
      PROVE  used' \subseteq alloc \cup alloc'
  BY <1>1, <1>4 DEF LoopBegins, Forget, FreeRows, MayLetGo
<1>5. CASE LoopGoesOn
  <2>1. PICK p \in pos : used' = {p.at}
    BY <1>5 DEF LoopGoesOn
  <2>2. PICK h \in Results : \E k \in 1 .. Len(chain[h]) : p = [head |-> h, at |-> chain[h][k]]
    BY DEF PosInv
  <2>3. PICK k \in 1 .. Len(chain[h]) : p.at = chain[h][k]
    BY <2>2
  <2>4. QED
    BY <2>1, <2>3, RingBlocks DEF HeapInv
<1>6. CASE FreeColumns \/ ColumnsFreed
  <2>1. PICK h \in Results : \E k \in Places(h) : task = Call("columns", h, BlockAt(h, k + 1))
    BY <1>6, TaskCases DEF FreeColumns, ColumnsFreed
  <2>2. PICK k \in Places(h) : task = Call("columns", h, BlockAt(h, k + 1))
    BY <2>1
  <2>3. k + 1 \in 0 .. Len(chain[h]) + 1
    BY RingBlocks DEF Places
  <2>4. used' \subseteq {BlockAt(h, k + 1)}
    BY <2>2, <1>6 DEF FreeColumns, ColumnsFreed, Call
  <2>5. QED
    BY <2>3, <2>4, RingAllocated
<1>7. CASE FreeBlock
  <2>1. PICK h \in Results : task = Call("blocks", h, h)
    BY <1>7, TaskCases DEF FreeBlock
  <2>2. PICK b : b = next[h]
    OBVIOUS
  <2>3. b # h /\ used' = {h, b, next[b], prev[b]}
    BY <2>1, <2>2, <1>7 DEF FreeBlock, Call
  <2>4. BlockAt(h, 0) = h /\ 0 \in Places(h) /\ Len(chain[h]) \in Nat
    BY RingBlocks
  <2>5. b = BlockAt(h, 0 + 1) /\ prev[b] = h
    BY <2>2, <2>4 DEF LinkInv
  <2>6. Len(chain[h]) # 0
    BY <2>2, <2>3, <2>4, NextPlace
  <2>7. 1 \in Places(h) /\ 1 \in 0 .. Len(chain[h]) + 1 /\ 2 \in 0 .. Len(chain[h]) + 1
    BY <2>4, <2>6 DEF Places
  <2>8. b = BlockAt(h, 1) /\ next[b] = BlockAt(h, 1 + 1) /\ BlockAt(h, 1 + 1) = BlockAt(h, 2)
    BY <2>5, <2>7 DEF LinkInv
  <2>9. QED
    BY <2>3, <2>5, <2>7, <2>8, RingAllocated
<1>8. CASE RowsFreed
  <2>1. PICK h \in Results : task = Call("blocks", h, h)
    BY <1>8, TaskCases DEF RowsFreed
  <2>2. QED
    BY <2>1, <1>1, <1>8 DEF RowsFreed, Call
<1>9. QED
  BY <1>2, <1>3, <1>4, <1>5, <1>6, <1>7, <1>8 DEF RowsNext

\* No call and no loop touches a block that is not allocated: the release
\* takes a block off the ring before it frees it (sqlite_util.c:57 to 61), so
\* its loop never follows a pointer of a block that is gone.
THEOREM RowsMemorySafe == RowsSpec => MemorySafe
<1>1. RowsIInv /\ [RowsNext]_rowsVars => [used' \subseteq alloc \cup alloc']_rowsVars
  BY StepIsSafe
<1>2. QED
  BY <1>1, RowsInductive, PTL DEF RowsSpec, MemorySafe

-----------------------------------------------------------------------------
(* Rings of blocks implement sequences of rows.                            *)

\* What a handler sees of a result, of all of them, and of its loop.
RowsOf(h) == [k \in DOMAIN chain[h] |-> argv[chain[h][k]]]

Seen == [h \in {g \in Results : AtHand(g)} |-> RowsOf(h)]

PlaceIn(c, b) == CHOOSE k \in DOMAIN c : c[k] = b
Visited == {[result |-> p.head, row |-> PlaceIn(chain[p.head], p.at)] : p \in pos}

\* The place of a block in a sequence without duplicates.
LEMMA PlaceOf ==
  ASSUME NEW S, NEW c \in Seq(S), NEW k \in 1 .. Len(c),
         \A i, j \in 1 .. Len(c) : c[i] = c[j] => i = j
  PROVE  PlaceIn(c, c[k]) = k
<1>1. DOMAIN c = 1 .. Len(c)
  BY LenProperties
<1>2. QED
  BY <1>1 DEF PlaceIn

LEMMA RowsOfAtHand ==
  ASSUME RowsIInv, NEW h \in Results, AtHand(h)
  PROVE  /\ RowsOf(h) \in Seq(Rows) /\ Len(RowsOf(h)) = Len(chain[h])
         /\ h \in DOMAIN Seen /\ Seen[h] = RowsOf(h)
<1>1. DOMAIN chain[h] = 1 .. Len(chain[h]) /\ Len(chain[h]) \in Nat
  BY RingBlocks, LenProperties DEF RowsIInv
<1>2. \A k \in 1 .. Len(chain[h]) : argv[chain[h][k]] \in Rows
  BY DEF RowsIInv, CountInv
<1>3. RowsOf(h) \in [1 .. Len(chain[h]) -> Rows]
  BY <1>1, <1>2 DEF RowsOf
<1>4. RowsOf(h) \in Seq(Rows)
  BY <1>1, <1>3, SeqDef
<1>5. DOMAIN RowsOf(h) = 1 .. Len(chain[h]) /\ DOMAIN RowsOf(h) = 1 .. Len(RowsOf(h))
      /\ Len(RowsOf(h)) \in Nat
  BY <1>3, <1>4, LenProperties
<1>6. Len(RowsOf(h)) = Len(chain[h])
  BY <1>1, <1>5
<1>7. QED
  BY <1>4, <1>6 DEF Seen

\* A loop shows the row it stands at.
LEMMA VisitedRow ==
  ASSUME RowsIInv, NEW h \in Results, NEW k \in 1 .. Len(chain[h])
  PROVE  PlaceIn(chain[h], chain[h][k]) = k
<1>1. chain[h] \in Seq(Blocks) /\ \A i, j \in 1 .. Len(chain[h]) : chain[h][i] = chain[h][j] => i = j
  BY RingBlocks, RingApart DEF RowsIInv
<1>2. QED
  BY <1>1, PlaceOf

\* A step that leaves the cursor and the result under it alone.
LEMMA VisitedSame ==
  ASSUME pos' = pos, \A p \in pos : chain'[p.head] = chain[p.head]
  PROVE  Visited' = Visited
  BY DEF Visited

\* The result under the cursor is at hand, and no other task is at it.
LEMMA CursorApart ==
  ASSUME PosInv
  PROVE  \A p \in pos : p.head \in Results /\ (task # Idle => task.head # p.head)
  BY DEF PosInv

LEMMA SelectMaps ==
  ASSUME RowsIInv, NEW h \in Blocks, NEW rows \in BoundedSeq(Rows, MaxRows), DbSelect(h, rows)
  PROVE  ResultsOf!Begin(h)
<1> USE DEF RowsIInv
<1>1. /\ task = Idle /\ h \notin alloc
      /\ task' = Running(h, rows)
      /\ chain' = [g \in Results \cup {h} |-> IF g = h THEN << >> ELSE chain[g]]
      /\ argv' = argv /\ pos' = pos
  BY DEF DbSelect
<1>2. h \notin Results
  BY <1>1, RingAllocated
<1>3. /\ Results' = Results \cup {h} /\ chain'[h] = << >>
      /\ \A g \in Results : chain'[g] = chain[g]
  BY <1>1, <1>2 DEF Results
<1>4. (\A g \in Results : AtHand(g)) /\ \A g \in Results' : AtHand(g)'
  BY <1>1, AllAtHand DEF AtHand, Running, Idle
<1>5. {g \in Results : AtHand(g)} = Results /\ {g \in Results : AtHand(g)}' = Results \cup {h}
  BY <1>3, <1>4
<1>6. RowsOf(h)' = << >> /\ \A g \in Results : RowsOf(g)' = RowsOf(g)
  BY <1>1, <1>3 DEF RowsOf
<1>7. DOMAIN Seen = Results /\ \A g \in Results : Seen[g] = RowsOf(g)
  BY <1>5 DEF Seen
<1>8. Seen' = [g \in Results \cup {h} |-> RowsOf(g)']
  BY <1>5 DEF Seen
<1>9. Seen' = [g \in DOMAIN Seen \cup {h} |-> IF g = h THEN << >> ELSE Seen[g]]
  BY <1>2, <1>6, <1>7, <1>8
<1>10. h \notin DOMAIN Seen
  BY <1>2, <1>7
<1>11. Visited' = Visited
  BY <1>1, <1>3, VisitedSame, CursorApart
<1>12. QED
  BY <1>9, <1>10, <1>11 DEF Seen, RowsOf, Visited, PlaceIn, ResultsOf!Begin

LEMMA CallbackMaps ==
  ASSUME RowsIInv, NEW h \in Blocks, NEW b \in Blocks, SelectCallback(h, b)
  PROVE  \E r \in Rows : ResultsOf!Deliver(h, r)
<1> USE DEF RowsIInv
<1>1. PICK rows \in Seq(Rows) :
        rows # << >> /\ task = [call |-> "select", head |-> h, rows |-> rows] /\ h \in Results
  BY TaskCases DEF SelectCallback
<1>2. /\ b \notin alloc
      /\ argv' = [argv EXCEPT ![b] = Head(rows)]
      /\ task' = Running(h, Tail(rows))
      /\ chain' = [chain EXCEPT ![h] = Append(@, b)]
      /\ pos' = pos
  BY <1>1 DEF SelectCallback
<1>3. PICK r \in Rows : r = Head(rows)
  BY <1>1, HeadTailProperties
<1>4. PICK L \in Nat : L = Len(chain[h])
  BY <1>1, RingBlocks
<1>5. /\ Results' = Results /\ chain'[h] = Append(chain[h], b)
      /\ \A g \in Results : g # h => chain'[g] = chain[g]
  BY <1>1, <1>2 DEF Results
<1>6. (\A g \in Results : AtHand(g)) /\ \A g \in Results' : AtHand(g)'
  BY <1>1, <1>2, AllAtHand DEF AtHand, Running, Idle
<1>7. \A g \in Results : \A k \in 1 .. Len(chain[g]) : chain[g][k] # b /\ chain[g][k] \in Blocks
  BY <1>2, RingBlocks, RingAllocated
<1>8. \A g \in Results : DOMAIN chain[g] = 1 .. Len(chain[g])
  BY RingBlocks, LenProperties
<1>9. \A g \in Results : g # h => RowsOf(g)' = RowsOf(g)
  BY <1>2, <1>5, <1>7, <1>8 DEF RowsOf, RowsTypeOK
<1>10. RowsOf(h)' = Append(RowsOf(h), r)
  <2>1. /\ chain'[h] \in Seq(Blocks) /\ Len(chain'[h]) = L + 1 /\ chain'[h][L + 1] = b
        /\ \A k \in 1 .. L : chain'[h][k] = chain[h][k]
    BY <1>1, <1>4, <1>5, RingBlocks, AppendProperties
  <2>2. DOMAIN chain'[h] = 1 .. L + 1
    BY <2>1, LenProperties
  <2>3. RowsOf(h) \in Seq(Rows) /\ Len(RowsOf(h)) = L
        /\ \A k \in 1 .. L : RowsOf(h)[k] = argv[chain[h][k]]
    BY <1>1, <1>4, <1>6, <1>8, RowsOfAtHand DEF RowsOf
  <2>4. /\ Append(RowsOf(h), r) \in Seq(Rows) /\ Len(Append(RowsOf(h), r)) = L + 1
        /\ \A k \in 1 .. L : Append(RowsOf(h), r)[k] = argv[chain[h][k]]
        /\ Append(RowsOf(h), r)[L + 1] = r
    BY <2>3, AppendProperties
  <2>5. DOMAIN Append(RowsOf(h), r) = 1 .. L + 1
    BY <2>4, LenProperties
  <2>6. \A k \in 1 .. L + 1 : argv'[chain'[h][k]] = Append(RowsOf(h), r)[k]
    <3>1. \A k \in 1 .. L : argv'[chain'[h][k]] = argv[chain[h][k]]
      BY <2>1, <1>1, <1>2, <1>4, <1>7 DEF RowsTypeOK
    <3>2. argv'[b] = r
      BY <1>2, <1>3 DEF RowsTypeOK
    <3>3. QED
      BY <3>1, <3>2, <2>1, <2>4
  <2>7. RowsOf(h)' = [k \in 1 .. L + 1 |-> argv'[chain'[h][k]]]
    BY <2>2 DEF RowsOf
  <2>8. Append(RowsOf(h), r) = [k \in 1 .. L + 1 |-> Append(RowsOf(h), r)[k]]
    BY <2>4, <2>5, LenProperties
  <2>9. QED
    BY <2>6, <2>7, <2>8
<1>11. {g \in Results : AtHand(g)} = Results /\ {g \in Results : AtHand(g)}' = Results
  BY <1>5, <1>6
<1>12. Seen = [g \in Results |-> RowsOf(g)] /\ Seen' = [g \in Results |-> RowsOf(g)']
  BY <1>11 DEF Seen
<1>13. h \in DOMAIN Seen /\ Seen' = [Seen EXCEPT ![h] = Append(@, r)]
  BY <1>1, <1>9, <1>10, <1>12
<1>14. Visited' = Visited
  <2>1. task # Idle /\ task.head = h
    BY <1>1 DEF Idle
  <2>2. QED
    BY <2>1, <1>2, <1>5, VisitedSame, CursorApart
<1>15. ResultsOf!Deliver(h, r)
  BY <1>13, <1>14 DEF Seen, RowsOf, Visited, PlaceIn, ResultsOf!Deliver
<1>16. QED
  BY <1>15

\* Nothing is done to the results or their columns.
LEMMA SeenSame ==
  ASSUME UNCHANGED <<chain, argv>>, \A g \in Results : AtHand(g)' <=> AtHand(g)
  PROVE  Seen' = Seen
<1>1. Results' = Results /\ \A g : RowsOf(g)' = RowsOf(g)
  BY DEF Results, RowsOf
<1>2. {g \in Results : AtHand(g)}' = {g \in Results : AtHand(g)}
  BY <1>1
<1>3. QED
  BY <1>1, <1>2 DEF Seen

LEMMA LoopBeginsMaps ==
  ASSUME RowsIInv, NEW h \in Blocks, LoopBegins(h)
  PROVE  ResultsOf!Visit(h)
<1> USE DEF RowsIInv
<1>1. /\ task = Idle /\ pos = {} /\ h \in Results /\ next[h] # h
      /\ pos' = Cursor(h, next[h]) /\ UNCHANGED <<argv, task, chain>>
  BY DEF LoopBegins, heapVars
<1>2. BlockAt(h, 0) = h /\ 0 \in Places(h) /\ Len(chain[h]) \in Nat
  BY <1>1, RingBlocks
<1>3. 1 \in 1 .. Len(chain[h]) /\ next[h] = chain[h][1]
  BY <1>1, <1>2, NextPlace
<1>4. pos' = {[head |-> h, at |-> chain[h][1]]}
  BY <1>1, <1>3 DEF Cursor
<1>5. Visited' = {[result |-> h, row |-> 1]}
  <2>1. PlaceIn(chain[h], chain[h][1]) = 1
    BY <1>1, <1>3, VisitedRow
  <2>2. QED
    BY <2>1, <1>1, <1>4 DEF Visited
<1>6. Seen' = Seen
  BY <1>1, SeenSame DEF AtHand, Results
<1>7. h \in DOMAIN Seen /\ Len(Seen[h]) # 0
  BY <1>1, <1>3, AllAtHand, RowsOfAtHand
<1>8. Seen[h] # << >>
  BY <1>7, EmptySeq
<1>9. Visited = {}
  BY <1>1 DEF Visited
<1>10. QED
  BY <1>5, <1>6, <1>7, <1>8, <1>9 DEF Seen, RowsOf, Visited, PlaceIn, ResultsOf!Visit

LEMMA LoopGoesOnMaps ==
  ASSUME RowsIInv, LoopGoesOn
  PROVE  ResultsOf!Advance
<1> USE DEF RowsIInv
<1>1. PICK p \in pos : /\ task = Idle /\ pos' = Cursor(p.head, next[p.at])
                       /\ UNCHANGED <<argv, task, chain>>
  BY DEF LoopGoesOn, heapVars
<1>2. PICK h \in Results : \E k \in 1 .. Len(chain[h]) : pos = {[head |-> h, at |-> chain[h][k]]}
  BY DEF PosInv
<1>3. PICK k \in 1 .. Len(chain[h]) : pos = {[head |-> h, at |-> chain[h][k]]}
  BY <1>2
<1>4. p.head = h /\ p.at = BlockAt(h, k) /\ k \in Places(h) /\ Len(chain[h]) \in Nat
  BY <1>3, RingBlocks
<1> DEFINE v == [result |-> h, row |-> k]
<1>5. Visited = {v}
  BY <1>3, VisitedRow DEF Visited
<1>6. Seen' = Seen
  BY <1>1, SeenSame DEF AtHand, Results
<1>7. Len(Seen[h]) = Len(chain[h])
  BY <1>1, AllAtHand, RowsOfAtHand
<1>8. Visited' = IF v.row = Len(Seen[v.result]) THEN {} ELSE {[v EXCEPT !.row = @ + 1]}
  <2>1. CASE k = Len(chain[h])
    <3>1. pos' = {}
      BY <2>1, <1>1, <1>4, NextPlace DEF Cursor
    <3>2. QED
      BY <3>1, <2>1, <1>7 DEF Visited
  <2>2. CASE k # Len(chain[h])
    <3>1. k + 1 \in 1 .. Len(chain[h]) /\ pos' = {[head |-> h, at |-> chain[h][k + 1]]}
      BY <2>2, <1>1, <1>4, NextPlace DEF Cursor
    <3>2. Visited' = {[result |-> h, row |-> k + 1]}
      BY <3>1, <1>1, VisitedRow DEF Visited
    <3>3. QED
      BY <3>2, <2>2, <1>7
  <2>3. QED
    BY <2>1, <2>2
<1> HIDE DEF v
<1>9. QED
  BY <1>5, <1>6, <1>8 DEF Seen, RowsOf, Visited, PlaceIn, ResultsOf!Advance

\* A result that is forgotten or about to be released is no longer seen.
LEMMA Unseen ==
  ASSUME NEW h \in Results, AtHand(h), UNCHANGED <<argv, pos>>,
         \A p \in pos : p.head # h /\ p.head \in Results,
         {g \in Results : AtHand(g)}' = {g \in Results : AtHand(g)} \ {h},
         \A g \in Results : g # h => chain'[g] = chain[g]
  PROVE  ResultsOf!Discard(h)
<1>1. \A g \in Results : g # h => RowsOf(g)' = RowsOf(g)
  BY DEF RowsOf
<1>2. Seen' = [g \in {g \in Results : AtHand(g)} \ {h} |-> RowsOf(g)']
  BY DEF Seen
<1>3. DOMAIN Seen = {g \in Results : AtHand(g)} /\ \A g \in DOMAIN Seen : Seen[g] = RowsOf(g)
  BY DEF Seen
<1>4. Seen' = [g \in DOMAIN Seen \ {h} |-> Seen[g]] /\ h \in DOMAIN Seen
  BY <1>1, <1>2, <1>3
<1>5. Visited' = Visited
  BY VisitedSame
<1>6. \A v \in Visited : v.result # h
  BY DEF Visited
<1>7. QED
  BY <1>4, <1>5, <1>6 DEF Seen, RowsOf, Visited, PlaceIn, ResultsOf!Discard

LEMMA LetGoMaps ==
  ASSUME RowsIInv, NEW h \in Blocks, Forget(h) \/ FreeRows(h)
  PROVE  ResultsOf!Discard(h)
<1> USE DEF RowsIInv
<1>1. /\ task = Idle /\ h \in Results /\ \A p \in pos : p.head # h
      /\ UNCHANGED <<argv, pos>>
  BY DEF Forget, FreeRows, MayLetGo, heapVars
<1>2. \A g \in Results : AtHand(g)
  BY <1>1, AllAtHand
<1>3. \A p \in pos : p.head # h /\ p.head \in Results
  BY <1>1, CursorApart
<1>4. CASE Forget(h)
  <2>1. chain' = [g \in Results \ {h} |-> chain[g]] /\ task' = task
    BY <1>4 DEF Forget
  <2>2. Results' = Results \ {h} /\ \A g \in Results : g # h => chain'[g] = chain[g]
    BY <2>1 DEF Results
  <2>3. \A g \in Results' : AtHand(g)'
    BY <2>1, <1>1 DEF AtHand, Idle
  <2>4. {g \in Results : AtHand(g)}' = {g \in Results : AtHand(g)} \ {h}
    BY <2>2, <2>3, <1>2
  <2>5. QED
    BY <2>2, <2>4, <1>1, <1>2, <1>3, Unseen
<1>5. CASE FreeRows(h)
  <2>1. chain' = chain /\ task' = Call("columns", h, next[h])
    BY <1>5 DEF FreeRows
  <2>2. Results' = Results /\ \A g \in Results : AtHand(g)' <=> g # h
    BY <2>1 DEF AtHand, Results, Call
  <2>3. {g \in Results : AtHand(g)}' = {g \in Results : AtHand(g)} \ {h}
    BY <2>2, <1>2
  <2>4. QED
    BY <2>1, <2>3, <1>1, <1>2, <1>3, Unseen
<1>6. QED
  BY <1>4, <1>5

\* The release of a result that is no longer seen.
LEMMA ReleaseMaps ==
  ASSUME RowsIInv, NEW h \in Results, task # Idle, task.head = h, ~AtHand(h), pos' = pos,
         {g \in Results : AtHand(g)}' = {g \in Results : AtHand(g)},
         \A g \in Results : g # h => chain'[g] = chain[g],
         \A g \in Results : g # h =>
           \A k \in DOMAIN chain[g] : argv'[chain[g][k]] = argv[chain[g][k]]
  PROVE  Seen' = Seen /\ Visited' = Visited
<1>1. \A g \in {g \in Results : AtHand(g)} : g # h /\ RowsOf(g)' = RowsOf(g)
  BY DEF RowsOf
<1>2. Seen' = Seen
  BY <1>1 DEF Seen
<1>3. Visited' = Visited
  BY VisitedSame, CursorApart DEF RowsIInv
<1>4. QED
  BY <1>2, <1>3

LEMMA FreeColumnsMaps ==
  ASSUME RowsIInv, FreeColumns
  PROVE  Seen' = Seen /\ Visited' = Visited
<1> USE DEF RowsIInv
<1>1. PICK h \in Results : \E k \in Places(h) : task = Call("columns", h, BlockAt(h, k + 1))
  BY TaskCases DEF FreeColumns
<1>2. PICK k \in Places(h) : task = Call("columns", h, BlockAt(h, k + 1))
  BY <1>1
<1>3. PICK b : b = BlockAt(h, k + 1)
  OBVIOUS
<1>4. /\ b # h /\ task.head = h /\ task # Idle /\ ~AtHand(h)
      /\ argv' = [argv EXCEPT ![b] = Null]
      /\ task' = Call("columns", h, next[b])
      /\ UNCHANGED <<pos, chain>>
  BY <1>2, <1>3 DEF FreeColumns, Call, AtHand, Idle
<1>5. k + 1 \in Places(h)
  <2>1. BlockAt(h, Len(chain[h]) + 1) = h /\ Len(chain[h]) \in Nat /\ k \in 0 .. Len(chain[h])
    BY RingBlocks DEF Places
  <2>2. k # Len(chain[h])
    BY <2>1, <1>3, <1>4
  <2>3. QED
    BY <2>1, <2>2 DEF Places
<1>6. {g \in Results : AtHand(g)}' = {g \in Results : AtHand(g)}
  BY <1>2, <1>4 DEF AtHand, Results, Call
<1>7. ASSUME NEW g \in Results, g # h, NEW j \in DOMAIN chain[g]
      PROVE  argv'[chain[g][j]] = argv[chain[g][j]]
  <2>1. j \in 1 .. Len(chain[g])
    BY RingBlocks, LenProperties
  <2>2. chain[g][j] = BlockAt(g, j) /\ j \in Places(g) /\ BlockAt(g, j) \in Blocks
    BY <2>1, RingBlocks
  <2>3. chain[g][j] # b
    BY <2>2, <1>3, <1>5, <1>7 DEF ApartInv
  <2>4. QED
    BY <2>2, <2>3, <1>4 DEF RowsTypeOK
<1>8. QED
  BY <1>4, <1>6, <1>7, ReleaseMaps

LEMMA FreeBlocksMaps ==
  ASSUME RowsIInv, ColumnsFreed \/ FreeBlock \/ RowsFreed
  PROVE  Seen' = Seen /\ Visited' = Visited
<1> USE DEF RowsIInv
<1>1. PICK h \in Results : task # Idle /\ task.head = h /\ ~AtHand(h)
  BY TaskCases DEF ColumnsFreed, FreeBlock, RowsFreed, Call, AtHand, Idle
<1>2. UNCHANGED <<argv, pos>>
  BY DEF ColumnsFreed, FreeBlock, RowsFreed, heapVars
<1>3. \A g \in Results : g # h => g \in Results' /\ chain'[g] = chain[g]
  BY <1>1 DEF ColumnsFreed, FreeBlock, RowsFreed, heapVars, Results
<1>4. {g \in Results : AtHand(g)}' = {g \in Results : AtHand(g)}
  <2>1. \A g \in Results : g # h => AtHand(g) /\ AtHand(g)'
    BY <1>1, <1>3 DEF ColumnsFreed, FreeBlock, RowsFreed, AtHand, Call, Idle
  <2>2. Results' \subseteq Results /\ (h \in Results' => ~AtHand(h)')
    BY <1>1 DEF ColumnsFreed, FreeBlock, RowsFreed, AtHand, Call, Idle, Results, heapVars
  <2>3. QED
    BY <2>1, <2>2, <1>1, <1>3
<1>5. QED
  BY <1>1, <1>2, <1>3, <1>4, ReleaseMaps

LEMMA RowsStepMaps ==
  ASSUME RowsIInv, [RowsNext]_rowsVars
  PROVE  ResultsOf!ResultNext \/ (Seen' = Seen /\ Visited' = Visited)
<1>1. CASE UNCHANGED rowsVars
  BY <1>1 DEF rowsVars, heapVars, Seen, RowsOf, Visited, AtHand, Results
<1>2. ASSUME NEW h \in Blocks, NEW rows \in BoundedSeq(Rows, MaxRows), DbSelect(h, rows)
      PROVE  ResultsOf!ResultNext
  BY <1>2, SelectMaps DEF ResultsOf!ResultNext
<1>3. ASSUME NEW h \in Blocks, NEW b \in Blocks, SelectCallback(h, b)
      PROVE  ResultsOf!ResultNext
  BY <1>3, CallbackMaps DEF ResultsOf!ResultNext
<1>4. ASSUME NEW h \in Blocks, LoopBegins(h)
      PROVE  ResultsOf!ResultNext
  BY <1>4, LoopBeginsMaps DEF ResultsOf!ResultNext
<1>5. ASSUME NEW h \in Blocks, Forget(h) \/ FreeRows(h)
      PROVE  ResultsOf!ResultNext
  BY <1>5, LetGoMaps DEF ResultsOf!ResultNext
<1>6. CASE LoopGoesOn
  BY <1>6, LoopGoesOnMaps DEF ResultsOf!ResultNext
<1>7. CASE FreeColumns \/ ColumnsFreed \/ FreeBlock \/ RowsFreed
  BY <1>7, FreeColumnsMaps, FreeBlocksMaps
<1>8. QED
  BY <1>1, <1>2, <1>3, <1>4, <1>5, <1>6, <1>7 DEF RowsNext

\* db_select keeps its promise to the handlers: whatever is selected, looped
\* over and released in between, a result is the sequence of the rows SQLite
\* delivered, and a loop over it (friend.c:58) visits each once, in order.
THEOREM RowsImplementResults == RowsSpec => RefinesResultRows
<1>1. RowsInit => ResultsOf!ResultInit
  <2>1. ASSUME RowsInit PROVE Seen = << >> /\ Visited = {}
    BY <2>1 DEF RowsInit, Seen, Visited, Results
  <2>2. QED
    BY <2>1 DEF ResultsOf!ResultInit, Seen, RowsOf, Visited, PlaceIn
<1>2. RowsIInv /\ [RowsNext]_rowsVars => [ResultsOf!ResultNext]_(ResultsOf!resultVars)
  BY RowsStepMaps DEF ResultsOf!resultVars, Seen, RowsOf, Visited, PlaceIn
<1>3. QED
  BY <1>1, <1>2, RowsInductive, PTL DEF RowsSpec, RefinesResultRows, ResultsOf!ResultSpec
=============================================================================
