----------------------------- MODULE ResultRows -----------------------------
(***************************************************************************)
(* What db_select promises to a handler: a result is the sequence of the   *)
(* rows SQLite delivered, results do not disturb each other, and a loop    *)
(* over one visits each of its rows once, in order.                        *)
(***************************************************************************)
EXTENDS Naturals, Sequences

CONSTANTS
  Handles,  \* names of results
  Rows      \* the contents of a row

VARIABLES
  results,  \* a function from the results at hand to their rows
  visited   \* {} or the one result that is looped over, with its current row

resultVars == <<results, visited>>

ResultInit == results = << >> /\ visited = {}

Begin(h) ==
  /\ h \notin DOMAIN results
  /\ results' = [g \in DOMAIN results \cup {h} |->
                   IF g = h THEN << >> ELSE results[g]]
  /\ UNCHANGED visited

Deliver(h, r) ==
  /\ h \in DOMAIN results
  /\ results' = [results EXCEPT ![h] = Append(@, r)]
  /\ UNCHANGED visited

Discard(h) ==
  /\ h \in DOMAIN results
  /\ \A v \in visited : v.result # h
  /\ results' = [g \in DOMAIN results \ {h} |-> results[g]]
  /\ UNCHANGED visited

Visit(h) ==
  /\ visited = {} /\ h \in DOMAIN results
  /\ results[h] # << >>
  /\ visited' = {[result |-> h, row |-> 1]}
  /\ UNCHANGED results

\* The loop ends after the last row, and only then.
Advance ==
  \E v \in visited :
    /\ visited' = IF v.row = Len(results[v.result]) THEN {}
                  ELSE {[v EXCEPT !.row = @ + 1]}
    /\ UNCHANGED results

ResultNext ==
  \/ \E h \in Handles : Begin(h) \/ Discard(h) \/ Visit(h)
  \/ \E h \in Handles, r \in Rows : Deliver(h, r)
  \/ Advance

ResultSpec == ResultInit /\ [][ResultNext]_resultVars
=============================================================================
