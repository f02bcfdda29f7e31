---------------------------- MODULE MCSelectRows ----------------------------
(* The instance of SelectRows that TLC checks: blocks are interchangeable.  *)
EXTENDS SelectRows, TLC

AnyBlock == Permutations(Blocks)
=============================================================================
