------------------------------ MODULE MCBackfill ------------------------------
(* Backfill on small instances. *)
EXTENDS Backfill, TLC

CONSTANTS i1, i2, i3, g1, g2, s1, s2, s3, d1, d2, d3

\* A game of two recordings and one of a single one.
TwoGames == [i \in Items |-> IF i = i3 THEN g2 ELSE g1]

\* Both games list the same recording: one file, one demo.
SharedSource == [i \in Items |-> IF i = i2 THEN s2 ELSE s1]
SharedDemo   == [i \in Items |-> IF i = i2 THEN d2 ELSE d1]

\* Every recording is its own.
OwnSource == [i \in Items |-> CASE i = i1 -> s1 [] i = i2 -> s2 [] i = i3 -> s3]
OwnDemo   == [i \in Items |-> CASE i = i1 -> d1 [] i = i2 -> d2 [] i = i3 -> d3]

LoopFaults  == {"call", "abort", "slow"}
KillFaults  == {"crash", "call"}
OnlyCrashes == {"crash"}

Symmetry == Permutations(Workers)
===============================================================================
