--------------------------- MODULE MCDatabaseProcess ---------------------------
(* Three tasks that select a result set each, executed in lists of two or  *)
(* three, and one of another batch that selects none.                      *)
EXTENDS DatabaseProcess, TLC

CONSTANTS a1, a2, a3, b, Select, Insert

MCTextOf   == [task \in Task |-> IF task = b THEN Insert ELSE Select]
MCOrdering == <<CompoundBatch, Select, Insert>>
TwoOrThree == { [text \in Text |-> size] : size \in 2 .. 3 }
=============================================================================
