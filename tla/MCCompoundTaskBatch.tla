-------------------------- MODULE MCCompoundTaskBatch --------------------------
(* Two parents that insert twice and one that inserts once; the first and  *)
(* the last select a count when their inserts have succeeded.              *)
EXTENDS CompoundTaskBatch, TLC

CONSTANTS p, q, r, p1, p2, p3, q1, q2, r1, r2, Insert, Count

MCChildrenOf == (p :> <<p1, p2, p3>>) @@ (q :> <<q1, q2>>) @@ (r :> <<r1, r2>>)
MCTextOf     == [task \in Task |-> IF task \in {p3, r2} THEN Count ELSE Insert]
MCAddedAfter == [task \in Task |-> IF task \in {p3, r2} THEN Insert ELSE Seeding]
MCOrdering   == <<Insert, Count>>
MCRows       == [text \in Text |-> IF text = Insert THEN 2 ELSE 3]
=============================================================================
