-------------------------- MODULE MCPrepareTables --------------------------
(***************************************************************************)
(* Instances of PrepareTables for TLC: the coroutines t1, t2 and t3 call    *)
(* the first service, t4 the second one.                                   *)
(***************************************************************************)
EXTENDS PrepareTables

CONSTANTS p1, p2, t1, t2, t3, t4, x1, x2

MCServiceOf ==
  [t \in Task |-> IF t = t4 THEN p2 ELSE p1]
=============================================================================
