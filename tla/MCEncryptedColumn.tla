------------------------- MODULE MCEncryptedColumn -------------------------
(***************************************************************************)
(* Instances of EncryptedColumn for TLC.  The JSON texts are of the two     *)
(* lengths between which padding adds a block; 2 is the shortest, "{}".     *)
(***************************************************************************)
EXTENDS EncryptedColumn

CONSTANTS p1, p2, f1, a1, c1, r1, r2, v1, v2

MCLength == [v \in {v1, v2} |-> IF v = v1 THEN 2 ELSE 16]
=============================================================================
