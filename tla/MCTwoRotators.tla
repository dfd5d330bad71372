--------------------------- MODULE MCTwoRotators ---------------------------
(***************************************************************************)
(* An instance of TwoRotators for TLC: two calls that rotate from one      *)
(* backend to another, and a service that writes under the old one.        *)
(***************************************************************************)
EXTENDS TwoRotators

CONSTANTS s1, e1, k1, k2, v1, v2, n1, t1

MCTableOf == [r \in Row |-> IF r = e1 THEN 4 ELSE 1]

MCScope == [s \in {s1} |-> {s1, e1}]

Fernet1 == [id |-> 1, key |-> k1]
AesGcm  == [id |-> 2, key |-> k2]

OneTarget == {[old |-> Fernet1, new |-> AesGcm]}

OldConfigs == {[primary |-> Fernet1, extras |-> {AesGcm}]}

AllOld == [r \in Row |->
  [text |-> Seal(Fernet1, v1, n1),
   update_time |-> IF TableOf[r] # 4 THEN t1 ELSE NoTime]]

MCInitialDb == {AllOld}

(* The calls of this instance rotate in one direction.                     *)
ASSUME OneWay == OneDirection

(* Its service knows both backends.                                        *)
ASSUME PathAHolds == A!PathA
=============================================================================
