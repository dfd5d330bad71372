----------------------------- MODULE MCHelpers -----------------------------
(***************************************************************************)
(* An instance of Helpers for TLC: two registered ids and one that does    *)
(* not fit a byte, two keys.                                               *)
(***************************************************************************)
EXTENDS Helpers

CONSTANTS k1, k2, j1, j2, text, bytes, v1, v2, bad, n1

MCDumps == [v \in {v1, v2, bad} |->
              CASE v = v1 -> j1 [] v = v2 -> j2 [] v = bad -> NotSerializable]

MCBackend(i, k) == [id |-> i, key |-> k]

(* One backend, a migration between two, and a backend that fits no byte.  *)
MCServices == {
  [primary |-> MCBackend(1, k1), extras |-> {}],
  [primary |-> MCBackend(2, k2), extras |-> {MCBackend(1, k1)}],
  [primary |-> MCBackend(256, k1), extras |-> {MCBackend(1, k2)}]}
=============================================================================
