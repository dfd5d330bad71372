---------------------------- MODULE MCTimestamps ----------------------------
(***************************************************************************)
(* Instances of Timestamps for TLC.  A unit is an hour; the clocks of New   *)
(* York are set back at 3 and forward at 6.                                *)
(***************************************************************************)
EXTENDS Timestamps

Hours == 0..7

MCOffset ==
  [z \in Zone |-> [u \in Hours |->
     CASE z = "New_York" -> IF u \in 3..5 THEN -5 ELSE -4
       [] z = "Tokyo"    -> 9]]
=============================================================================
