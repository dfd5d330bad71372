------------------------ MODULE MCMaintenanceWindow ------------------------
(***************************************************************************)
(* Instances of MaintenanceWindow for TLC: two keys of one backend, two    *)
(* sessions, and services that can be configured with either key.          *)
(***************************************************************************)
EXTENDS MaintenanceWindow

CONSTANTS s1, s2, a1, u1, e1,  \* two sessions, their states, the event of one
          k1, k2, v1, v2, n1, t1

MCTableOf == [r \in Row |-> CASE r \in {s1, s2} -> 1
                              [] r = a1 -> 2
                              [] r = u1 -> 3
                              [] r = e1 -> 4]

MCScope == [s \in {s1, s2} |->
              {s, a1, u1} \cup IF s = s1 THEN {e1} ELSE {}]

Fernet1 == [id |-> 1, key |-> k1]
Fernet2 == [id |-> 1, key |-> k2]

BothWays == {[old |-> Fernet1, new |-> Fernet2],
             [old |-> Fernet2, new |-> Fernet1]}

SoleConfigs == {Sole(Fernet1), Sole(Fernet2)}

AllFirst == [r \in Row |->
  [text |-> Seal(Fernet1, v1, n1),
   update_time |-> IF HasUpdateTime(r) THEN t1 ELSE NoTime]]

(* All rows are there, or the event is still to be appended, or has NULL.   *)
MCInitialDb == {AllFirst, [AllFirst EXCEPT ![e1] = Absent],
                [AllFirst EXCEPT ![e1].text = NullText]}

(* Such a database meets the hypothesis of a maintenance run, which has no  *)
(* service at all.                                                         *)
Stopped == INSTANCE KeyRotation WITH Configs <- {}

ASSUME MaintenanceHolds == Stopped!Maintenance
=============================================================================
