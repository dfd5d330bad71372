--------------------------- MODULE MCKeyRotation ---------------------------
(***************************************************************************)
(* Instances of KeyRotation for TLC.  Primary keys are model values; each  *)
(* configuration file picks the rows, the backends and who runs.           *)
(***************************************************************************)
EXTENDS KeyRotation

CONSTANTS s1, s2, a1, u1, e1, e2,  \* two sessions, their states and events
          k1, k2, v1, v2, n1, t1, t2

(* One session with app state and an event; two sessions that share theirs. *)
MCTableOf == [r \in Row |-> CASE r \in {s1, s2} -> 1
                              [] r = a1 -> 2
                              [] r = u1 -> 3
                              [] r \in {e1, e2} -> 4]

MCScope == [s \in {s1, s2} \cap Row |->
              Row \cap ({a1, u1} \cup IF s = s1 THEN {s1, e1} ELSE {s2, e2})]

Fernet1 == [id |-> 1, key |-> k1]
Fernet2 == [id |-> 1, key |-> k2]
AesGcm  == [id |-> 2, key |-> k2]

(* Path A: the backends have different ids, every service knows both.      *)
Forward      == [old |-> Fernet1, new |-> AesGcm]
MigrateOnly  == {Forward}
CrossConfigs == {[primary |-> Fernet1, extras |-> {AesGcm}],
                 [primary |-> AesGcm, extras |-> {Fernet1}]}
OldPrimary   == {[primary |-> Fernet1, extras |-> {AesGcm}]}

(* Path B: one id, two keys; a service can know only one of them.          *)
SameForward == [old |-> Fernet1, new |-> Fernet2]
SamePass    == {SameForward}
SameConfigs == {[primary |-> Fernet1, extras |-> {}]}

(* An operator who may take either path, against a service that knows the  *)
(* backends of one.                                                        *)
BothTargets == {Forward, SameForward}

StoredBy(r, b, v, n) ==
  [text |-> Seal(b, v, n),
   update_time |-> IF HasUpdateTime(r) THEN CHOOSE t \in Time : TRUE ELSE NoTime]

SomeNonce == CHOOSE n \in Nonce : TRUE

(* Everything was written under the first backend.                         *)
AllOld == [r \in Row |-> StoredBy(r, Fernet1, v1, SomeNonce)]

(* The session is there, its event still to be appended.                   *)
NoEventYet == {[AllOld EXCEPT ![e1] = Absent]}

(* One row, of any table, may hold a NULL, an undecodable text, or nothing. *)
Odd(r) == {Absent} \cup
  {[AllOld[r] EXCEPT !.text = t] :
     t \in {NullText, NotBase64, BuildEnvelope(2, 1, AllOld[r].text.ct)}}

DamagedDb == {AllOld} \cup
  UNION {{[AllOld EXCEPT ![r] = x] : x \in Odd(r)} : r \in Row}
=============================================================================
