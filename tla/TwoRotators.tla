---------------------------- MODULE TwoRotators ----------------------------
(***************************************************************************)
(* Two calls of rotate_encryption_keys() at work on one database: a job    *)
(* scheduled again while its predecessor still runs, or two operators.     *)
(* Nothing in rotation.py keeps them apart; what does is the guard of each *)
(* UPDATE and the locks of the database.                                   *)
(*                                                                         *)
(* Each call is a rotator of KeyRotation, on the same rows and with the    *)
(* same services.  An UPDATE of a row the other has updated waits for that *)
(* transaction to end and then looks at the row again.  Two calls take the *)
(* rows of a table in any order, so each may wait for the other, until the *)
(* database ends one of the two transactions; with SQLite, which locks the *)
(* file, one of them times out.  Either is a Crash.                        *)
(***************************************************************************)
EXTENDS Envelope

CONSTANTS Row, TableOf, Scope, Time, NoTime, Absent, InitialDb, Passes, Configs

VARIABLES
  db, running, handle,   \* the rows and the services, as in KeyRotation
  pcA, passA, tblA, todoA, txnA, rotatedA, skippedA, dirtyA, rerunA,
  pcB, passB, tblB, todoB, txnB, rotatedB, skippedB, dirtyB, rerunB

A == INSTANCE KeyRotation WITH
  pc <- pcA, pass <- passA, tbl <- tblA, todo <- todoA, txn <- txnA,
  rotated <- rotatedA, skipped <- skippedA, dirty <- dirtyA, rerun <- rerunA

B == INSTANCE KeyRotation WITH
  pc <- pcB, pass <- passB, tbl <- tblB, todo <- todoB, txn <- txnB,
  rotated <- rotatedB, skipped <- skippedB, dirty <- dirtyB, rerun <- rerunB

(* The constants are those of one rotator.                                 *)
ASSUME TwoAssumption == A!RotationAssumption

rotatorA == <<pcA, passA, tblA, todoA, txnA, rotatedA, skippedA, dirtyA, rerunA>>
rotatorB == <<pcB, passB, tblB, todoB, txnB, rotatedB, skippedB, dirtyB, rerunB>>
twoVars == <<db, running, handle, rotatorA, rotatorB>>

Init == A!Init /\ B!Init

-----------------------------------------------------------------------------
(* The rows an UPDATE of which has to wait for the other call.             *)
HeldByA == {r \in Row : txnA[r] # Absent}
HeldByB == {r \in Row : txnB[r] # Absent}

StepA ==
  /\ \/ A!SelectTable
     \/ A!CommitTable
     \/ \E r \in Row : A!PassOver(r) \/ A!FailRow(r)
     \/ \E r \in Row \ HeldByB : A!UpdateRow(r) \/ A!MissRow(r)
  /\ UNCHANGED rotatorB

StepB ==
  /\ \/ B!SelectTable
     \/ B!CommitTable
     \/ \E r \in Row : B!PassOver(r) \/ B!FailRow(r)
     \/ \E r \in Row \ HeldByA : B!UpdateRow(r) \/ B!MissRow(r)
  /\ UNCHANGED rotatorA

BeginA == (\E p \in Passes : A!BeginPass(p)) /\ UNCHANGED rotatorB
BeginB == (\E p \in Passes : B!BeginPass(p)) /\ UNCHANGED rotatorA

CrashA == A!Crash /\ UNCHANGED rotatorB
CrashB == B!Crash /\ UNCHANGED rotatorA

(* The services: a commit waits for the locks of both calls.               *)
Changed == {r \in Row : db'[r] # db[r]}

Serve ==
  /\ \/ \E c \in Configs : A!StartService(c) \/ A!StopService(c)
     \/ A!ServiceLoad
     \/ A!ServiceCommit
     \/ \E s \in A!Session : A!AbortOperation(s)
  /\ Changed \cap HeldByB = {}
  /\ dirtyB' = dirtyB \cup {r \in Changed : B!Seen(r)}
  /\ UNCHANGED <<pcB, passB, tblB, todoB, txnB, rotatedB, skippedB, rerunB>>

Next ==
  \/ BeginA \/ StepA \/ CrashA
  \/ BeginB \/ StepB \/ CrashB
  \/ Serve

Spec == Init /\ [][Next]_twoVars

-----------------------------------------------------------------------------
(* Properties.                                                             *)

(* Two rotations and the services lose no write of a service.              *)
TwoPreserveContents == A!ContentsPreserved

(* The pass a call returned from accounts for every row no service wrote,   *)
(* whatever the other call did to it: none is left under the old backend,  *)
(* and what it counts as rotated is sealed by its own new one.             *)
BothAccount == A!ResultAccounts /\ B!ResultAccounts

(* No row is rotated twice, the second on top of the first: of two calls    *)
(* only one counts a row that no service wrote.                            *)
EachRowOnce == rotatedA \cap rotatedB \subseteq dirtyA \cup dirtyB

(* BothAccount and EachRowOnce are about calls that rotate in one direction:*)
(* a pass from the backend another one ends at moves its rows on, as it     *)
(* should, be it the reverse of that pass or the next rotation.            *)
OneDirection == \A p, q \in Passes : p.new # q.old

(* Two calls between backends of different ids, at once, are no more in the *)
(* way than one: where every service knows both backends (A!PathA), each    *)
(* row stays readable to all of them and neither call meets one it cannot  *)
(* decrypt, whether the other has rotated it or is about to.               *)
OverlapHarmless == A!AlwaysReadable /\ A!CrossNeverFails /\ B!CrossNeverFails
=============================================================================
