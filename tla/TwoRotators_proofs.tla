------------------------ MODULE TwoRotators_proofs ------------------------
(***************************************************************************)
(* Theorems of TwoRotators, for every set of rows, backends, services and  *)
(* databases.  Each call of rotate_encryption_keys() keeps the invariants  *)
(* that KeyRotation_proofs shows of one; what is to show is that the steps *)
(* of the other call do not disturb them.                                  *)
(*                                                                         *)
(* The lemmas of KeyRotation_proofs are those of two of its instances, PA  *)
(* and PB: the first lemmas below say that PA and PB describe the calls A  *)
(* and B of TwoRotators.                                                   *)
(***************************************************************************)
EXTENDS TwoRotators, TLAPS

PA == INSTANCE KeyRotation_proofs WITH
  pc <- pcA, pass <- passA, tbl <- tblA, todo <- todoA, txn <- txnA,
  rotated <- rotatedA, skipped <- skippedA, dirty <- dirtyA, rerun <- rerunA

PB == INSTANCE KeyRotation_proofs WITH
  pc <- pcB, pass <- passB, tbl <- tblB, todo <- todoB, txn <- txnB,
  rotated <- rotatedB, skipped <- skippedB, dirty <- dirtyB, rerun <- rerunB

-----------------------------------------------------------------------------
(* The instances.                                                          *)

(* The constants are as call A needs them.                                 *)
LEMMA AssumptionA == PA!RotationAssumption /\ PA!EnvelopeAssumption
<1>1. PA!RotationAssumption
  BY TwoAssumption
  DEF A!RotationAssumption, PA!RotationAssumption, A!Stored, PA!Stored,
      A!DbType, PA!DbType, A!Pass, PA!Pass, A!Session, PA!Session, A!TableRows,
      PA!TableRows, A!SESSIONS, PA!SESSIONS, A!Contents, PA!Contents, A!Config,
      PA!Config, A!UniqueIds, PA!UniqueIds, A!Backends, PA!Backends, A!Backend,
      PA!Backend, A!Text, PA!Text, A!Envelopes, PA!Envelopes, A!Ciphertext,
      PA!Ciphertext, A!NullText, PA!NullText, A!NotBase64, PA!NotBase64,
      A!TooShort, PA!TooShort
<1>2. PA!EnvelopeAssumption
  BY EnvelopeAssumption DEF PA!EnvelopeAssumption
<1> QED
  BY <1>1, <1>2

(* The constants are as call B needs them.                                 *)
LEMMA AssumptionB == PB!RotationAssumption /\ PB!EnvelopeAssumption
<1>1. PB!RotationAssumption
  BY TwoAssumption
  DEF A!RotationAssumption, PB!RotationAssumption, A!Stored, PB!Stored,
      A!DbType, PB!DbType, A!Pass, PB!Pass, A!Session, PB!Session, A!TableRows,
      PB!TableRows, A!SESSIONS, PB!SESSIONS, A!Contents, PB!Contents, A!Config,
      PB!Config, A!UniqueIds, PB!UniqueIds, A!Backends, PB!Backends, A!Backend,
      PB!Backend, A!Text, PB!Text, A!Envelopes, PB!Envelopes, A!Ciphertext,
      PB!Ciphertext, A!NullText, PB!NullText, A!NotBase64, PB!NotBase64,
      A!TooShort, PB!TooShort
<1>2. PB!EnvelopeAssumption
  BY EnvelopeAssumption DEF PB!EnvelopeAssumption
<1> QED
  BY <1>1, <1>2

(* The two calls see one database, and the same operations on it.          *)
LEMMA SameTypes ==
  PA!DbType = PB!DbType /\ PA!Session = PB!Session /\ PA!Handle = PB!Handle
BY DEF PA!DbType, PB!DbType, PA!Stored, PB!Stored, PA!Text, PB!Text,
       PA!Envelopes, PB!Envelopes, PA!Ciphertext, PB!Ciphertext, PA!Backend,
       PB!Backend, PA!NullText, PB!NullText, PA!NotBase64, PB!NotBase64,
       PA!TooShort, PB!TooShort, PA!Session, PB!Session, PA!TableRows,
       PB!TableRows, PA!SESSIONS, PB!SESSIONS, PA!Handle, PB!Handle, PA!Idle,
       PB!Idle

(* A step of call A is one of a rotator.                                   *)
LEMMA RotatorA ==
  ASSUME BeginA \/ StepA \/ CrashA
  PROVE  /\ PA!RotatorStep \/ PA!Crash \/ \E p \in Passes : PA!BeginPass(p)
         /\ UNCHANGED rotatorB
         /\ \/ \E r \in Row \ HeldByB : PA!UpdateRow(r)
            \/ \E p \in Passes : PA!BeginPass(p)
            \/ PA!SelectTable \/ PA!CommitTable \/ PA!Crash
            \/ \E r \in Row : PA!PassOver(r) \/ PA!FailRow(r) \/ PA!MissRow(r)
<1>1. A!SelectTable <=> PA!SelectTable
  BY DEF A!SelectTable, PA!SelectTable
<1>2. A!CommitTable <=> PA!CommitTable
  BY DEF A!CommitTable, PA!CommitTable, A!NoRows, PA!NoRows, A!EVENTS, PA!EVENTS
<1>3. A!Crash <=> PA!Crash
  BY DEF A!Crash, PA!Crash, A!Active, PA!Active, A!Abandon, PA!Abandon,
         A!NoRows, PA!NoRows
<1>4. \A r \in Row : (A!PassOver(r) <=> PA!PassOver(r))
  BY DEF A!PassOver, PA!PassOver, A!Pending, PA!Pending, A!Handled, PA!Handled,
         A!NullText, PA!NullText, A!Parses, PA!Parses, A!ENVELOPE_VERSION_1,
         PA!ENVELOPE_VERSION_1
<1>5. \A r \in Row : (A!FailRow(r) <=> PA!FailRow(r))
  BY DEF A!FailRow, PA!FailRow, A!Pending, PA!Pending, A!Abandon, PA!Abandon,
         A!NoRows, PA!NoRows, A!NullText, PA!NullText, A!Parses, PA!Parses,
         A!Opens, PA!Opens, A!ENVELOPE_VERSION_1, PA!ENVELOPE_VERSION_1
<1>6. \A r \in Row : (A!UpdateRow(r) <=> PA!UpdateRow(r))
  BY DEF A!UpdateRow, PA!UpdateRow, A!Pending, PA!Pending, A!Handled,
         PA!Handled, A!Old, PA!Old, A!Parses, PA!Parses, A!Opens, PA!Opens,
         A!ENVELOPE_VERSION_1, PA!ENVELOPE_VERSION_1, A!UpdateHits,
         PA!UpdateHits, A!HasUpdateTime, PA!HasUpdateTime, A!EVENTS, PA!EVENTS,
         A!Reencrypted, PA!Reencrypted, A!BuildEnvelope, PA!BuildEnvelope,
         A!Encrypt, PA!Encrypt
<1>7. \A r \in Row : (A!MissRow(r) <=> PA!MissRow(r))
  BY DEF A!MissRow, PA!MissRow, A!Pending, PA!Pending, A!Handled, PA!Handled,
         A!Old, PA!Old, A!Parses, PA!Parses, A!Opens, PA!Opens,
         A!ENVELOPE_VERSION_1, PA!ENVELOPE_VERSION_1, A!UpdateHits,
         PA!UpdateHits, A!HasUpdateTime, PA!HasUpdateTime, A!EVENTS, PA!EVENTS
<1>8. \A p \in Passes : (A!BeginPass(p) <=> PA!BeginPass(p))
  BY DEF A!BeginPass, PA!BeginPass, A!Active, PA!Active
<1> QED
  BY <1>1, <1>2, <1>3, <1>4, <1>5, <1>6, <1>7, <1>8
  DEF BeginA, StepA, CrashA, PA!RotatorStep, PA!RotateRow

(* A step of call B is one of a rotator.                                   *)
LEMMA RotatorB ==
  ASSUME BeginB \/ StepB \/ CrashB
  PROVE  /\ PB!RotatorStep \/ PB!Crash \/ \E p \in Passes : PB!BeginPass(p)
         /\ UNCHANGED rotatorA
         /\ \/ \E r \in Row \ HeldByA : PB!UpdateRow(r)
            \/ \E p \in Passes : PB!BeginPass(p)
            \/ PB!SelectTable \/ PB!CommitTable \/ PB!Crash
            \/ \E r \in Row : PB!PassOver(r) \/ PB!FailRow(r) \/ PB!MissRow(r)
<1>1. B!SelectTable <=> PB!SelectTable
  BY DEF B!SelectTable, PB!SelectTable
<1>2. B!CommitTable <=> PB!CommitTable
  BY DEF B!CommitTable, PB!CommitTable, B!NoRows, PB!NoRows, B!EVENTS, PB!EVENTS
<1>3. B!Crash <=> PB!Crash
  BY DEF B!Crash, PB!Crash, B!Active, PB!Active, B!Abandon, PB!Abandon,
         B!NoRows, PB!NoRows
<1>4. \A r \in Row : (B!PassOver(r) <=> PB!PassOver(r))
  BY DEF B!PassOver, PB!PassOver, B!Pending, PB!Pending, B!Handled, PB!Handled,
         B!NullText, PB!NullText, B!Parses, PB!Parses, B!ENVELOPE_VERSION_1,
         PB!ENVELOPE_VERSION_1
<1>5. \A r \in Row : (B!FailRow(r) <=> PB!FailRow(r))
  BY DEF B!FailRow, PB!FailRow, B!Pending, PB!Pending, B!Abandon, PB!Abandon,
         B!NoRows, PB!NoRows, B!NullText, PB!NullText, B!Parses, PB!Parses,
         B!Opens, PB!Opens, B!ENVELOPE_VERSION_1, PB!ENVELOPE_VERSION_1
<1>6. \A r \in Row : (B!UpdateRow(r) <=> PB!UpdateRow(r))
  BY DEF B!UpdateRow, PB!UpdateRow, B!Pending, PB!Pending, B!Handled,
         PB!Handled, B!Old, PB!Old, B!Parses, PB!Parses, B!Opens, PB!Opens,
         B!ENVELOPE_VERSION_1, PB!ENVELOPE_VERSION_1, B!UpdateHits,
         PB!UpdateHits, B!HasUpdateTime, PB!HasUpdateTime, B!EVENTS, PB!EVENTS,
         B!Reencrypted, PB!Reencrypted, B!BuildEnvelope, PB!BuildEnvelope,
         B!Encrypt, PB!Encrypt
<1>7. \A r \in Row : (B!MissRow(r) <=> PB!MissRow(r))
  BY DEF B!MissRow, PB!MissRow, B!Pending, PB!Pending, B!Handled, PB!Handled,
         B!Old, PB!Old, B!Parses, PB!Parses, B!Opens, PB!Opens,
         B!ENVELOPE_VERSION_1, PB!ENVELOPE_VERSION_1, B!UpdateHits,
         PB!UpdateHits, B!HasUpdateTime, PB!HasUpdateTime, B!EVENTS, PB!EVENTS
<1>8. \A p \in Passes : (B!BeginPass(p) <=> PB!BeginPass(p))
  BY DEF B!BeginPass, PB!BeginPass, B!Active, PB!Active
<1> QED
  BY <1>1, <1>2, <1>3, <1>4, <1>5, <1>6, <1>7, <1>8
  DEF BeginB, StepB, CrashB, PB!RotatorStep, PB!RotateRow

(* A step of the services is one of the services that call A works against.*)
LEMMA ServiceA ==
  ASSUME Serve
  PROVE  \/ PA!ServiceLoad
         \/ PA!ServiceCommit
         \/ \E s \in PA!Session : PA!AbortOperation(s)
         \/ \E c \in Configs : PA!StartService(c) \/ PA!StopService(c)
<1>1. \A c \in Configs : (A!StartService(c) <=> PA!StartService(c))
  BY DEF A!StartService, PA!StartService, A!rotatorVars, PA!rotatorVars,
         A!historyVars, PA!historyVars
<1>2. \A c \in Configs : (A!StopService(c) <=> PA!StopService(c))
  BY DEF A!StopService, PA!StopService, A!rotatorVars, PA!rotatorVars,
         A!historyVars, PA!historyVars, A!Idle, PA!Idle, A!Session, PA!Session,
         A!TableRows, PA!TableRows, A!SESSIONS, PA!SESSIONS
<1>3. A!ServiceLoad <=> PA!ServiceLoad
  BY DEF A!ServiceLoad, PA!ServiceLoad, A!LoadAppend, PA!LoadAppend,
         A!LoadCreate, PA!LoadCreate, A!Session, PA!Session, A!TableRows,
         PA!TableRows, A!SESSIONS, PA!SESSIONS, A!Idle, PA!Idle, A!StateRows,
         PA!StateRows, A!Event, PA!Event, A!EVENTS, PA!EVENTS, A!Present,
         PA!Present, A!Loadable, PA!Loadable, A!Readable, PA!Readable,
         A!NullText, PA!NullText, A!Parses, PA!Parses, A!ENVELOPE_VERSION_1,
         PA!ENVELOPE_VERSION_1, A!Dispatch, PA!Dispatch, A!Backends,
         PA!Backends, A!Opens, PA!Opens, A!rotatorVars, PA!rotatorVars,
         A!historyVars, PA!historyVars
<1>4. \A s \in A!Session : (A!AbortOperation(s) <=> PA!AbortOperation(s))
  BY DEF A!AbortOperation, PA!AbortOperation, A!Idle, PA!Idle, A!rotatorVars,
         PA!rotatorVars, A!historyVars, PA!historyVars
<1>5. \A s \in A!Session : (A!DeleteSession(s) <=> PA!DeleteSession(s))
  BY DEF A!DeleteSession, PA!DeleteSession, A!EventsOf, PA!EventsOf, A!Event,
         PA!Event, A!TableRows, PA!TableRows, A!EVENTS, PA!EVENTS, A!Present,
         PA!Present, A!Unlocked, PA!Unlocked, A!Touch, PA!Touch, A!Seen,
         PA!Seen, A!rotatorVars, PA!rotatorVars
<1>6. \A s \in A!Session : (A!CommitAppend(s) <=> PA!CommitAppend(s))
  BY DEF A!CommitAppend, PA!CommitAppend, A!WriteAppend, PA!WriteAppend,
         A!EventsOf, PA!EventsOf, A!StateRows, PA!StateRows, A!Idle, PA!Idle,
         A!Event, PA!Event, A!TableRows, PA!TableRows, A!EVENTS, PA!EVENTS,
         A!Present, PA!Present, A!Unlocked, PA!Unlocked, A!Touch, PA!Touch,
         A!Seen, PA!Seen, A!rotatorVars, PA!rotatorVars, A!SealedRow,
         PA!SealedRow, A!Seal, PA!Seal, A!BuildEnvelope, PA!BuildEnvelope,
         A!Encrypt, PA!Encrypt, A!HasUpdateTime, PA!HasUpdateTime,
         A!ENVELOPE_VERSION_1, PA!ENVELOPE_VERSION_1
<1>7. \A s \in A!Session : (A!CommitCreate(s) <=> PA!CommitCreate(s))
  BY DEF A!CommitCreate, PA!CommitCreate, A!WriteCreate, PA!WriteCreate,
         A!EventsOf, PA!EventsOf, A!StateRows, PA!StateRows, A!Idle, PA!Idle,
         A!Event, PA!Event, A!TableRows, PA!TableRows, A!EVENTS, PA!EVENTS,
         A!Present, PA!Present, A!Unlocked, PA!Unlocked, A!Touch, PA!Touch,
         A!Seen, PA!Seen, A!rotatorVars, PA!rotatorVars, A!SealedRow,
         PA!SealedRow, A!Seal, PA!Seal, A!BuildEnvelope, PA!BuildEnvelope,
         A!Encrypt, PA!Encrypt, A!HasUpdateTime, PA!HasUpdateTime,
         A!ENVELOPE_VERSION_1, PA!ENVELOPE_VERSION_1
<1>8. A!Session = PA!Session
  BY DEF A!Session, PA!Session, A!TableRows, PA!TableRows, A!SESSIONS, PA!SESSIONS
<1>9. A!ServiceCommit <=> PA!ServiceCommit
  BY <1>5, <1>6, <1>7, <1>8 DEF A!ServiceCommit, PA!ServiceCommit
<1> QED
  BY <1>1, <1>2, <1>3, <1>4, <1>8, <1>9 DEF Serve

-----------------------------------------------------------------------------
(* What each call holds, the other keeps off.                              *)

(* No row is in the transactions of both calls.                            *)
Exclusion == HeldByA \cap HeldByB = {}

TwoInv == PA!IInv /\ PB!IInv /\ Exclusion

(* A call changes no row that the other one holds: the rows it commits are *)
(* those it has updated, and so not updated by the other.                  *)
LEMMA KeepsA ==
  ASSUME TwoInv, BeginA \/ StepA \/ CrashA
  PROVE  TwoInv'
<1> USE DEF TwoInv
<1>1. PA!IInv'
  BY RotatorA, AssumptionA, PA!RotatorInv
<1>2. UNCHANGED rotatorB
  BY RotatorA
<1>3. /\ UNCHANGED <<running, handle>>
      /\ \A r \in Row : db'[r] = db[r] \/ (txnA[r] # Absent /\ db'[r] = txnA[r])
  BY RotatorA, AssumptionA, PA!RotatorWrites
<1>4. PB!IInv'
  <2>1. \A r \in Row : txnB[r] # Absent => db'[r] = db[r]
    BY <1>3 DEF Exclusion, HeldByA, HeldByB
  <2>2. PB!PlaceInv' /\ PB!LockInv'
    BY <1>2, <2>1, AssumptionB, PB!QuietInv DEF PB!IInv, rotatorB
  <2>3. PB!TypeOK'
    BY <1>1, <1>2, <1>3, SameTypes
    DEF PA!IInv, PA!TypeOK, PB!IInv, PB!TypeOK, rotatorB
  <2>4. PB!FreshInv'
    BY <1>3 DEF PB!IInv, PB!FreshInv, PB!StateRows
  <2> QED
    BY <2>2, <2>3, <2>4 DEF PB!IInv
<1>5. Exclusion'
  <2>1. CASE \E r \in Row \ HeldByB : PA!UpdateRow(r)
    <3>1. PICK r \in Row \ HeldByB : PA!UpdateRow(r)
      BY <2>1
    <3>2. \A q \in Row : q # r => txnA'[q] = txnA[q]
      BY <3>1, AssumptionA, PA!UpdateEffect DEF PA!IInv
    <3> QED
      BY <1>2, <3>2 DEF Exclusion, HeldByA, HeldByB, rotatorB
  <2>2. CASE ~\E r \in Row \ HeldByB : PA!UpdateRow(r)
    <3>1. txnA' = txnA \/ txnA' = PA!NoRows
      BY <2>2, RotatorA, AssumptionA, PA!OtherEffect
    <3> QED
      BY <1>2, <3>1 DEF Exclusion, HeldByA, HeldByB, rotatorB, PA!NoRows
  <2> QED
    BY <2>1, <2>2
<1> QED
  BY <1>1, <1>4, <1>5

(* A call changes no row that the other one holds: the rows it commits are *)
(* those it has updated, and so not updated by the other.                  *)
LEMMA KeepsB ==
  ASSUME TwoInv, BeginB \/ StepB \/ CrashB
  PROVE  TwoInv'
<1> USE DEF TwoInv
<1>1. PB!IInv'
  BY RotatorB, AssumptionB, PB!RotatorInv
<1>2. UNCHANGED rotatorA
  BY RotatorB
<1>3. /\ UNCHANGED <<running, handle>>
      /\ \A r \in Row : db'[r] = db[r] \/ (txnB[r] # Absent /\ db'[r] = txnB[r])
  BY RotatorB, AssumptionB, PB!RotatorWrites
<1>4. PA!IInv'
  <2>1. \A r \in Row : txnA[r] # Absent => db'[r] = db[r]
    BY <1>3 DEF Exclusion, HeldByA, HeldByB
  <2>2. PA!PlaceInv' /\ PA!LockInv'
    BY <1>2, <2>1, AssumptionA, PA!QuietInv DEF PA!IInv, rotatorA
  <2>3. PA!TypeOK'
    BY <1>1, <1>2, <1>3, SameTypes
    DEF PA!IInv, PA!TypeOK, PB!IInv, PB!TypeOK, rotatorA
  <2>4. PA!FreshInv'
    BY <1>3 DEF PA!IInv, PA!FreshInv, PA!StateRows
  <2> QED
    BY <2>2, <2>3, <2>4 DEF PA!IInv
<1>5. Exclusion'
  <2>1. CASE \E r \in Row \ HeldByA : PB!UpdateRow(r)
    <3>1. PICK r \in Row \ HeldByA : PB!UpdateRow(r)
      BY <2>1
    <3>2. \A q \in Row : q # r => txnB'[q] = txnB[q]
      BY <3>1, AssumptionB, PB!UpdateEffect DEF PB!IInv
    <3> QED
      BY <1>2, <3>2 DEF Exclusion, HeldByA, HeldByB, rotatorA
  <2>2. CASE ~\E r \in Row \ HeldByA : PB!UpdateRow(r)
    <3>1. txnB' = txnB \/ txnB' = PB!NoRows
      BY <2>2, RotatorB, AssumptionB, PB!OtherEffect
    <3> QED
      BY <1>2, <3>1 DEF Exclusion, HeldByA, HeldByB, rotatorA, PB!NoRows
  <2> QED
    BY <2>1, <2>2
<1> QED
  BY <1>1, <1>4, <1>5

(* The services, who wait for the rows of both calls, disturb neither.     *)
LEMMA KeepsServe ==
  ASSUME TwoInv, Serve
  PROVE  TwoInv'
<1> USE DEF TwoInv
<1>1. PA!IInv'
  BY ServiceA, AssumptionA, PA!ServiceInv
<1>2. UNCHANGED txnA
  BY ServiceA, AssumptionA, PA!ServiceFrame
<1>3. /\ UNCHANGED <<pcB, passB, tblB, todoB, txnB, rotatedB, skippedB, rerunB>>
      /\ dirtyB' \subseteq dirtyB \cup Row
      /\ \A r \in Row : txnB[r] # Absent => db'[r] = db[r]
  BY DEF Serve, Changed, HeldByB
<1>4. PB!PlaceInv' /\ PB!LockInv'
  BY <1>3, AssumptionB, PB!QuietInv DEF PB!IInv
<1>5. PB!TypeOK'
  BY <1>1, <1>3, SameTypes DEF PA!IInv, PA!TypeOK, PB!IInv, PB!TypeOK
<1>6. PB!FreshInv'
  BY <1>1, SameTypes
  DEF PA!IInv, PA!FreshInv, PB!FreshInv, PA!StateRows, PB!StateRows, PA!Event,
      PB!Event, PA!TableRows, PB!TableRows, PA!EVENTS, PB!EVENTS
<1>7. Exclusion'
  BY <1>2, <1>3 DEF Exclusion, HeldByA, HeldByB
<1> QED
  BY <1>1, <1>4, <1>5, <1>6, <1>7 DEF PB!IInv

(* Both calls keep the invariant of a rotator, and never hold a row in     *)
(* common.                                                                 *)
THEOREM TwoInvariant == Spec => []TwoInv
<1>1. Init => TwoInv
  <2> SUFFICES ASSUME Init PROVE TwoInv
    OBVIOUS
  <2>1. PA!Init /\ PB!Init
    BY DEF Init, A!Init, PA!Init, B!Init, PB!Init, A!Session, PA!Session,
           B!Session, PB!Session, A!TableRows, PA!TableRows, B!TableRows,
           PB!TableRows, A!SESSIONS, PA!SESSIONS, B!SESSIONS, PB!SESSIONS,
           A!Idle, PA!Idle, B!Idle, PB!Idle, A!NoRows, PA!NoRows, B!NoRows,
           PB!NoRows
  <2>2. PA!IInv /\ PB!IInv
    BY <2>1, AssumptionA, AssumptionB, PA!InitInv, PB!InitInv
  <2>3. Exclusion
    BY <2>1 DEF Exclusion, HeldByA, PA!Init, PA!NoRows
  <2> QED
    BY <2>2, <2>3 DEF TwoInv
<1>2. TwoInv /\ [Next]_twoVars => TwoInv'
  <2>1. TwoInv /\ UNCHANGED twoVars => TwoInv'
    BY AssumptionA, AssumptionB, PA!QuietInv, PB!QuietInv
    DEF twoVars, rotatorA, rotatorB, TwoInv, Exclusion, HeldByA, HeldByB,
        PA!IInv, PB!IInv, PA!TypeOK, PB!TypeOK, PA!FreshInv, PB!FreshInv,
        PA!StateRows, PB!StateRows
  <2> QED
    BY <2>1, KeepsA, KeepsB, KeepsServe DEF Next
<1> QED
  BY <1>1, <1>2, PTL DEF Spec

-----------------------------------------------------------------------------
(* No write of a service is lost to two calls.                             *)

(* The contents of the database are the same whoever looks.                *)
LEMMA SameContents ==
  /\ PA!StoreContent = PB!StoreContent
  /\ PA!OpenSessions = PB!OpenSessions
BY SameTypes
DEF PA!StoreContent, PB!StoreContent, PA!ContentOf, PB!ContentOf, PA!Content,
    PB!Content, PA!OpenSessions, PB!OpenSessions, PA!Idle, PB!Idle

(* A step of either call does not show in the contents of the database.    *)
LEMMA CallsStutter ==
  ASSUME TwoInv, BeginA \/ StepA \/ CrashA \/ BeginB \/ StepB \/ CrashB
  PROVE  PA!StoreContent' = PA!StoreContent /\ PA!OpenSessions' = PA!OpenSessions
<1>1. CASE BeginA \/ StepA \/ CrashA
  BY <1>1, RotatorA, AssumptionA, PA!RotatorStutters DEF TwoInv
<1>2. CASE BeginB \/ StepB \/ CrashB
  <2>1. PB!StoreContent' = PB!StoreContent /\ PB!OpenSessions' = PB!OpenSessions
    BY <1>2, RotatorB, AssumptionB, PB!RotatorStutters DEF TwoInv
  <2>2. PA!StoreContent' = PB!StoreContent' /\ PA!OpenSessions' = PB!OpenSessions'
    BY SameTypes
    DEF PA!StoreContent, PB!StoreContent, PA!ContentOf, PB!ContentOf,
        PA!Content, PB!Content, PA!OpenSessions, PB!OpenSessions, PA!Idle,
        PB!Idle
  <2> QED
    BY <2>1, <2>2, SameContents
<1> QED
  BY <1>1, <1>2

(* Two calls at once lose no write of a service and bring none back: their *)
(* users see only what their own operations commit.                        *)
THEOREM TwoPreserve == Spec => TwoPreserveContents
<1>1. Init => A!Store!Init
  <2> SUFFICES ASSUME Init PROVE A!Store!Init
    OBVIOUS
  <2>1. PA!Init
    BY DEF Init, A!Init, PA!Init, A!Session, PA!Session, A!TableRows,
           PA!TableRows, A!SESSIONS, PA!SESSIONS, A!Idle, PA!Idle, A!NoRows,
           PA!NoRows
  <2>2. PA!StoreContent \in [Row -> PA!Contents \cup {Absent}]
    BY <2>1, AssumptionA, PA!InitType, PA!StoreContentType
  <2>3. PA!OpenSessions = {}
    BY <2>1 DEF PA!Init, PA!OpenSessions
  <2> QED
    BY <2>2, <2>3
    DEF A!Store!Init, PA!StoreContent, PA!OpenSessions, A!ContentOf,
        PA!ContentOf, A!Content, PA!Content, A!Contents, PA!Contents, A!Session,
        PA!Session, A!TableRows, PA!TableRows, A!SESSIONS, PA!SESSIONS, A!Idle,
        PA!Idle
<1>2. ASSUME TwoInv, TwoInv', [Next]_twoVars
      PROVE  [A!Store!Next]_(A!Store!storeVars)
  <2>1. CASE Serve
    <3>1. PA!Store!Next
      BY <1>2, <2>1, ServiceA, AssumptionA, PA!ServiceImplements DEF TwoInv
    <3>2. A!Store!Next
      BY <3>1
      DEF A!Store!Next, PA!Store!Next, A!Store!Open, PA!Store!Open,
          A!Store!Commit, PA!Store!Commit, A!Store!Close, PA!Store!Close,
          A!Store!Delete, PA!Store!Delete, A!ContentOf, PA!ContentOf, A!Content,
          PA!Content, A!Contents, PA!Contents, A!Session, PA!Session, A!Event,
          PA!Event, A!TableRows, PA!TableRows, A!SESSIONS, PA!SESSIONS,
          A!EVENTS, PA!EVENTS, A!Idle, PA!Idle
    <3> QED
      BY <3>2
  <2>2. CASE BeginA \/ StepA \/ CrashA \/ BeginB \/ StepB \/ CrashB
    <3>1. PA!StoreContent' = PA!StoreContent /\ PA!OpenSessions' = PA!OpenSessions
      BY <1>2, <2>2, CallsStutter
    <3>2. UNCHANGED A!Store!storeVars
      BY <3>1
      DEF A!Store!storeVars, PA!StoreContent, PA!OpenSessions, A!ContentOf,
          PA!ContentOf, A!Content, PA!Content, A!Contents, PA!Contents,
          A!Session, PA!Session, A!TableRows, PA!TableRows, A!SESSIONS,
          PA!SESSIONS, A!Idle, PA!Idle
    <3> QED
      BY <3>2
  <2>3. CASE UNCHANGED twoVars
    BY <2>3 DEF twoVars, A!Store!storeVars, A!ContentOf
  <2> QED
    BY <1>2, <2>1, <2>2, <2>3 DEF Next
<1> QED
  BY <1>1, <1>2, TwoInvariant, PTL
  DEF Spec, TwoPreserveContents, A!ContentsPreserved, A!Store!Spec

-----------------------------------------------------------------------------
(* The results of both calls, when they rotate in one direction.           *)

AccountsInv == PA!AccountInv /\ PB!AccountInv

(* A row that call A takes off its old backend is none that the other call *)
(* counted, and comes to a backend the other does not start from.          *)
LEMMA AccountA ==
  ASSUME OneDirection, TwoInv, AccountsInv, BeginA \/ StepA \/ CrashA
  PROVE  AccountsInv'
<1> USE DEF TwoInv, AccountsInv
<1>1. PA!AccountInv'
  BY RotatorA, AssumptionA, PA!AccountRotator
<1>2. UNCHANGED rotatorB
  BY RotatorA
<1>3. passA.old # passB.new /\ passB.old # passA.new
  BY DEF OneDirection, PA!IInv, PB!IInv, PA!TypeOK, PB!TypeOK
<1>4. ASSUME NEW r \in Row \ dirtyB, PB!Seen(r), db'[r] # db[r]
      PROVE  r \notin rotatedB /\ txnB[r] = Absent /\ ~PB!Old(db'[r].text)
  <2>1. txnA[r] # Absent /\ db'[r] = txnA[r]
    BY <1>4, RotatorA, AssumptionA, PA!RotatorWrites
  <2>2. /\ db[r].text.ct.by = passA.old
        /\ txnA[r].text.ct.by = passA.new
    BY <2>1 DEF PA!IInv, PA!LockInv, PA!Old, PA!SealedNew, PA!Opens
  <2>3. txnB[r] = Absent
    BY <2>1 DEF Exclusion, HeldByA, HeldByB
  <2>4. r \notin rotatedB
    BY <1>3, <1>4, <2>2, <2>3
    DEF PB!AccountInv, PB!RowAccounted, PB!Settled, PB!SealedBy, PB!Opens
  <2>5. ~PB!Old(db'[r].text)
    BY <1>3, <2>1, <2>2 DEF PB!Old, PB!Opens
  <2> QED
    BY <2>3, <2>4, <2>5
<1>5. PB!AccountInv'
  BY <1>2, <1>4, AssumptionB, PB!AccountQuiet DEF rotatorB
<1> QED
  BY <1>1, <1>5

(* A row that call B takes off its old backend is none that the other call *)
(* counted, and comes to a backend the other does not start from.          *)
LEMMA AccountB ==
  ASSUME OneDirection, TwoInv, AccountsInv, BeginB \/ StepB \/ CrashB
  PROVE  AccountsInv'
<1> USE DEF TwoInv, AccountsInv
<1>1. PB!AccountInv'
  BY RotatorB, AssumptionB, PB!AccountRotator
<1>2. UNCHANGED rotatorA
  BY RotatorB
<1>3. passA.old # passB.new /\ passB.old # passA.new
  BY DEF OneDirection, PA!IInv, PB!IInv, PA!TypeOK, PB!TypeOK
<1>4. ASSUME NEW r \in Row \ dirtyA, PA!Seen(r), db'[r] # db[r]
      PROVE  r \notin rotatedA /\ txnA[r] = Absent /\ ~PA!Old(db'[r].text)
  <2>1. txnB[r] # Absent /\ db'[r] = txnB[r]
    BY <1>4, RotatorB, AssumptionB, PB!RotatorWrites
  <2>2. /\ db[r].text.ct.by = passB.old
        /\ txnB[r].text.ct.by = passB.new
    BY <2>1 DEF PB!IInv, PB!LockInv, PB!Old, PB!SealedNew, PB!Opens
  <2>3. txnA[r] = Absent
    BY <2>1 DEF Exclusion, HeldByA, HeldByB
  <2>4. r \notin rotatedA
    BY <1>3, <1>4, <2>2, <2>3
    DEF PA!AccountInv, PA!RowAccounted, PA!Settled, PA!SealedBy, PA!Opens
  <2>5. ~PA!Old(db'[r].text)
    BY <1>3, <2>1, <2>2 DEF PA!Old, PA!Opens
  <2> QED
    BY <2>3, <2>4, <2>5
<1>5. PA!AccountInv'
  BY <1>2, <1>4, AssumptionA, PA!AccountQuiet DEF rotatorA
<1> QED
  BY <1>1, <1>5

(* What the services write, both calls have noted.                         *)
LEMMA AccountServe ==
  ASSUME TwoInv, AccountsInv, Serve
  PROVE  AccountsInv'
<1> USE DEF TwoInv, AccountsInv
<1>1. PA!AccountInv'
  BY ServiceA, AssumptionA, PA!ServiceFrame, PA!AccountQuiet
<1>2. PB!AccountInv'
  BY AssumptionB, PB!AccountQuiet DEF Serve, Changed, B!Seen, PB!Seen
<1> QED
  BY <1>1, <1>2

(* Both calls account for every row they have passed.                      *)
THEOREM TwoAccounting == ASSUME OneDirection PROVE Spec => []AccountsInv
<1>1. Init => AccountsInv
  BY DEF Init, A!Init, B!Init, AccountsInv, PA!AccountInv, PB!AccountInv,
         PA!Seen, PB!Seen
<1>2. ASSUME TwoInv, AccountsInv, [Next]_twoVars PROVE AccountsInv'
  <2>1. CASE UNCHANGED twoVars
    BY <1>2, <2>1, AssumptionA, AssumptionB, PA!AccountQuiet, PB!AccountQuiet
    DEF twoVars, rotatorA, rotatorB, TwoInv, AccountsInv
  <2> QED
    BY <1>2, <2>1, AccountA, AccountB, AccountServe DEF Next
<1> QED
  BY <1>1, <1>2, TwoInvariant, PTL DEF Spec

(* Two calls in one direction, at once or one after the other, and services*)
(* at work: each result is true of every row no service wrote.             *)
THEOREM TwoResults == ASSUME OneDirection PROVE Spec => []BothAccount
<1>1. ASSUME TwoInv, AccountsInv PROVE BothAccount
  <2>1. PA!ResultAccounts /\ PB!ResultAccounts
    BY <1>1, AssumptionA, AssumptionB, PA!AccountResult, PB!AccountResult
    DEF TwoInv, AccountsInv
  <2>2. A!ResultAccounts
    BY <2>1
    DEF A!ResultAccounts, PA!ResultAccounts, A!Present, PA!Present, A!Old,
        PA!Old, A!Parses, PA!Parses, A!ENVELOPE_VERSION_1,
        PA!ENVELOPE_VERSION_1, A!Opens, PA!Opens, A!SealedBy, PA!SealedBy
  <2>3. B!ResultAccounts
    BY <2>1
    DEF B!ResultAccounts, PB!ResultAccounts, B!Present, PB!Present, B!Old,
        PB!Old, B!Parses, PB!Parses, B!ENVELOPE_VERSION_1,
        PB!ENVELOPE_VERSION_1, B!Opens, PB!Opens, B!SealedBy, PB!SealedBy
  <2> QED
    BY <2>2, <2>3 DEF BothAccount
<1> QED
  BY <1>1, TwoInvariant, TwoAccounting, PTL

(* A row the other call counted, and no service wrote since, is not one    *)
(* that call A still finds under its old backend.                          *)
LEMMA OnceA ==
  ASSUME OneDirection, TwoInv, AccountsInv, EachRowOnce, BeginA \/ StepA \/ CrashA
  PROVE  EachRowOnce'
<1> USE DEF TwoInv, AccountsInv
<1>1. UNCHANGED rotatorB
  BY RotatorA
<1>2. CASE \E r \in Row \ HeldByB : PA!UpdateRow(r)
  <2>1. PICK r \in Row \ HeldByB : PA!UpdateRow(r)
    BY <1>2
  <2>2. /\ rotatedA' = rotatedA \cup {r} /\ dirtyA' = dirtyA
        /\ PA!Old(db[r].text)
    BY <2>1, AssumptionA, PA!UpdateEffect DEF PA!IInv
  <2>3. r \notin rotatedB \ dirtyB
    <3> SUFFICES ASSUME r \in rotatedB \ dirtyB PROVE FALSE
      OBVIOUS
    <3>1. txnB[r] = Absent /\ PB!RowAccounted(r)
      BY <2>1 DEF HeldByB, PB!AccountInv
    <3>2. db[r].text.ct.by = passB.new
      BY <3>1 DEF PB!RowAccounted, PB!Settled, PB!SealedBy, PB!Opens
    <3>3. passA.old # passB.new
      BY DEF OneDirection, PA!IInv, PB!IInv, PA!TypeOK, PB!TypeOK
    <3> QED
      BY <2>2, <3>2, <3>3 DEF PA!Old, PA!Opens
  <2> QED
    BY <1>1, <2>2, <2>3 DEF EachRowOnce, rotatorB
<1>3. CASE ~\E r \in Row \ HeldByB : PA!UpdateRow(r)
  <2>1. rotatedA' = {} \/ UNCHANGED <<rotatedA, dirtyA>>
    BY <1>3, RotatorA, AssumptionA, PA!OtherEffect
  <2> QED
    BY <1>1, <2>1 DEF EachRowOnce, rotatorB
<1> QED
  BY <1>2, <1>3

(* A row the other call counted, and no service wrote since, is not one    *)
(* that call B still finds under its old backend.                          *)
LEMMA OnceB ==
  ASSUME OneDirection, TwoInv, AccountsInv, EachRowOnce, BeginB \/ StepB \/ CrashB
  PROVE  EachRowOnce'
<1> USE DEF TwoInv, AccountsInv
<1>1. UNCHANGED rotatorA
  BY RotatorB
<1>2. CASE \E r \in Row \ HeldByA : PB!UpdateRow(r)
  <2>1. PICK r \in Row \ HeldByA : PB!UpdateRow(r)
    BY <1>2
  <2>2. /\ rotatedB' = rotatedB \cup {r} /\ dirtyB' = dirtyB
        /\ PB!Old(db[r].text)
    BY <2>1, AssumptionB, PB!UpdateEffect DEF PB!IInv
  <2>3. r \notin rotatedA \ dirtyA
    <3> SUFFICES ASSUME r \in rotatedA \ dirtyA PROVE FALSE
      OBVIOUS
    <3>1. txnA[r] = Absent /\ PA!RowAccounted(r)
      BY <2>1 DEF HeldByA, PA!AccountInv
    <3>2. db[r].text.ct.by = passA.new
      BY <3>1 DEF PA!RowAccounted, PA!Settled, PA!SealedBy, PA!Opens
    <3>3. passB.old # passA.new
      BY DEF OneDirection, PA!IInv, PB!IInv, PA!TypeOK, PB!TypeOK
    <3> QED
      BY <2>2, <3>2, <3>3 DEF PB!Old, PB!Opens
  <2> QED
    BY <1>1, <2>2, <2>3 DEF EachRowOnce, rotatorA
<1>3. CASE ~\E r \in Row \ HeldByA : PB!UpdateRow(r)
  <2>1. rotatedB' = {} \/ UNCHANGED <<rotatedB, dirtyB>>
    BY <1>3, RotatorB, AssumptionB, PB!OtherEffect
  <2> QED
    BY <1>1, <2>1 DEF EachRowOnce, rotatorA
<1> QED
  BY <1>2, <1>3

(* Two calls in one direction never count the same row, unless a service   *)
(* wrote it in between.                                                    *)
THEOREM OnlyOnce == ASSUME OneDirection PROVE Spec => []EachRowOnce
<1>1. Init => EachRowOnce
  BY DEF Init, A!Init, EachRowOnce
<1>2. ASSUME TwoInv, AccountsInv, EachRowOnce, [Next]_twoVars PROVE EachRowOnce'
  <2>1. CASE Serve
    <3>1. rotatedA' = rotatedA /\ dirtyA \subseteq dirtyA'
      BY <2>1, ServiceA, AssumptionA, PA!ServiceFrame
    <3>2. rotatedB' = rotatedB /\ dirtyB \subseteq dirtyB'
      BY <2>1 DEF Serve
    <3> QED
      BY <1>2, <3>1, <3>2 DEF EachRowOnce
  <2>2. CASE UNCHANGED twoVars
    BY <1>2, <2>2 DEF twoVars, rotatorA, rotatorB, EachRowOnce
  <2> QED
    BY <1>2, <2>1, <2>2, OnceA, OnceB DEF Next
<1> QED
  BY <1>1, <1>2, TwoInvariant, TwoAccounting, PTL DEF Spec

-----------------------------------------------------------------------------
(* Two calls on Path A.                                                    *)

(* Both calls and the services read alike.                                 *)
LEMMA SameReadable ==
  \A c \in Configs : \A t : PA!Readable(c, t) <=> PB!Readable(c, t)
BY DEF PA!Readable, PB!Readable, PA!NullText, PB!NullText, PA!Parses, PB!Parses,
       PA!ENVELOPE_VERSION_1, PB!ENVELOPE_VERSION_1, PA!Dispatch, PB!Dispatch,
       PA!Backends, PB!Backends, PA!Opens, PB!Opens

(* Both calls are on Path A or neither is.                                 *)
LEMMA BothOnPathA ==
  ASSUME A!PathA
  PROVE  PA!PathA /\ PB!PathA
<1>1. PA!PathA
  BY DEF A!PathA, PA!PathA, A!Backends, PA!Backends, A!Readable, PA!Readable,
         A!NullText, PA!NullText, A!Parses, PA!Parses, A!ENVELOPE_VERSION_1,
         PA!ENVELOPE_VERSION_1, A!Dispatch, PA!Dispatch, A!Opens, PA!Opens
<1>2. PB!PathA
  BY <1>1, SameReadable DEF PA!PathA, PB!PathA, PA!Backends, PB!Backends
<1> QED
  BY <1>1, <1>2

(* Every service reads what is committed, and what each call holds; and     *)
(* neither call has failed.                                                *)
BothReadable ==
  /\ PA!ReadableInv /\ PB!ReadableInv
  /\ pcA # "failed" /\ pcB # "failed"

(* A step of call A leaves every row readable, those call B holds included. *)
LEMMA ReadableA ==
  ASSUME A!PathA, Configs # {}, TwoInv, BothReadable, BeginA \/ StepA \/ CrashA
  PROVE  BothReadable'
<1> USE DEF TwoInv, BothReadable
<1>1. PA!Next /\ UNCHANGED rotatorB
  BY RotatorA DEF PA!Next
<1>2. PA!ReadableInv' /\ (pcA # "failed")'
  BY <1>1, BothOnPathA, AssumptionA, PA!ReadableStep, PA!NeverFailsStep
<1>3. PB!ReadableInv'
  BY <1>1, <1>2, SameReadable DEF PA!ReadableInv, PB!ReadableInv, rotatorB
<1> QED
  BY <1>1, <1>2, <1>3 DEF rotatorB

(* A step of call B leaves every row readable, those call A holds included. *)
LEMMA ReadableB ==
  ASSUME A!PathA, Configs # {}, TwoInv, BothReadable, BeginB \/ StepB \/ CrashB
  PROVE  BothReadable'
<1> USE DEF TwoInv, BothReadable
<1>1. PB!Next /\ UNCHANGED rotatorA
  BY RotatorB DEF PB!Next
<1>2. PB!ReadableInv' /\ (pcB # "failed")'
  BY <1>1, BothOnPathA, AssumptionB, PB!ReadableStep, PB!NeverFailsStep
<1>3. PA!ReadableInv'
  BY <1>1, <1>2, SameReadable DEF PA!ReadableInv, PB!ReadableInv, rotatorA
<1> QED
  BY <1>1, <1>2, <1>3 DEF rotatorA

(* So does a step of the services.                                         *)
LEMMA ReadableServe ==
  ASSUME A!PathA, Configs # {}, TwoInv, BothReadable, Serve
  PROVE  BothReadable'
<1> USE DEF TwoInv, BothReadable
<1>1. PA!Next
  BY ServiceA DEF PA!Next
<1>2. UNCHANGED <<pcB, todoB, txnB>>
  BY DEF Serve
<1>3. PA!ReadableInv' /\ (pcA # "failed")'
  BY <1>1, BothOnPathA, AssumptionA, PA!ReadableStep, PA!NeverFailsStep
<1>4. PB!ReadableInv'
  BY <1>2, <1>3, SameReadable DEF PA!ReadableInv, PB!ReadableInv
<1> QED
  BY <1>2, <1>3, <1>4

(* On Path A two calls at once, whichever rows of each other's they come    *)
(* upon, leave every row readable to every service, and do not fail.       *)
THEOREM OverlapsHarmless ==
  ASSUME A!PathA, Configs # {} PROVE Spec => []OverlapHarmless
<1>1. Init => BothReadable
  <2> SUFFICES ASSUME Init PROVE BothReadable
    OBVIOUS
  <2>1. /\ db \in InitialDb /\ pcA = "idle" /\ pcB = "idle"
        /\ \A r \in Row : todoA[r] = Absent /\ txnA[r] = Absent
        /\ \A r \in Row : todoB[r] = Absent /\ txnB[r] = Absent
    BY DEF Init, A!Init, B!Init, A!NoRows, B!NoRows
  <2> QED
    BY <2>1, BothOnPathA
    DEF BothReadable, PA!ReadableInv, PB!ReadableInv, PA!PathA, PB!PathA
<1>2. ASSUME TwoInv, BothReadable, [Next]_twoVars PROVE BothReadable'
  <2>1. CASE UNCHANGED twoVars
    BY <1>2, <2>1
    DEF twoVars, rotatorA, rotatorB, BothReadable, PA!ReadableInv, PB!ReadableInv
  <2> QED
    BY <1>2, <2>1, ReadableA, ReadableB, ReadableServe DEF Next
<1>3. ASSUME TwoInv, BothReadable PROVE OverlapHarmless
  <2>1. PA!AlwaysReadable
    BY <1>3 DEF TwoInv, BothReadable, PA!IInv, PA!TypeOK, PA!ReadableInv,
                PA!AlwaysReadable, PA!Present
  <2>2. A!AlwaysReadable
    BY <2>1
    DEF A!AlwaysReadable, PA!AlwaysReadable, A!Present, PA!Present, A!Readable,
        PA!Readable, A!NullText, PA!NullText, A!Parses, PA!Parses,
        A!ENVELOPE_VERSION_1, PA!ENVELOPE_VERSION_1, A!Dispatch, PA!Dispatch,
        A!Backends, PA!Backends, A!Opens, PA!Opens
  <2> QED
    BY <1>3, <2>2 DEF BothReadable, OverlapHarmless, A!CrossNeverFails,
                      B!CrossNeverFails
<1> QED
  BY <1>1, <1>2, <1>3, TwoInvariant, PTL DEF Spec
=============================================================================
