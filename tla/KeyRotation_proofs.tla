------------------------- MODULE KeyRotation_proofs -------------------------
(***************************************************************************)
(* Theorems of KeyRotation, for every set of rows, backends, services and  *)
(* databases.                                                              *)
(***************************************************************************)
EXTENDS KeyRotation, TLAPS

-----------------------------------------------------------------------------
(* Texts and rows.                                                         *)

(* A service's row is a row, whichever table it is in.                     *)
LEMMA SealedRowType ==
  ASSUME NEW r \in Row, NEW b \in Backend, NEW v \in Value, NEW n \in Nonce,
         NEW t \in Time
  PROVE  SealedRow(r, b, v, n, t) \in Stored
BY DEF SealedRow, Seal, BuildEnvelope, Encrypt, Stored, Text, Envelopes,
       Ciphertext, Backend, ENVELOPE_VERSION_1

(* Re-encryption of a row of the old backend changes neither the kind of    *)
(* text nor what it contains.                                              *)
LEMMA ReencryptedContent ==
  ASSUME NEW t \in Text, Old(t), pass \in Passes, NEW n \in Nonce
  PROVE  /\ Reencrypted(t, n) \in Text
         /\ Content(Reencrypted(t, n)) = Content(t)
<1>1. t \in Envelopes
  BY DEF Text, Old, Parses, NullText, NotBase64, TooShort
<1>2. pass.new \in Backend
  BY RotationAssumption DEF Pass
<1>3. Encrypt(pass.new, t.ct.plain, n) \in Ciphertext
  BY <1>1, <1>2 DEF Encrypt, Ciphertext, Envelopes
<1>4. pass.new.id \in Id
  BY <1>2 DEF Backend
<1>5. Reencrypted(t, n) \in Envelopes
  BY <1>3, <1>4 DEF Reencrypted, BuildEnvelope, Envelopes, ENVELOPE_VERSION_1
<1>6. Content(Reencrypted(t, n)) = t.ct.plain
  BY DEF Reencrypted, BuildEnvelope, Encrypt, Content
<1>7. Content(t) = t.ct.plain
  BY <1>1 DEF Content, Envelopes
<1> QED
  BY <1>5, <1>6, <1>7 DEF Text

(* An operation past its load was started by a configured service.         *)
LEMMA OpenHandle ==
  ASSUME TypeOK, NEW s \in Session, handle[s].op # "idle"
  PROVE  /\ handle[s].by.primary \in Backend
         /\ handle[s].fresh \subseteq Row
         /\ handle[s] # Idle
<1>1. handle[s] \in Handle
  BY DEF TypeOK
<1>2. handle[s] # Idle
  BY DEF Idle
<1>3. handle[s].by \in Configs /\ handle[s].fresh \subseteq Row
  BY <1>1, <1>2 DEF Handle
<1>4. handle[s].by \in Config
  BY <1>3, RotationAssumption
<1> QED
  BY <1>2, <1>3, <1>4 DEF Config

-----------------------------------------------------------------------------
(* Type correctness.                                                       *)

(* The empty selection is a database.                                       *)
LEMMA NoRowsType == NoRows \in DbType
BY DEF NoRows, DbType

(* The initial states are well typed.                                       *)
LEMMA InitType == Init => TypeOK
<1> SUFFICES ASSUME Init PROVE TypeOK
  OBVIOUS
<1>1. db \in DbType
  BY RotationAssumption DEF Init
<1>2. handle \in [Session -> Handle]
  BY DEF Init, Handle
<1>3. tbl \in 1..4
  BY DEF Init
<1>4. rerun \in BOOLEAN
  BY DEF Init
<1>5. /\ running \subseteq Configs
      /\ pc \in {"idle", "select", "row", "done", "failed", "crashed"}
      /\ pass \in Passes
      /\ todo \in DbType /\ txn \in DbType
      /\ rotated \subseteq Row /\ skipped \subseteq Row /\ dirty \subseteq Row
  BY NoRowsType DEF Init
<1> QED
  BY <1>1, <1>2, <1>3, <1>4, <1>5 DEF TypeOK

(* The rotator keeps the types.                                             *)
LEMMA RotatorType ==
  ASSUME TypeOK, RotatorStep \/ Crash \/ \E p \in Passes : BeginPass(p)
  PROVE  TypeOK'
<1>1. ASSUME NEW p \in Passes, BeginPass(p) PROVE TypeOK'
  BY <1>1 DEF BeginPass, TypeOK
<1>2. ASSUME SelectTable PROVE TypeOK'
  BY <1>2 DEF SelectTable, TypeOK, DbType
<1>3. ASSUME CommitTable PROVE TypeOK'
  <2>1. db' \in DbType
    BY <1>3 DEF CommitTable, TypeOK, DbType
  <2>2. pc' \in {"select", "done"} /\ tbl' \in 1..4
    BY <1>3 DEF CommitTable, TypeOK, EVENTS
  <2> QED
    BY <1>3, <2>1, <2>2, NoRowsType DEF CommitTable, TypeOK
<1>4. ASSUME NEW r \in Row, PassOver(r) PROVE TypeOK'
  BY <1>4 DEF PassOver, Handled, TypeOK, DbType
<1>5. ASSUME NEW r \in Row, FailRow(r) PROVE TypeOK'
  BY <1>5, NoRowsType DEF FailRow, Abandon, TypeOK
<1>6. ASSUME NEW r \in Row, UpdateRow(r) PROVE TypeOK'
  <2>1. PICK n \in Nonce :
          txn' = [txn EXCEPT ![r] =
                    [text        |-> Reencrypted(todo[r].text, n),
                     update_time |-> db[r].update_time]]
    BY <1>6 DEF UpdateRow
  <2>2. db[r] \in Stored /\ todo[r] \in Stored /\ Old(todo[r].text)
    BY <1>6 DEF UpdateRow, UpdateHits, Pending, TypeOK, DbType
  <2>3. Reencrypted(todo[r].text, n) \in Text
    BY <2>2, ReencryptedContent DEF TypeOK, Stored
  <2>4. [text        |-> Reencrypted(todo[r].text, n),
           update_time |-> db[r].update_time] \in Stored
    BY <2>2, <2>3 DEF Stored
  <2>5. txn' \in DbType
    BY <2>1, <2>4 DEF TypeOK, DbType
  <2>6. todo' \in DbType
    BY <1>6 DEF UpdateRow, Handled, TypeOK, DbType
  <2> QED
    BY <1>6, <2>5, <2>6 DEF UpdateRow, TypeOK
<1>7. ASSUME NEW r \in Row, MissRow(r) PROVE TypeOK'
  BY <1>7 DEF MissRow, Handled, TypeOK, DbType
<1>8. ASSUME Crash PROVE TypeOK'
  BY <1>8, NoRowsType DEF Crash, Abandon, TypeOK
<1> QED
  BY <1>1, <1>2, <1>3, <1>4, <1>5, <1>6, <1>7, <1>8 DEF RotatorStep, RotateRow

(* What the services do to the rows: those of their own scope are rewritten *)
(* under their primary backend, the others stay.                           *)
LEMMA ServiceType ==
  ASSUME TypeOK,
         \/ ServiceLoad
         \/ ServiceCommit
         \/ \E s \in Session : AbortOperation(s)
         \/ \E c \in Configs : StartService(c) \/ StopService(c)
  PROVE  TypeOK'
<1>1. ASSUME NEW c \in Configs, StartService(c) PROVE TypeOK'
  BY <1>1 DEF StartService, rotatorVars, historyVars, TypeOK
<1>2. ASSUME NEW c \in Configs, StopService(c) PROVE TypeOK'
  <2>1. handle' \in [Session -> Handle]
    BY <1>2 DEF StopService, TypeOK, Handle
  <2> QED
    BY <1>2, <2>1 DEF StopService, rotatorVars, historyVars, TypeOK
<1>3. ASSUME NEW s \in Session, NEW c \in Configs, LoadAppend(s, c) PROVE TypeOK'
  <2>1. [op |-> "append", by |-> c, fresh |-> {}] \in Handle
    BY DEF Handle
  <2> QED
    BY <1>3, <2>1 DEF LoadAppend, rotatorVars, historyVars, TypeOK
<1>4. ASSUME NEW s \in Session, NEW c \in Configs, LoadCreate(s, c) PROVE TypeOK'
  <2>1. StateRows(s) \subseteq Row
    BY RotationAssumption DEF StateRows
  <2>2. [op |-> "create", by |-> c, fresh |-> {r \in StateRows(s) : ~Present(r)}]
          \in Handle
    BY <2>1 DEF Handle
  <2> QED
    BY <1>4, <2>2 DEF LoadCreate, rotatorVars, historyVars, TypeOK
<1>5. ASSUME NEW s \in Session, CommitAppend(s) PROVE TypeOK'
  <2>1. PICK written \in SUBSET StateRows(s), e \in EventsOf(s),
             v \in Value, n \in Nonce, t \in Time :
          WriteAppend(s, written, e, v, n, t)
    BY <1>5 DEF CommitAppend
  <2>2. handle[s].by.primary \in Backend
    BY <1>5, OpenHandle DEF CommitAppend
  <2>3. [text |-> db[s].text, update_time |-> t] \in Stored
    <3>1. s \in Row /\ db[s] # Absent
      BY <1>5 DEF CommitAppend, Present, Session, TableRows
    <3>2. db[s] \in Stored
      BY <3>1 DEF TypeOK, DbType
    <3> QED
      BY <3>2 DEF Stored
  <2>4. db' \in DbType
    BY <2>1, <2>2, <2>3, SealedRowType DEF WriteAppend, TypeOK, DbType
  <2>5. dirty' \subseteq Row
    <3>1. written \cup {s, e} \subseteq Row
      BY RotationAssumption
      DEF StateRows, EventsOf, Session, TableRows
    <3> QED
      BY <2>1, <3>1 DEF WriteAppend, Touch, TypeOK
  <2>6. handle' \in [Session -> Handle]
    BY <1>5 DEF CommitAppend, TypeOK, Handle
  <2> QED
    BY <1>5, <2>4, <2>5, <2>6 DEF CommitAppend, rotatorVars, TypeOK
<1>6. ASSUME NEW s \in Session, CommitCreate(s) PROVE TypeOK'
  <2>1. PICK rewritten \in SUBSET StateRows(s), v \in Value, n \in Nonce,
             t \in Time :
          WriteCreate(s, rewritten \cup handle[s].fresh, v, n, t)
    BY <1>6 DEF CommitCreate
  <2>2. handle[s].by.primary \in Backend /\ handle[s].fresh \subseteq Row
    BY <1>6, OpenHandle DEF CommitCreate
  <2>3. db' \in DbType
    BY <2>1, <2>2, SealedRowType DEF WriteCreate, TypeOK, DbType
  <2>4. dirty' \subseteq Row
    <3>1. rewritten \cup handle[s].fresh \subseteq Row
      BY <2>2, RotationAssumption DEF StateRows
    <3> QED
      BY <2>1, <3>1 DEF WriteCreate, Touch, TypeOK
  <2>5. handle' \in [Session -> Handle]
    BY <1>6 DEF CommitCreate, TypeOK, Handle
  <2> QED
    BY <1>6, <2>3, <2>4, <2>5 DEF CommitCreate, rotatorVars, TypeOK
<1>7. ASSUME NEW s \in Session, DeleteSession(s) PROVE TypeOK'
  <2>1. db' \in DbType
    BY <1>7 DEF DeleteSession, TypeOK, DbType
  <2>2. {s} \cup EventsOf(s) \subseteq Row
    BY RotationAssumption DEF EventsOf, Session, TableRows
  <2>3. dirty' \subseteq Row
    BY <1>7, <2>2 DEF DeleteSession, Touch, TypeOK
  <2> QED
    BY <1>7, <2>1, <2>3 DEF DeleteSession, rotatorVars, TypeOK
<1>8. ASSUME NEW s \in Session, AbortOperation(s) PROVE TypeOK'
  <2>1. handle' \in [Session -> Handle]
    BY <1>8 DEF AbortOperation, TypeOK, Handle
  <2> QED
    BY <1>8, <2>1 DEF AbortOperation, rotatorVars, historyVars, TypeOK
<1> QED
  BY <1>1, <1>2, <1>3, <1>4, <1>5, <1>6, <1>7, <1>8
  DEF ServiceLoad, ServiceCommit

(* Every step of the rotator and the services keeps the types of the model: *)
(* in particular whatever the rotator stores is a well-formed row.         *)
THEOREM TypeCorrect == Spec => []TypeOK
<1>1. TypeOK /\ [Next]_vars => TypeOK'
  <2>1. TypeOK /\ Next => TypeOK'
    BY RotatorType, ServiceType DEF Next
  <2>2. TypeOK /\ UNCHANGED vars => TypeOK'
    BY DEF vars, TypeOK
  <2> QED
    BY <2>1, <2>2
<1> QED
  BY InitType, <1>1, PTL DEF Spec

-----------------------------------------------------------------------------
(* The rotator is invisible in the contents of the store.                  *)

InLoop(r) == pc = "row" /\ TableOf[r] = tbl

SealedNew(x) ==
  /\ x.text.kind = "envelope"
  /\ x.text.id = pass.new.id
  /\ Opens(pass.new, x.text.ct)

(* The rotator holds rows of the table it is at, in its loop, and no other. *)
PlaceInv == \A r \in Row : todo[r] # Absent \/ txn[r] # Absent => InLoop(r)

(* What it holds in its transaction is the committed row, one of the old    *)
(* backend, sealed by the new one: the guard of the UPDATE established it,  *)
(* the lock keeps it.                                                      *)
LockInv ==
  \A r \in Row : txn[r] # Absent =>
    /\ db[r] # Absent
    /\ Old(db[r].text)
    /\ SealedNew(txn[r])
    /\ Content(txn[r].text) = Content(db[r].text)

(* A create inserts state rows of its session only.                        *)
FreshInv ==
  \A s \in Session : handle[s].op = "create" => handle[s].fresh \subseteq StateRows(s)

IInv == TypeOK /\ PlaceInv /\ LockInv /\ FreshInv

(* An UPDATE adds the row it hits to the transaction.                       *)
LEMMA UpdateEffect ==
  ASSUME TypeOK, NEW r \in Row, UpdateRow(r)
  PROVE  /\ UNCHANGED <<db, handle, pc, pass, tbl, skipped, dirty>>
         /\ rotated' = rotated \cup {r}
         /\ pc = "row" /\ todo[r] # Absent /\ todo[r] \in Stored
         /\ \A q \in Row : todo'[q] = IF q = r THEN Absent ELSE todo[q]
         /\ db[r] # Absent /\ db[r].text = todo[r].text /\ Old(db[r].text)
         /\ txn'[r] # Absent /\ SealedNew(txn'[r])
         /\ Content(txn'[r].text) = Content(db[r].text)
         /\ \A q \in Row : q # r => txn'[q] = txn[q]
<1>1. PICK n \in Nonce :
        txn' = [txn EXCEPT ![r] =
                  [text        |-> Reencrypted(todo[r].text, n),
                   update_time |-> db[r].update_time]]
  BY DEF UpdateRow
<1>2. /\ UNCHANGED <<db, handle, pc, pass, tbl, skipped, dirty>>
      /\ rotated' = rotated \cup {r}
      /\ pc = "row" /\ todo[r] # Absent
      /\ todo[r] \in Stored /\ db[r] \in Stored
      /\ \A q \in Row : todo'[q] = IF q = r THEN Absent ELSE todo[q]
      /\ db[r] # Absent /\ db[r].text = todo[r].text /\ Old(todo[r].text)
  BY DEF UpdateRow, UpdateHits, Pending, Handled, TypeOK, DbType
<1>3. /\ Reencrypted(todo[r].text, n) \in Text
      /\ Content(Reencrypted(todo[r].text, n)) = Content(todo[r].text)
  BY <1>2, ReencryptedContent DEF TypeOK, Stored
<1>4. /\ txn'[r] = [text        |-> Reencrypted(todo[r].text, n),
                    update_time |-> db[r].update_time]
      /\ \A q \in Row : q # r => txn'[q] = txn[q]
  BY <1>1 DEF TypeOK, DbType
<1>5. txn'[r] \in Stored
  BY <1>2, <1>3, <1>4 DEF Stored
<1>6. SealedNew(txn'[r])
  BY <1>4 DEF SealedNew, Reencrypted, BuildEnvelope, Encrypt, Opens
<1> QED
  BY <1>2, <1>3, <1>4, <1>5, <1>6, RotationAssumption

(* Every other step of the rotator leaves its transaction and its counts    *)
(* alone, or drops them.                                                   *)
LEMMA OtherEffect ==
  ASSUME \/ \E p \in Passes : BeginPass(p)
         \/ SelectTable \/ CommitTable \/ Crash
         \/ \E r \in Row : PassOver(r) \/ FailRow(r) \/ MissRow(r)
  PROVE  /\ txn' = txn \/ txn' = NoRows
         /\ rotated' = {} \/ UNCHANGED <<rotated, dirty>>
BY DEF BeginPass, SelectTable, CommitTable, Crash, PassOver, FailRow, MissRow, Abandon

(* The rotator changes committed rows by committing its transaction only.  *)
LEMMA RotatorWrites ==
  ASSUME RotatorStep \/ Crash \/ \E p \in Passes : BeginPass(p)
  PROVE  /\ UNCHANGED <<running, handle>>
         /\ \A r \in Row : db'[r] = db[r] \/ (txn[r] # Absent /\ db'[r] = txn[r])
BY DEF RotatorStep, RotateRow, BeginPass, SelectTable, CommitTable, Crash, PassOver,
       FailRow, UpdateRow, MissRow

(* The rotator keeps the strengthened invariant.                            *)
LEMMA RotatorInv ==
  ASSUME IInv, RotatorStep \/ Crash \/ \E p \in Passes : BeginPass(p)
  PROVE  IInv'
<1> USE DEF IInv
<1>1. TypeOK'
  BY RotatorType
<1>2. FreshInv'
  BY DEF RotatorStep, RotateRow, Crash, BeginPass, SelectTable, CommitTable,
         PassOver, FailRow, UpdateRow, MissRow, FreshInv, StateRows
<1>3. ASSUME NEW p \in Passes, BeginPass(p) PROVE PlaceInv' /\ LockInv'
  BY <1>3 DEF BeginPass, Active, PlaceInv, InLoop, LockInv
<1>4. ASSUME SelectTable PROVE PlaceInv' /\ LockInv'
  BY <1>4 DEF SelectTable, PlaceInv, InLoop, LockInv
<1>5. ASSUME CommitTable PROVE PlaceInv' /\ LockInv'
  BY <1>5 DEF CommitTable, PlaceInv, LockInv, NoRows
<1>6. ASSUME NEW r \in Row, PassOver(r) \/ MissRow(r) PROVE PlaceInv' /\ LockInv'
  <2>1. UNCHANGED <<db, pc, pass, tbl, txn>>
    BY <1>6 DEF PassOver, MissRow
  <2>2. \A q \in Row : todo'[q] \in {todo[q], Absent}
    BY <1>6 DEF PassOver, MissRow, Handled, TypeOK, DbType
  <2> QED
    BY <2>1, <2>2 DEF PlaceInv, InLoop, LockInv, Old, SealedNew
<1>7. ASSUME Crash \/ \E r \in Row : FailRow(r) PROVE PlaceInv' /\ LockInv'
  BY <1>7 DEF Crash, FailRow, Abandon, PlaceInv, LockInv, NoRows
<1>8. ASSUME NEW r \in Row, UpdateRow(r) PROVE PlaceInv' /\ LockInv'
  <2>1. PlaceInv'
    BY <1>8, UpdateEffect DEF PlaceInv, InLoop
  <2>2. LockInv'
    BY <1>8, UpdateEffect DEF LockInv, Old, SealedNew
  <2> QED
    BY <2>1, <2>2
<1> QED
  BY <1>1, <1>2, <1>3, <1>4, <1>5, <1>6, <1>7, <1>8 DEF RotatorStep, RotateRow

(* A service step changes no row the rotator holds, and no row the pass has *)
(* seen without recording it as dirty.                                     *)
LEMMA ServiceFrame ==
  ASSUME \/ ServiceLoad
         \/ ServiceCommit
         \/ \E s \in Session : AbortOperation(s)
         \/ \E c \in Configs : StartService(c) \/ StopService(c)
  PROVE  /\ UNCHANGED <<pc, pass, tbl, todo, txn, rotated, skipped>>
         /\ dirty \subseteq dirty'
         /\ \A r \in Row \ dirty' : Seen(r) => db'[r] = db[r]
         /\ \A r \in Row : txn[r] # Absent /\ Present(r) => db'[r] = db[r]
<1>1. UNCHANGED <<pc, pass, tbl, todo, txn, rotated, skipped>>
  BY DEF ServiceLoad, ServiceCommit, AbortOperation, StartService, StopService,
         LoadAppend, LoadCreate, CommitAppend, CommitCreate, DeleteSession, rotatorVars
<1>2. CASE ~ServiceCommit
  <2>1. db' = db /\ dirty' = dirty
    BY <1>2 DEF ServiceLoad, AbortOperation, StartService, StopService,
                LoadAppend, LoadCreate, historyVars
  <2> QED
    BY <1>1, <2>1
<1>3. ASSUME NEW rows, Touch(rows), Unlocked({r \in rows : Present(r)}),
             \A r \in Row \ rows : db'[r] = db[r]
      PROVE  /\ dirty \subseteq dirty'
             /\ \A r \in Row \ dirty' : Seen(r) => db'[r] = db[r]
             /\ \A r \in Row : txn[r] # Absent /\ Present(r) => db'[r] = db[r]
  BY <1>3 DEF Touch, Unlocked
<1>4. ASSUME NEW s \in Session, CommitAppend(s)
      PROVE  /\ dirty \subseteq dirty'
             /\ \A r \in Row \ dirty' : Seen(r) => db'[r] = db[r]
             /\ \A r \in Row : txn[r] # Absent /\ Present(r) => db'[r] = db[r]
  <2>1. PICK written \in SUBSET StateRows(s), e \in EventsOf(s),
             v \in Value, n \in Nonce, t \in Time :
          WriteAppend(s, written, e, v, n, t)
    BY <1>4 DEF CommitAppend
  <2>2. \A r \in Row \ (written \cup {s, e}) : db'[r] = db[r]
    BY <2>1 DEF WriteAppend
  <2>3. /\ Touch(written \cup {s, e})
        /\ Unlocked({r \in written \cup {s, e} : Present(r)})
    BY <2>1 DEF WriteAppend, Unlocked
  <2> QED
    BY <1>3, <2>2, <2>3
<1>5. ASSUME NEW s \in Session, CommitCreate(s)
      PROVE  /\ dirty \subseteq dirty'
             /\ \A r \in Row \ dirty' : Seen(r) => db'[r] = db[r]
             /\ \A r \in Row : txn[r] # Absent /\ Present(r) => db'[r] = db[r]
  <2>1. PICK rewritten \in SUBSET StateRows(s), v \in Value, n \in Nonce,
             t \in Time :
          WriteCreate(s, rewritten \cup handle[s].fresh, v, n, t)
    BY <1>5 DEF CommitCreate
  <2>2. \A r \in Row \ (rewritten \cup handle[s].fresh) : db'[r] = db[r]
    BY <2>1 DEF WriteCreate
  <2>3. /\ Touch(rewritten \cup handle[s].fresh)
        /\ Unlocked({r \in rewritten \cup handle[s].fresh : Present(r)})
    BY <2>1 DEF WriteCreate, Unlocked
  <2> QED
    BY <1>3, <2>2, <2>3
<1>6. ASSUME NEW s \in Session, DeleteSession(s)
      PROVE  /\ dirty \subseteq dirty'
             /\ \A r \in Row \ dirty' : Seen(r) => db'[r] = db[r]
             /\ \A r \in Row : txn[r] # Absent /\ Present(r) => db'[r] = db[r]
  BY <1>6 DEF DeleteSession, Touch, Unlocked, Present
<1> QED
  BY <1>1, <1>2, <1>4, <1>5, <1>6 DEF ServiceCommit

(* A rotator whose rows nobody touches keeps its part of the invariant.     *)
LEMMA QuietInv ==
  ASSUME PlaceInv, LockInv,
         UNCHANGED <<pc, pass, tbl, todo, txn>>,
         \A r \in Row : txn[r] # Absent => db'[r] = db[r]
  PROVE  PlaceInv' /\ LockInv'
BY DEF PlaceInv, InLoop, LockInv, Old, SealedNew

(* The services keep the strengthened invariant.                            *)
LEMMA ServiceInv ==
  ASSUME IInv,
         \/ ServiceLoad
         \/ ServiceCommit
         \/ \E s \in Session : AbortOperation(s)
         \/ \E c \in Configs : StartService(c) \/ StopService(c)
  PROVE  IInv'
<1> USE DEF IInv
<1>1. TypeOK'
  BY ServiceType
<1>2. PlaceInv' /\ LockInv'
  BY ServiceFrame, QuietInv DEF LockInv, Present
<1>3. ASSUME NEW c \in Configs, StartService(c) \/ StopService(c) PROVE FreshInv'
  BY <1>3 DEF StartService, StopService, FreshInv, StateRows, Idle
<1>4. ASSUME NEW s \in Session, NEW c \in Configs, LoadAppend(s, c) PROVE FreshInv'
  BY <1>4 DEF LoadAppend, FreshInv, StateRows, TypeOK
<1>5. ASSUME NEW s \in Session, NEW c \in Configs, LoadCreate(s, c) PROVE FreshInv'
  BY <1>5 DEF LoadCreate, FreshInv, StateRows, TypeOK
<1>6. ASSUME NEW s \in Session,
             CommitAppend(s) \/ CommitCreate(s) \/ AbortOperation(s)
      PROVE  FreshInv'
  BY <1>6 DEF CommitAppend, CommitCreate, AbortOperation, FreshInv, StateRows,
              TypeOK, Idle
<1>7. ASSUME NEW s \in Session, DeleteSession(s) PROVE FreshInv'
  BY <1>7 DEF DeleteSession, FreshInv, StateRows
<1> QED
  BY <1>1, <1>2, <1>3, <1>4, <1>5, <1>6, <1>7 DEF ServiceLoad, ServiceCommit

(* It holds initially: no pass runs, no operation is open.                  *)
LEMMA InitInv == Init => IInv
BY InitType DEF Init, IInv, PlaceInv, LockInv, FreshInv, NoRows, Idle

(* The strengthened invariant, on which every theorem below rests.          *)
THEOREM Invariant == Spec => []IInv
<1>1. IInv /\ [Next]_vars => IInv'
  <2>1. IInv /\ Next => IInv'
    BY RotatorInv, ServiceInv DEF Next
  <2>2. IInv /\ UNCHANGED vars => IInv'
    BY QuietInv DEF vars, IInv, TypeOK, FreshInv, StateRows
  <2> QED
    BY <2>1, <2>2
<1> QED
  BY InitInv, <1>1, PTL DEF Spec

(* Every text has a content, and none is the mark of a missing row.         *)
LEMMA ContentType ==
  ASSUME NEW t \in Text
  PROVE  Content(t) \in Contents /\ Content(t) # Absent
<1>1. CASE t \in Envelopes
  BY <1>1, RotationAssumption DEF Envelopes, Ciphertext, Content, Contents
<1>2. CASE t \in {NullText, NotBase64, TooShort}
  BY <1>2, RotationAssumption DEF NullText, NotBase64, TooShort, Content, Contents
<1> QED
  BY <1>1, <1>2 DEF Text

StoreContent == [r \in Row |-> ContentOf(r)]
OpenSessions == {s \in Session : handle[s] # Idle}

(* Seen through its contents, the database is a state of the abstract       *)
(* store.                                                                   *)
LEMMA StoreContentType ==
  ASSUME TypeOK
  PROVE  /\ StoreContent \in [Row -> Contents \cup {Absent}]
         /\ \A r \in Row : StoreContent[r] # Absent <=> db[r] # Absent
<1> SUFFICES ASSUME NEW r \in Row
             PROVE  /\ ContentOf(r) \in Contents \cup {Absent}
                    /\ ContentOf(r) # Absent <=> db[r] # Absent
  BY DEF StoreContent
<1>1. CASE db[r] = Absent
  BY <1>1 DEF ContentOf
<1>2. CASE db[r] # Absent
  <2>1. db[r].text \in Text
    BY <1>2 DEF TypeOK, DbType, Stored
  <2> QED
    BY <1>2, <2>1, ContentType DEF ContentOf
<1> QED
  BY <1>1, <1>2

(* A rotator step does not show.                                           *)
LEMMA RotatorStutters ==
  ASSUME IInv, RotatorStep \/ Crash \/ \E p \in Passes : BeginPass(p)
  PROVE  StoreContent' = StoreContent /\ OpenSessions' = OpenSessions
<1>1. OpenSessions' = OpenSessions
  BY DEF RotatorStep, RotateRow, Crash, BeginPass, SelectTable, CommitTable,
         PassOver, FailRow, UpdateRow, MissRow, OpenSessions
<1>2. CASE CommitTable
  <2>1. ASSUME NEW r \in Row PROVE ContentOf(r)' = ContentOf(r)
    <3>1. CASE txn[r] = Absent
      BY <1>2, <3>1 DEF CommitTable, ContentOf
    <3>2. CASE txn[r] # Absent
      BY <1>2, <3>2 DEF CommitTable, ContentOf, IInv, LockInv
    <3> QED
      BY <3>1, <3>2
  <2> QED
    BY <1>1, <2>1 DEF StoreContent
<1>3. CASE ~CommitTable
  <2>1. db' = db
    BY <1>3 DEF RotatorStep, RotateRow, Crash, BeginPass, SelectTable,
                PassOver, FailRow, UpdateRow, MissRow
  <2> QED
    BY <1>1, <2>1 DEF StoreContent, ContentOf
<1> QED
  BY <1>2, <1>3

(* A service step that writes no row only opens or closes operations.      *)
LEMMA OpenImplements ==
  ASSUME TypeOK, NEW s \in Session, NEW c \in Configs,
         LoadAppend(s, c) \/ LoadCreate(s, c)
  PROVE  Store!Open(s)
<1>1. handle'[s] # Idle /\ \A q \in Session \ {s} : handle'[q] = handle[q]
  BY DEF LoadAppend, LoadCreate, TypeOK, Idle
<1>2. db' = db
  BY DEF LoadAppend, LoadCreate
<1>3. OpenSessions' = OpenSessions \cup {s}
  BY <1>1 DEF OpenSessions
<1>4. StoreContent' = StoreContent
  BY <1>2 DEF StoreContent, ContentOf
<1> QED
  BY <1>3, <1>4 DEF Store!Open, StoreContent, OpenSessions

(* Operations that end without effect are Close steps of the abstract       *)
(* store.                                                                   *)
LEMMA CloseImplements ==
  ASSUME TypeOK,
         \/ \E s \in Session : AbortOperation(s)
         \/ \E c \in Configs : StartService(c) \/ StopService(c)
  PROVE  Store!Close
<1>1. db' = db
  BY DEF AbortOperation, StartService, StopService
<1>2. \A q \in Session : handle'[q] = handle[q] \/ handle'[q] = Idle
  BY DEF AbortOperation, StartService, StopService, TypeOK
<1>3. OpenSessions' \subseteq OpenSessions
  BY <1>2 DEF OpenSessions
<1>4. StoreContent' = StoreContent
  BY <1>1 DEF StoreContent, ContentOf
<1> QED
  BY <1>3, <1>4 DEF Store!Close, StoreContent, OpenSessions

(* Deleting a session is a Delete step of the abstract store.               *)
LEMMA DeleteImplements ==
  ASSUME TypeOK, NEW s \in Session, DeleteSession(s)
  PROVE  Store!Delete(s)
<1>1. OpenSessions' = OpenSessions
  BY DEF DeleteSession, OpenSessions
<1>2. ASSUME NEW r \in Row
      PROVE  StoreContent'[r] = IF r = s \/ r \in Scope[s] \cap Event
                                THEN Absent ELSE StoreContent[r]
  BY DEF DeleteSession, EventsOf, StoreContent, ContentOf
<1>3. StoreContent' = [r \in Row |-> IF r = s \/ r \in Scope[s] \cap Event
                                     THEN Absent ELSE StoreContent[r]]
  BY <1>2 DEF StoreContent
<1> QED
  BY <1>1, <1>3 DEF Store!Delete, StoreContent, OpenSessions

(* A commit of an append or a create is a commit of the abstract store: it  *)
(* stays in its scope, removes nothing and leaves the events there are.     *)
LEMMA CommitImplements ==
  ASSUME IInv, IInv', NEW s \in Session,
         handle[s] # Idle,
         handle' = [handle EXCEPT ![s] = Idle],
         NEW written \in SUBSET Row,
         \A r \in Row \ written : StoreContent'[r] = StoreContent[r],
         \A r \in written : r \in Scope[s] /\ db'[r] # Absent,
         \A r \in written \cap Event : db[r] = Absent
  PROVE  Store!Commit(s)
<1> USE DEF IInv
<1>1. s \in OpenSessions
  BY DEF OpenSessions
<1>2. OpenSessions' = OpenSessions \ {s}
  BY DEF OpenSessions, TypeOK
<1>3. StoreContent' \in [Row -> Contents \cup {Absent}]
  BY StoreContentType DEF StoreContent, ContentOf, TypeOK, DbType, Stored,
     Text, Content, Contents, Envelopes, Ciphertext, NullText, NotBase64, TooShort
<1>4. \A r \in Row \ Scope[s] : StoreContent'[r] = StoreContent[r]
  OBVIOUS
<1>5. ASSUME NEW r \in Scope[s], StoreContent[r] # Absent
      PROVE  /\ StoreContent'[r] # Absent
             /\ r \in Event => StoreContent'[r] = StoreContent[r]
  <2>1. r \in Row
    BY RotationAssumption
  <2>2. CASE r \notin written
    BY <1>5, <2>1, <2>2
  <2>3. CASE r \in written
    <3>1. r \notin Event
      BY <1>5, <2>1, <2>3, StoreContentType
    <3>2. db'[r] \in Stored
      BY <2>1, <2>3 DEF TypeOK, DbType
    <3>3. db'[r].text \in Text
      BY <3>2 DEF Stored
    <3>4. Content(db'[r].text) # Absent
      BY <3>3, ContentType
    <3>5. StoreContent'[r] # Absent
      BY <2>1, <2>3, <3>4 DEF StoreContent, ContentOf
    <3> QED
      BY <3>1, <3>5
  <2> QED
    BY <2>2, <2>3
<1> QED
  BY <1>1, <1>2, <1>3, <1>4, <1>5 DEF Store!Commit, StoreContent, OpenSessions

(* Committing an append is a Commit step of the abstract store.             *)
LEMMA AppendImplements ==
  ASSUME IInv, IInv', NEW s \in Session, CommitAppend(s)
  PROVE  Store!Commit(s)
<1>1. PICK written \in SUBSET StateRows(s), e \in EventsOf(s),
           v \in Value, n \in Nonce, t \in Time :
        WriteAppend(s, written, e, v, n, t)
  BY DEF CommitAppend
<1>2. s \in Row /\ s \notin Event /\ Scope[s] \subseteq Row
  BY RotationAssumption DEF Session, Event, TableRows, SESSIONS, EVENTS
<1>3. handle[s] # Idle /\ handle' = [handle EXCEPT ![s] = Idle]
  BY DEF CommitAppend, Idle
<1> DEFINE rows == written \cup {e}
<1>4. rows \in SUBSET Row
  BY <1>2 DEF StateRows, EventsOf
<1>5. \A r \in Row \ rows : StoreContent'[r] = StoreContent[r]
  <2> SUFFICES ASSUME NEW r \in Row \ rows PROVE ContentOf(r)' = ContentOf(r)
    BY DEF StoreContent
  <2>1. CASE r = s
    <3>1. db[s] # Absent
      BY DEF CommitAppend, Present
    <3>2. db'[s] = [text |-> db[s].text, update_time |-> t]
      BY <1>1, <2>1 DEF WriteAppend
    <3>3. db'[s] # Absent
      <4>1. db'[s] \in Stored \cup {Absent} /\ db[s] \in Stored
        BY <1>2, <3>1 DEF IInv, TypeOK, DbType
      <4>2. db'[s] \in Stored
        BY <3>2, <4>1 DEF Stored
      <4> QED
        BY <4>2, RotationAssumption
    <3> QED
      BY <2>1, <3>1, <3>2, <3>3 DEF ContentOf
  <2>2. CASE r # s
    BY <1>1, <2>2 DEF WriteAppend, ContentOf
  <2> QED
    BY <2>1, <2>2
<1>6. \A r \in rows : r \in Scope[s] /\ db'[r] # Absent
  <2>1. handle[s].by.primary \in Backend
    BY OpenHandle DEF CommitAppend, IInv
  <2>2. \A r \in rows : db'[r] \in Stored
    BY <1>1, <1>4, <2>1, SealedRowType DEF WriteAppend
  <2> QED
    BY <2>2, RotationAssumption DEF StateRows, EventsOf
<1>7. \A r \in rows \cap Event : db[r] = Absent
  BY <1>1 DEF WriteAppend, Present, StateRows
<1> QED
  BY <1>3, <1>4, <1>5, <1>6, <1>7, CommitImplements

(* Committing a create is a Commit step of the abstract store.              *)
LEMMA CreateImplements ==
  ASSUME IInv, IInv', NEW s \in Session, CommitCreate(s)
  PROVE  Store!Commit(s)
<1>1. PICK rewritten \in SUBSET StateRows(s), v \in Value, n \in Nonce,
           t \in Time :
        WriteCreate(s, rewritten \cup handle[s].fresh, v, n, t)
  BY DEF CommitCreate
<1>2. Scope[s] \subseteq Row
  BY RotationAssumption
<1>3. handle[s] # Idle /\ handle' = [handle EXCEPT ![s] = Idle]
  BY DEF CommitCreate, Idle
<1> DEFINE rows == rewritten \cup handle[s].fresh
<1>4. rows \subseteq StateRows(s)
  BY DEF CommitCreate, IInv, FreshInv
<1>5. rows \in SUBSET Row
  BY <1>2, <1>4 DEF StateRows
<1>6. \A r \in Row \ rows : StoreContent'[r] = StoreContent[r]
  BY <1>1 DEF WriteCreate, StoreContent, ContentOf
<1>7. \A r \in rows : r \in Scope[s] /\ db'[r] # Absent
  <2>1. handle[s].by.primary \in Backend
    BY OpenHandle DEF CommitCreate, IInv
  <2>2. \A r \in rows : db'[r] \in Stored
    BY <1>1, <1>5, <2>1, SealedRowType DEF WriteCreate
  <2> QED
    BY <1>4, <2>2, RotationAssumption DEF StateRows
<1>8. \A r \in rows \cap Event : db[r] = Absent
  BY <1>4 DEF StateRows
<1> QED
  BY <1>3, <1>5, <1>6, <1>7, <1>8, CommitImplements

(* Every service step is a step of the abstract store.                     *)
LEMMA ServiceImplements ==
  ASSUME IInv, IInv',
         \/ ServiceLoad
         \/ ServiceCommit
         \/ \E s \in Session : AbortOperation(s)
         \/ \E c \in Configs : StartService(c) \/ StopService(c)
  PROVE  Store!Next
<1> USE DEF IInv
<1>1. CASE ServiceLoad
  BY <1>1, OpenImplements DEF ServiceLoad, Store!Next
<1>2. CASE ServiceCommit
  BY <1>2, AppendImplements, CreateImplements, DeleteImplements
  DEF ServiceCommit, Store!Next
<1>3. CASE \/ \E s \in Session : AbortOperation(s)
           \/ \E c \in Configs : StartService(c) \/ StopService(c)
  BY <1>3, CloseImplements DEF Store!Next
<1> QED
  BY <1>1, <1>2, <1>3

(* Whatever the interleaving of rotator and services, and wherever the      *)
(* rotator dies, users of the store see only what their operations commit:  *)
(* rotation loses no write and brings back nothing.                        *)
THEOREM Refinement == Spec => ContentsPreserved
<1>1. Init => Store!Init
  <2> SUFFICES ASSUME Init PROVE Store!Init
    OBVIOUS
  <2>1. StoreContent \in [Row -> Contents \cup {Absent}]
    BY InitType, StoreContentType
  <2>2. OpenSessions = {}
    BY DEF Init, OpenSessions
  <2> QED
    BY <2>1, <2>2 DEF Store!Init, StoreContent, OpenSessions
<1>2. IInv /\ IInv' /\ [Next]_vars => [Store!Next]_(Store!storeVars)
  <2> SUFFICES ASSUME IInv, IInv', [Next]_vars
               PROVE  [Store!Next]_(Store!storeVars)
    OBVIOUS
  <2>1. CASE RotatorStep \/ Crash \/ \E p \in Passes : BeginPass(p)
    BY <2>1, RotatorStutters DEF Store!storeVars, StoreContent, OpenSessions
  <2>2. CASE UNCHANGED vars
    BY <2>2 DEF vars, Store!storeVars, ContentOf
  <2> QED
    BY <2>1, <2>2, ServiceImplements DEF Next
<1> QED
  BY <1>1, <1>2, Invariant, PTL DEF Spec, ContentsPreserved, Store!Spec

-----------------------------------------------------------------------------
(* The result of a pass accounts for every row.                            *)

Settled(r) ==
  /\ Present(r) => ~Old(db[r].text)
  /\ r \in rotated => SealedBy(r, pass.new)

(* Where a row stands that no service wrote since its table was SELECTed:   *)
(* still to do, and as it was SELECTed unless it has left the old backend   *)
(* by then; updated, in the open transaction; or settled.                  *)
RowAccounted(r) ==
  \/ /\ todo[r] # Absent /\ txn[r] = Absent /\ r \notin rotated
     /\ Present(r) /\ Old(db[r].text) => todo[r] = db[r]
  \/ todo[r] = Absent /\ txn[r] # Absent
  \/ todo[r] = Absent /\ txn[r] = Absent /\ Settled(r)

AccountInv ==
  /\ \A r \in rotated : Seen(r)
  /\ \A r \in Row \ dirty : Seen(r) => RowAccounted(r)

(* The rotator accounts for every row it has passed.                        *)
LEMMA AccountRotator ==
  ASSUME IInv, AccountInv, RotatorStep \/ Crash \/ \E p \in Passes : BeginPass(p)
  PROVE  AccountInv'
<1> USE DEF IInv
<1>1. ASSUME NEW p \in Passes, BeginPass(p) PROVE AccountInv'
  <2>1. rotated' = {} /\ pc' = "select" /\ tbl' = 1
    BY <1>1 DEF BeginPass
  <2>2. \A r \in Row : ~Seen(r)'
    BY <2>1, RotationAssumption DEF Seen
  <2> QED
    BY <2>1, <2>2 DEF AccountInv
<1>2. ASSUME SelectTable PROVE AccountInv'
  <2>1. pc = "select" /\ pc' = "row" /\ UNCHANGED <<db, tbl, txn, rotated, dirty, pass>>
    BY <1>2 DEF SelectTable
  <2>2. \A r \in Row : todo[r] = Absent /\ txn[r] = Absent
    BY <2>1 DEF PlaceInv, InLoop
  <2>3. \A r \in Row : todo'[r] = IF TableOf[r] = tbl THEN db[r] ELSE Absent
    BY <1>2 DEF SelectTable
  <2>4. \A r \in Row : Seen(r) <=> TableOf[r] < tbl
    BY <2>1 DEF Seen
  <2>5. \A r \in Row : Seen(r)' <=> TableOf[r] < tbl \/ TableOf[r] = tbl
    BY <2>1 DEF Seen
  <2>6. \A r \in Row : TableOf[r] = tbl => r \notin rotated
    BY <2>4, RotationAssumption DEF AccountInv, TypeOK
  <2>7. ASSUME NEW r \in Row \ dirty, Seen(r)' PROVE RowAccounted(r)'
    <3>1. CASE TableOf[r] = tbl
      BY <2>1, <2>2, <2>3, <2>6, <3>1 DEF RowAccounted, Settled, Present
    <3>2. CASE TableOf[r] # tbl
      <4>1. Settled(r)
        BY <2>2, <2>4, <2>5, <2>7, <3>2 DEF AccountInv, RowAccounted
      <4> QED
        BY <2>1, <2>2, <2>3, <3>2, <4>1
        DEF RowAccounted, Settled, Present, Old, SealedBy
    <3> QED
      BY <3>1, <3>2
  <2>8. \A r \in rotated' : Seen(r)'
    BY <2>1, <2>4, <2>5 DEF AccountInv, TypeOK
  <2> QED
    BY <2>1, <2>7, <2>8 DEF AccountInv
<1>3. ASSUME CommitTable PROVE AccountInv'
  <2>1. UNCHANGED <<rotated, dirty, pass, todo>>
    BY <1>3 DEF CommitTable
  <2>2. \A r \in Row : todo[r] = Absent /\ txn'[r] = Absent
    BY <1>3 DEF CommitTable, NoRows
  <2>3. \A r \in Row : db'[r] = IF txn[r] # Absent THEN txn[r] ELSE db[r]
    BY <1>3 DEF CommitTable
  <2>4. \A r \in Row : Seen(r)' <=> Seen(r)
    BY <1>3, RotationAssumption DEF CommitTable, Seen, TypeOK, EVENTS
  <2>5. ASSUME NEW r \in Row \ dirty, Seen(r) PROVE Settled(r)'
    <3>1. CASE txn[r] = Absent
      <4>1. Settled(r)
        BY <2>2, <2>5, <3>1 DEF AccountInv, RowAccounted
      <4> QED
        BY <2>1, <2>3, <3>1, <4>1 DEF Settled, Present, Old, SealedBy
    <3>2. CASE txn[r] # Absent
      <4>1. SealedNew(txn[r])
        BY <3>2 DEF LockInv
      <4>2. pass.old # pass.new
        BY RotationAssumption DEF TypeOK
      <4>3. db'[r] = txn[r]
        BY <2>3, <3>2
      <4> QED
        BY <2>1, <3>2, <4>1, <4>2, <4>3
        DEF Settled, SealedNew, Present, Old, Opens, SealedBy
    <3> QED
      BY <3>1, <3>2
  <2>6. ASSUME NEW r \in Row \ dirty, Seen(r) PROVE RowAccounted(r)'
    BY <2>1, <2>2, <2>5, <2>6 DEF RowAccounted
  <2> QED
    BY <2>1, <2>4, <2>6 DEF AccountInv, TypeOK
<1>4. ASSUME (\E r \in Row : FailRow(r)) \/ Crash
      PROVE  AccountInv'
  BY <1>4, RotationAssumption DEF FailRow, Crash, Abandon, AccountInv, Seen
<1>5. ASSUME NEW r \in Row, PassOver(r) PROVE AccountInv'
  <2>1. /\ todo[r] # Absent /\ ~Old(todo[r].text)
        /\ \A q \in Row : todo'[q] = IF q = r THEN Absent ELSE todo[q]
    BY <1>5 DEF PassOver, Pending, Handled, Old, Parses, NullText, TypeOK, DbType
  <2>2. UNCHANGED <<db, pc, pass, tbl, txn, rotated, dirty>>
    BY <1>5 DEF PassOver
  <2>3. \A q \in Row : Seen(q)' <=> Seen(q)
    BY <2>2 DEF Seen
  <2>4. ASSUME NEW q \in Row \ dirty, Seen(q) PROVE RowAccounted(q)'
    <3>1. RowAccounted(q)
      BY <2>4 DEF AccountInv
    <3> QED
      BY <2>1, <2>2, <3>1 DEF RowAccounted, Settled, Present, Old, SealedBy
  <2> QED
    BY <2>2, <2>3, <2>4 DEF AccountInv, TypeOK
<1>6. ASSUME NEW r \in Row, UpdateRow(r) PROVE AccountInv'
  <2>1. \A q \in Row : Seen(q)' <=> Seen(q)
    BY <1>6, UpdateEffect DEF Seen
  <2>2. Seen(r)
    BY <1>6, UpdateEffect DEF Seen, PlaceInv, InLoop
  <2>3. ASSUME NEW q \in Row \ dirty, Seen(q) PROVE RowAccounted(q)'
    <3>1. RowAccounted(q)
      BY <2>3 DEF AccountInv
    <3>2. CASE q = r
      BY <1>6, <3>2, UpdateEffect DEF RowAccounted
    <3>3. CASE q # r
      <4>1. /\ UNCHANGED <<db, pass>> /\ rotated' = rotated \cup {r}
            /\ todo'[q] = todo[q] /\ txn'[q] = txn[q]
        BY <1>6, <3>3, UpdateEffect
      <4> QED
        BY <3>1, <3>3, <4>1 DEF RowAccounted, Settled, Present, Old, SealedBy
    <3> QED
      BY <3>2, <3>3
  <2>4. rotated' = rotated \cup {r} /\ dirty' = dirty
    BY <1>6, UpdateEffect
  <2> QED
    BY <2>1, <2>2, <2>3, <2>4 DEF AccountInv, TypeOK
<1>7. ASSUME NEW r \in Row, MissRow(r) PROVE AccountInv'
  <2>1. /\ todo[r] # Absent
        /\ \A q \in Row : todo'[q] = IF q = r THEN Absent ELSE todo[q]
    BY <1>7 DEF MissRow, Pending, Handled, TypeOK, DbType
  <2>2. UNCHANGED <<db, pc, pass, tbl, txn, rotated, dirty>>
    BY <1>7 DEF MissRow
  <2>3. \A q \in Row : Seen(q)' <=> Seen(q)
    BY <2>2 DEF Seen
  <2>4. todo[r] # db[r]
    BY <1>7, <2>1 DEF MissRow, UpdateHits
  <2>5. ASSUME NEW q \in Row \ dirty, Seen(q) PROVE RowAccounted(q)'
    <3>1. RowAccounted(q)
      BY <2>5 DEF AccountInv
    <3> QED
      BY <2>1, <2>2, <2>4, <3>1 DEF RowAccounted, Settled, Present, Old, SealedBy
  <2> QED
    BY <2>2, <2>3, <2>5 DEF AccountInv, TypeOK
<1> QED
  BY <1>1, <1>2, <1>3, <1>4, <1>5, <1>6, <1>7 DEF RotatorStep, RotateRow

(* The account stays true when others write: rows they record as dirty, or  *)
(* rows the pass neither holds nor counted, which they take off the old     *)
(* backend.                                                                *)
LEMMA AccountQuiet ==
  ASSUME IInv, AccountInv,
         UNCHANGED <<pc, pass, tbl, todo, txn, rotated>>,
         dirty \subseteq dirty',
         \A r \in Row \ dirty' : Seen(r) =>
           \/ db'[r] = db[r]
           \/ r \notin rotated /\ txn[r] = Absent /\ ~Old(db'[r].text)
  PROVE  AccountInv'
<1>1. \A r \in Row : Seen(r)' <=> Seen(r)
  BY DEF Seen
<1>2. ASSUME NEW r \in Row \ dirty', Seen(r) PROVE RowAccounted(r)'
  <2>1. RowAccounted(r)
    BY <1>2 DEF AccountInv
  <2> QED
    BY <1>2, <2>1 DEF RowAccounted, Settled, Present, Old, SealedBy
<1> QED
  BY <1>1, <1>2 DEF AccountInv, IInv, TypeOK

(* Every row is accounted for, with any number of services at work.        *)
THEOREM Accounting == Spec => []AccountInv
<1>1. Init => AccountInv
  BY DEF Init, AccountInv, Seen
<1>2. IInv /\ AccountInv /\ [Next]_vars => AccountInv'
  <2>1. IInv /\ AccountInv /\ Next => AccountInv'
    BY AccountRotator, ServiceFrame, AccountQuiet DEF Next
  <2>2. IInv /\ AccountInv /\ UNCHANGED vars => AccountInv'
    BY AccountQuiet DEF vars
  <2> QED
    BY <2>1, <2>2
<1> QED
  BY <1>1, <1>2, Invariant, PTL DEF Spec

(* With one rotator, only services change what was SELECTed.               *)
SnapshotInv ==
  /\ skipped \subseteq dirty
  /\ \A r \in Row \ dirty : todo[r] # Absent => todo[r] = db[r]

(* The rotator skips a row only if it is not as it was SELECTed.           *)
LEMMA SnapshotRotator ==
  ASSUME IInv, SnapshotInv, RotatorStep \/ Crash \/ \E p \in Passes : BeginPass(p)
  PROVE  SnapshotInv'
<1> USE DEF IInv
<1>1. ASSUME NEW p \in Passes, BeginPass(p) PROVE SnapshotInv'
  BY <1>1 DEF BeginPass, Active, PlaceInv, InLoop, SnapshotInv
<1>2. ASSUME SelectTable PROVE SnapshotInv'
  BY <1>2 DEF SelectTable, SnapshotInv
<1>3. ASSUME CommitTable PROVE SnapshotInv'
  BY <1>3 DEF CommitTable, SnapshotInv, NoRows
<1>4. ASSUME Crash \/ \E r \in Row : FailRow(r) PROVE SnapshotInv'
  BY <1>4 DEF Crash, FailRow, Abandon, SnapshotInv, NoRows
<1>5. ASSUME NEW r \in Row, PassOver(r) \/ UpdateRow(r) PROVE SnapshotInv'
  <2>1. UNCHANGED <<db, skipped, dirty>>
    BY <1>5 DEF PassOver, UpdateRow
  <2>2. \A q \in Row : todo'[q] \in {todo[q], Absent}
    BY <1>5 DEF PassOver, UpdateRow, Handled, TypeOK, DbType
  <2> QED
    BY <2>1, <2>2 DEF SnapshotInv
<1>6. ASSUME NEW r \in Row, MissRow(r) PROVE SnapshotInv'
  <2>1. UNCHANGED <<db, dirty>> /\ skipped' \subseteq skipped \cup {r}
    BY <1>6 DEF MissRow
  <2>2. \A q \in Row : todo'[q] \in {todo[q], Absent}
    BY <1>6 DEF MissRow, Handled, TypeOK, DbType
  <2>3. r \in dirty
    BY <1>6 DEF MissRow, Pending, UpdateHits, SnapshotInv
  <2> QED
    BY <2>1, <2>2, <2>3 DEF SnapshotInv
<1> QED
  BY <1>1, <1>2, <1>3, <1>4, <1>5, <1>6 DEF RotatorStep, RotateRow

(* A skip always has a concurrent write behind it.                         *)
THEOREM SkipsAreConflicts == Spec => []SkipMeansConflict
<1>1. Init => SnapshotInv
  BY DEF Init, SnapshotInv, NoRows
<1>2. ASSUME IInv, SnapshotInv,
             UNCHANGED <<pc, tbl, todo, skipped>>,
             dirty \subseteq dirty',
             \A r \in Row \ dirty' : Seen(r) => db'[r] = db[r]
      PROVE  SnapshotInv'
  <2>1. \A r \in Row : todo[r] # Absent => Seen(r)
    BY <1>2 DEF IInv, PlaceInv, InLoop, Seen
  <2> QED
    BY <1>2, <2>1 DEF SnapshotInv
<1>3. IInv /\ SnapshotInv /\ [Next]_vars => SnapshotInv'
  <2>1. IInv /\ SnapshotInv /\ Next => SnapshotInv'
    BY <1>2, SnapshotRotator, ServiceFrame DEF Next
  <2>2. IInv /\ SnapshotInv /\ UNCHANGED vars => SnapshotInv'
    BY DEF vars, SnapshotInv
  <2> QED
    BY <2>1, <2>2
<1>4. SnapshotInv => SkipMeansConflict
  BY DEF SnapshotInv, SkipMeansConflict
<1> QED
  BY <1>1, <1>3, <1>4, Invariant, PTL DEF Spec

(* At the end of a pass nothing is left to do or to commit.                 *)
LEMMA AccountResult ==
  ASSUME IInv, AccountInv
  PROVE  ResultAccounts
<1> SUFFICES ASSUME pc = "done" PROVE ResultAccounts
  BY DEF ResultAccounts
<1>1. \A r \in Row : todo[r] = Absent /\ txn[r] = Absent /\ Seen(r)
  BY DEF IInv, PlaceInv, InLoop, Seen
<1> QED
  BY <1>1 DEF AccountInv, RowAccounted, Settled, ResultAccounts

(* When a pass returns, each row no service wrote meanwhile is off the old  *)
(* backend, and sealed by the new one if it was counted.                   *)
THEOREM ResultsAccount == Spec => []ResultAccounts
BY AccountResult, Invariant, Accounting, PTL

-----------------------------------------------------------------------------
(* Path A: rotating between backends of different ids under live services. *)

(* What a backend of a configuration sealed, the configuration reads.      *)
LEMMA SealedReadable ==
  ASSUME NEW c \in Config, NEW b \in Backends(c), b.id \in Registry,
         NEW t, Parses(t), t.id = b.id, t.ct.by = b
  PROVE  Readable(c, t)
<1>1. Dispatch(c)[b.id] = b /\ b.id \in DOMAIN Dispatch(c)
  <2>1. b.id \in {x.id : x \in Backends(c)}
    OBVIOUS
  <2>2. \A x \in Backends(c) : x.id = b.id => x = b
    BY DEF Config, UniqueIds
  <2>3. (CHOOSE x \in Backends(c) : x.id = b.id) = b
    BY <2>2
  <2> QED
    BY <2>1, <2>3 DEF Dispatch
<1> QED
  BY <1>1 DEF Readable, Opens

(* Every configured service reads every row: committed, SELECTed by the     *)
(* rotator, or about to be committed by it.                                *)
ReadableInv ==
  \A c \in Configs, r \in Row :
    /\ db[r] # Absent => Readable(c, db[r].text)
    /\ todo[r] # Absent => Readable(c, todo[r].text)
    /\ txn[r] # Absent => Readable(c, txn[r].text)

(* What a service of Path A writes, every service of Path A can read.       *)
LEMMA SealedRowReadable ==
  ASSUME PathA, NEW c \in Configs, NEW d \in Configs, NEW r, NEW v, NEW n, NEW t
  PROVE  Readable(d, SealedRow(r, c.primary, v, n, t).text)
<1> DEFINE x == SealedRow(r, c.primary, v, n, t).text
<1>1. c.primary \in Backends(d) /\ c.primary.id \in Registry
  BY DEF PathA
<1>2. Parses(x) /\ x.id = c.primary.id /\ x.ct.by = c.primary
  BY <1>1 DEF SealedRow, Seal, BuildEnvelope, Encrypt, Parses
<1>3. d \in Config
  BY RotationAssumption
<1> QED
  BY <1>1, <1>2, <1>3, SealedReadable

(* What a pass re-encrypts, every service of Path A can read.               *)
LEMMA ReencryptedReadable ==
  ASSUME PathA, pass \in Passes, NEW d \in Configs, NEW t, NEW n
  PROVE  Readable(d, Reencrypted(t, n))
<1> DEFINE x == Reencrypted(t, n)
<1>1. pass.new \in Backends(d) /\ pass.new.id \in Registry
  BY DEF PathA
<1>2. Parses(x) /\ x.id = pass.new.id /\ x.ct.by = pass.new
  BY <1>1 DEF Reencrypted, BuildEnvelope, Encrypt, Parses
<1>3. d \in Config
  BY RotationAssumption
<1> QED
  BY <1>1, <1>2, <1>3, SealedReadable

(* No step makes a stored row unreadable on Path A.                         *)
LEMMA ReadableStep ==
  ASSUME PathA, IInv, ReadableInv, [Next]_vars
  PROVE  ReadableInv'
<1> USE DEF IInv
<1>1. CASE UNCHANGED vars
  BY <1>1 DEF vars, ReadableInv
<1>2. ASSUME NEW r \in Row, UpdateRow(r) PROVE ReadableInv'
  <2>1. PICK n \in Nonce :
          txn' = [txn EXCEPT ![r] =
                    [text        |-> Reencrypted(todo[r].text, n),
                     update_time |-> db[r].update_time]]
    BY <1>2 DEF UpdateRow
  <2>2. txn'[r].text = Reencrypted(todo[r].text, n)
        /\ \A q \in Row : q # r => txn'[q] = txn[q]
    BY <2>1 DEF TypeOK, DbType
  <2>3. \A d \in Configs : Readable(d, txn'[r].text)
    BY <2>2, ReencryptedReadable DEF TypeOK
  <2>4. db' = db /\ \A q \in Row : todo'[q] = Absent \/ todo'[q] = todo[q]
    BY <1>2 DEF UpdateRow, Handled, TypeOK, DbType
  <2> QED
    BY <2>2, <2>3, <2>4 DEF ReadableInv
<1>3. CASE CommitTable
  BY <1>3 DEF CommitTable, ReadableInv, NoRows
<1>4. ASSUME NEW s \in Session, CommitAppend(s) PROVE ReadableInv'
  <2>1. PICK written \in SUBSET StateRows(s), e \in EventsOf(s),
             v \in Value, n \in Nonce, t \in Time :
          WriteAppend(s, written, e, v, n, t)
    BY <1>4 DEF CommitAppend
  <2>2. handle[s].by \in Configs
    BY <1>4 DEF CommitAppend, TypeOK, Handle, Idle
  <2>3. ASSUME NEW r \in Row, NEW d \in Configs, db'[r] # Absent
        PROVE  Readable(d, db'[r].text)
    <3>1. CASE r \in written \cup {e}
      BY <2>1, <2>2, <3>1, SealedRowReadable DEF WriteAppend
    <3>2. CASE r \notin written \cup {e} /\ r = s
      <4>1. db'[r].text = db[s].text
        BY <2>1, <3>2 DEF WriteAppend
      <4> QED
        BY <1>4, <3>2, <4>1 DEF CommitAppend, Present, ReadableInv
    <3>3. CASE r \notin written \cup {e} /\ r # s
      BY <2>1, <2>3, <3>3 DEF WriteAppend, ReadableInv
    <3> QED
      BY <3>1, <3>2, <3>3
  <2>4. txn' = txn /\ todo' = todo
    BY <1>4 DEF CommitAppend, rotatorVars
  <2> QED
    BY <2>3, <2>4 DEF ReadableInv
<1>5. ASSUME NEW s \in Session, CommitCreate(s) PROVE ReadableInv'
  <2>1. PICK rewritten \in SUBSET StateRows(s), v \in Value, n \in Nonce,
             t \in Time :
          WriteCreate(s, rewritten \cup handle[s].fresh, v, n, t)
    BY <1>5 DEF CommitCreate
  <2>2. handle[s].by \in Configs
    BY <1>5 DEF CommitCreate, TypeOK, Handle, Idle
  <2>3. ASSUME NEW r \in Row, NEW d \in Configs, db'[r] # Absent
        PROVE  Readable(d, db'[r].text)
    BY <2>1, <2>2, <2>3, SealedRowReadable DEF WriteCreate, ReadableInv
  <2>4. txn' = txn /\ todo' = todo
    BY <1>5 DEF CommitCreate, rotatorVars
  <2> QED
    BY <2>3, <2>4 DEF ReadableInv
<1>6. ASSUME NEW s \in Session, DeleteSession(s) PROVE ReadableInv'
  BY <1>6 DEF DeleteSession, rotatorVars, ReadableInv
<1>7. ASSUME db' = db, txn' = txn \/ txn' = NoRows,
             \A q \in Row : \/ todo'[q] = Absent
                           \/ todo'[q] = todo[q]
                           \/ todo'[q] = db[q]
      PROVE  ReadableInv'
  BY <1>7 DEF ReadableInv, NoRows
<1>8. ASSUME NEW r \in Row, PassOver(r) \/ MissRow(r) PROVE ReadableInv'
  <2>1. \A q \in Row : todo'[q] = Absent \/ todo'[q] = todo[q]
    BY <1>8 DEF PassOver, MissRow, Handled, TypeOK, DbType
  <2> QED
    BY <1>7, <1>8, <2>1 DEF PassOver, MissRow
<1>9. CASE SelectTable
  <2>1. \A q \in Row : todo'[q] = Absent \/ todo'[q] = db[q]
    BY <1>9 DEF SelectTable
  <2> QED
    BY <1>7, <1>9, <2>1 DEF SelectTable
<1>10. CASE Crash \/ \E r \in Row : FailRow(r)
  BY <1>7, <1>10 DEF Crash, FailRow, Abandon, NoRows
<1>11. CASE \E p \in Passes : BeginPass(p)
  BY <1>7, <1>11 DEF BeginPass
<1>12. CASE \/ ServiceLoad
            \/ \E s \in Session : AbortOperation(s)
            \/ \E c \in Configs : StartService(c) \/ StopService(c)
  BY <1>7, <1>12 DEF ServiceLoad, LoadAppend, LoadCreate, AbortOperation,
                     StartService, StopService, rotatorVars
<1> QED
  BY <1>1, <1>2, <1>3, <1>4, <1>5, <1>6, <1>8, <1>9, <1>10, <1>11, <1>12
  DEF Next, RotatorStep, RotateRow, ServiceCommit

(* No row is ever unreadable to a service configured as Path A says, before,*)
(* during or after any number of passes, failed ones included.             *)
THEOREM ZeroDowntime == ASSUME PathA PROVE Spec => []AlwaysReadable
<1>1. Init => ReadableInv
  BY DEF Init, PathA, ReadableInv, NoRows
<1>2. IInv /\ ReadableInv /\ [Next]_vars => ReadableInv'
  BY ReadableStep
<1>3. IInv /\ ReadableInv => AlwaysReadable
  BY DEF IInv, TypeOK, ReadableInv, AlwaysReadable, Present
<1> QED
  BY <1>1, <1>2, <1>3, Invariant, PTL DEF Spec

(* A row that a service of Path A reads never stops a pass: it is NULL, of  *)
(* another backend, or opens under the old one.                            *)
LEMMA ReadableRowPasses ==
  ASSUME PathA, IInv, NEW c \in Configs, NEW r \in Row,
         todo[r] # Absent, Readable(c, todo[r].text)
  PROVE  ~FailRow(r)
<1> DEFINE t == todo[r].text
<1>1. SUFFICES ASSUME t # NullText, Parses(t), t.id = pass.old.id,
                      t.id \in DOMAIN Dispatch(c),
                      Opens(Dispatch(c)[t.id], t.ct)
               PROVE  Opens(pass.old, t.ct)
  BY DEF FailRow, Readable
<1>2. pass.old \in Backends(c) /\ c \in Config
  BY RotationAssumption DEF PathA, IInv, TypeOK
<1>3. \A x \in Backends(c) : x.id = t.id => x = pass.old
  BY <1>1, <1>2 DEF Config, UniqueIds
<1>4. (CHOOSE x \in Backends(c) : x.id = t.id) = pass.old
  BY <1>1, <1>2, <1>3
<1>5. Dispatch(c)[t.id] = pass.old
  BY <1>1, <1>4 DEF Dispatch
<1> QED
  BY <1>1, <1>5

(* No step of a pass under Path A makes it fail.                           *)
LEMMA NeverFailsStep ==
  ASSUME PathA, Configs # {}, IInv, ReadableInv, pc # "failed", [Next]_vars
  PROVE  (pc # "failed")'
<1>1. PICK c : c \in Configs
  OBVIOUS
<1>2. ASSUME NEW r \in Row, FailRow(r) PROVE FALSE
  <2>1. todo[r] # Absent /\ Readable(c, todo[r].text)
    BY <1>1, <1>2 DEF FailRow, Pending, ReadableInv
  <2> QED
    BY <1>1, <1>2, <2>1, ReadableRowPasses
<1> QED
  BY <1>2
  DEF Next, RotatorStep, RotateRow, BeginPass, SelectTable, CommitTable,
      PassOver, UpdateRow, MissRow, Crash, Abandon, ServiceLoad, ServiceCommit,
      LoadAppend, LoadCreate, CommitAppend, CommitCreate, DeleteSession,
      AbortOperation, StartService, StopService, rotatorVars, vars

(* Under Path A a pass never raises DecryptionError, however often it is    *)
(* repeated or reversed and whatever the services write meanwhile.         *)
THEOREM CrossPassesSucceed ==
  ASSUME PathA, Configs # {} PROVE Spec => []CrossNeverFails
<1>1. Init => ReadableInv /\ pc # "failed"
  BY DEF Init, PathA, ReadableInv, NoRows
<1>2. IInv /\ ReadableInv /\ [Next]_vars => ReadableInv'
  BY ReadableStep
<1>3. IInv /\ ReadableInv /\ pc # "failed" /\ [Next]_vars => (pc # "failed")'
  BY NeverFailsStep
<1>4. pc # "failed" => CrossNeverFails
  BY DEF CrossNeverFails
<1> QED
  BY <1>1, <1>2, <1>3, <1>4, Invariant, PTL DEF Spec

-----------------------------------------------------------------------------
(* Maintenance: passes with the services stopped.                          *)

(* The header names the backend that sealed the row.                       *)
HonestHeader(t) == Parses(t) => t.id = t.ct.by.id

(* No row was written by anyone but the rotator.                           *)
MaintenanceInv ==
  /\ dirty = {}
  /\ TableUniform
  /\ \A r \in Row : Present(r) => HonestHeader(db[r].text)

(* With no configuration there is no service, no operation, no commit.      *)
LEMMA NoServiceStep ==
  ASSUME Maintenance, TypeOK
  PROVE  /\ ~ServiceLoad
         /\ ~ServiceCommit
         /\ ~\E s \in Session : AbortOperation(s)
         /\ ~\E c \in Configs : StartService(c) \/ StopService(c)
<1>1. Configs = {} /\ running = {}
  BY DEF Maintenance, TypeOK
<1>2. \A s \in Session : handle[s] = Idle
  BY <1>1 DEF TypeOK, Handle
<1>3. ~ServiceCommit
  BY <1>1, <1>2 DEF ServiceCommit, CommitAppend, CommitCreate, DeleteSession, Idle
<1> QED
  BY <1>1, <1>2, <1>3 DEF ServiceLoad, AbortOperation

(* A commit moves a whole table to the new backend, or leaves it.           *)
LEMMA CommitUniform ==
  ASSUME IInv, AccountInv, MaintenanceInv, CommitTable
  PROVE  MaintenanceInv'
<1> USE DEF IInv
<1>1. /\ pc = "row" /\ todo = NoRows /\ txn' = NoRows /\ UNCHANGED <<pass, dirty>>
      /\ \A r \in Row : db'[r] = IF txn[r] # Absent THEN txn[r] ELSE db[r]
  BY DEF CommitTable
<1>2. ASSUME NEW r \in Row, txn[r] # Absent
      PROVE  /\ InLoop(r) /\ SealedNew(txn[r])
             /\ Present(r) /\ Old(db[r].text)
  BY <1>2 DEF PlaceInv, LockInv, Present
<1>3. ASSUME NEW r \in Row, InLoop(r), txn[r] = Absent, Present(r)
      PROVE  ~Old(db[r].text)
  <2>1. RowAccounted(r) /\ todo[r] = Absent
    BY <1>1, <1>3 DEF AccountInv, Seen, InLoop, MaintenanceInv, NoRows
  <2> QED
    BY <1>3, <2>1 DEF RowAccounted, Settled
<1>4. ASSUME NEW r1 \in Row, NEW r2 \in Row, TableOf[r1] = TableOf[r2],
             txn[r1] # Absent, txn[r2] = Absent, Present(r2), Parses(db[r2].text)
      PROVE  FALSE
  <2>1. InLoop(r2) /\ ~Old(db[r2].text)
    BY <1>2, <1>3, <1>4 DEF InLoop
  <2>2. db[r2].text.ct.by = db[r1].text.ct.by
    BY <1>2, <1>4 DEF MaintenanceInv, TableUniform, Old
  <2>3. db[r1].text.ct.by = pass.old
    BY <1>2, <1>4 DEF Old, Opens
  <2>4. db[r2].text.id = pass.old.id
    BY <1>4, <2>2, <2>3 DEF MaintenanceInv, HonestHeader
  <2> QED
    BY <1>4, <2>1, <2>2, <2>3, <2>4 DEF Old, Opens
<1>5. TableUniform'
  <2> SUFFICES ASSUME NEW r1 \in Row, NEW r2 \in Row, TableOf[r1] = TableOf[r2],
                      Present(r1)', Present(r2)',
                      Parses(db'[r1].text), Parses(db'[r2].text)
               PROVE  db'[r1].text.ct.by = db'[r2].text.ct.by
    BY DEF TableUniform
  <2>1. CASE txn[r1] # Absent /\ txn[r2] # Absent
    BY <1>1, <1>2, <2>1 DEF SealedNew, Opens
  <2>2. CASE txn[r1] = Absent /\ txn[r2] = Absent
    BY <1>1, <2>2 DEF MaintenanceInv, TableUniform, Present
  <2>3. CASE txn[r1] # Absent /\ txn[r2] = Absent
    BY <1>1, <1>4, <2>3 DEF Present
  <2>4. CASE txn[r1] = Absent /\ txn[r2] # Absent
    BY <1>1, <1>4, <2>4 DEF Present
  <2> QED
    BY <2>1, <2>2, <2>3, <2>4
<1>6. ASSUME NEW r \in Row, Present(r)' PROVE HonestHeader(db'[r].text)
  <2>1. CASE txn[r] # Absent
    BY <1>1, <1>2, <2>1 DEF SealedNew, Opens, HonestHeader
  <2>2. CASE txn[r] = Absent
    BY <1>1, <1>6, <2>2 DEF MaintenanceInv, Present
  <2> QED
    BY <2>1, <2>2
<1> QED
  BY <1>1, <1>5, <1>6 DEF MaintenanceInv

(* Every other step of the rotator leaves the committed rows alone.         *)
LEMMA RotatorUniform ==
  ASSUME IInv, AccountInv, MaintenanceInv,
         RotatorStep \/ Crash \/ \E p \in Passes : BeginPass(p)
  PROVE  MaintenanceInv'
<1>1. CASE CommitTable
  BY <1>1, CommitUniform
<1>2. CASE ~CommitTable
  <2>1. db' = db /\ (dirty' = {} \/ dirty' = dirty)
    BY <1>2 DEF RotatorStep, RotateRow, Crash, BeginPass, SelectTable,
                PassOver, FailRow, UpdateRow, MissRow, Abandon
  <2> QED
    BY <2>1 DEF MaintenanceInv, TableUniform, Present
<1> QED
  BY <1>1, <1>2

(* With the services stopped, whatever passes run, raise or die and in      *)
(* whatever order, each table is under one backend as a whole.             *)
THEOREM TablesUniform == ASSUME Maintenance PROVE Spec => []TableUniform
<1>1. Init => MaintenanceInv
  BY DEF Init, Maintenance, MaintenanceInv, TableUniform, HonestHeader, Present, NoRows
<1>2. ASSUME IInv, AccountInv, MaintenanceInv, [Next]_vars PROVE MaintenanceInv'
  <2>1. CASE UNCHANGED vars
    BY <1>2, <2>1 DEF vars, MaintenanceInv, TableUniform, Present, Old
  <2>2. CASE RotatorStep \/ Crash \/ \E p \in Passes : BeginPass(p)
    BY <1>2, <2>2, RotatorUniform
  <2> QED
    BY <1>2, <2>1, <2>2, NoServiceStep DEF Next, IInv
<1>3. MaintenanceInv => TableUniform
  BY DEF MaintenanceInv
<1> QED
  BY <1>1, <1>2, <1>3, Invariant, Accounting, PTL DEF Spec
=============================================================================
