---------------------- MODULE MaintenanceWindow_proofs ----------------------
(***************************************************************************)
(* Every behaviour of MaintenanceWindow is one of KeyRotation, so whatever *)
(* is proved of KeyRotation holds in it; and, from the account KeyRotation *)
(* gives of the rows of a pass, a service can always read its store.       *)
(***************************************************************************)
EXTENDS MaintenanceWindow, KeyRotation_proofs

(* A step of the window is a step of KeyRotation or leaves it alone.        *)
LEMMA WindowStep ==
  ASSUME WindowTypeOK, [WindowNext]_windowVars
  PROVE  [Next]_vars
<1>1. CASE Serve
  <2>1. running \subseteq Configs
    BY DEF WindowTypeOK, TypeOK
  <2>2. CASE \E c \in Configs \cap {Sole(current)} : StartService(c)
    BY <2>2 DEF Next
  <2>3. CASE \E c \in running : StopService(c)
    BY <2>1, <2>3 DEF Next
  <2>4. CASE \/ ServiceLoad
             \/ ServiceCommit
             \/ \E s \in Session : AbortOperation(s)
    BY <2>4 DEF Next
  <2> QED
    BY <1>1, <2>2, <2>3, <2>4 DEF Serve
<1>2. CASE Close
  BY <1>2 DEF Close
<1>3. ASSUME NEW p \in Passes, RunPass(p) PROVE Next
  BY <1>3 DEF RunPass, Next
<1>4. CASE Rotate
  BY <1>4 DEF Rotate, Next
<1>5. CASE Reopen
  BY <1>5 DEF Reopen
<1>6. CASE UNCHANGED windowVars
  BY <1>6 DEF windowVars
<1> QED
  BY <1>1, <1>2, <1>3, <1>4, <1>5, <1>6 DEF WindowNext

(* The window keeps its types.                                             *)
LEMMA WindowTypeStep ==
  ASSUME WindowTypeOK, [WindowNext]_windowVars
  PROVE  WindowTypeOK'
<1>1. TypeOK'
  <2>1. [Next]_vars
    BY WindowStep
  <2>2. CASE Next
    BY <2>2, RotatorType, ServiceType DEF Next, WindowTypeOK
  <2>3. CASE UNCHANGED vars
    BY <2>3 DEF vars, TypeOK, WindowTypeOK
  <2> QED
    BY <2>1, <2>2, <2>3
<1>2. phase' \in {"open", "closed", "rotating"}
  BY DEF WindowTypeOK, WindowNext, windowVars, Serve, Close, RunPass, Rotate, Reopen
<1>3. current' \in Backend
  <2>1. pass.new \in Backend
    BY RotationAssumption DEF WindowTypeOK, TypeOK, Pass
  <2> QED
    BY <2>1 DEF WindowTypeOK, WindowNext, windowVars, Serve, Close, RunPass,
                Rotate, Reopen
<1> QED
  BY <1>1, <1>2, <1>3 DEF WindowTypeOK

(* In every window every variable has its type.                            *)
THEOREM WindowTypes == WindowSpec => []WindowTypeOK
<1>1. WindowInit => WindowTypeOK
  BY InitType, WindowAssumption DEF WindowInit, WindowTypeOK
<1> QED
  BY <1>1, WindowTypeStep, PTL DEF WindowSpec

(* A maintenance window only orders what rotator and services do: every     *)
(* behaviour of it is one of KeyRotation.                                  *)
THEOREM WindowIsRotation == WindowSpec => Spec
<1>1. WindowInit => Init
  BY DEF WindowInit
<1> QED
  BY <1>1, WindowTypes, WindowStep, PTL DEF WindowSpec, Spec

-----------------------------------------------------------------------------
(* The rows of a window.                                                   *)

(* What a service with one backend reads: NULL, or what that backend sealed.*)
LEMMA SoleReadable ==
  ASSUME NEW b \in Backend, NEW t
  PROVE  Readable(Sole(b), t) <=>
           t = NullText \/ (Parses(t) /\ t.id = b.id /\ t.ct.by = b)
<1>1. Backends(Sole(b)) = {b}
  BY DEF Backends, Sole
<1>2. Dispatch(Sole(b)) = [i \in {b.id} |-> CHOOSE x \in {b} : x.id = i]
  BY <1>1 DEF Dispatch
<1>3. Dispatch(Sole(b))[b.id] = b /\ DOMAIN Dispatch(Sole(b)) = {b.id}
  BY <1>2
<1> QED
  BY <1>3 DEF Readable, Opens

(* While passes run every row is sealed by one of the two backends of the   *)
(* pass, which have one id; otherwise by the one the services have.        *)
UnderPair(p, t) ==
  t = NullText \/ (Parses(t) /\ t.id = p.old.id /\ t.ct.by \in {p.old, p.new})

Stopped == phase # "rotating" => ~Active

OnlyCurrent ==
  /\ phase = "open" => running \subseteq {Sole(current)}
  /\ phase # "open" => running = {}
  /\ \A s \in Session : handle[s] # Idle => handle[s].by \in running

RowsOfCurrent ==
  phase # "rotating" =>
    /\ current.id \in Registry
    /\ \A r \in Row : Present(r) => Readable(Sole(current), db[r].text)

RowsOfPass ==
  phase = "rotating" =>
    /\ dirty = {}
    /\ pass.old.id = pass.new.id
    /\ pass.new.id \in Registry
    /\ \A r \in Row :
         /\ Present(r) => UnderPair(pass, db[r].text)
         /\ txn[r] # Absent => UnderPair(pass, txn[r].text)

WindowInv == Stopped /\ OnlyCurrent /\ RowsOfCurrent /\ RowsOfPass

(* What a step of the rotator may touch.                                   *)
LEMMA RotatorFrame ==
  ASSUME RotatorStep \/ Crash
  PROVE  /\ Active
         /\ UNCHANGED <<running, handle, pass>>
         /\ dirty' = dirty \/ dirty' = {}
         /\ db' = db \/ db' = [r \in Row |-> IF txn[r] # Absent THEN txn[r] ELSE db[r]]
         /\ txn' = txn \/ txn' = NoRows \/ \E r \in Row : UpdateRow(r)
<1>1. CASE SelectTable
  BY <1>1 DEF SelectTable, Active
<1>2. CASE CommitTable
  BY <1>2 DEF CommitTable, Active
<1>3. ASSUME NEW r \in Row, PassOver(r)
      PROVE  Active /\ UNCHANGED <<db, txn, dirty, running, handle, pass>>
  BY <1>3 DEF PassOver, Pending, Active
<1>4. ASSUME NEW r \in Row, FailRow(r)
      PROVE  /\ Active /\ UNCHANGED <<db, running, handle, pass>>
             /\ txn' = NoRows /\ dirty' = {}
  BY <1>4 DEF FailRow, Abandon, Pending, Active
<1>5. ASSUME NEW r \in Row, UpdateRow(r)
      PROVE  Active /\ UNCHANGED <<db, dirty, running, handle, pass>>
  BY <1>5 DEF UpdateRow, Pending, Active
<1>6. ASSUME NEW r \in Row, MissRow(r)
      PROVE  Active /\ UNCHANGED <<db, txn, dirty, running, handle, pass>>
  BY <1>6 DEF MissRow, Pending, Active
<1>7. CASE Crash
  BY <1>7 DEF Crash, Abandon
<1>8. CASE \E r \in Row : RotateRow(r)
  BY <1>3, <1>4, <1>5, <1>6, <1>8 DEF RotateRow
<1> QED
  BY <1>1, <1>2, <1>7, <1>8 DEF RotatorStep

(* A step of the rotator within a window.                                  *)
LEMMA InvRotate ==
  ASSUME WindowTypeOK, WindowInv, Rotate
  PROVE  WindowInv'
<1> USE DEF WindowInv
<1>1. /\ phase = "rotating" /\ phase' = phase /\ current' = current
      /\ UNCHANGED <<running, handle, pass>>
      /\ dirty' = {}
  BY RotatorFrame DEF Stopped, RowsOfPass, Rotate
<1>3. ASSUME NEW r \in Row, Present(r)' PROVE UnderPair(pass, db[r].text)'
  <2>1. db'[r] = db[r] \/ (txn[r] # Absent /\ db'[r] = txn[r])
    BY RotatorFrame DEF Rotate
  <2>2. db[r] # Absent => UnderPair(pass, db[r].text)
    BY <1>1 DEF RowsOfPass, Present
  <2>3. txn[r] # Absent => UnderPair(pass, txn[r].text)
    BY <1>1 DEF RowsOfPass
  <2>4. UnderPair(pass, db'[r].text)
    BY <1>3, <2>1, <2>2, <2>3 DEF Present
  <2> QED
    BY <1>1, <2>4 DEF UnderPair
<1>4. ASSUME NEW r \in Row, txn'[r] # Absent PROVE UnderPair(pass, txn[r].text)'
  <2>1. ASSUME NEW q \in Row, UpdateRow(q) PROVE UnderPair(pass, txn[r].text)'
    <3>1. PICK n \in Nonce :
            txn' = [txn EXCEPT ![q] =
                      [text        |-> Reencrypted(todo[q].text, n),
                       update_time |-> db[q].update_time]]
      BY <2>1 DEF UpdateRow
    <3>2. UnderPair(pass, Reencrypted(todo[q].text, n))
      <4>1. pass.new.id \in Registry /\ pass.new.id = pass.old.id
        BY <1>1 DEF RowsOfPass
      <4> QED
        BY <4>1 DEF UnderPair, Reencrypted, BuildEnvelope, Encrypt, Parses
    <3>3. CASE r = q
      <4>1. txn'[r].text = Reencrypted(todo[q].text, n)
        BY <3>1, <3>3 DEF WindowTypeOK, TypeOK, DbType
      <4> QED
        BY <1>1, <3>2, <4>1 DEF UnderPair
    <3>4. CASE r # q
      <4>1. txn'[r] = txn[r]
        BY <3>1, <3>4 DEF WindowTypeOK, TypeOK, DbType
      <4>2. UnderPair(pass, txn'[r].text)
        BY <1>1, <1>4, <4>1 DEF RowsOfPass
      <4> QED
        BY <1>1, <4>2 DEF UnderPair
    <3> QED
      BY <3>3, <3>4
  <2>2. CASE ~\E q \in Row : UpdateRow(q)
    <3>1. txn' = txn
      BY <1>4, <2>2, RotatorFrame DEF Rotate, NoRows
    <3>2. UnderPair(pass, txn'[r].text)
      BY <1>1, <1>4, <3>1 DEF RowsOfPass
    <3> QED
      BY <1>1, <3>2 DEF UnderPair
  <2> QED
    BY <2>1, <2>2
<1> QED
  BY <1>1, <1>3, <1>4 DEF Stopped, OnlyCurrent, RowsOfCurrent, RowsOfPass

(* A service's commit leaves rows its own backend reads.                   *)
LEMMA CommitReadable ==
  ASSUME WindowTypeOK, WindowInv, ServiceCommit
  PROVE  /\ phase = "open"
         /\ UNCHANGED <<running, pc>>
         /\ \A s \in Session : handle'[s] \in {handle[s], Idle}
         /\ \A r \in Row : Present(r)' => Readable(Sole(current), db'[r].text)
<1> USE DEF WindowInv, WindowTypeOK
<1>1. ASSUME NEW s \in Session, handle[s] # Idle
      PROVE  phase = "open" /\ handle[s].by = Sole(current)
  BY <1>1 DEF OnlyCurrent, TypeOK
<1>2. ASSUME phase = "open", NEW r, NEW v, NEW n, NEW t
      PROVE  Readable(Sole(current), SealedRow(r, Sole(current).primary, v, n, t).text)
  <2>1. current.id \in Registry
    BY <1>2 DEF RowsOfCurrent
  <2> DEFINE x == SealedRow(r, Sole(current).primary, v, n, t).text
  <2>2. Parses(x) /\ x.id = current.id /\ x.ct.by = current
    BY <2>1 DEF SealedRow, Seal, BuildEnvelope, Encrypt, Parses, Sole
  <2> QED
    BY <2>2, SoleReadable
<1>3. ASSUME NEW s \in Session, CommitAppend(s)
      PROVE  /\ phase = "open"
             /\ \A r \in Row : Present(r)' => Readable(Sole(current), db'[r].text)
  <2>1. handle[s] # Idle /\ Present(s)
    BY <1>3 DEF CommitAppend, Idle
  <2>2. PICK written \in SUBSET StateRows(s), e \in EventsOf(s),
             v \in Value, n \in Nonce, t \in Time :
          WriteAppend(s, written, e, v, n, t)
    BY <1>3 DEF CommitAppend
  <2>3. phase = "open" /\ handle[s].by = Sole(current)
    BY <1>1, <2>1
  <2>4. ASSUME NEW r \in Row, Present(r)' PROVE Readable(Sole(current), db'[r].text)
    <3>1. CASE r \in written \cup {e}
      BY <1>2, <2>2, <2>3, <3>1 DEF WriteAppend
    <3>2. CASE r \notin written \cup {e} /\ r = s
      <4>1. db'[r].text = db[s].text
        BY <2>2, <3>2 DEF WriteAppend
      <4> QED
        BY <2>1, <2>3, <3>2, <4>1 DEF RowsOfCurrent
    <3>3. CASE r \notin written \cup {e} /\ r # s
      BY <2>2, <2>3, <2>4, <3>3 DEF WriteAppend, RowsOfCurrent, Present
    <3> QED
      BY <3>1, <3>2, <3>3
  <2> QED
    BY <2>3, <2>4
<1>4. ASSUME NEW s \in Session, CommitCreate(s)
      PROVE  /\ phase = "open"
             /\ \A r \in Row : Present(r)' => Readable(Sole(current), db'[r].text)
  <2>1. handle[s] # Idle
    BY <1>4 DEF CommitCreate, Idle
  <2>2. PICK rewritten \in SUBSET StateRows(s), v \in Value, n \in Nonce,
             t \in Time :
          WriteCreate(s, rewritten \cup handle[s].fresh, v, n, t)
    BY <1>4 DEF CommitCreate
  <2>3. phase = "open" /\ handle[s].by = Sole(current)
    BY <1>1, <2>1
  <2> QED
    BY <1>2, <2>2, <2>3 DEF WriteCreate, RowsOfCurrent, Present
<1>5. ASSUME NEW s \in Session, DeleteSession(s)
      PROVE  /\ phase = "open"
             /\ \A r \in Row : Present(r)' => Readable(Sole(current), db'[r].text)
  BY <1>5 DEF DeleteSession, OnlyCurrent, RowsOfCurrent, Present, TypeOK
<1>6. UNCHANGED <<running, pc>> /\ \A s \in Session : handle'[s] \in {handle[s], Idle}
  BY DEF ServiceCommit, CommitAppend, CommitCreate, DeleteSession, TypeOK,
         rotatorVars
<1> QED
  BY <1>3, <1>4, <1>5, <1>6 DEF ServiceCommit

(* A step of a service or of its process keeps the invariant.              *)
LEMMA InvServe ==
  ASSUME WindowTypeOK, WindowInv, Serve
  PROVE  WindowInv'
<1> USE DEF WindowInv, WindowTypeOK
<1>1. phase' = phase /\ current' = current
  BY DEF Serve
<1>2. CASE ServiceCommit
  BY <1>1, <1>2, CommitReadable
  DEF Stopped, Active, OnlyCurrent, RowsOfCurrent, RowsOfPass
<1>3. ASSUME UNCHANGED <<db, pc, pass, txn, dirty>>
      PROVE  Stopped' /\ RowsOfCurrent' /\ RowsOfPass'
  BY <1>1, <1>3 DEF Stopped, Active, RowsOfCurrent, RowsOfPass, Present
<1>4. CASE phase = "open" /\ \E c \in Configs \cap {Sole(current)} : StartService(c)
  BY <1>1, <1>3, <1>4 DEF StartService, OnlyCurrent, rotatorVars, historyVars
<1>5. ASSUME NEW c \in running, StopService(c) PROVE WindowInv'
  <2>1. running' = running \ {c}
    BY <1>5 DEF StopService
  <2>2. \A s \in Session :
          handle'[s] = IF handle[s] # Idle /\ handle[s].by = c THEN Idle ELSE handle[s]
    BY <1>5 DEF StopService
  <2>3. OnlyCurrent'
    BY <1>1, <2>1, <2>2 DEF OnlyCurrent
  <2> QED
    BY <1>3, <1>5, <2>3 DEF StopService, rotatorVars, historyVars
<1>6. CASE ServiceLoad
  <2>1. PICK s \in Session, c \in Configs : LoadAppend(s, c) \/ LoadCreate(s, c)
    BY <1>6 DEF ServiceLoad
  <2>2. /\ c \in running /\ running' = running
        /\ handle'[s].by = c
        /\ \A q \in Session : q # s => handle'[q] = handle[q]
    BY <2>1 DEF LoadAppend, LoadCreate, TypeOK
  <2>3. OnlyCurrent'
    BY <1>1, <2>2 DEF OnlyCurrent
  <2> QED
    BY <1>3, <2>1, <2>3 DEF LoadAppend, LoadCreate, rotatorVars, historyVars
<1>7. ASSUME NEW s \in Session, AbortOperation(s) PROVE WindowInv'
  <2>1. /\ running' = running
        /\ \A q \in Session : handle'[q] \in {handle[q], Idle}
    BY <1>7 DEF AbortOperation, TypeOK
  <2>2. OnlyCurrent'
    BY <1>1, <2>1 DEF OnlyCurrent
  <2> QED
    BY <1>3, <1>7, <2>2 DEF AbortOperation, rotatorVars, historyVars
<1> QED
  BY <1>2, <1>4, <1>5, <1>6, <1>7 DEF Serve

(* Stopping the services and starting a pass keep the invariant.           *)
LEMMA InvClose ==
  ASSUME WindowTypeOK, WindowInv, IInv, Close \/ \E p \in Passes : RunPass(p)
  PROVE  WindowInv'
<1> USE DEF WindowInv, WindowTypeOK
<1>1. CASE Close
  BY <1>1 DEF Close, vars, Stopped, Active, OnlyCurrent, RowsOfCurrent, RowsOfPass,
              Present
<1>2. ASSUME NEW p \in Passes, RunPass(p) PROVE WindowInv'
  <2>1. /\ phase' = "rotating" /\ pass' = p /\ dirty' = {}
        /\ UNCHANGED <<db, running, handle, txn>>
    BY <1>2 DEF RunPass, BeginPass
  <2>2. OnlyCurrent'
    BY <1>2, <2>1 DEF RunPass, OnlyCurrent
  <2>3. p.old.id = p.new.id /\ p.old \in Backend
    BY WindowAssumption, RotationAssumption DEF Pass
  <2>4. \A r \in Row : txn[r] = Absent
    BY <1>2 DEF RunPass, BeginPass, Active, IInv, PlaceInv, InLoop
  <2>5. CASE phase = "closed" /\ p.old = current
    <3>1. \A r \in Row : Present(r) => UnderPair(p, db[r].text)
      BY <2>3, <2>5, SoleReadable DEF RowsOfCurrent, UnderPair
    <3>2. p.new.id \in Registry
      BY <2>3, <2>5 DEF RowsOfCurrent
    <3>3. RowsOfPass'
      BY <2>1, <2>3, <2>4, <3>1, <3>2 DEF RowsOfPass, Present
    <3> QED
      BY <2>1, <2>2, <3>3 DEF Stopped, RowsOfCurrent
  <2>6. CASE phase = "rotating" /\ {p.old, p.new} = {pass.old, pass.new}
    <3>1. \A t : UnderPair(pass, t) => UnderPair(p, t)
      BY <2>3, <2>6 DEF UnderPair, RowsOfPass
    <3>2. p.new.id \in Registry
      BY <2>3, <2>6 DEF RowsOfPass
    <3>3. RowsOfPass'
      BY <2>1, <2>3, <2>4, <2>6, <3>1, <3>2 DEF RowsOfPass, Present
    <3> QED
      BY <2>1, <2>2, <3>3 DEF Stopped, RowsOfCurrent
  <2> QED
    BY <1>2, <2>5, <2>6 DEF RunPass
<1> QED
  BY <1>1, <1>2

(* When a pass returned, its account of the rows says that a service with   *)
(* the new backend alone reads them all.                                   *)
LEMMA InvReopen ==
  ASSUME WindowTypeOK, WindowInv, IInv, AccountInv, Reopen
  PROVE  WindowInv'
<1> USE DEF WindowInv, WindowTypeOK
<1>1. /\ phase = "rotating" /\ pc = "done" /\ phase' = "open"
      /\ current' = pass.new /\ UNCHANGED vars
  BY DEF Reopen
<1>2. pass.new \in Backend /\ pass.new.id \in Registry
  BY <1>1, RotationAssumption DEF TypeOK, Pass, RowsOfPass
<1>3. ASSUME NEW r \in Row, Present(r) PROVE Readable(Sole(pass.new), db[r].text)
  <2>1. ~Old(db[r].text)
    <3>1. r \notin dirty /\ Seen(r)
      BY <1>1 DEF RowsOfPass, Seen
    <3>2. RowAccounted(r)
      BY <3>1 DEF AccountInv
    <3>3. todo[r] = Absent /\ txn[r] = Absent
      BY <1>1 DEF IInv, PlaceInv, InLoop
    <3> QED
      BY <1>3, <3>2, <3>3 DEF RowAccounted, Settled
  <2>2. UnderPair(pass, db[r].text) /\ pass.old.id = pass.new.id
    BY <1>1, <1>3 DEF RowsOfPass
  <2>3. \/ db[r].text = NullText
        \/ /\ Parses(db[r].text)
           /\ db[r].text.id = pass.new.id
           /\ db[r].text.ct.by = pass.new
    BY <2>1, <2>2 DEF UnderPair, Old, Opens
  <2> QED
    BY <1>2, <2>3, SoleReadable
<1>4. RowsOfCurrent'
  BY <1>1, <1>2, <1>3 DEF RowsOfCurrent, Present, vars
<1>5. OnlyCurrent'
  BY <1>1 DEF OnlyCurrent, vars
<1> QED
  BY <1>1, <1>4, <1>5 DEF Stopped, Active, RowsOfPass, vars

(* No step of a window disturbs the invariant.                             *)
LEMMA WindowInvStep ==
  ASSUME WindowTypeOK, WindowInv, IInv, AccountInv, [WindowNext]_windowVars
  PROVE  WindowInv'
<1>1. CASE UNCHANGED windowVars
  BY <1>1 DEF windowVars, vars, WindowInv, Stopped, Active, OnlyCurrent,
              RowsOfCurrent, RowsOfPass, Present
<1> QED
  BY <1>1, InvServe, InvRotate, InvClose, InvReopen DEF WindowNext

(* The invariant of the windows.                                           *)
THEOREM WindowInvariant == WindowSpec => []WindowInv
<1>1. WindowInit => WindowInv
  BY WindowAssumption
  DEF WindowInit, Init, WindowInv, Stopped, Active, OnlyCurrent, RowsOfCurrent,
      RowsOfPass, Present
<1> QED
  BY <1>1, WindowTypes, WindowIsRotation, Invariant, Accounting, WindowInvStep, PTL
  DEF WindowSpec

(* In every maintenance window, however passes ended in it and however      *)
(* often they were tried, the services that run afterwards read every row.  *)
THEOREM WindowsReadable == WindowSpec => []WindowReadable
<1>1. WindowTypeOK /\ WindowInv => WindowReadable
  BY DEF WindowTypeOK, TypeOK, WindowInv, Stopped, OnlyCurrent, RowsOfCurrent,
         WindowReadable
<1> QED
  BY <1>1, WindowTypes, WindowInvariant, PTL

-----------------------------------------------------------------------------
(* The tables of a window.                                                 *)

(* Outside the passes every row is under the one backend of the services.   *)
LEMMA CurrentUniform ==
  ASSUME WindowTypeOK, WindowInv, phase # "rotating"
  PROVE  TableUniform
BY SoleReadable DEF WindowTypeOK, WindowInv, RowsOfCurrent, TableUniform,
                    Parses, NullText

(* In a pass of a window nobody but the rotator writes, and the headers,    *)
(* which cannot tell its two backends apart, are true of both.             *)
LEMMA PassMaintains ==
  ASSUME WindowTypeOK, WindowInv, phase = "rotating", TableUniform
  PROVE  MaintenanceInv
BY DEF WindowInv, RowsOfPass, MaintenanceInv, HonestHeader, UnderPair, Parses,
       NullText

(* No step of a window leaves a table half rotated.                        *)
LEMMA UniformStep ==
  ASSUME WindowTypeOK, WindowInv, IInv, AccountInv, TableUniform,
         [WindowNext]_windowVars
  PROVE  TableUniform'
<1>1. WindowTypeOK' /\ WindowInv'
  BY WindowTypeStep, WindowInvStep
<1>2. CASE phase' # "rotating"
  <2>1. WindowTypeOK' /\ WindowInv' /\ (phase # "rotating")' => TableUniform'
    BY SoleReadable
    DEF WindowTypeOK, WindowInv, RowsOfCurrent, TableUniform, Parses, NullText
  <2> QED
    BY <1>1, <1>2, <2>1
<1>3. CASE phase' = "rotating" /\ Rotate
  <2>1. phase = "rotating"
    BY <1>3 DEF Rotate
  <2>2. MaintenanceInv'
    BY <1>3, <2>1, PassMaintains, RotatorUniform DEF Rotate
  <2> QED
    BY <2>2 DEF MaintenanceInv
<1>4. CASE phase' = "rotating" /\ ~Rotate
  <2>1. db' = db
    <3>1. ASSUME Serve PROVE db' = db
      <4>1. phase # "open"
        BY <1>4, <3>1 DEF Serve
      <4>2. ~ServiceCommit
        BY <4>1, CommitReadable
      <4> QED
        BY <3>1, <4>2 DEF Serve, StartService, StopService, ServiceLoad,
                          LoadAppend, LoadCreate, AbortOperation
    <3> QED
      BY <1>4, <3>1 DEF WindowNext, windowVars, vars, Close, RunPass,
                        BeginPass, Reopen
  <2> QED
    BY <2>1 DEF TableUniform, Present
<1> QED
  BY <1>2, <1>3, <1>4

(* Window after window, with services that write between the passes and    *)
(* passes that raise or die, each table is under one backend as a whole.   *)
THEOREM WindowsUniform == WindowSpec => []TableUniform
<1>1. WindowTypeOK /\ WindowInv /\ WindowInit => TableUniform
  BY CurrentUniform DEF WindowInit
<1> QED
  BY <1>1, UniformStep, WindowTypes, WindowIsRotation, Invariant, Accounting,
     WindowInvariant, PTL
  DEF WindowSpec
=============================================================================
