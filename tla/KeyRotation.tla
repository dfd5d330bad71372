---------------------------- MODULE KeyRotation ----------------------------
(***************************************************************************)
(* rotate_encryption_keys() (rotation.py) running against the four tables  *)
(* while session services read and write them.                             *)
(*                                                                         *)
(* A pass takes the tables in order, each in a transaction of its own:     *)
(* SELECT every row; re-encrypt the rows of the old backend one by one,    *)
(* each with an UPDATE that only hits a row still as it was SELECTed;      *)
(* commit.  Between any two of these steps a service may load, commit or   *)
(* delete, the rotator may die, and services may start and stop.  The      *)
(* service's CRUD is google-adk's: it is modelled from how                 *)
(* encrypted_session.py and models.py plug into it.                        *)
(*                                                                         *)
(* Choices:                                                                *)
(*   - update_time is an arbitrary member of Time at every write: func.now *)
(*     has whole seconds on SQLite and the clocks of several hosts and     *)
(*     caller-supplied event timestamps need not be monotonic.             *)
(*   - A nonce is arbitrary too: nothing below relies on its freshness.    *)
(*   - The rows of a pass are taken in any order: SELECT has no ORDER BY.  *)
(*   - A row the rotator has updated is locked until it commits or rolls   *)
(*     back.  (SQLite locks the whole file: fewer behaviours.)             *)
(*   - One commit of a service writes one value, nonce and time in all the *)
(*     rows it touches: every property here is about one row at a time.    *)
(***************************************************************************)
EXTENDS Envelope

CONSTANTS
  Row,        \* primary keys of rows of the four tables
  TableOf,    \* TableOf[r] \in 1..4, the position of its table in _TABLE_SPECS
  Scope,      \* Scope[s]: session row s, its app and user state, its events
  Time,       \* values of update_time
  NoTime,     \* the update_time of the events table, which has none
  Absent,     \* not a stored row: there is none with that primary key
  InitialDb,  \* the databases a history may start from
  Passes,     \* the rotations an operator may run: [old, new] backends
  Configs     \* the configurations services may run with

(* sessions, app_states, user_states, events: _TABLE_SPECS, in order.       *)
SESSIONS == 1
EVENTS   == 4

TableRows(t) == {r \in Row : TableOf[r] = t}
Session == TableRows(SESSIONS)
Event   == TableRows(EVENTS)

HasUpdateTime(r) == TableOf[r] # EVENTS

Stored == [text : Text, update_time : Time \cup {NoTime}]

DbType == [Row -> Stored \cup {Absent}]

Pass == [old : Backend, new : Backend]

ASSUME RotationAssumption ==
  /\ TableOf \in [Row -> 1..4]
  /\ Scope \in [Session -> SUBSET Row]
  /\ \A s \in Session : s \in Scope[s] /\ Scope[s] \cap Session = {s}
  /\ Absent \notin Stored \cup Contents
  /\ InitialDb \subseteq DbType
  /\ Passes \subseteq Pass
  /\ \A p \in Passes : p.old # p.new
  /\ Configs \subseteq Config

VARIABLES
  db,       \* the committed rows
  running,  \* the configurations of the services that are up
  handle,   \* handle[s]: the operation on session s between load and commit
  pc,       \* where the rotator is
  pass,     \* the rotation it runs, or ran last
  tbl,      \* the table it is at
  todo,     \* the SELECTed rows of that table it has not handled yet
  txn,      \* the rows its open transaction has updated
  rotated,  \* the rows the pass counted as rotated,
  skipped,  \*   and as skipped (the code keeps the two cardinalities)
  dirty,    \* history: rows a service wrote since the pass SELECTed their table
  rerun     \* history: the pass repeats one that reported skipped rows

serviceVars == <<running, handle>>
rotatorVars == <<pc, pass, tbl, todo, txn, rotated, skipped>>
historyVars == <<dirty, rerun>>
vars == <<db, running, handle, pc, pass, tbl, todo, txn, rotated, skipped,
          dirty, rerun>>

NoRows == [r \in Row |-> Absent]

Idle == [op |-> "idle"]

Handle ==
  {Idle} \cup [op : {"append", "create"}, by : Configs, fresh : SUBSET Row]

(* Every variable has its type.                                            *)
TypeOK ==
  /\ db \in DbType
  /\ running \subseteq Configs
  /\ handle \in [Session -> Handle]
  /\ pc \in {"idle", "select", "row", "done", "failed", "crashed"}
  /\ pass \in Passes
  /\ tbl \in 1..4
  /\ todo \in DbType
  /\ txn \in DbType
  /\ rotated \subseteq Row
  /\ skipped \subseteq Row
  /\ dirty \subseteq Row
  /\ rerun \in BOOLEAN

Init ==
  /\ db \in InitialDb
  /\ running = {}
  /\ handle = [s \in Session |-> Idle]
  /\ pc = "idle"
  /\ pass \in Passes
  /\ tbl = 1
  /\ todo = NoRows
  /\ txn = NoRows
  /\ rotated = {}
  /\ skipped = {}
  /\ dirty = {}
  /\ rerun = FALSE

-----------------------------------------------------------------------------
(* The rotator.                                                            *)

Active == pc \in {"select", "row"}

(* Mutant of BeginPass: a pass resumes at the table the last one ended at.  *)
BeginPassResumes(p) ==
  /\ ~Active
  /\ pc' = "select"
  /\ pass' = p
  /\ rotated' = {}
  /\ skipped' = {}
  /\ dirty' = {}
  /\ rerun' = (pc = "done" /\ skipped # {} /\ p = pass)
  /\ UNCHANGED <<db, running, handle, tbl, todo, txn>>

(* rotate_encryption_keys(db_url, p.old, p.new) is called.                  *)
BeginPass(p) ==
  /\ ~Active
  /\ pc' = "select"
  /\ pass' = p
  /\ tbl' = 1
  /\ rotated' = {}
  /\ skipped' = {}
  /\ dirty' = {}
  /\ rerun' = (pc = "done" /\ skipped # {} /\ p = pass)
  /\ UNCHANGED <<db, running, handle, todo, txn>>

(* engine.begin(); SELECT ... FROM table; fetchall().                       *)
SelectTable ==
  /\ pc = "select"
  /\ pc' = "row"
  /\ todo' = [r \in Row |-> IF TableOf[r] = tbl THEN db[r] ELSE Absent]
  /\ UNCHANGED <<db, running, handle, pass, tbl, txn, rotated, skipped,
                 dirty, rerun>>

Pending(r) == pc = "row" /\ todo[r] # Absent

Handled(r) == todo' = [todo EXCEPT ![r] = Absent]

(* Mutant of PassOver: the rows passed over are counted as skipped.         *)
PassOverCounts(r) ==
  /\ Pending(r)
  /\ LET t == todo[r].text
     IN  t = NullText \/ (Parses(t) /\ t.id # pass.old.id)
  /\ skipped' = skipped \cup {r}
  /\ Handled(r)
  /\ UNCHANGED <<db, running, handle, pc, pass, tbl, txn, rotated, dirty,
                 rerun>>

(* Mutant of PassOver: the id is compared with that of the new backend.     *)
PassOverNew(r) ==
  /\ Pending(r)
  /\ LET t == todo[r].text
     IN  t = NullText \/ (Parses(t) /\ t.id # pass.new.id)
  /\ Handled(r)
  /\ UNCHANGED <<db, running, handle, pc, pass, tbl, txn, rotated, skipped,
                 dirty, rerun>>

(* A NULL column, or an envelope of another backend: continue.             *)
PassOver(r) ==
  /\ Pending(r)
  /\ LET t == todo[r].text
     IN  t = NullText \/ (Parses(t) /\ t.id # pass.old.id)
  /\ Handled(r)
  /\ UNCHANGED <<db, running, handle, pc, pass, tbl, txn, rotated, skipped,
                 dirty, rerun>>

(* The exception leaves engine.begin(), which rolls the table back, and the *)
(* function, which loses its counts.  Tables committed before stay so.      *)
Abandon(state) ==
  /\ pc' = state
  /\ todo' = NoRows
  /\ txn' = NoRows
  /\ rotated' = {}
  /\ skipped' = {}
  /\ dirty' = {}

(* Mutant of FailRow: rows of another backend are not passed over first.    *)
FailRowUnfiltered(r) ==
  /\ Pending(r)
  /\ LET t == todo[r].text
     IN  t # NullText /\ (Parses(t) => ~Opens(pass.old, t.ct))
  /\ Abandon("failed")
  /\ UNCHANGED <<db, running, handle, pass, tbl, rerun>>

(* The row cannot be decoded, or not decrypted with the old backend.        *)
FailRow(r) ==
  /\ Pending(r)
  /\ LET t == todo[r].text
     IN  /\ t # NullText
         /\ Parses(t) => t.id = pass.old.id /\ ~Opens(pass.old, t.ct)
  /\ Abandon("failed")
  /\ UNCHANGED <<db, running, handle, pass, tbl, rerun>>

(* The row belongs to the old backend and opens under it.                  *)
Old(t) == Parses(t) /\ t.id = pass.old.id /\ Opens(pass.old, t.ct)

(* Mutant of Reencrypted: the envelope keeps the id it had.                 *)
ReencryptedOldId(t, n) ==
  BuildEnvelope(ENVELOPE_VERSION_1, t.id, Encrypt(pass.new, t.ct.plain, n))

(* _sync_reencrypt and the new envelope.                                   *)
Reencrypted(t, n) ==
  BuildEnvelope(ENVELOPE_VERSION_1, pass.new.id,
                Encrypt(pass.new, t.ct.plain, n))

(* Mutant of UpdateHits: update_time alone guards the UPDATE.               *)
UpdateHitsTimeOnly(r) ==
  /\ db[r] # Absent
  /\ HasUpdateTime(r) => db[r].update_time = todo[r].update_time

(* The WHERE clause of the UPDATE hits: the row is as it was SELECTed.      *)
UpdateHits(r) ==
  /\ db[r] # Absent
  /\ db[r].text = todo[r].text
  /\ HasUpdateTime(r) => db[r].update_time = todo[r].update_time

(* Mutant of UpdateRow: every UPDATE commits by itself.                     *)
UpdateRowAutocommits(r) ==
  /\ Pending(r)
  /\ Old(todo[r].text)
  /\ UpdateHits(r)
  /\ \E n \in Nonce : db' = [db EXCEPT ![r].text = Reencrypted(todo[r].text, n)]
  /\ rotated' = rotated \cup {r}
  /\ Handled(r)
  /\ UNCHANGED <<running, handle, pc, pass, tbl, txn, skipped, dirty, rerun>>

(* The UPDATE hits: the row is counted, locked, and changed at the commit.  *)
UpdateRow(r) ==
  /\ Pending(r)
  /\ Old(todo[r].text)
  /\ UpdateHits(r)
  /\ \E n \in Nonce :
       txn' = [txn EXCEPT ![r] =
                 [text        |-> Reencrypted(todo[r].text, n),
                  update_time |-> db[r].update_time]]
  /\ rotated' = rotated \cup {r}
  /\ Handled(r)
  /\ UNCHANGED <<db, running, handle, pc, pass, tbl, skipped, dirty, rerun>>

(* Mutant of MissRow: the UPDATE is tried again, with the row as SELECTed.  *)
MissRowRetries(r) ==
  /\ Pending(r)
  /\ Old(todo[r].text)
  /\ ~UpdateHits(r)
  /\ skipped' = IF HasUpdateTime(r) THEN skipped \cup {r} ELSE skipped
  /\ UNCHANGED <<db, running, handle, pc, pass, tbl, todo, txn, rotated, dirty,
                 rerun>>

(* No row affected: counted, unless the table is events.                    *)
MissRow(r) ==
  /\ Pending(r)
  /\ Old(todo[r].text)
  /\ ~UpdateHits(r)
  /\ skipped' = IF HasUpdateTime(r) THEN skipped \cup {r} ELSE skipped
  /\ Handled(r)
  /\ UNCHANGED <<db, running, handle, pc, pass, tbl, txn, rotated, dirty,
                 rerun>>

(* Mutant of CommitTable: the connection is closed without a commit.        *)
CommitTableForgets ==
  /\ pc = "row"
  /\ todo = NoRows
  /\ txn' = NoRows
  /\ IF tbl = EVENTS
     THEN pc' = "done" /\ tbl' = tbl
     ELSE pc' = "select" /\ tbl' = tbl + 1
  /\ UNCHANGED <<db, running, handle, pass, todo, rotated, skipped, dirty, rerun>>

(* Mutant of CommitTable: the list of tables ends one later.                *)
CommitTableTooFar ==
  /\ pc = "row"
  /\ todo = NoRows
  /\ db' = [r \in Row |-> IF txn[r] # Absent THEN txn[r] ELSE db[r]]
  /\ txn' = NoRows
  /\ IF tbl > EVENTS
     THEN pc' = "done" /\ tbl' = tbl
     ELSE pc' = "select" /\ tbl' = tbl + 1
  /\ UNCHANGED <<running, handle, pass, todo, rotated, skipped, dirty, rerun>>

(* The loop over the rows ends: commit, then the next table or return.      *)
CommitTable ==
  /\ pc = "row"
  /\ todo = NoRows
  /\ db' = [r \in Row |-> IF txn[r] # Absent THEN txn[r] ELSE db[r]]
  /\ txn' = NoRows
  /\ IF tbl = EVENTS
     THEN pc' = "done" /\ tbl' = tbl
     ELSE pc' = "select" /\ tbl' = tbl + 1
  /\ UNCHANGED <<running, handle, pass, todo, rotated, skipped, dirty, rerun>>

(* The rotator's process or its connection dies; the database rolls back.   *)
Crash ==
  /\ Active
  /\ Abandon("crashed")
  /\ UNCHANGED <<db, running, handle, pass, tbl, rerun>>

RotateRow(r) == PassOver(r) \/ FailRow(r) \/ UpdateRow(r) \/ MissRow(r)

RotatorStep == SelectTable \/ CommitTable \/ \E r \in Row : RotateRow(r)

-----------------------------------------------------------------------------
(* The session services.                                                   *)

Present(r) == db[r] # Absent

StateRows(s) == Scope[s] \ Event

EventsOf(s) == Scope[s] \cap Event

(* The pass has SELECTed the table of r.                                    *)
Seen(r) ==
  \/ pc = "done"
  \/ pc \in {"select", "row"} /\ TableOf[r] < tbl
  \/ pc = "row" /\ TableOf[r] = tbl

Touch(rows) == dirty' = dirty \cup {r \in rows : Seen(r)}

Unlocked(rows) == \A r \in rows : txn[r] = Absent

SealedRow(r, b, v, n, t) ==
  [text |-> Seal(b, v, n), update_time |-> IF HasUpdateTime(r) THEN t ELSE NoTime]

StartService(c) ==
  /\ c \notin running
  /\ running' = running \cup {c}
  /\ UNCHANGED <<db, handle, rotatorVars, historyVars>>

(* The process ends, and every operation in it.                            *)
StopService(c) ==
  /\ c \in running
  /\ running' = running \ {c}
  /\ handle' = [s \in Session |->
                  IF handle[s] # Idle /\ handle[s].by = c THEN Idle ELSE handle[s]]
  /\ UNCHANGED <<db, rotatorVars, historyVars>>

Loadable(c, rows) == \A r \in rows : Present(r) => Readable(c, db[r].text)

(* append_event reads the session row and both state rows, or raises.       *)
LoadAppend(s, c) ==
  /\ c \in running
  /\ handle[s] = Idle
  /\ \A r \in StateRows(s) : Present(r)
  /\ Loadable(c, StateRows(s))
  /\ handle' = [handle EXCEPT ![s] = [op |-> "append", by |-> c, fresh |-> {}]]
  /\ UNCHANGED <<db, running, rotatorVars, historyVars>>

(* It stores the event and the session's update_time, and each state the    *)
(* event changed.  The rows are addressed by primary key alone.             *)
WriteAppend(s, written, e, v, n, t) ==
  /\ ~Present(e)
  /\ Unlocked(written \cup {s})
  /\ db' = [r \in Row |->
              IF r \in written \cup {e}
              THEN SealedRow(r, handle[s].by.primary, v, n, t)
              ELSE IF r = s THEN [text |-> db[s].text, update_time |-> t]
              ELSE db[r]]
  /\ Touch(written \cup {s, e})

CommitAppend(s) ==
  /\ handle[s].op = "append"
  /\ Present(s)
  /\ \E written \in SUBSET StateRows(s), e \in EventsOf(s),
        v \in Value, n \in Nonce, t \in Time :
       WriteAppend(s, written, e, v, n, t)
  /\ handle' = [handle EXCEPT ![s] = Idle]
  /\ UNCHANGED <<running, rotatorVars, rerun>>

(* create_session finds no such session and reads the state rows there are. *)
LoadCreate(s, c) ==
  /\ c \in running
  /\ handle[s] = Idle
  /\ ~Present(s)
  /\ Loadable(c, StateRows(s))
  /\ handle' = [handle EXCEPT ![s] =
                  [op |-> "create", by |-> c,
                   fresh |-> {r \in StateRows(s) : ~Present(r)}]]
  /\ UNCHANGED <<db, running, rotatorVars, historyVars>>

(* It inserts the rows it did not find, and rewrites some it did.  A row    *)
(* inserted meanwhile by another makes the commit fail: AbortOperation.     *)
WriteCreate(s, written, v, n, t) ==
  /\ Unlocked(written)
  /\ db' = [r \in Row |-> IF r \in written
                          THEN SealedRow(r, handle[s].by.primary, v, n, t)
                          ELSE db[r]]
  /\ Touch(written)

CommitCreate(s) ==
  /\ handle[s].op = "create"
  /\ \A r \in handle[s].fresh : ~Present(r)
  /\ \E rewritten \in SUBSET StateRows(s), v \in Value, n \in Nonce, t \in Time :
       WriteCreate(s, rewritten \cup handle[s].fresh, v, n, t)
  /\ handle' = [handle EXCEPT ![s] = Idle]
  /\ UNCHANGED <<running, rotatorVars, rerun>>

(* An error, a cancellation or a conflict ends the operation.              *)
AbortOperation(s) ==
  /\ handle[s] # Idle
  /\ handle' = [handle EXCEPT ![s] = Idle]
  /\ UNCHANGED <<db, running, rotatorVars, historyVars>>

(* delete_session: one statement, which the foreign key of the events       *)
(* cascades.  A row locked by the rotator makes it wait.                    *)
DeleteSession(s) ==
  LET rows == {s} \cup EventsOf(s)
  IN  /\ running # {}
      /\ Present(s)
      /\ Unlocked(rows)
      /\ db' = [r \in Row |-> IF r \in rows THEN Absent ELSE db[r]]
      /\ Touch({r \in rows : Present(r)})
      /\ UNCHANGED <<running, handle, rotatorVars, rerun>>

ServiceCommit ==
  \E s \in Session : CommitAppend(s) \/ CommitCreate(s) \/ DeleteSession(s)

ServiceLoad ==
  \E s \in Session, c \in Configs : LoadAppend(s, c) \/ LoadCreate(s, c)

-----------------------------------------------------------------------------
Next ==
  \/ \E p \in Passes : BeginPass(p)
  \/ RotatorStep
  \/ Crash
  \/ \E c \in Configs : StartService(c) \/ StopService(c)
  \/ ServiceLoad
  \/ ServiceCommit
  \/ \E s \in Session : AbortOperation(s)

Spec == Init /\ [][Next]_vars

(* A pass that was started is run: asyncio resumes it after every await.    *)
FairSpec == Spec /\ WF_vars(RotatorStep)

-----------------------------------------------------------------------------
(* Properties.                                                             *)

(* The abstract store that KeyRotation implements.                         *)
ContentOf(r) == IF db[r] = Absent THEN Absent ELSE Content(db[r].text)

Store == INSTANCE SessionStore WITH
  content <- [r \in Row |-> ContentOf(r)],
  open    <- {s \in Session : handle[s] # Idle}

(* No row is lost or reverted by a rotation: seen through its contents, the *)
(* database changes only by what the services commit, whatever the rotator  *)
(* does and wherever it dies between their loads and commits.  (rotation.py *)
(* guards every UPDATE with the SELECTed ciphertext for this.)             *)
ContentsPreserved == Store!Spec

(* A row is counted as skipped only if a service really wrote or deleted it *)
(* after the pass read it: "skipped due to concurrent writes".             *)
SkipMeansConflict == skipped \subseteq dirty

SealedBy(r, b) ==
  /\ Present(r)
  /\ db[r].text.kind = "envelope"
  /\ db[r].text.id = b.id
  /\ Opens(b, db[r].text.ct)

(* A pass that returned has accounted for every row: one no service wrote   *)
(* since it was read is off the old backend, and on the new one if counted. *)
ResultAccounts ==
  pc = "done" => \A r \in Row \ dirty :
    /\ Present(r) => ~Old(db[r].text)
    /\ r \in rotated => SealedBy(r, pass.new)

(* Path A as documented: every service knows the backends of every rotation *)
(* and of every other service, all registered, and can read what there is.  *)
PathA ==
  /\ \A c \in Configs, p \in Passes : {p.old, p.new} \subseteq Backends(c)
  /\ \A c, d \in Configs : c.primary \in Backends(d)
  /\ \A c \in Configs : \A b \in Backends(c) : b.id \in Registry
  /\ \A c \in Configs, x \in InitialDb, r \in Row :
       x[r] # Absent => Readable(c, x[r].text)

(* Rotating between backends of different ids while services that know both *)
(* keep running: no stored row is ever unreadable to one of them (the       *)
(* "zero downtime" of Path A, with a batch pass thrown in).                *)
AlwaysReadable ==
  \A c \in running, r \in Row : Present(r) => Readable(c, db[r].text)

(* Passes between different ids can be repeated at will, after success or   *)
(* after a crash: none ever meets a row it cannot decrypt.                 *)
CrossNeverFails == pass.old.id # pass.new.id => pc # "failed"

(* No service runs, and the database is one the services left: a header     *)
(* names the backend of its ciphertext, each table is under one backend.   *)
Maintenance ==
  /\ Configs = {}
  /\ \A x \in InitialDb, r \in Row :
       x[r] # Absent /\ Parses(x[r].text) => x[r].text.id = x[r].text.ct.by.id
  /\ \A x \in InitialDb, r1, r2 \in Row :
       /\ TableOf[r1] = TableOf[r2]
       /\ x[r1] # Absent /\ x[r2] # Absent
       /\ Parses(x[r1].text) /\ Parses(x[r2].text)
       => x[r1].text.ct.by = x[r2].text.ct.by

(* With the services stopped no table is ever left half rotated: whatever   *)
(* passes ran, failed or died, its rows all open under one backend.        *)
TableUniform ==
  \A r1, r2 \in Row :
    /\ TableOf[r1] = TableOf[r2]
    /\ Present(r1) /\ Present(r2)
    /\ Parses(db[r1].text) /\ Parses(db[r2].text)
    => db[r1].text.ct.by = db[r2].text.ct.by

(* A pass ends, by returning, raising or dying.                            *)
PassTerminates == (pc = "select") ~> ~Active

(* No stored row is left under the old backend.                            *)
NoOldRow == \A r \in Row : Present(r) => ~Old(db[r].text)

(* The operator runs pass after pass, and each is run.                     *)
OperatorSpec == FairSpec /\ WF_vars(\E p \in Passes : BeginPass(p))

(* Once the services stop writing and the rotator stops dying, an operator  *)
(* who repeats a pass between different ids gets every row off the old      *)
(* backend: the skipped rows are picked up.                                *)
RerunsConverge ==
  (<>[][~ServiceCommit]_vars /\ <>[][~Crash]_vars) => <>[]NoOldRow

(* What the documentation says of skipped rows; see README.md.             *)

(* "can be picked up by running rotate_encryption_keys again".             *)
RerunPicksUpSkipped == rerun => pc # "failed"
=============================================================================
