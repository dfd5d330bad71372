-------------------------- MODULE SessionRevisions --------------------------
(***************************************************************************)
(* Session objects in memory against their rows (services/models.py).      *)
(*                                                                         *)
(* to_session() stamps a Session object with the update marker of its row. *)
(* google-adk's append_event loads the row again, refuses the object if    *)
(* the marker moved on, merges the event's delta into the state dicts it   *)
(* loaded, in place, and commits them with the event.  The state of a row  *)
(* is one ciphertext, so a commit replaces all of it.                      *)
(*                                                                         *)
(* append_event is google-adk's: modelled from what the models provide for *)
(* it.  One step loads and checks, another commits; between them others    *)
(* may commit, the rotator may re-encrypt, processes may end.              *)
(*                                                                         *)
(* Data: the state of a row is the set of events whose delta it contains,  *)
(* what an object knows of its session is a set of events, and a marker is *)
(* the update_time it formats: on a naive column that is one to one        *)
(* (Timestamps.tla has the rest).                                          *)
(***************************************************************************)
CONSTANTS
  Session,    \* rows of sessions, all of one app
  App,        \* the row of app_states they share
  Process,    \* processes with an EncryptedSessionService
  Object,     \* Session objects those processes hold
  ObjectOf,   \* ObjectOf[o]: [session, process] of the object
  Event,      \* ids of events
  SessionOf,  \* SessionOf[e]: the session the event belongs to
  Delta,      \* Delta[e]: the rows its state delta changes
  Primary,    \* Primary[p]: the key the service of p encrypts with
  Time,       \* values of update_time
  RowLocks    \* append_event locks the rows it reads and will write

StateRow == Session \cup {App}

Key == {"old", "new"}

ASSUME RevisionsAssumption ==
  /\ App \notin Session
  /\ ObjectOf \in [Object -> [session : Session, process : Process]]
  /\ SessionOf \in [Event -> Session]
  /\ Delta \in [Event -> SUBSET StateRow]
  /\ \A e \in Event : Delta[e] \subseteq {SessionOf[e], App}
  /\ Primary \in [Process -> Key]
  /\ RowLocks \in BOOLEAN

VARIABLES
  merged,    \* merged[x]: the events whose delta is in the state of row x
  key,       \* key[x]: the key that state is encrypted under
  log,       \* the rows of events
  updated,   \* updated[s]: the update_time of session s
  object,    \* object[o]: the events it knows and its marker, or NoObject
  txn,       \* txn[o]: an append between load and commit, or Idle
  used,      \* history: used[s], the values updated[s] has had
  repeated   \* history: sessions whose update_time took an old value again

vars == <<merged, key, log, updated, object, txn, used, repeated>>

NoObject == [kind |-> "none"]

Idle == [kind |-> "idle"]

Objects == [kind : {"object"}, view : SUBSET Event, marker : Time]

Appends == [kind : {"append"}, event : Event, loaded : [StateRow -> SUBSET Event]]

(* Every variable has its type.                                            *)
TypeOK ==
  /\ merged \in [StateRow -> SUBSET Event]
  /\ key \in [StateRow -> Key]
  /\ log \subseteq Event
  /\ updated \in [Session -> Time]
  /\ object \in [Object -> Objects \cup {NoObject}]
  /\ txn \in [Object -> Appends \cup {Idle}]
  /\ used \in [Session -> SUBSET Time]
  /\ repeated \subseteq Session

(* Sessions that were just created, by a service with the old key.         *)
Init ==
  /\ merged = [x \in StateRow |-> {}]
  /\ key = [x \in StateRow |-> "old"]
  /\ log = {}
  /\ updated \in [Session -> Time]
  /\ object = [o \in Object |-> NoObject]
  /\ txn = [o \in Object |-> Idle]
  /\ used = [s \in Session |-> {updated[s]}]
  /\ repeated = {}

-----------------------------------------------------------------------------
SessionObj(o) == ObjectOf[o].session

ProcessObj(o) == ObjectOf[o].process

LogOf(s) == {e \in log : SessionOf[e] = s}

Open(o) == txn[o] # Idle

(* The rows an append of e writes.                                         *)
Writes(e) == {SessionOf[e]} \cup Delta[e]

(* No open append holds a lock on these rows.                              *)
Unlocked(rows) ==
  RowLocks => \A o \in Object : Open(o) => Writes(txn[o].event) \cap rows = {}

(* google-adk takes its lock of the session for the whole of append_event: *)
(* one append to a session at a time in one process.                       *)
Alone(o) ==
  \A q \in Object : ObjectOf[q] = ObjectOf[o] => ~Open(q)

(* Mutant of Marker: the format drops what tells two updates apart.         *)
MarkerCoarse(s) == CHOOSE t \in Time : TRUE

(* get_update_marker(): update_time, to the microsecond.                   *)
Marker(s) == updated[s]

(* Mutant of ToSession: the marker is not set.                             *)
ToSessionUnstamped(o) ==
  [kind |-> "object", view |-> LogOf(SessionObj(o)), marker |-> NoObject]

(* to_session(): the events there are, and the marker of the row.          *)
ToSession(o) ==
  [kind |-> "object", view |-> LogOf(SessionObj(o)), marker |-> Marker(SessionObj(o))]

(* get_session returns a fresh object.                                     *)
GetSession(o) ==
  /\ ~Open(o)
  /\ object' = [object EXCEPT ![o] = ToSession(o)]
  /\ UNCHANGED <<merged, key, log, updated, txn, used, repeated>>

(* append_event compares get_update_marker() with the object's marker, and *)
(* raises if they differ.                                                  *)
Accepts(o) ==
  /\ object[o] # NoObject
  /\ object[o].marker = Marker(SessionObj(o))

(* It loads the rows and accepts the object.                               *)
BeginAppend(o, e) ==
  /\ SessionOf[e] = SessionObj(o)
  /\ Alone(o)
  /\ Unlocked(Writes(e))
  /\ Accepts(o)
  /\ txn' = [txn EXCEPT ![o] = [kind |-> "append", event |-> e, loaded |-> merged]]
  /\ UNCHANGED <<merged, key, log, updated, object, used, repeated>>

(* Mutant of StoredState: the dict was changed in place, unnoticed.         *)
StoredStateUntracked(o) == merged

(* Mutant of StoredState: only the session's own state is tracked.         *)
StoredStateOneTracked(o) ==
  [x \in StateRow |-> IF x \in Delta[txn[o].event] \cap Session
                      THEN txn[o].loaded[x] \cup {txn[o].event}
                      ELSE merged[x]]

(* What the commit leaves in the state rows: MutableDict reports each dict  *)
(* that was changed in place, and its whole column is written.             *)
StoredState(o) ==
  [x \in StateRow |-> IF x \in Delta[txn[o].event]
                      THEN txn[o].loaded[x] \cup {txn[o].event}
                      ELSE merged[x]]

(* The event, the state rows and the update_time commit together.          *)
Store(o, t) ==
  LET s == SessionObj(o)
      e == txn[o].event
  IN  /\ e \notin log
      /\ merged' = StoredState(o)
      /\ key' = [x \in StateRow |-> IF x \in Delta[e] THEN Primary[ProcessObj(o)]
                                    ELSE key[x]]
      /\ log' = log \cup {e}
      /\ updated' = [updated EXCEPT ![s] = t]
      /\ used' = [used EXCEPT ![s] = @ \cup {t}]
      /\ repeated' = IF t \in used[s] THEN repeated \cup {s} ELSE repeated
      /\ txn' = [txn EXCEPT ![o] = Idle]

(* append_event returns: the object has the event and the new marker.      *)
CommitAppend(o, t) ==
  /\ Open(o)
  /\ Store(o, t)
  /\ object' = [object EXCEPT ![o].view   = @ \cup {txn[o].event},
                              ![o].marker = Marker(SessionObj(o))']

(* The commit took effect, but its reply was lost or nobody awaits it.     *)
CommitUnheard(o, t) ==
  /\ Open(o)
  /\ Store(o, t)
  /\ UNCHANGED object

(* The event is stored already, or another error: nothing is committed.    *)
FailAppend(o) ==
  /\ Open(o)
  /\ txn' = [txn EXCEPT ![o] = Idle]
  /\ UNCHANGED <<merged, key, log, updated, object, used, repeated>>

(* A process ends, with its objects and its transactions.                  *)
Exit(p) ==
  /\ object' = [o \in Object |-> IF ProcessObj(o) = p THEN NoObject ELSE object[o]]
  /\ txn' = [o \in Object |-> IF ProcessObj(o) = p THEN Idle ELSE txn[o]]
  /\ UNCHANGED <<merged, key, log, updated, used, repeated>>

(* Mutant of Rotate: the UPDATE is the ORM's, with onupdate=func.now().     *)
RotateTouches(x) ==
  /\ key[x] = "old"
  /\ Unlocked({x})
  /\ key' = [key EXCEPT ![x] = "new"]
  /\ \E t \in Time :
       updated' = [s \in Session |-> IF s = x THEN t ELSE updated[s]]
  /\ UNCHANGED <<merged, log, object, txn, used, repeated>>

(* rotate_encryption_keys re-encrypts the row.  Its UPDATE is text, so that *)
(* onupdate does not apply; that it only hits the state it read is          *)
(* ContentsPreserved of KeyRotation.                                       *)
Rotate(x) ==
  /\ key[x] = "old"
  /\ Unlocked({x})
  /\ key' = [key EXCEPT ![x] = "new"]
  /\ UNCHANGED <<merged, log, updated, object, txn, used, repeated>>

Next ==
  \/ \E o \in Object : GetSession(o) \/ FailAppend(o)
  \/ \E o \in Object, e \in Event : BeginAppend(o, e)
  \/ \E o \in Object, t \in Time : CommitAppend(o, t) \/ CommitUnheard(o, t)
  \/ \E p \in Process : Exit(p)
  \/ \E x \in StateRow : Rotate(x)

Spec == Init /\ [][Next]_vars

-----------------------------------------------------------------------------
(* Properties.                                                             *)

(* Appends to one session never overlap: the database locks rows, or all   *)
(* the objects of a session are in one process.                            *)
Serial ==
  \/ RowLocks
  \/ \A o, q \in Object : SessionObj(o) = SessionObj(q) => ProcessObj(o) = ProcessObj(q)

(* The state of a session is the effect of exactly the events stored for   *)
(* it: no delta is lost to an untracked change in place or to an older     *)
(* dict, none is there without its event, whoever re-encrypts the row and   *)
(* whatever replies are lost.                                              *)
StateIsLog ==
  Serial => \A s \in Session : merged[s] = {e \in log : s \in Delta[e]}

(* The same of the app state that several sessions change, which only the   *)
(* database can serialise: google-adk's lock is per session.               *)
AppStateIsLog ==
  RowLocks => merged[App] = {e \in log : App \in Delta[e]}

(* An object that knows every event of its session is accepted: in          *)
(* particular a rotation never makes a session object stale.               *)
CurrentAccepted ==
  \A o \in Object :
    object[o] # NoObject /\ object[o].view = LogOf(SessionObj(o)) => Accepts(o)

(* An object that does not is refused, also after a commit whose reply was *)
(* lost, as long as no two commits to the session had one update_time: the *)
(* marker is no better than the clock behind it.                           *)
StaleRefused ==
  Serial => \A o \in Object :
    Accepts(o) /\ SessionObj(o) \notin repeated
      => object[o].view = LogOf(SessionObj(o))
=============================================================================
