--------------------------- MODULE PrepareTables ---------------------------
(***************************************************************************)
(* EncryptedSessionService.prepare_tables() (encrypted_session.py): lazy,  *)
(* double-checked creation of the four encrypted tables.  Every CRUD call  *)
(* of every coroutine runs it first.                                       *)
(*                                                                         *)
(* Coroutines of one service interleave at awaits only: acquiring the      *)
(* asyncio.Lock when it is taken, opening the connection, each CREATE      *)
(* TABLE, the commit.  Several services (processes, hence several flags    *)
(* and locks) may share one database.  metadata.create_all is SQLAlchemy's:*)
(* it asks which tables are missing and then creates those, one statement  *)
(* each; a table that appeared meanwhile makes the statement fail.  SQLite *)
(* keeps the tables created before the failure, so here a CREATE is        *)
(* visible at once; a database with transactional DDL has fewer behaviours.*)
(***************************************************************************)
EXTENDS Naturals, Sequences

CONSTANTS
  Service,    \* service instances that share the database
  Task,       \* coroutines that call CRUD methods
  ServiceOf,  \* the service a coroutine calls
  Table,      \* the tables of the encrypted metadata
  NoTask,     \* the lock is free
  NoService   \* a table was there before any service

ASSUME TablesAssumption ==
  /\ ServiceOf \in [Task -> Service]
  /\ NoTask \notin Task
  /\ NoService \notin Service

VARIABLES
  tables,   \* the tables in the database
  created,  \* created[p]: _tables_created of service p
  lock,     \* lock[p]: the coroutine in _table_creation_lock of p, or NoTask
  waiters,  \* waiters[p]: the coroutines queued for it, in order
  pc,       \* pc[t]: where coroutine t is
  missing,  \* missing[t]: what create_all of t found missing and has to create
  maker     \* history: maker[x], the service that created table x

vars == <<tables, maker, created, lock, waiters, pc, missing>>

(* The queue of a lock holds each coroutine that waits for it, once.        *)
Queued(p) ==
  /\ \A t \in Task :
       pc[t] = "waiting" /\ ServiceOf[t] = p
         <=> \E i \in DOMAIN waiters[p] : waiters[p][i] = t
  /\ \A i, j \in DOMAIN waiters[p] : waiters[p][i] = waiters[p][j] => i = j

(* Every variable has its type, and no coroutine is lost from a queue.      *)
TypeOK ==
  /\ tables \subseteq Table
  /\ created \in [Service -> BOOLEAN]
  /\ lock \in [Service -> Task \cup {NoTask}]
  /\ waiters \in [Service -> Seq(Task)]
  /\ pc \in [Task -> {"idle", "waiting", "locked", "creating", "ready", "raised"}]
  /\ missing \in [Task -> SUBSET Table]
  /\ maker \in [Table -> Service \cup {NoService}]
  /\ \A p \in Service : Queued(p)

Init ==
  /\ tables \in SUBSET Table
  /\ created = [p \in Service |-> FALSE]
  /\ lock = [p \in Service |-> NoTask]
  /\ waiters = [p \in Service |-> <<>>]
  /\ pc = [t \in Task |-> "idle"]
  /\ missing = [t \in Task |-> {}]
  /\ maker = [x \in Table |-> NoService]

Goes(t, state) == pc' = [pc EXCEPT ![t] = state]

Release(t) == lock' = [lock EXCEPT ![ServiceOf[t]] = NoTask]

(* First check: the tables are known to be there.                          *)
PrepareFast(t) ==
  /\ pc[t] = "idle"
  /\ created[ServiceOf[t]]
  /\ Goes(t, "ready")
  /\ UNCHANGED <<tables, maker, created, lock, waiters, missing>>

(* The lock is free and nobody queues: acquire() does not suspend, so the   *)
(* second check sees the flag the first one saw.                           *)
PrepareAcquire(t) ==
  /\ pc[t] = "idle"
  /\ ~created[ServiceOf[t]]
  /\ lock[ServiceOf[t]] = NoTask /\ waiters[ServiceOf[t]] = <<>>
  /\ lock' = [lock EXCEPT ![ServiceOf[t]] = t]
  /\ Goes(t, "locked")
  /\ UNCHANGED <<tables, maker, created, waiters, missing>>

PrepareWait(t) ==
  /\ pc[t] = "idle"
  /\ ~created[ServiceOf[t]]
  /\ lock[ServiceOf[t]] # NoTask \/ waiters[ServiceOf[t]] # <<>>
  /\ waiters' = [waiters EXCEPT ![ServiceOf[t]] = Append(@, t)]
  /\ Goes(t, "waiting")
  /\ UNCHANGED <<tables, maker, created, lock, missing>>

AtHead(t) ==
  /\ pc[t] = "waiting"
  /\ lock[ServiceOf[t]] = NoTask
  /\ waiters[ServiceOf[t]] # <<>>
  /\ Head(waiters[ServiceOf[t]]) = t

(* Mutant of WakeCreate: without the second check.                         *)
WakeCreateUnchecked(t) ==
  /\ AtHead(t)
  /\ waiters' = [waiters EXCEPT ![ServiceOf[t]] = Tail(@)]
  /\ lock' = [lock EXCEPT ![ServiceOf[t]] = t]
  /\ Goes(t, "locked")
  /\ UNCHANGED <<tables, maker, created, missing>>

(* The first in the queue acquires, checks again, and has to create.        *)
WakeCreate(t) ==
  /\ AtHead(t)
  /\ ~created[ServiceOf[t]]
  /\ waiters' = [waiters EXCEPT ![ServiceOf[t]] = Tail(@)]
  /\ lock' = [lock EXCEPT ![ServiceOf[t]] = t]
  /\ Goes(t, "locked")
  /\ UNCHANGED <<tables, maker, created, missing>>

(* Or it finds that another has created them, and releases the lock.        *)
WakeDone(t) ==
  /\ AtHead(t)
  /\ created[ServiceOf[t]]
  /\ waiters' = [waiters EXCEPT ![ServiceOf[t]] = Tail(@)]
  /\ Goes(t, "ready")
  /\ UNCHANGED <<tables, maker, created, lock, missing>>

(* Mutant of Inspect: create_all(checkfirst=False).                        *)
InspectNothing(t) ==
  /\ pc[t] = "locked"
  /\ missing' = [missing EXCEPT ![t] = Table]
  /\ Goes(t, "creating")
  /\ UNCHANGED <<tables, maker, created, lock, waiters>>

(* engine.begin(); create_all asks which tables exist.                      *)
Inspect(t) ==
  /\ pc[t] = "locked"
  /\ missing' = [missing EXCEPT ![t] = Table \ tables]
  /\ Goes(t, "creating")
  /\ UNCHANGED <<tables, maker, created, lock, waiters>>

CreateTable(t, x) ==
  /\ pc[t] = "creating"
  /\ x \in missing[t] \ tables
  /\ tables' = tables \cup {x}
  /\ maker' = [maker EXCEPT ![x] = ServiceOf[t]]
  /\ missing' = [missing EXCEPT ![t] = @ \ {x}]
  /\ UNCHANGED <<created, lock, waiters, pc>>

(* Mutant of Finish: the flag is set whatever is still missing.             *)
FinishEarly(t) ==
  /\ pc[t] = "creating"
  /\ created' = [created EXCEPT ![ServiceOf[t]] = TRUE]
  /\ Release(t)
  /\ Goes(t, "ready")
  /\ missing' = [missing EXCEPT ![t] = {}]
  /\ UNCHANGED <<tables, maker, waiters>>

(* create_all and the commit succeed: flag, release, on to the operation.   *)
Finish(t) ==
  /\ pc[t] = "creating"
  /\ missing[t] = {}
  /\ created' = [created EXCEPT ![ServiceOf[t]] = TRUE]
  /\ Release(t)
  /\ Goes(t, "ready")
  /\ UNCHANGED <<tables, maker, waiters, missing>>

(* Mutant of Raise: the lock is not released.                              *)
RaiseKeepsLock(t) ==
  /\ Goes(t, "raised")
  /\ missing' = [missing EXCEPT ![t] = {}]
  /\ UNCHANGED <<tables, maker, created, lock, waiters>>

(* The exception passes the lock's __aexit__ and reaches the caller.        *)
Raise(t) ==
  /\ Release(t)
  /\ Goes(t, "raised")
  /\ missing' = [missing EXCEPT ![t] = {}]
  /\ UNCHANGED <<tables, maker, created, waiters>>

(* A table to create exists by now: another service created it.             *)
Clash(t) ==
  /\ pc[t] = "creating"
  /\ missing[t] \cap tables # {}
  /\ Raise(t)

(* The connection fails, or the coroutine is cancelled in the lock.         *)
Fault(t) ==
  /\ pc[t] \in {"locked", "creating"}
  /\ Raise(t)

(* Mutant of CancelWait: the queue keeps it.                               *)
CancelWaitStays(t) ==
  /\ pc[t] = "waiting"
  /\ Goes(t, "raised")
  /\ UNCHANGED <<tables, maker, created, lock, waiters, missing>>

Without(q, i) == SubSeq(q, 1, i - 1) \o SubSeq(q, i + 1, Len(q))

(* It is cancelled in the queue, and leaves it.                            *)
CancelWait(t) ==
  /\ pc[t] = "waiting"
  /\ \E i \in DOMAIN waiters[ServiceOf[t]] :
       /\ waiters[ServiceOf[t]][i] = t
       /\ waiters' = [waiters EXCEPT ![ServiceOf[t]] = Without(@, i)]
  /\ Goes(t, "raised")
  /\ UNCHANGED <<tables, maker, created, lock, missing>>

(* The CRUD operation ends, or the caller gets the exception; the coroutine *)
(* may call again.                                                         *)
Return(t) ==
  /\ pc[t] \in {"ready", "raised"}
  /\ Goes(t, "idle")
  /\ UNCHANGED <<tables, maker, created, lock, waiters, missing>>

(* The process of service p restarts: a new flag, a new lock, no coroutine. *)
Restart(p) ==
  /\ created' = [created EXCEPT ![p] = FALSE]
  /\ lock' = [lock EXCEPT ![p] = NoTask]
  /\ waiters' = [waiters EXCEPT ![p] = <<>>]
  /\ pc' = [t \in Task |-> IF ServiceOf[t] = p THEN "idle" ELSE pc[t]]
  /\ missing' = [t \in Task |-> IF ServiceOf[t] = p THEN {} ELSE missing[t]]
  /\ UNCHANGED <<tables, maker>>

Prepare(t) == PrepareFast(t) \/ PrepareAcquire(t) \/ PrepareWait(t)

Proceed(t) ==
  \/ WakeCreate(t) \/ WakeDone(t)
  \/ Inspect(t) \/ (\E x \in Table : CreateTable(t, x)) \/ Finish(t) \/ Clash(t)
  \/ Return(t)

Disturb ==
  \/ \E t \in Task : Fault(t) \/ CancelWait(t)
  \/ \E p \in Service : Restart(p)

Next == (\E t \in Task : Prepare(t) \/ Proceed(t)) \/ Disturb

Spec == Init /\ [][Next]_vars

(* The event loop runs every coroutine that can run, the database answers.  *)
FairSpec == Spec /\ \A t \in Task : WF_vars(Proceed(t))

(* And the callers keep calling.                                           *)
BusySpec == FairSpec /\ \A t \in Task : WF_vars(Prepare(t))

-----------------------------------------------------------------------------
(* Properties.                                                             *)

(* No operation of any coroutine, in any service, ever reaches a database   *)
(* that lacks one of its tables, after faults, clashes and restarts too.    *)
ReadyMeansTables == \A t \in Task : pc[t] = "ready" => tables = Table

(* Only the holder of its service's lock creates tables, and never once the *)
(* flag is up: the second check is made under the lock.                    *)
OneCreator ==
  \A t \in Task : pc[t] \in {"locked", "creating"} =>
    lock[ServiceOf[t]] = t /\ ~created[ServiceOf[t]]

(* A service never trips over its own tables, however many of its           *)
(* coroutines start at once: what one set out to create, only another       *)
(* service can have created meanwhile.                                     *)
NoClash ==
  \A t \in Task : pc[t] = "creating" =>
    \A x \in missing[t] \cap tables : maker[x] # ServiceOf[t]

(* Every call of prepare_tables ends: no coroutine waits for ever for a     *)
(* lock, whoever failed or was cancelled while holding it.                 *)
CallReturns ==
  \A t \in Task :
    pc[t] \in {"waiting", "locked", "creating"} ~> pc[t] \in {"ready", "raised", "idle"}

(* Services that start at once on an empty or half-created schema may make  *)
(* each other fail, but retries succeed once the disturbances end.  (A      *)
(* clash and a fault are one step to a reader of the variables: a failure   *)
(* that a clash explains is none of the disturbances.)                     *)
RetriesSucceed ==
  (<>[][Disturb => \E t \in Task : Clash(t)]_vars)
    => \A p \in Service : <>[]created[p]
=============================================================================
