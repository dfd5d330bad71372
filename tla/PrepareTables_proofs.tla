------------------------ MODULE PrepareTables_proofs ------------------------
(***************************************************************************)
(* Theorems about PrepareTables, for any number of services, coroutines and*)
(* tables.                                                                 *)
(***************************************************************************)
EXTENDS PrepareTables, SequenceTheorems, TLAPS

(* TypeOK without the queue, which no theorem below depends on.             *)
Typed ==
  /\ tables \subseteq Table
  /\ created \in [Service -> BOOLEAN]
  /\ lock \in [Service -> Task \cup {NoTask}]
  /\ pc \in [Task -> {"idle", "waiting", "locked", "creating", "ready", "raised"}]
  /\ missing \in [Task -> SUBSET Table]
  /\ maker \in [Table -> Service \cup {NoService}]

FlagMeansTables == \A p \in Service : created[p] => tables = Table

(* Once create_all has looked, whatever the database lacks is on its list.  *)
MissingListed == \A t \in Task : pc[t] = "creating" => Table \ tables \subseteq missing[t]

IInv ==
  /\ Typed
  /\ OneCreator
  /\ FlagMeansTables
  /\ MissingListed
  /\ ReadyMeansTables

(* A coroutine calls a service, and is not the mark of a free lock.         *)
LEMMA ServiceOfTask == \A t \in Task : ServiceOf[t] \in Service /\ t # NoTask
  BY TablesAssumption

(* No coroutine has started and no flag is up.                              *)
LEMMA InitIInv == Init => IInv
  BY ServiceOfTask
     DEF Init, IInv, Typed, OneCreator, FlagMeansTables, MissingListed, ReadyMeansTables

(* Entering prepare_tables keeps the invariant.                             *)
LEMMA PrepareIInv ==
  ASSUME IInv, NEW t \in Task, Prepare(t)
  PROVE  IInv'
  <1>. USE ServiceOfTask DEF IInv
  <1>1. CASE PrepareFast(t)
    BY <1>1 DEF PrepareFast, Goes, Typed, OneCreator, FlagMeansTables, MissingListed,
                ReadyMeansTables
  <1>2. CASE PrepareAcquire(t)
    <2>1. Typed'
      BY <1>2 DEF PrepareAcquire, Goes, Typed
    <2>2. OneCreator'
      BY <1>2 DEF PrepareAcquire, Goes, Typed, OneCreator
    <2>3. FlagMeansTables' /\ MissingListed' /\ ReadyMeansTables'
      BY <1>2 DEF PrepareAcquire, Goes, Typed, FlagMeansTables, MissingListed, ReadyMeansTables
    <2>. QED BY <2>1, <2>2, <2>3
  <1>3. CASE PrepareWait(t)
    BY <1>3 DEF PrepareWait, Goes, Typed, OneCreator, FlagMeansTables, MissingListed,
                ReadyMeansTables
  <1>. QED BY <1>1, <1>2, <1>3 DEF Prepare

(* Leaving the lock with an exception keeps the invariant.                  *)
LEMMA RaiseIInv ==
  ASSUME IInv, NEW t \in Task, pc[t] \in {"locked", "creating"}, Raise(t)
  PROVE  IInv'
  <1>. USE ServiceOfTask DEF IInv, Raise, Release, Goes
  <1>1. Typed'
    BY DEF Typed
  <1>2. OneCreator'
    BY DEF Typed, OneCreator
  <1>3. FlagMeansTables' /\ MissingListed' /\ ReadyMeansTables'
    BY DEF Typed, FlagMeansTables, MissingListed, ReadyMeansTables
  <1>. QED BY <1>1, <1>2, <1>3

(* Every further step of a coroutine keeps the invariant.                   *)
LEMMA ProceedIInv ==
  ASSUME IInv, NEW t \in Task, Proceed(t)
  PROVE  IInv'
  <1>. USE ServiceOfTask DEF IInv
  <1>1. CASE WakeCreate(t)
    <2>. USE <1>1 DEF WakeCreate, AtHead, Goes
    <2>1. Typed'
      BY DEF Typed
    <2>2. OneCreator'
      BY DEF Typed, OneCreator
    <2>3. FlagMeansTables' /\ MissingListed' /\ ReadyMeansTables'
      BY DEF Typed, FlagMeansTables, MissingListed, ReadyMeansTables
    <2>. QED BY <2>1, <2>2, <2>3
  <1>2. CASE WakeDone(t)
    BY <1>2 DEF WakeDone, AtHead, Goes, Typed, OneCreator, FlagMeansTables, MissingListed,
                ReadyMeansTables
  <1>3. CASE Inspect(t)
    BY <1>3 DEF Inspect, Goes, Typed, OneCreator, FlagMeansTables, MissingListed,
                ReadyMeansTables
  <1>4. ASSUME NEW x \in Table, CreateTable(t, x)
        PROVE  IInv'
    <2>. USE <1>4 DEF CreateTable
    <2>1. Typed' /\ OneCreator'
      BY DEF Typed, OneCreator
    <2>2. MissingListed'
      BY DEF Typed, MissingListed
    <2>3. tables = Table => tables' = Table
      OBVIOUS
    <2>4. FlagMeansTables' /\ ReadyMeansTables'
      BY <2>3 DEF FlagMeansTables, ReadyMeansTables
    <2>. QED BY <2>1, <2>2, <2>4
  <1>5. CASE Finish(t)
    <2>. USE <1>5 DEF Finish, Release, Goes
    <2>1. tables = Table
      BY DEF Typed, MissingListed
    <2>2. Typed'
      BY DEF Typed
    <2>3. OneCreator'
      BY DEF Typed, OneCreator
    <2>4. FlagMeansTables' /\ MissingListed' /\ ReadyMeansTables'
      BY <2>1 DEF Typed, FlagMeansTables, MissingListed, ReadyMeansTables
    <2>. QED BY <2>2, <2>3, <2>4
  <1>6. CASE Clash(t)
    BY <1>6, RaiseIInv DEF Clash
  <1>7. CASE Return(t)
    BY <1>7 DEF Return, Goes, Typed, OneCreator, FlagMeansTables, MissingListed,
                ReadyMeansTables
  <1>. QED BY <1>1, <1>2, <1>3, <1>4, <1>5, <1>6, <1>7 DEF Proceed

(* Faults, cancellations and restarts keep the invariant.                   *)
LEMMA DisturbIInv ==
  ASSUME IInv, Disturb
  PROVE  IInv'
  <1>. USE ServiceOfTask DEF IInv
  <1>1. ASSUME NEW t \in Task, Fault(t)
        PROVE  IInv'
    BY <1>1, RaiseIInv DEF Fault
  <1>2. ASSUME NEW t \in Task, CancelWait(t)
        PROVE  IInv'
    <2>1. /\ pc' = [pc EXCEPT ![t] = "raised"]
          /\ UNCHANGED <<tables, created, lock, missing, maker>>
          /\ pc[t] = "waiting"
      BY <1>2 DEF CancelWait, Goes
    <2>. QED BY <2>1 DEF Typed, OneCreator, FlagMeansTables, MissingListed, ReadyMeansTables
  <1>3. ASSUME NEW p \in Service, Restart(p)
        PROVE  IInv'
    <2>. USE <1>3 DEF Restart
    <2>1. Typed'
      BY DEF Typed
    <2>2. OneCreator'
      BY DEF Typed, OneCreator
    <2>3. FlagMeansTables' /\ MissingListed' /\ ReadyMeansTables'
      BY DEF Typed, FlagMeansTables, MissingListed, ReadyMeansTables
    <2>. QED BY <2>1, <2>2, <2>3
  <1>. QED BY <1>1, <1>2, <1>3 DEF Disturb

(* Every step keeps the invariant.                                          *)
LEMMA NextIInv ==
  ASSUME IInv, [Next]_vars
  PROVE  IInv'
  <1>1. CASE UNCHANGED vars
    BY <1>1 DEF vars, IInv, Typed, OneCreator, FlagMeansTables, MissingListed,
                ReadyMeansTables
  <1>. QED BY <1>1, PrepareIInv, ProceedIInv, DisturbIInv DEF Next

(* The inductive invariant holds in every reachable state.                  *)
LEMMA Invariant == Spec => []IInv
  BY InitIInv, NextIInv, PTL DEF Spec

(* No CRUD call of any coroutine of any service gets past prepare_tables    *)
(* while the database lacks a table, through faults, clashes and restarts.  *)
THEOREM TablesReady == Spec => []ReadyMeansTables
  BY Invariant, PTL DEF IInv

(* Double-checked locking: at most the lock's holder creates, and never     *)
(* after another has finished.                                             *)
THEOREM SingleCreator == Spec => []OneCreator
  BY Invariant, PTL DEF IInv

(* A CREATE TABLE that fails met a table of another service: no coroutine   *)
(* trips over what its own service made, however many services there are.   *)
THEOREM NoSelfClash == Spec => []NoClash
  <1>. USE ServiceOfTask
  <1>1. Init => NoClash
    BY DEF Init, NoClash
  <1>2. ASSUME IInv, NoClash, [Next]_vars
        PROVE  NoClash'
    <2>. USE DEF IInv
    <2>1. ASSUME NEW t \in Task, NEW x \in Table, CreateTable(t, x)
          PROVE  NoClash'
      <3>1. \A u \in Task : pc[u] = "creating" /\ ServiceOf[u] = ServiceOf[t] => u = t
        BY <1>2, <2>1 DEF CreateTable, OneCreator
      <3>. QED BY <2>1, <3>1, <1>2 DEF CreateTable, NoClash, Typed
    <2>2. ASSUME NEW t \in Task, Inspect(t)
          PROVE  NoClash'
      BY <2>2, <1>2 DEF Inspect, Goes, NoClash, Typed
    <2>3. ASSUME NEW t \in Task, Prepare(t)
          PROVE  NoClash'
      BY <2>3, <1>2 DEF Prepare, PrepareFast, PrepareAcquire, PrepareWait, Goes, NoClash, Typed
    <2>4. ASSUME NEW t \in Task, WakeCreate(t) \/ WakeDone(t) \/ Return(t)
          PROVE  NoClash'
      BY <2>4, <1>2 DEF WakeCreate, WakeDone, Return, Goes, NoClash, Typed
    <2>5. ASSUME NEW t \in Task, Finish(t) \/ Clash(t) \/ Fault(t)
          PROVE  NoClash'
      BY <2>5, <1>2 DEF Finish, Clash, Fault, Raise, Goes, NoClash, Typed
    <2>6. ASSUME NEW t \in Task, CancelWait(t)
          PROVE  NoClash'
      <3>1. pc' = [pc EXCEPT ![t] = "raised"] /\ UNCHANGED <<tables, missing, maker>>
        BY <2>6 DEF CancelWait, Goes
      <3>. QED BY <3>1, <1>2 DEF NoClash, Typed
    <2>7. ASSUME NEW p \in Service, Restart(p)
          PROVE  NoClash'
      BY <2>7, <1>2 DEF Restart, NoClash, Typed
    <2>8. CASE UNCHANGED vars
      BY <2>8, <1>2 DEF vars, NoClash
    <2>. QED BY <1>2, <2>1, <2>2, <2>3, <2>4, <2>5, <2>6, <2>7, <2>8
             DEF Next, Proceed, Disturb
  <1>. QED BY <1>1, <1>2, Invariant, PTL DEF Spec

-----------------------------------------------------------------------------
(* The queue of a lock.                                                    *)

(* q holds the members of S, each once.                                    *)
Queues(q, S) ==
  /\ q \in Seq(Task)
  /\ \A t \in Task : t \in S <=> \E i \in DOMAIN q : q[i] = t
  /\ \A i, j \in DOMAIN q : q[i] = q[j] => i = j

(* A coroutine that was not in the queue joins it at the end.               *)
LEMMA AppendQueues ==
  ASSUME NEW q, NEW S, Queues(q, S), NEW t \in Task, t \notin S
  PROVE  Queues(Append(q, t), S \cup {t})
  <1>. DEFINE r == Append(q, t)
  <1>1. /\ q \in Seq(Task) /\ Len(q) \in Nat
        /\ r \in Seq(Task) /\ DOMAIN r = 1..(Len(q) + 1) /\ DOMAIN q = 1..Len(q)
        /\ r[Len(q) + 1] = t /\ \A i \in 1..Len(q) : r[i] = q[i]
    BY DEF Queues
  <1>2. \A i \in 1..Len(q) : q[i] \in Task /\ q[i] # t
    BY <1>1 DEF Queues
  <1>. HIDE DEF r
  <1>3. \A u \in Task : u \in S \cup {t} <=> \E i \in DOMAIN r : r[i] = u
    <2>1. ASSUME NEW u \in Task, u \in S PROVE \E i \in DOMAIN r : r[i] = u
      <3>1. PICK i \in DOMAIN q : q[i] = u
        BY <2>1 DEF Queues
      <3>. QED BY <1>1, <3>1
    <2>2. \E i \in DOMAIN r : r[i] = t
      BY <1>1
    <2>3. ASSUME NEW i \in DOMAIN r, r[i] # t PROVE r[i] \in S
      <3>1. i \in DOMAIN q /\ r[i] = q[i]
        BY <1>1, <2>3
      <3>. QED BY <1>2, <1>1, <3>1 DEF Queues
    <2>. QED BY <2>1, <2>2, <2>3
  <1>4. \A i, j \in DOMAIN r : r[i] = r[j] => i = j
    BY <1>1, <1>2 DEF Queues
  <1>. QED BY <1>1, <1>3, <1>4 DEF Queues, r

(* Whoever is taken out of the queue, the others stay in it.               *)
LEMMA WithoutQueues ==
  ASSUME NEW q, NEW S, Queues(q, S), NEW k \in DOMAIN q
  PROVE  Queues(Without(q, k), S \ {q[k]})
  <1>. DEFINE r == Without(q, k)
  <1>1. q \in Seq(Task) /\ Len(q) \in Nat /\ k \in 1..Len(q) /\ DOMAIN q = 1..Len(q)
    BY DEF Queues
  <1>2. /\ r \in Seq(Task) /\ Len(r) = Len(q) - 1 /\ DOMAIN r = 1..(Len(q) - 1)
        /\ \A i \in 1..(Len(q) - 1) : r[i] = IF i < k THEN q[i] ELSE q[i + 1]
    <2>. DEFINE a == SubSeq(q, 1, k - 1)
                b == SubSeq(q, k + 1, Len(q))
    <2>1. /\ a \in Seq(Task) /\ Len(a) = k - 1
          /\ \A i \in 1..(k - 1) : a[i] = q[i]
      BY <1>1
    <2>2. /\ b \in Seq(Task) /\ Len(b) = Len(q) - k
          /\ \A i \in 1..(Len(q) - k) : b[i] = q[k + i]
      BY <1>1
    <2>3. r = a \o b
      BY DEF Without
    <2>. HIDE DEF a, b, r
    <2>4. /\ r \in Seq(Task) /\ Len(r) = Len(a) + Len(b)
          /\ \A i \in 1..(Len(a) + Len(b)) :
               r[i] = IF i <= Len(a) THEN a[i] ELSE b[i - Len(a)]
      BY <2>1, <2>2, <2>3, ConcatProperties
    <2>5. Len(r) = Len(q) - 1 /\ DOMAIN r = 1..(Len(q) - 1)
      BY <1>1, <2>1, <2>2, <2>4
    <2>6. ASSUME NEW i \in 1..(Len(q) - 1)
          PROVE  r[i] = IF i < k THEN q[i] ELSE q[i + 1]
      <3>1. CASE i < k
        BY <1>1, <2>1, <2>2, <2>4, <3>1
      <3>2. CASE ~(i < k)
        <4>1. i - (k - 1) \in 1..(Len(q) - k) /\ k + (i - (k - 1)) = i + 1
          BY <1>1, <3>2
        <4>2. r[i] = b[i - (k - 1)]
          BY <1>1, <2>1, <2>2, <2>4, <3>2
        <4>. QED BY <2>2, <3>2, <4>1, <4>2
      <3>. QED BY <3>1, <3>2
    <2>. QED BY <2>4, <2>5, <2>6
  <1>. HIDE DEF r
  <1>3. ASSUME NEW i \in DOMAIN q, i # k PROVE \E j \in DOMAIN r : r[j] = q[i]
    <2>1. CASE i < k
      BY <1>1, <1>2, <2>1
    <2>2. CASE i > k
      <3>1. i - 1 \in DOMAIN r /\ r[i - 1] = q[i]
        BY <1>1, <1>2, <2>2
      <3>. QED BY <3>1
    <2>. QED BY <1>1, <1>3, <2>1, <2>2
  <1>4. ASSUME NEW j \in DOMAIN r PROVE \E i \in DOMAIN q : i # k /\ r[j] = q[i]
    <2>1. CASE j < k
      BY <1>1, <1>2, <2>1
    <2>2. CASE ~(j < k)
      <3>1. j + 1 \in DOMAIN q /\ j + 1 # k /\ r[j] = q[j + 1]
        BY <1>1, <1>2, <2>2
      <3>. QED BY <3>1
    <2>. QED BY <2>1, <2>2
  <1>5. \A t \in Task : t \in S \ {q[k]} <=> \E j \in DOMAIN r : r[j] = t
    BY <1>1, <1>3, <1>4 DEF Queues
  <1>6. \A i, j \in DOMAIN r : r[i] = r[j] => i = j
    <2>1. \A i, j \in 1..Len(q) : q[i] = q[j] => i = j
      BY <1>1 DEF Queues
    <2>. QED BY <1>1, <1>2, <2>1
  <1>. QED BY <1>2, <1>5, <1>6 DEF Queues, r

(* The head leaves the queue when the lock wakes it.                        *)
LEMMA TailQueues ==
  ASSUME NEW q, NEW S, Queues(q, S), q # <<>>
  PROVE  Queues(Tail(q), S \ {Head(q)})
  <1>1. q \in Seq(Task) /\ 1 \in DOMAIN q /\ Head(q) = q[1]
    BY DEF Queues
  <1>2. Tail(q) = Without(q, 1)
    BY <1>1 DEF Without
  <1>3. Queues(Without(q, 1), S \ {q[1]})
    BY <1>1, WithoutQueues
  <1>. QED BY <1>1, <1>2, <1>3

(* The coroutines that wait for the lock of p.                             *)
WaitingFor(p) == {t \in Task : pc[t] = "waiting" /\ ServiceOf[t] = p}

QueueInv ==
  /\ waiters \in [Service -> Seq(Task)]
  /\ \A p \in Service : Queues(waiters[p], WaitingFor(p))

(* One queue changes, and one coroutine starts or ends to wait in it.       *)
LEMMA QueueStep ==
  ASSUME Typed, QueueInv, NEW t \in Task, NEW state, pc' = [pc EXCEPT ![t] = state],
         NEW q, waiters' = [waiters EXCEPT ![ServiceOf[t]] = q],
         Queues(q, IF state = "waiting" THEN WaitingFor(ServiceOf[t]) \cup {t}
                                        ELSE WaitingFor(ServiceOf[t]) \ {t})
  PROVE  QueueInv'
  <1>. DEFINE p == ServiceOf[t]
  <1>1. p \in Service
    BY ServiceOfTask
  <1>2. q \in Seq(Task)
    BY DEF Queues
  <1>3. waiters' \in [Service -> Seq(Task)]
    BY <1>2 DEF QueueInv
  <1>4. \A u \in Task : pc'[u] = IF u = t THEN state ELSE pc[u]
    BY DEF Typed
  <1>5. WaitingFor(p)' = IF state = "waiting" THEN WaitingFor(p) \cup {t}
                                             ELSE WaitingFor(p) \ {t}
    BY <1>4 DEF WaitingFor
  <1>6. waiters'[p] = q
    BY <1>1 DEF QueueInv
  <1>7. Queues(waiters'[p], WaitingFor(p)')
    BY <1>5, <1>6
  <1>8. ASSUME NEW o \in Service, o # p
        PROVE  Queues(waiters'[o], WaitingFor(o)')
    <2>1. waiters'[o] = waiters[o]
      BY <1>8 DEF QueueInv
    <2>2. WaitingFor(o)' = WaitingFor(o)
      BY <1>4, <1>8 DEF WaitingFor
    <2>. QED BY <2>1, <2>2 DEF QueueInv
  <1>9. \A o \in Service : Queues(waiters'[o], WaitingFor(o)')
    BY <1>7, <1>8
  <1>. QED BY <1>3, <1>9 DEF QueueInv

(* A step that leaves the queues alone, of a coroutine that waits neither   *)
(* before nor after it.                                                    *)
LEMMA QueueStays ==
  ASSUME Typed, QueueInv, waiters' = waiters,
         \A u \in Task : pc'[u] = "waiting" <=> pc[u] = "waiting"
  PROVE  QueueInv'
  <1>1. \A p \in Service : WaitingFor(p)' = WaitingFor(p)
    BY DEF WaitingFor
  <1>. QED BY <1>1 DEF QueueInv

(* No step loses a coroutine from a queue, or leaves one in it.            *)
LEMMA QueueNext ==
  ASSUME Typed, QueueInv, [Next]_vars
  PROVE  QueueInv'
  <1>1. ASSUME NEW t \in Task, PrepareWait(t) PROVE QueueInv'
    <2>1. /\ ServiceOf[t] \in Service /\ t \notin WaitingFor(ServiceOf[t])
          /\ waiters' = [waiters EXCEPT ![ServiceOf[t]] = Append(waiters[ServiceOf[t]], t)]
          /\ pc' = [pc EXCEPT ![t] = "waiting"]
      BY <1>1, ServiceOfTask DEF PrepareWait, Goes, WaitingFor
    <2>2. Queues(waiters[ServiceOf[t]], WaitingFor(ServiceOf[t]))
      BY <2>1 DEF QueueInv
    <2>3. Queues(Append(waiters[ServiceOf[t]], t), WaitingFor(ServiceOf[t]) \cup {t})
      BY <2>1, <2>2, AppendQueues
    <2>. QED BY <2>1, <2>3, QueueStep
  <1>2. ASSUME NEW t \in Task, WakeCreate(t) \/ WakeDone(t) PROVE QueueInv'
    <2>1. PICK state \in {"locked", "ready"} :
            /\ waiters' = [waiters EXCEPT ![ServiceOf[t]] = Tail(waiters[ServiceOf[t]])]
            /\ pc' = [pc EXCEPT ![t] = state]
      BY <1>2 DEF WakeCreate, WakeDone, Goes
    <2>2. waiters[ServiceOf[t]] # <<>> /\ Head(waiters[ServiceOf[t]]) = t
      BY <1>2 DEF WakeCreate, WakeDone, AtHead
    <2>3. Queues(waiters[ServiceOf[t]], WaitingFor(ServiceOf[t]))
      BY ServiceOfTask DEF QueueInv
    <2>4. Queues(Tail(waiters[ServiceOf[t]]), WaitingFor(ServiceOf[t]) \ {t})
      BY <2>2, <2>3, TailQueues
    <2>. QED BY <2>1, <2>4, QueueStep
  <1>3. ASSUME NEW t \in Task, CancelWait(t) PROVE QueueInv'
    <2>1. PICK i \in DOMAIN waiters[ServiceOf[t]] :
            /\ waiters[ServiceOf[t]][i] = t
            /\ waiters' = [waiters EXCEPT
                             ![ServiceOf[t]] = Without(waiters[ServiceOf[t]], i)]
      BY <1>3 DEF CancelWait
    <2>2. PICK state \in {"raised"} : pc' = [pc EXCEPT ![t] = state]
      BY <1>3 DEF CancelWait, Goes
    <2>3. Queues(waiters[ServiceOf[t]], WaitingFor(ServiceOf[t]))
      BY ServiceOfTask DEF QueueInv
    <2>. DEFINE q == Without(waiters[ServiceOf[t]], i)
    <2>4. Queues(q, WaitingFor(ServiceOf[t]) \ {t})
      BY <2>1, <2>3, WithoutQueues
    <2>5. waiters' = [waiters EXCEPT ![ServiceOf[t]] = q]
      BY <2>1
    <2>. HIDE DEF q
    <2>. QED BY <2>2, <2>4, <2>5, QueueStep
  <1>4. ASSUME NEW t \in Task,
               \/ PrepareFast(t) \/ PrepareAcquire(t) \/ Inspect(t) \/ Finish(t)
               \/ Clash(t) \/ Return(t) \/ Fault(t)
        PROVE  QueueInv'
    <2>1. PICK state \in {"ready", "locked", "creating", "raised", "idle"} :
            pc' = [pc EXCEPT ![t] = state] /\ pc[t] # "waiting" /\ waiters' = waiters
      BY <1>4 DEF PrepareFast, PrepareAcquire, Inspect, Finish, Clash, Return, Fault,
                  Raise, Goes
    <2>. QED BY <2>1, QueueStays DEF Typed
  <1>5. ASSUME NEW t \in Task, NEW x \in Table, CreateTable(t, x) PROVE QueueInv'
    BY <1>5, QueueStays DEF CreateTable
  <1>6. ASSUME NEW p \in Service, Restart(p) PROVE QueueInv'
    <2>1. /\ waiters' = [waiters EXCEPT ![p] = <<>>]
          /\ \A u \in Task : pc'[u] = IF ServiceOf[u] = p THEN "idle" ELSE pc[u]
      BY <1>6 DEF Restart
    <2>2. waiters' \in [Service -> Seq(Task)]
      BY <2>1 DEF QueueInv
    <2>3. Queues(waiters'[p], WaitingFor(p)')
      <3>1. waiters'[p] = <<>> /\ WaitingFor(p)' = {}
        BY <2>1 DEF QueueInv, WaitingFor
      <3>2. Queues(<<>>, {})
        BY DEF Queues
      <3>. QED BY <3>1, <3>2
    <2>4. ASSUME NEW o \in Service, o # p PROVE Queues(waiters'[o], WaitingFor(o)')
      <3>1. waiters'[o] = waiters[o] /\ WaitingFor(o)' = WaitingFor(o)
        BY <2>1, <2>4 DEF QueueInv, WaitingFor
      <3>. QED BY <3>1 DEF QueueInv
    <2>5. \A o \in Service : Queues(waiters'[o], WaitingFor(o)')
      BY <2>3, <2>4
    <2>. QED BY <2>2, <2>5 DEF QueueInv
  <1>7. CASE UNCHANGED vars
    BY <1>7, QueueStays DEF vars
  <1>. QED BY <1>1, <1>2, <1>3, <1>4, <1>5, <1>6, <1>7
           DEF Next, Prepare, Proceed, Disturb

(* Every variable has its type, and the queue of a lock is exactly the      *)
(* coroutines that wait for it, through wake-ups, cancellations, restarts.  *)
THEOREM TablesTypes == Spec => []TypeOK
  <1>1. Init => QueueInv
    BY DEF Init, QueueInv, Queues, WaitingFor
  <1>2. Typed /\ QueueInv => TypeOK
    <2>. SUFFICES ASSUME Typed, QueueInv PROVE TypeOK
      OBVIOUS
    <2>1. ASSUME NEW p \in Service PROVE Queued(p)
      <3>1. Queues(waiters[p], WaitingFor(p))
        BY DEF QueueInv
      <3>. QED BY <3>1 DEF Queues, WaitingFor, Queued
    <2>. QED BY <2>1 DEF Typed, QueueInv, TypeOK
  <1>3. IInv => Typed
    BY DEF IInv
  <1>. QED BY <1>1, <1>2, <1>3, QueueNext, Invariant, PTL DEF Spec
=============================================================================
