---------------------- MODULE SessionRevisions_proofs ----------------------
(***************************************************************************)
(* Proofs about SessionRevisions, for any sessions, processes, objects,     *)
(* events and clocks.                                                      *)
(*                                                                         *)
(* The invariant adds to the properties what an append relies on between    *)
(* its load and its commit: where appends are serial, the rows it loaded    *)
(* are still as they were and its object is still accepted.                *)
(***************************************************************************)
EXTENDS SessionRevisions, TLAPS

(* A marker is one to one with the update_time it formats.                 *)
USE DEF Marker

(* What an object knows was stored, under a marker the row has had.        *)
ViewInv ==
  /\ \A s \in Session : updated[s] \in used[s]
  /\ \A o \in Object : object[o] # NoObject =>
       /\ object[o].view \subseteq LogOf(SessionObj(o))
       /\ object[o].marker \in used[SessionObj(o)]

(* An open append has an object, of the session of its event.              *)
OpenInv ==
  \A o \in Object : Open(o) =>
    /\ object[o] # NoObject
    /\ SessionOf[txn[o].event] = SessionObj(o)

(* Open appends keep out of each other's way.                              *)
Exclusive ==
  /\ Serial => \A o, q \in Object :
       Open(o) /\ Open(q) /\ SessionObj(o) = SessionObj(q) => o = q
  /\ RowLocks => \A o, q \in Object :
       Open(o) /\ Open(q) /\ o # q =>
         Writes(txn[o].event) \cap Writes(txn[q].event) = {}

(* What an open append loaded is what the row still holds.                 *)
LoadedInv ==
  /\ Serial => \A o \in Object : Open(o) =>
       /\ Accepts(o)
       /\ txn[o].loaded[SessionObj(o)] = merged[SessionObj(o)]
  /\ RowLocks => \A o \in Object :
       Open(o) /\ App \in Delta[txn[o].event] => txn[o].loaded[App] = merged[App]

(* The inductive invariant.                                                *)
Inv ==
  /\ TypeOK
  /\ ViewInv
  /\ OpenInv
  /\ Exclusive
  /\ LoadedInv
  /\ StateIsLog
  /\ AppStateIsLog
  /\ CurrentAccepted
  /\ StaleRefused

(* The initial states satisfy the invariant: nothing is stored or open.    *)
LEMMA InitInv == Init => Inv
<1> SUFFICES ASSUME Init PROVE Inv
  OBVIOUS
<1> USE RevisionsAssumption DEF Init
<1>1. TypeOK
  BY DEF TypeOK, Key, StateRow
<1>2. ViewInv /\ OpenInv /\ Exclusive /\ LoadedInv
  BY DEF ViewInv, OpenInv, Exclusive, LoadedInv, Open
<1>3. StateIsLog /\ AppStateIsLog
  BY DEF StateIsLog, AppStateIsLog, StateRow
<1>4. CurrentAccepted /\ StaleRefused
  BY DEF CurrentAccepted, StaleRefused, Accepts
<1> QED
  BY <1>1, <1>2, <1>3, <1>4 DEF Inv

(* NoObject and Idle are neither objects nor appends.                      *)
LEMMA Kinds ==
  /\ \A x \in Objects : x # NoObject /\ x.view \subseteq Event /\ x.marker \in Time
  /\ \A x \in Appends : /\ x # Idle
                        /\ x.event \in Event
                        /\ x.loaded \in [StateRow -> SUBSET Event]
BY DEF Objects, NoObject, Appends, Idle

(* A fresh object of get_session keeps the invariant.                      *)
LEMMA GetSessionInv ==
  ASSUME Inv, NEW o \in Object, GetSession(o)
  PROVE  Inv'
<1> USE RevisionsAssumption DEF Inv
<1>1. ~Open(o) /\ object' = [object EXCEPT ![o] = ToSession(o)]
  BY DEF GetSession
<1>2. UNCHANGED <<merged, key, log, updated, txn, used, repeated>>
  BY DEF GetSession
<1>3. SessionObj(o) \in Session /\ LogOf(SessionObj(o)) \subseteq Event
  BY DEF SessionObj, LogOf, TypeOK
<1>4. /\ ToSession(o) \in Objects
      /\ ToSession(o) # NoObject
      /\ ToSession(o).view = LogOf(SessionObj(o))
      /\ ToSession(o).marker = updated[SessionObj(o)]
  BY <1>3 DEF ToSession, Objects, TypeOK, NoObject
<1>5. /\ object'[o] = ToSession(o)
      /\ \A q \in Object : q # o => object'[q] = object[q]
  BY <1>1 DEF TypeOK
<1>6. TypeOK'
  BY <1>1, <1>2, <1>4 DEF TypeOK
<1>7. \A q \in Object : Open(q)' = Open(q)
  BY <1>2 DEF Open
<1>8. \A s : LogOf(s)' = LogOf(s)
  BY <1>2 DEF LogOf
<1>9. ViewInv'
  BY <1>2, <1>3, <1>4, <1>5, <1>8 DEF ViewInv, SessionObj
<1>10. OpenInv' /\ Exclusive'
  BY <1>1, <1>2, <1>5, <1>7 DEF OpenInv, Exclusive, SessionObj, Writes
<1>11. LoadedInv'
  BY <1>1, <1>2, <1>5, <1>7 DEF LoadedInv, Accepts, SessionObj
<1>12. StateIsLog' /\ AppStateIsLog'
  BY <1>2 DEF StateIsLog, AppStateIsLog
<1>13. CurrentAccepted' /\ StaleRefused'
  BY <1>2, <1>4, <1>5, <1>8 DEF CurrentAccepted, StaleRefused, Accepts, SessionObj
<1> QED
  BY <1>6, <1>9, <1>10, <1>11, <1>12, <1>13

(* An append that is accepted starts alone in its session, and with row    *)
(* locks alone on its rows.                                                *)
LEMMA BeginAppendInv ==
  ASSUME Inv, NEW o \in Object, NEW e \in Event, BeginAppend(o, e)
  PROVE  Inv'
<1> USE RevisionsAssumption DEF Inv
<1> DEFINE s == SessionObj(o)
           a == [kind |-> "append", event |-> e, loaded |-> merged]
<1>1. /\ SessionOf[e] = s /\ Alone(o) /\ Unlocked(Writes(e)) /\ Accepts(o)
      /\ txn' = [txn EXCEPT ![o] = a]
      /\ UNCHANGED <<merged, key, log, updated, object, used, repeated>>
  BY DEF BeginAppend
<1>2. a \in Appends /\ a # Idle /\ a.event = e /\ a.loaded = merged
  BY DEF Appends, Idle, TypeOK
<1>3. /\ txn'[o] = a
      /\ \A q \in Object : q # o => txn'[q] = txn[q]
  BY <1>1 DEF TypeOK
<1>4. \A q \in Object : Open(q)' <=> q = o \/ Open(q)
  BY <1>2, <1>3 DEF Open
<1>5. \A q : LogOf(q)' = LogOf(q)
  BY <1>1 DEF LogOf
<1>6. TypeOK'
  BY <1>1, <1>2 DEF TypeOK
<1>7. ViewInv' /\ StateIsLog' /\ AppStateIsLog' /\ CurrentAccepted' /\ StaleRefused'
  BY <1>1, <1>5 DEF ViewInv, StateIsLog, AppStateIsLog, CurrentAccepted,
                    StaleRefused, Accepts
<1>8. OpenInv'
  BY <1>1, <1>2, <1>3, <1>4 DEF OpenInv, Accepts
<1>9. Serial => \A q \in Object : Open(q) => SessionObj(q) # s
  <2> SUFFICES ASSUME Serial, NEW q \in Object, Open(q), SessionObj(q) = s
               PROVE  FALSE
    OBVIOUS
  <2>1. CASE RowLocks
    <3>1. SessionOf[txn[q].event] = s
      BY DEF OpenInv
    <3>2. s \in Writes(txn[q].event) \cap Writes(e)
      BY <1>1, <3>1 DEF Writes
    <3> QED
      BY <1>1, <2>1, <3>2 DEF Unlocked
  <2>2. CASE ~RowLocks
    <3>1. ProcessObj(q) = ProcessObj(o)
      BY <2>2 DEF Serial
    <3>2. ObjectOf[q] = ObjectOf[o]
      BY <3>1 DEF ProcessObj, SessionObj
    <3> QED
      BY <1>1, <3>2 DEF Alone
  <2> QED
    BY <2>1, <2>2
<1>10. RowLocks => \A q \in Object :
         Open(q) => Writes(txn[q].event) \cap Writes(e) = {}
  BY <1>1 DEF Unlocked
<1>11. Exclusive'
  <2>1. Serial => \A q, r \in Object :
          Open(q)' /\ Open(r)' /\ SessionObj(q) = SessionObj(r) => q = r
    BY <1>4, <1>9 DEF Exclusive
  <2>2. RowLocks => \A q, r \in Object :
          Open(q)' /\ Open(r)' /\ q # r =>
            Writes(txn'[q].event) \cap Writes(txn'[r].event) = {}
    BY <1>2, <1>3, <1>4, <1>10 DEF Exclusive
  <2> QED
    BY <2>1, <2>2 DEF Exclusive, SessionObj, Writes, Serial, ProcessObj
<1>12. LoadedInv'
  BY <1>1, <1>2, <1>3, <1>4 DEF LoadedInv, Accepts, SessionObj, Serial, ProcessObj
<1> QED
  BY <1>6, <1>7, <1>8, <1>11, <1>12

(* An append that ends without a commit, and a process that ends, leave     *)
(* fewer open appends and fewer objects, and nothing else.                 *)
LEMMA EndInv ==
  ASSUME Inv,
         UNCHANGED <<merged, key, log, updated, used, repeated>>,
         object' \in [Object -> Objects \cup {NoObject}],
         txn' \in [Object -> Appends \cup {Idle}],
         \A q \in Object : object'[q] \in {object[q], NoObject},
         \A q \in Object : txn'[q] \in {txn[q], Idle},
         \A q \in Object : Open(q)' => object'[q] = object[q]
  PROVE  Inv'
<1> USE RevisionsAssumption DEF Inv
<1>1. \A q \in Object : Open(q)' => Open(q) /\ txn'[q] = txn[q]
  BY DEF Open
<1>2. \A q : LogOf(q)' = LogOf(q)
  BY DEF LogOf
<1>3. TypeOK'
  BY DEF TypeOK
<1>4. ViewInv' /\ StateIsLog' /\ AppStateIsLog' /\ CurrentAccepted' /\ StaleRefused'
  BY <1>2 DEF ViewInv, StateIsLog, AppStateIsLog, CurrentAccepted, StaleRefused,
              Accepts
<1>5. OpenInv' /\ Exclusive'
  BY <1>1 DEF OpenInv, Exclusive
<1>6. LoadedInv'
  BY <1>1 DEF LoadedInv, Accepts
<1> QED
  BY <1>3, <1>4, <1>5, <1>6

(* A commit keeps the invariant, whether or not its caller hears of it.    *)
LEMMA StoreInv ==
  ASSUME Inv, NEW o \in Object, NEW t \in Time, Open(o), Store(o, t),
         \/ UNCHANGED object
         \/ object' = [object EXCEPT ![o].view   = @ \cup {txn[o].event},
                                     ![o].marker = t]
  PROVE  Inv'
<1> USE RevisionsAssumption DEF Inv
<1> DEFINE s == SessionObj(o)
           e == txn[o].event
<1>1. /\ e \in Event /\ s \in Session /\ SessionOf[e] = s
      /\ txn[o].loaded \in [StateRow -> SUBSET Event]
      /\ object[o] \in Objects /\ object[o] # NoObject
  BY DEF Open, OpenInv, TypeOK, Appends, SessionObj
<1>2. /\ e \notin log /\ log' = log \cup {e}
      /\ merged' = StoredState(o)
      /\ updated' = [updated EXCEPT ![s] = t]
      /\ used' = [used EXCEPT ![s] = @ \cup {t}]
      /\ repeated' = IF t \in used[s] THEN repeated \cup {s} ELSE repeated
      /\ txn' = [txn EXCEPT ![o] = Idle]
      /\ key' = [x \in StateRow |-> IF x \in Delta[e] THEN Primary[ProcessObj(o)]
                                    ELSE key[x]]
  BY DEF Store
<1>3. /\ \A q \in Object : q # o => object'[q] = object[q] /\ txn'[q] = txn[q]
      /\ txn'[o] = Idle
      /\ object' \in [Object -> Objects \cup {NoObject}]
      /\ object'[o] # NoObject
      /\ \/ object'[o].view = object[o].view \cup {e} /\ object'[o].marker = t
         \/ object'[o] = object[o]
  <2>1. \A q \in Object : q # o => object'[q] = object[q] /\ txn'[q] = txn[q]
    BY <1>2 DEF TypeOK
  <2>2. txn'[o] = Idle
    BY <1>2 DEF TypeOK
  <2>3. CASE UNCHANGED object
    BY <1>1, <2>1, <2>2, <2>3 DEF TypeOK
  <2>4. CASE object' = [object EXCEPT ![o].view   = @ \cup {e}, ![o].marker = t]
    <3> DEFINE n == [object[o] EXCEPT !.view = @ \cup {e}, !.marker = t]
    <3>1. n \in Objects /\ n.view = object[o].view \cup {e} /\ n.marker = t
      BY <1>1 DEF Objects
    <3>2. n # NoObject
      BY <3>1, Kinds
    <3>3. object'[o] = n
      BY <2>4 DEF TypeOK
    <3>4. object' \in [Object -> Objects \cup {NoObject}]
      BY <2>1, <2>4, <3>1, <3>3 DEF TypeOK
    <3> QED
      BY <2>1, <2>2, <3>1, <3>2, <3>3, <3>4
  <2> QED
    BY <2>3, <2>4
<1>4. /\ \A r \in Session : r # s => /\ updated'[r] = updated[r]
                                     /\ used'[r] = used[r]
                                     /\ LogOf(r)' = LogOf(r)
                                     /\ r \in repeated' <=> r \in repeated
      /\ updated'[s] = t
      /\ used'[s] = used[s] \cup {t}
      /\ LogOf(s)' = LogOf(s) \cup {e}
      /\ e \notin LogOf(s)
      /\ s \notin repeated' => t \notin used[s] /\ s \notin repeated
  <2>1. /\ \A r \in Session : r # s => updated'[r] = updated[r] /\ used'[r] = used[r]
        /\ updated'[s] = t /\ used'[s] = used[s] \cup {t}
    BY <1>1, <1>2 DEF TypeOK
  <2>2. /\ \A r \in Session : r # s => LogOf(r)' = LogOf(r)
        /\ LogOf(s)' = LogOf(s) \cup {e} /\ e \notin LogOf(s)
    BY <1>1, <1>2 DEF LogOf
  <2>3. /\ \A r \in Session : r # s => (r \in repeated' <=> r \in repeated)
        /\ s \notin repeated' => t \notin used[s] /\ s \notin repeated
    BY <1>2
  <2> QED
    BY <2>1, <2>2, <2>3
<1>5. TypeOK'
  <2>1. merged' \in [StateRow -> SUBSET Event]
    BY <1>1, <1>2 DEF StoredState, TypeOK
  <2>2. key' \in [StateRow -> Key]
    BY <1>2 DEF TypeOK, ProcessObj
  <2> QED
    BY <1>1, <1>2, <1>3, <2>1, <2>2 DEF TypeOK
<1>6. \A q \in Object : Open(q)' <=> q # o /\ Open(q)
  BY <1>3 DEF Open
<1>7. \A q \in Object : SessionObj(q) \in Session
  BY DEF SessionObj
<1>8. ViewInv'
  <2>1. \A r \in Session : updated'[r] \in used'[r]
    BY <1>4 DEF ViewInv
  <2>2. \A r \in Session : used[r] \subseteq used'[r] /\ LogOf(r) \subseteq LogOf(r)'
    BY <1>4
  <2>3. ASSUME NEW q \in Object, object'[q] # NoObject
        PROVE  /\ object'[q].view \subseteq LogOf(SessionObj(q))'
               /\ object'[q].marker \in used'[SessionObj(q)]
    <3>1. CASE object'[q] = object[q]
      BY <1>7, <2>2, <2>3, <3>1 DEF ViewInv
    <3>2. CASE q = o /\ object'[o].view = object[o].view \cup {e}
                     /\ object'[o].marker = t
      BY <1>1, <1>4, <3>2 DEF ViewInv
    <3> QED
      BY <1>3, <3>1, <3>2
  <2> QED
    BY <2>1, <2>3 DEF ViewInv, SessionObj
<1>9. OpenInv' /\ Exclusive'
  BY <1>3, <1>6 DEF OpenInv, Exclusive
<1>10. Serial => \A q \in Object : Open(q)' => SessionObj(q) # s
  BY <1>6 DEF Exclusive
<1>11. \A x \in StateRow \ Delta[e] : merged'[x] = merged[x]
  BY <1>2 DEF StoredState
<1>12. \A x \in Delta[e] : merged'[x] = txn[o].loaded[x] \cup {e}
  BY <1>1, <1>2 DEF StoredState
<1>13. LoadedInv'
  <2>1. ASSUME Serial, NEW q \in Object, Open(q)'
        PROVE  /\ Accepts(q)'
               /\ txn'[q].loaded[SessionObj(q)] = merged'[SessionObj(q)]
    <3>1. q # o /\ Open(q) /\ SessionObj(q) # s /\ SessionObj(q) \in Session
      BY <1>6, <1>7, <1>10, <2>1
    <3>2. SessionObj(q) \in StateRow \ Delta[e]
      BY <1>1, <3>1 DEF StateRow
    <3>3. merged'[SessionObj(q)] = merged[SessionObj(q)]
      BY <1>11, <3>2
    <3>4. updated'[SessionObj(q)] = updated[SessionObj(q)]
      BY <1>4, <3>1
    <3> QED
      BY <1>3, <2>1, <3>1, <3>3, <3>4 DEF LoadedInv, Accepts, SessionObj
  <2>2. ASSUME RowLocks, NEW q \in Object, Open(q)', App \in Delta[txn'[q].event]
        PROVE  txn'[q].loaded[App] = merged'[App]
    <3>1. q # o /\ Open(q) /\ txn'[q] = txn[q]
      BY <1>3, <1>6, <2>2
    <3>2. App \notin Delta[e]
      BY <2>2, <3>1 DEF Exclusive, Writes
    <3> QED
      BY <1>11, <2>2, <3>1, <3>2 DEF LoadedInv, StateRow
  <2> QED
    BY <2>1, <2>2 DEF LoadedInv, Serial, SessionObj, ProcessObj
<1>14. StateIsLog'
  <2> SUFFICES ASSUME Serial, NEW r \in Session
               PROVE  merged'[r] = {d \in log' : r \in Delta[d]}
    BY DEF StateIsLog, Serial, SessionObj, ProcessObj
  <2>1. merged[r] = {d \in log : r \in Delta[d]}
    BY DEF StateIsLog
  <2>2. CASE r \in Delta[e]
    <3>1. r = s
      BY <1>1, <2>2
    <3>2. merged'[r] = merged[r] \cup {e}
      BY <1>12, <2>2, <3>1 DEF LoadedInv
    <3> QED
      BY <1>2, <2>1, <2>2, <3>2
  <2>3. CASE r \notin Delta[e]
    BY <1>2, <1>11, <2>1, <2>3 DEF StateRow
  <2> QED
    BY <2>2, <2>3
<1>15. AppStateIsLog'
  <2> SUFFICES ASSUME RowLocks PROVE merged'[App] = {d \in log' : App \in Delta[d]}
    BY DEF AppStateIsLog
  <2>1. merged[App] = {d \in log : App \in Delta[d]}
    BY DEF AppStateIsLog
  <2>2. CASE App \in Delta[e]
    <3>1. merged'[App] = merged[App] \cup {e}
      BY <1>12, <2>2 DEF LoadedInv
    <3> QED
      BY <1>2, <2>1, <2>2, <3>1
  <2>3. CASE App \notin Delta[e]
    BY <1>2, <1>11, <2>1, <2>3 DEF StateRow
  <2> QED
    BY <2>2, <2>3
<1>16. CurrentAccepted'
  <2> SUFFICES ASSUME NEW q \in Object, object'[q] # NoObject,
                      object'[q].view = LogOf(SessionObj(q))'
               PROVE  object'[q].marker = updated'[SessionObj(q)]
    BY DEF CurrentAccepted, Accepts, SessionObj
  <2>1. CASE SessionObj(q) # s
    BY <1>3, <1>4, <1>7, <2>1 DEF CurrentAccepted, Accepts
  <2>2. CASE SessionObj(q) = s
    <3>1. object'[q] # object[q]
      BY <1>4, <2>2 DEF ViewInv
    <3> QED
      BY <1>3, <1>4, <2>2, <3>1
  <2> QED
    BY <2>1, <2>2
<1>17. StaleRefused'
  <2> SUFFICES ASSUME Serial, NEW q \in Object, object'[q] # NoObject,
                      object'[q].marker = updated'[SessionObj(q)],
                      SessionObj(q) \notin repeated'
               PROVE  object'[q].view = LogOf(SessionObj(q))'
    BY DEF StaleRefused, Accepts, Serial, SessionObj, ProcessObj
  <2>1. CASE SessionObj(q) # s
    BY <1>3, <1>4, <1>7, <2>1 DEF StaleRefused, Accepts
  <2>2. CASE SessionObj(q) = s
    <3>1. object[q].marker \in used[s] \/ object[q] = NoObject
      BY <2>2 DEF ViewInv
    <3>2. object'[q] # object[q]
      BY <1>4, <2>2, <3>1
    <3>3. q = o /\ object'[o].view = object[o].view \cup {e}
      BY <1>3, <3>2
    <3>4. object[o].view = LogOf(s)
      BY <1>4, <2>2 DEF StaleRefused, LoadedInv
    <3> QED
      BY <1>4, <2>2, <3>3, <3>4
  <2> QED
    BY <2>1, <2>2
<1> QED
  BY <1>5, <1>8, <1>9, <1>13, <1>14, <1>15, <1>16, <1>17

(* Every step keeps the invariant.                                         *)
LEMMA NextInv == Inv /\ [Next]_vars => Inv'
<1> SUFFICES ASSUME Inv, [Next]_vars PROVE Inv'
  OBVIOUS
<1>1. ASSUME NEW o \in Object, GetSession(o) PROVE Inv'
  BY <1>1, GetSessionInv
<1>2. ASSUME NEW o \in Object, FailAppend(o) PROVE Inv'
  <2>1. /\ UNCHANGED <<merged, key, log, updated, object, used, repeated>>
        /\ txn' = [txn EXCEPT ![o] = Idle]
    BY <1>2 DEF FailAppend
  <2>2. /\ txn' \in [Object -> Appends \cup {Idle}]
        /\ \A q \in Object : txn'[q] \in {txn[q], Idle}
    BY <2>1 DEF Inv, TypeOK
  <2>3. /\ object' \in [Object -> Objects \cup {NoObject}]
        /\ \A q \in Object : object'[q] = object[q]
    BY <2>1 DEF Inv, TypeOK
  <2> QED
    BY <2>1, <2>2, <2>3, EndInv
<1>3. ASSUME NEW o \in Object, NEW e \in Event, BeginAppend(o, e) PROVE Inv'
  BY <1>3, BeginAppendInv
<1>4. ASSUME NEW o \in Object, NEW t \in Time, CommitAppend(o, t) PROVE Inv'
  <2>1. Open(o) /\ Store(o, t)
    BY <1>4 DEF CommitAppend
  <2>2. updated' = [updated EXCEPT ![SessionObj(o)] = t] /\ SessionObj(o) \in Session
    BY <2>1, RevisionsAssumption DEF Store, SessionObj
  <2>3. updated'[SessionObj(o)] = t
    BY <2>2 DEF Inv, TypeOK
  <2>4. object' = [object EXCEPT ![o].view   = @ \cup {txn[o].event},
                                 ![o].marker = t]
    BY <1>4, <2>3 DEF CommitAppend, SessionObj
  <2> QED
    BY <2>1, <2>4, StoreInv
<1>5. ASSUME NEW o \in Object, NEW t \in Time, CommitUnheard(o, t) PROVE Inv'
  BY <1>5, StoreInv DEF CommitUnheard
<1>6. ASSUME NEW p \in Process, Exit(p) PROVE Inv'
  <2>1. UNCHANGED <<merged, key, log, updated, used, repeated>>
    BY <1>6 DEF Exit
  <2>2. /\ object' \in [Object -> Objects \cup {NoObject}]
        /\ txn' \in [Object -> Appends \cup {Idle}]
        /\ \A q \in Object : object'[q] \in {object[q], NoObject}
        /\ \A q \in Object : txn'[q] \in {txn[q], Idle}
    BY <1>6 DEF Exit, Inv, TypeOK
  <2>3. \A q \in Object : Open(q)' => object'[q] = object[q]
    BY <1>6 DEF Exit, Open, ProcessObj
  <2> QED
    BY <2>1, <2>2, <2>3, EndInv
<1>7. ASSUME NEW x \in StateRow, Rotate(x) PROVE Inv'
  <2>1. /\ UNCHANGED <<merged, log, updated, object, txn, used, repeated>>
        /\ key' \in [StateRow -> Key]
    BY <1>7 DEF Rotate, Inv, TypeOK, Key
  <2> QED
    BY <2>1 DEF Inv, TypeOK, ViewInv, OpenInv, Exclusive, LoadedInv, StateIsLog,
                AppStateIsLog, CurrentAccepted, StaleRefused, Accepts, Open, LogOf
<1>8. CASE UNCHANGED vars
  BY <1>8 DEF vars, Inv, TypeOK, ViewInv, OpenInv, Exclusive, LoadedInv, StateIsLog,
              AppStateIsLog, CurrentAccepted, StaleRefused, Accepts, Open, LogOf
<1> QED
  BY <1>1, <1>2, <1>3, <1>4, <1>5, <1>6, <1>7, <1>8 DEF Next

(* Every variable keeps its type.                                          *)
THEOREM RevisionTypes == Spec => []TypeOK
<1>1. Inv => TypeOK
  BY DEF Inv
<1> QED
  BY <1>1, InitInv, NextInv, PTL DEF Spec

(* No delta is ever lost or stored without its event in a session's state,  *)
(* if its appends are serial.                                              *)
THEOREM NoLostDelta == Spec => []StateIsLog
<1>1. Inv => StateIsLog
  BY DEF Inv
<1> QED
  BY <1>1, InitInv, NextInv, PTL DEF Spec

(* The same of the app's state, if the database locks rows.                 *)
THEOREM NoLostAppDelta == Spec => []AppStateIsLog
<1>1. Inv => AppStateIsLog
  BY DEF Inv
<1> QED
  BY <1>1, InitInv, NextInv, PTL DEF Spec

(* The update marker accepts every object that is current.                 *)
THEOREM MarkerAccepts == Spec => []CurrentAccepted
<1>1. Inv => CurrentAccepted
  BY DEF Inv
<1> QED
  BY <1>1, InitInv, NextInv, PTL DEF Spec

(* Until two commits have one update_time, it accepts only those.          *)
THEOREM MarkerRefuses == Spec => []StaleRefused
<1>1. Inv => StaleRefused
  BY DEF Inv
<1> QED
  BY <1>1, InitInv, NextInv, PTL DEF Spec
=============================================================================
