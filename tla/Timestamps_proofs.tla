------------------------- MODULE Timestamps_proofs -------------------------
(***************************************************************************)
(* Proofs about Timestamps, for any zones, whatever their clocks do, and    *)
(* any sequence of upgrades and moves.                                     *)
(***************************************************************************)
EXTENDS Timestamps, TLAPS

(* Every column has the wall time of its instant in its convention, and an  *)
(* event's payload, if it has one, the instant itself.                     *)
RowsInv ==
  /\ \A e \in EventId : Stored(e) =>
       /\ events[e].column = Wall(events[e].by, events[e].at)
       /\ events[e].payload \in {events[e].at, NoTime}
  /\ session.column = Wall(session.by, session.at)

(* The inductive invariant.                                                *)
Inv == TypeOK /\ RowsInv

(* Offsets and wall times are integers.                                    *)
LEMMA WallType ==
  ASSUME NEW c \in Convention, NEW u \in Instant
  PROVE  OffsetOf(c, u) \in Int /\ Wall(c, u) \in Int /\ u \in Int
BY TimestampsAssumption DEF Convention, OffsetOf, Wall

(* Reading a naive datetime inverts writing it, unless it is ambiguous;     *)
(* in UTC it never is.                                                     *)
LEMMA ReadBack ==
  ASSUME NEW c \in Convention, NEW u \in Instant,
         c = UTC \/ Unambiguous(c, u)
  PROVE  FromWall(c, Wall(c, u)) = u
<1>1. CASE c = UTC
  BY <1>1, WallType DEF FromWall, Wall, OffsetOf
<1>2. CASE c # UTC
  <2> DEFINE R == Readings(c, Wall(c, u))
  <2>1. R = {u}
    BY <1>2 DEF Unambiguous
  <2>2. u <= u
    BY WallType
  <2>3. (CHOOSE v \in R : \A x \in R : v <= x) = u
    BY <2>1, <2>2
  <2>4. FromWall(c, Wall(c, u)) = CHOOSE v \in R : \A x \in R : v <= x
    BY <1>2, <2>1 DEF FromWall
  <2> QED
    BY <2>3, <2>4
<1> QED
  BY <1>1, <1>2

(* The conventions in force are conventions.                               *)
LEMMA ConventionsType ==
  TypeOK => EventConvention \in Convention /\ UpdateConvention \in Convention
BY DEF TypeOK, EventConvention, UpdateConvention, Convention

(* Rows are written as RowsInv says.                                       *)
LEMMA WriteType ==
  ASSUME TypeOK, NEW u \in Instant, NEW p \in {u, NoTime}
  PROVE  /\ FromEvent(u, p) \in EventRow
         /\ FromEvent(u, p) # NoRow
         /\ FromEvent(u, p).column = Wall(FromEvent(u, p).by, FromEvent(u, p).at)
         /\ FromEvent(u, p).payload \in {FromEvent(u, p).at, NoTime}
         /\ WriteUpdateTime(u) \in UpdateTime
         /\ WriteUpdateTime(u).column =
              Wall(WriteUpdateTime(u).by, WriteUpdateTime(u).at)
<1>1. EventConvention \in Convention /\ UpdateConvention \in Convention
  BY ConventionsType
<1>2. Wall(EventConvention, u) \in Int /\ Wall(UpdateConvention, u) \in Int
  BY <1>1, WallType
<1> QED
  BY <1>1, <1>2
  DEF FromEvent, EventToStorage, EventRow, NoRow, WriteUpdateTime, UpdateTime

(* The invariant holds initially.                                          *)
LEMMA InitInv == Init => Inv
<1> SUFFICES ASSUME Init PROVE Inv
  OBVIOUS
<1>1. PICK u \in Instant : session = WriteUpdateTime(u)
  BY DEF Init
<1>2. /\ UpdateConvention \in Convention
      /\ Wall(UpdateConvention, u) \in Int
  <2>1. UpdateConvention \in Convention
    BY DEF Init, UpdateConvention, Convention
  <2> QED
    BY <2>1, WallType
<1>3. session \in UpdateTime /\ session.column = Wall(session.by, session.at)
  BY <1>1, <1>2 DEF WriteUpdateTime, UpdateTime
<1> QED
  BY <1>3 DEF Init, Inv, TypeOK, RowsInv, Stored

(* Every step keeps it.                                                    *)
LEMMA NextInv == Inv /\ [Next]_vars => Inv'
<1> SUFFICES ASSUME Inv, [Next]_vars PROVE Inv'
  OBVIOUS
<1> USE DEF Inv
<1>1. ASSUME NEW e \in EventId, NEW u \in Instant, NEW p \in {u, NoTime}, ~Stored(e),
             events' = [events EXCEPT ![e] = FromEvent(u, p)],
             session' = WriteUpdateTime(u) \/ UNCHANGED session,
             UNCHANGED <<release, dialect, zone>>
      PROVE  Inv'
  <2>1. /\ events'[e] = FromEvent(u, p)
        /\ \A d \in EventId : d # e => events'[d] = events[d]
    BY <1>1 DEF TypeOK
  <2>2. /\ session' \in UpdateTime
        /\ session'.column = Wall(session'.by, session'.at)
    BY <1>1, WriteType DEF TypeOK, RowsInv
  <2>3. TypeOK'
    BY <1>1, <2>2, WriteType DEF TypeOK
  <2>4. RowsInv'
    BY <1>1, <2>1, <2>2, WriteType DEF RowsInv, Stored
  <2> QED
    BY <2>3, <2>4
<1>2. ASSUME NEW e \in EventId, NEW u \in Instant, AppendEvent(e, u) PROVE Inv'
  BY <1>1, <1>2 DEF AppendEvent
<1>3. ASSUME NEW e \in EventId, NEW u \in Instant, ImportEvent(e, u) PROVE Inv'
  BY <1>1, <1>3 DEF ImportEvent
<1>4. ASSUME NEW r \in Releases, Upgrade(r) PROVE Inv'
  BY <1>4 DEF Upgrade, TypeOK, RowsInv, Stored
<1>5. ASSUME NEW z \in Zone, MoveHost(z) PROVE Inv'
  BY <1>5 DEF MoveHost, TypeOK, RowsInv, Stored
<1>6. CASE UNCHANGED vars
  BY <1>6 DEF vars, TypeOK, RowsInv, Stored
<1> QED
  BY <1>2, <1>3, <1>4, <1>5, <1>6 DEF Next

(* Type correctness.                                                       *)
THEOREM TimestampTypes == Spec => []TypeOK
<1>1. Inv => TypeOK
  BY DEF Inv
<1> QED
  BY <1>1, InitInv, NextInv, PTL DEF Spec

(* Events keep their timestamps through every upgrade and move.            *)
THEOREM EventsKeepTime == Spec => []TimestampsExact
<1>1. Inv => TimestampsExact
  <2> SUFFICES ASSUME Inv, NEW e \in EventId, Stored(e),
                      \/ events[e].payload # NoTime
                      \/ /\ events[e].by = EventConvention
                         /\ Unambiguous(events[e].by, events[e].at)
               PROVE  ToEvent(events[e]) = events[e].at
    BY DEF TimestampsExact
  <2>1. events[e] \in EventRow
    BY DEF Inv, TypeOK, Stored
  <2>2. CASE events[e].payload # NoTime
    BY <2>2 DEF Inv, RowsInv, ToEvent
  <2>3. CASE events[e].payload = NoTime
    <3>1. StorageToEvent(events[e].column) = events[e].at
      BY <2>1, <2>3, ReadBack DEF Inv, RowsInv, StorageToEvent, EventRow
    <3> QED
      BY <2>3, <3>1 DEF ToEvent
  <2> QED
    BY <2>2, <2>3
<1> QED
  BY <1>1, InitInv, NextInv, PTL DEF Spec

(* after_timestamp errs by no more than the change of the clock.           *)
THEOREM FilterSelectsLater == Spec => []AfterIsLater
<1>1. Inv => AfterIsLater
  <2> SUFFICES ASSUME Inv, NEW e \in EventId, NEW cutoff \in Instant, Stored(e),
                      events[e].by = EventConvention, events[e].at # cutoff
               PROVE  \/ e \in After(cutoff) <=> events[e].at > cutoff
                      \/ Distance(events[e].at, cutoff) <=
                           Distance(OffsetOf(EventConvention, events[e].at),
                                    OffsetOf(EventConvention, cutoff))
    BY DEF AfterIsLater
  <2> DEFINE c == EventConvention
             a == events[e].at
  <2>1. a \in Instant /\ c \in Convention
    BY ConventionsType DEF Inv, TypeOK, Stored, EventRow
  <2>2. /\ a \in Int /\ cutoff \in Int
        /\ OffsetOf(c, a) \in Int /\ OffsetOf(c, cutoff) \in Int
    BY <2>1, WallType
  <2>3. e \in After(cutoff) <=> a + OffsetOf(c, a) > cutoff + OffsetOf(c, cutoff)
    BY DEF After, Inv, RowsInv, Wall
  <2> HIDE DEF c, a
  <2> QED
    BY <2>2, <2>3 DEF Distance, c, a
<1> QED
  BY <1>1, InitInv, NextInv, PTL DEF Spec

(* Update times are read as they were written.                             *)
THEOREM UpdateTimesKept == Spec => []UpdateTimeExact
<1>1. Inv => UpdateTimeExact
  <2> SUFFICES ASSUME Inv, session.by = UpdateConvention,
                      Unambiguous(session.by, session.at)
               PROVE  LastUpdateTime = session.at
    BY DEF UpdateTimeExact
  <2>1. session.by \in Convention /\ session.at \in Instant
    BY DEF Inv, TypeOK, UpdateTime
  <2>2. FromWall(session.by, session.column) = session.at
    BY <2>1, ReadBack DEF Inv, RowsInv
  <2>3. LastUpdateTime = FromWall(UpdateConvention, session.column)
    BY DEF LastUpdateTime, UpdateTimestamp, UpdateConvention, IsSqlite,
           IsPostgresql, DialectName
  <2> QED
    BY <2>2, <2>3
<1> QED
  BY <1>1, InitInv, NextInv, PTL DEF Spec

(* Both accessors read every update time alike, under every release.       *)
THEOREM AccessorsRead == Spec => []AccessorsAgree
<1>1. AccessorsAgree
  BY DEF AccessorsAgree, LastUpdateTime, UpdateTimestampTz, UpdateTimestamp,
         IsSqlite, IsPostgresql, DialectName
<1> QED
  BY <1>1, PTL
=============================================================================
