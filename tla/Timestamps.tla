----------------------------- MODULE Timestamps -----------------------------
(***************************************************************************)
(* Points in time as the encrypted models store them (services/models.py). *)
(*                                                                         *)
(* Both timestamp columns are naive datetimes, and what a naive datetime   *)
(* means depends on the installed google-adk, on the database and on the   *)
(* zone of the host: events.timestamp is UTC from 2.7.0 and local before,  *)
(* sessions.update_time is UTC from 2.4.0 and on SQLite, local otherwise.  *)
(* models.py has to write and read whichever google-adk does.  A database  *)
(* lives through upgrades of google-adk and through changes of host.       *)
(*                                                                         *)
(* Data: a timestamp is an integer, a zone is what it adds to UTC at each   *)
(* one, so a clock that is set back gives two timestamps one wall time and *)
(* one that is set forward skips some.  The column drops datetime.fold.    *)
(***************************************************************************)
EXTENDS Integers

CONSTANTS
  Instant,   \* POSIX timestamps
  Zone,      \* time zones a host may be in
  Offset,    \* Offset[z][u]: local time of z minus UTC, at u
  EventId,   \* primary keys of events
  Releases,  \* releases of google-adk a deployment goes through
  Dialects,  \* databases it may use
  NoTime     \* the payload of an event row has no timestamp

UTC == "UTC"

(* Ranges of releases by their first one, in order.                        *)
AllReleases == <<"1.22", "1.26", "2.4", "2.7">>

Rank(r) == CHOOSE i \in 1..4 : AllReleases[i] = r

ASSUME TimestampsAssumption ==
  /\ Instant \subseteq Int
  /\ Offset \in [Zone -> [Instant -> Int]]
  /\ UTC \notin Zone
  /\ NoTime \notin Int
  /\ Releases \subseteq {AllReleases[i] : i \in 1..4}
  /\ Dialects \subseteq {"sqlite", "postgresql", "mysql"}

VARIABLES
  release,   \* the google-adk that is installed
  dialect,   \* the database
  zone,      \* the zone of the host
  events,    \* events[e]: row of the events table, or NoRow
  session    \* the update_time of a row of the sessions table

vars == <<release, dialect, zone, events, session>>

Convention == Zone \cup {UTC}

NoRow == [kind |-> "none"]

(* A row has its column and payload, and, for the properties, the instant   *)
(* and the convention it was written with.                                 *)
EventRow ==
  [kind : {"event"}, column : Int, payload : Instant \cup {NoTime},
   at : Instant, by : Convention]

UpdateTime == [column : Int, at : Instant, by : Convention]

(* Every variable has its type.                                            *)
TypeOK ==
  /\ release \in Releases
  /\ dialect \in Dialects
  /\ zone \in Zone
  /\ events \in [EventId -> EventRow \cup {NoRow}]
  /\ session \in UpdateTime

-----------------------------------------------------------------------------
(* Naive datetimes.                                                        *)

OffsetOf(c, u) == IF c = UTC THEN 0 ELSE Offset[c][u]

(* datetime.fromtimestamp(u), or its UTC counterpart.                      *)
Wall(c, u) == u + OffsetOf(c, u)

(* The instants a naive datetime may stand for.                            *)
Readings(c, w) == {u \in Instant : Wall(c, u) = w}

(* value.timestamp(): the earlier reading of two (fold = 0); a time that    *)
(* was skipped is read with the offset before the change.                  *)
FromWall(c, w) ==
  IF c = UTC THEN w
  ELSE IF Readings(c, w) # {}
  THEN CHOOSE u \in Readings(c, w) : \A x \in Readings(c, w) : u <= x
  ELSE LET before == {u \in Instant : Wall(c, u) < w}
       IN  w - (IF before = {} THEN 0
                ELSE OffsetOf(c, CHOOSE u \in before : \A x \in before : x <= u))

(* No other instant has its wall time.                                     *)
Unambiguous(c, u) == Readings(c, Wall(c, u)) = {u}

-----------------------------------------------------------------------------
(* events.timestamp.                                                       *)

(* _EVENT_TIMESTAMPS_ARE_UTC: the schemas of google-adk have the helpers.   *)
EventsAreUtc == release = "2.7"

EventConvention == IF EventsAreUtc THEN UTC ELSE zone

(* Mutant of EventToStorage: UTC whatever is installed.                    *)
EventToStorageUtc(u) == Wall(UTC, u)

(* _event_timestamp_to_storage.                                            *)
EventToStorage(u) == Wall(EventConvention, u)

(* _storage_to_event_timestamp.                                            *)
StorageToEvent(w) == FromWall(EventConvention, w)

(* Mutant of ToEvent: the column comes first.                              *)
ToEventColumn(row) == StorageToEvent(row.column)

(* to_event(): the timestamp of the event.                                 *)
ToEvent(row) ==
  IF row.payload # NoTime THEN row.payload ELSE StorageToEvent(row.column)

(* Mutant of FromEvent: the column is left to its default.                 *)
FromEventDefault(u, payload) ==
  [kind |-> "event", column |-> NoTime, payload |-> payload,
   at |-> u, by |-> EventConvention]

(* from_event(): the row of an event.                                      *)
FromEvent(u, payload) ==
  [kind |-> "event", column |-> EventToStorage(u), payload |-> payload,
   at |-> u, by |-> EventConvention]

Stored(e) == events[e] # NoRow

(* get_session with after_timestamp: google-adk compares the column with    *)
(* the cutoff in its own convention.  (What it does with an event at the    *)
(* cutoff is nothing to the properties.)                                   *)
After(cutoff) ==
  {e \in EventId : Stored(e) /\ events[e].column > Wall(EventConvention, cutoff)}

-----------------------------------------------------------------------------
(* sessions.update_time.                                                   *)

(* _NAIVE_UPDATE_TIME_IS_UTC: get_update_timestamp has is_postgresql.       *)
NaiveUpdateTimeIsUtc == release \in {"2.4", "2.7"}

(* What google-adk writes.                                                 *)
UpdateConvention ==
  IF NaiveUpdateTimeIsUtc \/ dialect = "sqlite" THEN UTC ELSE zone

(* The flags it passes to to_session(): none before 1.26, is_sqlite from    *)
(* then on, is_postgresql too from 2.4.                                    *)
IsSqlite == release # "1.22" /\ dialect = "sqlite"

IsPostgresql == NaiveUpdateTimeIsUtc /\ dialect = "postgresql"

(* _dialect_name: None on a row that is in no ORM session.                 *)
DialectName(bound) == IF bound THEN dialect ELSE "none"

(* Mutant of UpdateTimestamp: the flags alone decide.                      *)
UpdateTimestampByFlags(w, is_sqlite, is_postgresql, bound) ==
  IF is_sqlite \/ is_postgresql \/ NaiveUpdateTimeIsUtc
  THEN FromWall(UTC, w)
  ELSE FromWall(zone, w)

(* Mutant of UpdateTimestamp: a naive value is UTC.                        *)
UpdateTimestampUtc(w, is_sqlite, is_postgresql, bound) == FromWall(UTC, w)

(* get_update_timestamp() of a naive column.                               *)
UpdateTimestamp(w, is_sqlite, is_postgresql, bound) ==
  IF \/ is_sqlite
     \/ is_postgresql
     \/ NaiveUpdateTimeIsUtc
     \/ DialectName(bound) = "sqlite"
  THEN FromWall(UTC, w)
  ELSE FromWall(zone, w)

(* to_session(): last_update_time of the Session it makes.                 *)
LastUpdateTime == UpdateTimestamp(session.column, IsSqlite, IsPostgresql, TRUE)

(* update_timestamp_tz, of a row in an ORM session.                        *)
UpdateTimestampTz == UpdateTimestamp(session.column, FALSE, FALSE, TRUE)

WriteUpdateTime(u) ==
  [column |-> Wall(UpdateConvention, u), at |-> u, by |-> UpdateConvention]

-----------------------------------------------------------------------------
Init ==
  /\ release \in Releases
  /\ dialect \in Dialects
  /\ zone \in Zone
  /\ events = [e \in EventId |-> NoRow]
  /\ \E u \in Instant : session = WriteUpdateTime(u)

(* append_event: from_event() dumps the event, whose timestamp is always    *)
(* set, and the session's update_time is that of the event.                *)
AppendEvent(e, u) ==
  /\ ~Stored(e)
  /\ events' = [events EXCEPT ![e] = FromEvent(u, u)]
  /\ session' = WriteUpdateTime(u)
  /\ UNCHANGED <<release, dialect, zone>>

(* A row whose event_data is NULL or has no timestamp.                     *)
ImportEvent(e, u) ==
  /\ ~Stored(e)
  /\ events' = [events EXCEPT ![e] = FromEvent(u, NoTime)]
  /\ UNCHANGED <<release, dialect, zone, session>>

(* google-adk is upgraded.                                                 *)
Upgrade(r) ==
  /\ Rank(r) > Rank(release)
  /\ release' = r
  /\ UNCHANGED <<dialect, zone, events, session>>

(* The service moves to a host in another zone.                            *)
MoveHost(z) ==
  /\ zone' = z
  /\ UNCHANGED <<release, dialect, events, session>>

Next ==
  \/ \E e \in EventId, u \in Instant : AppendEvent(e, u) \/ ImportEvent(e, u)
  \/ \E r \in Releases : Upgrade(r)
  \/ \E z \in Zone : MoveHost(z)

Spec == Init /\ [][Next]_vars

-----------------------------------------------------------------------------
(* Properties.                                                             *)

(* An event comes back with the very timestamp it was appended with, after  *)
(* any upgrades and moves.  A row without one in its payload needs the      *)
(* convention it was written in, and a wall time that is not ambiguous.    *)
TimestampsExact ==
  \A e \in EventId : Stored(e) =>
    LET row == events[e]
    IN  \/ row.payload # NoTime
        \/ row.by = EventConvention /\ Unambiguous(row.by, row.at)
        => ToEvent(row) = row.at

Distance(a, b) == IF a <= b THEN b - a ELSE a - b

(* after_timestamp selects the later events and no others, among the rows   *)
(* of the present convention, but for those closer to the cutoff than the  *)
(* clock was set in between.  From 2.7.0 on that is all of them.           *)
AfterIsLater ==
  \A e \in EventId, cutoff \in Instant :
    Stored(e) /\ events[e].by = EventConvention /\ events[e].at # cutoff =>
      \/ e \in After(cutoff) <=> events[e].at > cutoff
      \/ Distance(events[e].at, cutoff) <=
           Distance(OffsetOf(EventConvention, events[e].at),
                    OffsetOf(EventConvention, cutoff))

(* The update time of a session is read back as it was written, as long as  *)
(* release and host have kept to one convention.                           *)
UpdateTimeExact ==
  session.by = UpdateConvention /\ Unambiguous(session.by, session.at) =>
    LastUpdateTime = session.at

(* The two ways google-adk reads an update_time, with flags when it makes   *)
(* a Session and with none when it checks one, always agree: otherwise an   *)
(* append would find every session stale, or none.                         *)
AccessorsAgree == LastUpdateTime = UpdateTimestampTz
=============================================================================
