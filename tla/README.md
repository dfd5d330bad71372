# A TLA+ model of adk-secure-sessions

`adk-secure-sessions` encrypts what google-adk's `DatabaseSessionService` stores:
session, app and user state and event data are written as
`base64(version || backend_id || ciphertext)` and decrypted on the way back. A
utility re-encrypts a database, row by row, while services may be using it.

This directory models that behaviour in TLA+, checks it with TLC on small
instances, and proves the main results with TLAPS for every instance.
Source paths below are relative to `src/src/adk_secure_sessions/`.

## Inventory

| Component | State it keeps | Operations | Model |
|---|---|---|---|
| Rotation utility, `rotation.py` | the table it is at, the SELECTed rows, an open transaction, two counters | `rotate_encryption_keys`, `_rotate_table`, `_sync_reencrypt` | `KeyRotation`, `TwoRotators`, `MaintenanceWindow` |
| Session services, `services/encrypted_session.py`, `services/models.py` with google-adk's CRUD | rows of `sessions`, `app_states`, `user_states`, `events`; per operation, what it loaded | `create_session`, `append_event`, `delete_session`, reads | `KeyRotation` (google-adk's part external) |
| Table creation, `prepare_tables` | `_tables_created`, `_table_creation_lock`, the schema | `prepare_tables` before every CRUD call | `PrepareTables` |
| Service constructor and `EncryptedJSON`, `services/type_decorator.py` | backends and dispatch map, fixed after construction | constructor, `process_bind_param`, `process_result_value` | `EncryptedColumn` |
| `FernetBackend`, `AesGcmBackend`, `backends/` | keys | `sync_encrypt`, `sync_decrypt` | `EncryptedColumn` |
| Envelope, `serialization.py` | none | `_build_envelope`, `_parse_envelope` | `Envelope` |
| Helpers `encrypt_session` etc., `serialization.py` | none; a caller's envelope | four functions, not used by the service | `Helpers` |
| Session objects, `services/models.py` | `_storage_update_marker` of each object, `update_time`, tracked state dicts | `to_session`, `get_update_marker`, google-adk's `append_event` | `SessionRevisions` |
| Timestamps, `services/models.py` | two naive columns and the event's payload | `from_event`, `to_event`, `get_update_timestamp` and the conversions below them | `Timestamps` |
| Exceptions, `exceptions.py` | none | class hierarchy, `DontWrapMixin` | outcomes of `Helpers` |
| Exports, examples, scripts | none | none | not modelled |

How they interact. Services and the rotator share the database and nothing
else. A service loads rows, runs application code, and commits later; between
the two the rotator may SELECT, UPDATE and commit. A service can read a row
only if its dispatch map has a backend for the id in the row's header and that
backend has the key. Coroutines of one service share the table-creation flag
and lock; several services share the schema.

What is hard, and the property that answers it (`PROJECT.json` lists every
hazard with its line):

- The rotator writes a ciphertext computed from an old read. `ContentsPreserved`:
  it never undoes or loses what a service committed.
- `update_time` has a coarse clock, so equal times do not mean an equal row.
  `ContentsPreserved` again; its mutant removes the ciphertext guard.
- A pass fails or dies half way and is repeated. `TableUniform`,
  `CrossNeverFails`, `RerunsConverge`.
- The operator acts on the two counters. `SkipMeansConflict`, `ResultAccounts`,
  and the limit that `rerun_skipped` shows.
- Services that know different keys read the same rows during a migration.
  `AlwaysReadable`, `MigrationKeepsData`.
- Coroutines and services create the tables at once. `OneCreator`, `NoClash`,
  `ReadyMeansTables`, `CallReturns`, `RetriesSucceed`.
- Formats of several releases are told apart by a byte and a length.
  `AgreesWithEnvelope`, `OwnWritesReadable`.
- A pass between two keys of one id leaves, when it dies, a mixture that no
  service can read. `WindowReadable`, `WindowCloses`.
- Two calls of the utility run at once. `EachRowOnce`, `BothAccount`,
  `OverlapHarmless`, `TwoPreserveContents`.
- A commit writes a whole state dict that was loaded earlier; google-adk decides
  by an update marker whether an object is stale. `StateIsLog`,
  `AppStateIsLog`, `CurrentAccepted`, `StaleRefused`.
- What a naive datetime means changes with release, database and host.
  `TimestampsExact`, `AfterIsLater`, `UpdateTimeExact`, `AccessorsAgree`.
- Helpers and column type read each other's envelopes by different rules and
  raise different errors. `HelpersMatchColumn`, `ColumnErrorsAreLibrary`.

## Modules

```
SessionStore        abstract: plaintext rows that only sessions change
Envelope            stored texts, backends, configurations, readability
  KeyRotation       the rotator and the services; implements SessionStore
    MCKeyRotation, MCPathA                  instances for TLC
    KeyRotation_proofs                      theorems
    MaintenanceWindow   an operator who stops, rotates and restarts
      MCMaintenanceWindow, MaintenanceWindow_proofs
    TwoRotators         two instances of KeyRotation on one database
      MCTwoRotators, TwoRotators_proofs
  EncryptedColumn   formats, constructor, dispatch; instantiates Envelope
    MCEncryptedColumn, EncryptedColumn_proofs
  Helpers           the standalone helpers next to the column type
    MCHelpers, Helpers_proofs
PrepareTables       double-checked table creation
    MCPrepareTables, PrepareTables_proofs
SessionRevisions    session objects, update markers, state dicts
    MCSessionRevisions, SessionRevisions_proofs
Timestamps          naive datetimes over releases, databases and hosts
    MCTimestamps, Timestamps_proofs
```

### Envelope

A ciphertext is the backend that made it, its value and a nonce; it opens under
that backend only. A backend is an id byte and a key, because that is what
decides everything above it: two `FernetBackend`s with different passphrases
share the id, and the dispatch map has room for one of them. A text is NULL, an
envelope, or one of two undecodable values. `Readable(c, t)` says when
`process_result_value` returns in a service with configuration `c`.

### KeyRotation

| Model | Code |
|---|---|
| `pc`, `tbl`, `todo` | the loops of `rotate_encryption_keys` and `_rotate_table` |
| `txn` | the uncommitted UPDATEs of `engine.begin()`; such rows are locked |
| `rotated`, `skipped` | the counters, as sets of rows |
| `BeginPass`, `SelectTable` | the call; the SELECT and `fetchall` of a table |
| `PassOver`, `FailRow`, `UpdateRow`, `MissRow` | the exits of the loop body: `continue`, an exception, `rowcount` 1, `rowcount` 0 |
| `CommitTable`, `Abandon`, `Crash` | the end of `engine.begin()`: commit, or rollback by an exception or the loss of the process |
| `running`, `handle` | services that are up; operations between load and commit |
| `LoadAppend`/`CommitAppend`, `LoadCreate`/`CommitCreate`, `DeleteSession`, `AbortOperation` | google-adk's operations on the encrypted models |
| `dirty`, `rerun` | history, for properties only |

`update_time` is any member of `Time` at every write, because `func.now()` has
whole seconds on SQLite and clocks of several hosts need not agree. A commit
addresses its rows by primary key alone, as the ORM does, so it overwrites
whatever the rotator made of them. A statement that meets a locked row waits:
its guard is false until the lock is gone. SQLite locks the whole file, which
only removes behaviours.

`SessionStore` is what a user of the store relies on: contents change when an
operation on a session commits, in the rows of that session; events are only
inserted and deleted with their session. `ContentsPreserved` is its
specification, with a row's plaintext for its content and the operations between
load and commit for the open ones. The rotator's steps all map to stuttering.

### EncryptedColumn

One column over the life of a deployment. `Construct` models the constructor
with its checks and a restart; `svc` keeps the list of backends in order, and
`Dispatch` takes the last backend of an id, as a dict comprehension does.
Ciphertexts have a first byte, a length, a salt and a key term: `hkdf` for the
salted format, `pbkdf2` for what earlier releases derived from the same
passphrase, `direct` for a Fernet key. Key derivation is taken to be injective.
Rows of earlier releases (`OldReleaseWrite`) and damaged ones (`Damage`) can
appear at any time.

`AgreesWithEnvelope` ties it to `Envelope`: a service is a `Config`, and a column
is readable exactly when `Envelope` says so. What is shown of `KeyRotation` thus
does not depend on the formats it leaves out.

### PrepareTables

A coroutine is idle, waiting for the lock, holding it before or during
`create_all`, past it (`ready`), or left with an exception (`raised`). Coroutines
of one service interleave at awaits only: an uncontended `acquire()` does not
suspend, so `PrepareAcquire` does both checks. `CREATE TABLE` is visible at once
and survives a failure, as on SQLite; transactional DDL has fewer behaviours.
`maker` is history: which service created a table. `NoClash` uses it to say that
a service never trips over itself; that services on one database can trip over
each other is a fact of the code, and `RetriesSucceed` bounds the damage.

### MaintenanceWindow

Between two keys of one id services and rotation cannot overlap
(`docs/how-to/key-rotation.md:191-194`). The module EXTENDS `KeyRotation` and adds
the operator's procedure: `Close` when no service runs, `RunPass`, and `Reopen`
with the new backend once a pass returned. A pass that did not return is tried
again or reversed: nothing in the database says which of the two will succeed,
but since tables commit whole, one of them does. `WindowReadable` and
`WindowCloses` say that this is enough.

### TwoRotators

Nothing in `rotation.py` excludes a second call. `A` and `B` are two instances of
`KeyRotation` on the same `db`, `running` and `handle`; an action of one is an
action of its instance, with the UPDATE of a row the other has updated held
back. The rows of a table are taken in any order, as the SELECT has no
`ORDER BY`, so each call may wait for the other: the deadlock that the database
breaks, and on SQLite the timeout, is a `Crash` of one of them.

### SessionRevisions

| Model | Code |
|---|---|
| `merged[x]` | the state dict of a row, as the set of events whose delta is in it |
| `updated[s]`, `Marker` | `update_time`, `get_update_marker` |
| `object[o]`, `ToSession` | a `Session` with `_storage_update_marker`, `to_session` |
| `BeginAppend` | `append_event`: locks, comparison of the markers, loads |
| `StoredState` | what `MutableDict` tracking makes the commit write: the whole dict of each row that was changed |
| `CommitAppend`, `CommitUnheard`, `FailAppend` | the commit; one whose reply is lost; an exception |
| `Rotate` | the rotator's UPDATE, which as text leaves `onupdate` alone |
| `used`, `repeated` | history: which `update_time` values a row had, and whether one came back |

Lost deltas show as a difference between `merged` and `log`. The properties are
conditional on what serialises appends: google-adk's lock for the
sessions of one process, row locks (`RowLocks`) for anything more. That app
state is only safe with row locks is part of the statement, not a finding: the
repository promises nothing else. `StaleRefused` says how far a marker made of a
clock can be trusted: until two commits to a session have one `update_time`.

### Timestamps

A timestamp is an integer, a zone is what it adds to UTC at each, so that a clock
set back makes two timestamps one wall time. Releases of google-adk are four
ranges, by the two conventions that change and the flags they pass. `events` and
`session` hold what the columns hold, with the instant and convention of the write
as history. `AppendEvent` writes both columns, `ImportEvent` a row without a
timestamp in its payload, `Upgrade` and `MoveHost` change the convention under
stored rows.

### Helpers

One envelope in a caller's hands and one text in a column, both of `Envelope`.
Every exit of the four helpers and the two methods of `EncryptedJSON` is an
outcome: a value or a named error. A helper is told a backend and an id
separately and reads with the backend it is given; a service looks the id up.
`HelpersMatchColumn` says that they agree whenever the id told was the right
one.

## Runs

| Run | Specification, instance | Shows |
|---|---|---|
| `rotation_online` | session, app state, event, one of them possibly NULL, undecodable, of another version or missing; passes to another id and to another key of one id; a service with the old primary backend; two values, two times | `TypeOK`, `SkipMeansConflict`, `ResultAccounts`, `ContentsPreserved` |
| `rotation_path_a` | `OperatorSpec`; the same rows, the event still to come; passes between two ids, services of both configurations; two times | `AlwaysReadable`, `CrossNeverFails`, `PassTerminates`, `RerunsConverge` |
| `window` | `FairWindowSpec`; two sessions with shared states and one event, NULL or still to come; two keys of one id, both directions | `WindowTypeOK`, `WindowReadable`, `TableUniform`, `WindowCloses` |
| `two_rotators` | session and event, one target, a service with the old primary backend; two values | `EachRowOnce`, `BothAccount`, `OverlapHarmless`, `TwoPreserveContents` |
| `tables` | `BusySpec`; three coroutines of one service and one of another, two tables, any part of them existing | `TypeOK`, `ReadyMeansTables`, `OneCreator`, `NoClash`, `CallReturns`, `RetriesSucceed` |
| `revisions` | three objects, two sessions sharing app state, two processes with row locks, three events, three times | `TypeOK`, `StateIsLog`, `AppStateIsLog`, `CurrentAccepted`, `StaleRefused` |
| `timestamps` | eight hours, clocks set back and forward in one of two zones, all releases and databases | `TypeOK`, `TimestampsExact`, `AfterIsLater`, `UpdateTimeExact`, `AccessorsAgree` |
| `helpers` | JSON, other text and bytes that are no text; a service, a migrated one and one whose id fits no byte | `TypeOK`, `HelpersMatchColumn`, `ColumnErrorsAreLibrary` |
| `column_registered` | two passphrases, a Fernet key, an AES key, a custom backend with a registered id; all lists of up to two; JSON texts of 2 and 16 bytes | `TypeOK`, `AgreesWithEnvelope`, `OwnWritesReadable`, `MigrationKeepsData` |

The bounds. The rotator handles rows one at a time and services write any
subset of a session's rows, so one row per kind (session, state, event) exercises
every pair of actors on a row; `window` adds a second session that shares the
state rows.
One time value makes every `update_time` collide, two make some differ. A nonce
set of one makes ciphertexts of equal values collide, the worst case for the
ciphertext guard. Histories are unbounded: passes, crashes, loads and commits
may repeat for ever, and the state spaces are explored completely. The two JSON
lengths are those between which Fernet's padding adds a block, and the shorter
one gives exactly the 117 bytes at which the salted format begins. Two backends
are enough for a duplicate id and a changed order; the theorems cover the rest.
`CommitTable` and the loop over four tables are exercised with tables that have
no row too. Two calls of the rotator are enough for every pair of an UPDATE and a
lock. Three coroutines of one service are a holder of the lock and a queue of
two, and one of another service is enough for it to interfere. In
`SessionRevisions` two objects of one session give a stale one, a third of another session the
contention for app state, three events a commit between load and commit of
another; three times let every commit have a new one or an old one. In
`Timestamps` properties speak of one row at a time, so one event suffices.
Deadlock is checked in every run.

Fairness. `FairSpec` asks that a pass that was started goes on: every await in
`rotation.py` is a database call or a thread, and asyncio resumes it. It asks
nothing of services. `OperatorSpec` adds an operator who keeps running passes;
`RerunsConverge` is conditional on the services' writes and the crashes ending;
its run starts before the session's event is appended and has two times, so that
a pass can skip a session row whose ciphertext an append left old.
`PrepareTables` asks that every coroutine that can run does (the event loop), and
`BusySpec` that callers keep calling; faults, cancellations and restarts are
never required and `RetriesSucceed` assumes that they end, the failures that
another service's `CREATE TABLE` explains excepted.
`FairWindowSpec` asks that a started pass goes on, that the operator keeps
trying: a pass and its reverse are each run again and again as long as they can be
(strong fairness, because trying one disables the other for a while), and
that services are restarted in the end; `WindowCloses` assumes that crashes end.
`TwoRotators` states no fairness: its properties are safety properties.

## Where code and documentation disagree

Three runs end in a violation, each of a sentence of the repository.

- `rerun_skipped`. `rotation.py:115-117` and `docs/how-to/key-rotation.md:126-128`
  say that skipped rows can be picked up by running the rotation again; with
  two keys of one id the second pass raises `DecryptionError` on the rows the
  first one rotated. `rotation.py:325-331` says so itself. Between two ids the
  sentence is right, and `CrossNeverFails` and `RerunsConverge` show it.
- `column_unregistered`. `exceptions.py:125-128` lists invalid backend ids among
  the errors found at startup; the constructor accepts an id that
  `BACKEND_REGISTRY` lacks and every write is then unreadable.
- `helpers_unserializable`. "Raised when data cannot be serialized to JSON"
  (`exceptions.py:102`): `encrypt_session` raises `SerializationError`, but a
  service's state that `json.dumps` rejects comes out of the flush as SQLAlchemy's
  `StatementError`, which no `except SecureSessionError` catches.

Some properties are deliberately weaker than one might expect. `ResultAccounts`
leaves out the rows a service wrote during the pass (`dirty`): a service with the
old primary backend can write behind it, and a service with the new one makes it
skip a row that is under the new key already. `AfterIsLater` compares rows of the
convention that reads them: an upgrade of google-adk to 2.7.0 leaves older rows in
local time. `TimestampsExact` needs an unambiguous wall time for a row whose
payload has no timestamp, as in the hour that a clock set back repeats the
column alone cannot tell. `BothAccount` and `EachRowOnce` are about calls in one
direction (`OneDirection`).

## Theorems

The proofs are about the same modules that TLC checks, for any constants that
satisfy the named assumptions (`EnvelopeAssumption`, `RotationAssumption`,
`TablesAssumption`, `ColumnAssumption`, `WindowAssumption`,
`TwoAssumption`, `RevisionsAssumption`, `TimestampsAssumption`,
`HelpersAssumption`).

`KeyRotation_proofs`:

- `TypeCorrect`, by one lemma for the rotator and one for the services.
- `Invariant`: what the rotator holds is consistent. It holds SELECTed rows and
  uncommitted ones only in the loop over their table (`PlaceInv`). A row it has
  updated is still there and under the old backend, because no service can write
  a locked row, and what it would commit is sealed by the new one with the same
  content (`LockInv`). A create inserts rows of its own session (`FreshInv`).
  No property is inductive without it: the commit of a table must be known
  not to change a content, and to leave no row under the old backend.
- `Refinement`: `Spec => ContentsPreserved`. Each service action is shown to be
  the step of the abstract store it stands for, each rotator action a stutter.
- `ResultsAccount`, by a second invariant, `Accounting`: a row of a table already
  read that no service wrote since is still to do, as it was SELECTed unless it
  has left the old backend by then; or updated in the transaction; or settled,
  off the old backend, and under the new one if counted. It allows for others than
  the services to take rows off the old backend, which `TwoRotators` needs.
- `SkipsAreConflicts`, by a third one, `SnapshotInv`, which does not: with one
  rotator, a row that differs from what was SELECTed was written by a service.
- `ZeroDowntime` and `CrossPassesSucceed`, assuming `PathA`, which says of the
  constants that every service knows the backends of the passes and of the
  other services and can read the initial rows. TLC evaluates `PathA` in the
  run of `MCPathA`, so the assumption is not empty.
- `TablesUniform`, assuming `Maintenance` (no services; headers that name the
  backend of their ciphertext; each table under one backend at first), which TLC
  evaluates in `MCMaintenanceWindow`. Each table is uniform and each header
  true. When a table is committed nothing of it is left to do, so by `Accounting`
  a row that was not updated is off the old backend, and in a table with
  one that was, under the old one: there is no such row.

`MaintenanceWindow_proofs`:

- `WindowIsRotation`: `WindowSpec => Spec`. A step of the window is a step of
  `KeyRotation` or leaves its variables alone, so every theorem about `Spec` is
  one about windows.
- `WindowsReadable`. While services run, every row is readable with the one current
  backend; they run only in an open store. At `Reopen` the invariant comes from
  the account of the pass that returned (`ResultsAccount`'s invariant with no
  service to make a row dirty): nothing is left under the old backend.
- `WindowsUniform`: `TableUniform` of windows, services included. Between passes the
  services' one backend reads every row; during them the headers are true of both
  backends of the pass, which share an id, and the step of the rotator is that of
  `TablesUniform`.

`TwoRotators_proofs` uses the lemmas about one rotator twice: `PA` and `PB` are
instances of `KeyRotation_proofs` for the two calls, and its first lemmas show that they
describe the calls `A` and `B` of `TwoRotators`, from the assumption
`TwoAssumption`, which is `RotationAssumption` of both. What is left to show is
that one call does not disturb the other.

- `TwoInvariant`: each call keeps the invariant of a lone rotator, and no row is in
  the transactions of both. A row that one call holds is not changed by the commit
  of the other, which writes only rows it holds.
- `TwoPreserve`: `Spec => TwoPreserveContents`. Every step of either call is a
  stutter of the plaintext store, every step of the services a step of it.
- `TwoResults` and `OnlyOnce`, assuming `OneDirection`: no pass starts from a
  backend that another one ends at. A row one call commits was under its old
  backend, so the other had not counted it, and comes off the old backend of
  both. A row one call counted is under a new backend, so the other does
  not update it. Without the assumption neither holds, nor should: a pass and its
  reverse undo each other, and the next rotation moves on what this one counted.
  TLC evaluates it in `MCTwoRotators`.
- `OverlapsHarmless`, assuming `PathA` (evaluated in `MCTwoRotators`) and a service:
  what one call holds and will commit is readable to every service, so it is still
  when the other has SELECTed it.

`SessionRevisions_proofs`: `RevisionTypes`, `NoLostDelta`, `NoLostAppDelta`,
`MarkerAccepts`, `MarkerRefuses`, by one invariant. It says that what an open
append loaded is what the row still holds (`LoadedInv`), since open appends that
could change it exclude each other (`Exclusive`: by google-adk's lock of a session
where it has one process, which the run does not have, or by row locks), and that what an object knows
was stored under a marker the row has had (`ViewInv`).

`Timestamps_proofs`: `TimestampTypes`, `EventsKeepTime`, `FilterSelectsLater`,
`UpdateTimesKept`, `AccessorsRead`. The invariant ties a column to its instant
and convention; `ReadBack` shows that an unambiguous wall time reads back.

`Helpers_proofs`: `HelperTypes`, `ColumnErrors` (by the invariant that what can be
decrypted from a column is JSON) and `HelpersInteroperate`.

`PrepareTables_proofs`: `TablesTypes`, `TablesReady`, `SingleCreator`,
`NoSelfClash`. The invariant says that whatever the schema lacks while a coroutine is
in `create_all` is on that coroutine's list, that the flag means a complete
schema, and that a creator holds the lock with the flag down.

`EncryptedColumn_proofs`: `RoundTrip` (decryption inverts encryption for values
of every length, and the 117-byte boundary is always met), `EnvelopeIsFaithful`,
`OwnWrites` (ids in the registry), `Migration`, `ColumnTypes`. The invariant says that each text in
the column is opened by exactly the backends with the identity of its key.

Only model-checked: the liveness properties (`PassTerminates`, `RerunsConverge`,
`CallReturns`, `RetriesSucceed`, `WindowCloses`), which need fairness and so are
out of the prover's reach. Every other property of a passing run is a theorem.
The runs that end in a violation are about
formulas that do not hold, so nothing is proved of them.

## Not modelled, and why

- Cryptography: a ciphertext opens under the key that made it. Key derivation
  costs, randomness and message wording are left out.
- google-adk, SQLAlchemy and the database beyond what is described above:
  isolation is that of committed reads, a row lock is all or nothing, a
  deadlock is an aborted operation.
- The order in which rows of a table are locked. The rotator's transactions cover
  one table each, so it never waits for one table while it holds rows of another;
  within a table a writer of a service gets all its locks or none. A deadlock, of
  two rotators for instance, shows as the call that the database aborts: `Crash`
  or `AbortOperation`.
- Failures of the new backend's encryption, which raise at any row: a `Crash`
  there has the same effect on the database, a rollback of the table.
- Interleavings inside `create_all`'s inspection, which asks table by table:
  `Inspect` reads the schema in one step.
- Rows written by anything but a service, a rotator, or an earlier release.
- Timezone-aware `update_time` columns: all four tables declare naive ones.
- Exports, examples, benchmarks, scripts and documentation tooling, which have no
  logic of the library.
