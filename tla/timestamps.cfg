\* Every release, database and zone, with upgrades and moves.
SPECIFICATION Spec
CONSTANTS
  Instant <- Hours
  Offset <- MCOffset
  Zone = {"New_York", "Tokyo"}
  EventId = {1}
  Releases = {"1.22", "1.26", "2.4", "2.7"}
  Dialects = {"sqlite", "postgresql", "mysql"}
  NoTime = NoTime
INVARIANTS
  TypeOK
  TimestampsExact
  AfterIsLater
  UpdateTimeExact
  AccessorsAgree
