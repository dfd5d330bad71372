\* Helpers, services, rotation and damage on one envelope and one column.
SPECIFICATION Spec
CONSTANTS
  k1 = k1
  k2 = k2
  j1 = j1
  j2 = j2
  text = text
  bytes = bytes
  v1 = v1
  v2 = v2
  bad = bad
  n1 = n1
  NotSerializable = NotSerializable
  LoneSurrogate = LoneSurrogate
  Id = {1, 2, 256}
  Registry = {1, 2}
  Key = {k1, k2}
  Nonce = {n1}
  Value = {j1, j2, text, bytes}
  Json = {j1, j2}
  RawText = {text}
  RawBytes = {bytes}
  PyValue = {v1, v2, bad}
  Dumps <- MCDumps
  Services <- MCServices
INVARIANTS
  TypeOK
  HelpersMatchColumn
  ColumnErrorsAreLibrary
