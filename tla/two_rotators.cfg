\* Two calls with one target, and a service that writes under the old backend.
SPECIFICATION Spec
CONSTANTS
  s1 = s1
  e1 = e1
  k1 = k1
  k2 = k2
  v1 = v1
  v2 = v2
  n1 = n1
  t1 = t1
  NoTime = NoTime
  Absent = Absent
  Id = {1, 2}
  Registry = {1, 2}
  Key = {k1, k2}
  Nonce = {n1}
  TableOf <- MCTableOf
  Scope <- MCScope
  Row = {s1, e1}
  Value = {v1, v2}
  Time = {t1}
  InitialDb <- MCInitialDb
  Passes <- OneTarget
  Configs <- OldConfigs
INVARIANTS
  EachRowOnce
  BothAccount
  OverlapHarmless
PROPERTIES
  TwoPreserveContents
