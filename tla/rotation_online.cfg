\* Passes to another id and to another key of one, a service with the old backend, damaged rows.
SPECIFICATION Spec
CONSTANTS
  s1 = s1
  s2 = s2
  a1 = a1
  u1 = u1
  e1 = e1
  e2 = e2
  k1 = k1
  k2 = k2
  v1 = v1
  v2 = v2
  n1 = n1
  t1 = t1
  t2 = t2
  NoTime = NoTime
  Absent = Absent
  Id = {1, 2}
  Registry = {1, 2}
  Key = {k1, k2}
  Nonce = {n1}
  TableOf <- MCTableOf
  Scope <- MCScope
  Row = {s1, a1, e1}
  Value = {v1, v2}
  Time = {t1, t2}
  InitialDb <- DamagedDb
  Passes <- BothTargets
  Configs <- OldPrimary
INVARIANTS
  TypeOK
  SkipMeansConflict
  ResultAccounts
PROPERTIES
  ContentsPreserved
