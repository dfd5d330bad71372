\* Windows after windows, with passes that crash and fail in them.
SPECIFICATION FairWindowSpec
CONSTANTS
  s1 = s1
  s2 = s2
  a1 = a1
  u1 = u1
  e1 = e1
  k1 = k1
  k2 = k2
  v1 = v1
  v2 = v2
  n1 = n1
  t1 = t1
  NoTime = NoTime
  Absent = Absent
  Id = {1}
  Registry = {1}
  Key = {k1, k2}
  Nonce = {n1}
  TableOf <- MCTableOf
  Scope <- MCScope
  Row = {s1, s2, a1, u1, e1}
  Value = {v1}
  Time = {t1}
  InitialDb <- MCInitialDb
  Passes <- BothWays
  Configs <- SoleConfigs
  First <- Fernet1
INVARIANTS
  WindowTypeOK
  WindowReadable
  TableUniform
PROPERTIES
  WindowCloses
