\* A custom backend whose id is not in BACKEND_REGISTRY.
SPECIFICATION Spec
CONSTANTS
  p1 = p1
  p2 = p2
  f1 = f1
  a1 = a1
  c1 = c1
  r1 = r1
  r2 = r2
  v1 = v1
  v2 = v2
  NoSalt = NoSalt
  Misfit = Misfit
  NoService = NoService
  Passphrase = {p1, p2}
  FernetKey = {f1}
  AesKey = {a1}
  CustomKey = {c1}
  CustomId = {16}
  Salt = {r1, r2}
  NonceByte = {1, 42, 103}
  Value = {v1, v2}
  Length <- MCLength
  MaxBackends = 2
INVARIANTS
  OwnWritesReadable
