\* Three coroutines of one service and one of another, on one database.
SPECIFICATION BusySpec
CONSTANTS
  p1 = p1
  p2 = p2
  t1 = t1
  t2 = t2
  t3 = t3
  t4 = t4
  x1 = x1
  x2 = x2
  NoTask = NoTask
  NoService = NoService
  Task = {t1, t2, t3, t4}
  Table = {x1, x2}
  ServiceOf <- MCServiceOf
  Service = {p1, p2}
INVARIANTS
  TypeOK
  ReadyMeansTables
  OneCreator
  NoClash
PROPERTIES
  CallReturns
  RetriesSucceed
