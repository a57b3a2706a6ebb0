CONSTANTS
  f1 = f1
  h1 = h1
  h2 = h2
  n1 = n1
  n2 = n2
  b1 = b1
  b2 = b2
  Unset = unset
  Fractional = fractional
  NoRecord = NoRecord
  NoRequest = NoRequest
  Flows = {f1}
  Handlers = {h1, h2}
  Names = {n1, n2}
  Fresh = {u1}
  Backends = {b1, b2}
  Default = b1
  DefaultLimit = 1
  Workload <- MCWorkload
  MaxStrays = 1
  StrongReads = FALSE
SPECIFICATION Spec
INVARIANTS
  TypeOK
  NoOrphan
  CreatedRecorded
PROPERTIES
  RecordFinal
  RetryRefused
  LockHolds
CHECK_DEADLOCK FALSE
