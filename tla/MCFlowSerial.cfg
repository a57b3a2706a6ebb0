CONSTANTS
  f1 = f1
  h1 = h1
  v1 = v1
  v2 = v2
  undef = undef
  NoFlow = NoFlow
  NoRequest = NoRequest
  Flows = {f1}
  Handlers = {h1}
  Tags <- MCTags
  Values = {v1, v2}
  Empty = v2
  Undefined = undef
  Times = {t1, t2}
  Workload <- MCWorkload
  StrongReads = TRUE
  MaxStrays = 0
SPECIFICATION FairSpec
PROPERTIES
  ApiSpec
  SealHolds
  EveryRequestAnswered
CHECK_DEADLOCK FALSE
