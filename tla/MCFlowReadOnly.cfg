CONSTANTS
  f1 = f1
  h1 = h1
  h2 = h2
  v1 = v1
  undef = undef
  t1 = t1
  NoFlow = NoFlow
  NoRequest = NoRequest
  Flows = {f1}
  Handlers = {h1, h2}
  Tags <- MCTags
  Values = {v1}
  Empty = v1
  Undefined = undef
  Times = {t1}
  Workload <- MCWorkload
  StrongReads = TRUE
  MaxStrays = 0
SPECIFICATION Spec
SYMMETRY Symmetry
PROPERTIES
  ReadOnlyProtected
CHECK_DEADLOCK FALSE
