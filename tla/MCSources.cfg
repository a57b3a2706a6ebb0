CONSTANTS
  s1 = s1
  h1 = h1
  h2 = h2
  v1 = v1
  undef = undef
  r1 = r1
  NoSource = NoSource
  NoRequest = NoRequest
  Sources = {s1}
  Handlers = {h1, h2}
  Tags <- MCTags
  Values = {v1}
  Undefined = undef
  Rest = {r1}
  Times = {0, 1}
  Initial <- MCInitial
  Workload <- MCWorkload
  MaxStrays = 1
SPECIFICATION Spec
INVARIANT TypeOK
PROPERTIES
  SettledStays
  FieldsKept
