CONSTANTS
  n1 = n1
  w1 = w1
  w2 = w2
  c1 = c1
  c2 = c2
  gone = gone
  nil = nil
  Names = {n1}
  Workers = {w1, w2}
  Configs = {c1, c2}
  Port <- MCPort
  Secrets = {"aws"}
  Specs <- MCPlainSpecs
  Users = {"delete"}
  Gone = gone
  Nil = nil
  MaxChanges = 3
  MaxLag = 2
  MaxFaults = 1
  MaxCrashes = 0
SPECIFICATION Spec
SYMMETRY Symmetry
INVARIANTS
  TypeOK
  ConfigMapMounted
PROPERTIES
  NoRollback
CHECK_DEADLOCK FALSE
