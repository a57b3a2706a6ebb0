CONSTANTS
  n1 = n1
  w1 = w1
  w2 = w2
  c1 = c1
  c2 = c2
  gone = gone
  nil = nil
  Names = {n1}
  Workers = {w1}
  Configs = {c1, c2}
  Port <- MCPort
  Secrets = {"aws"}
  Specs <- MCSpecs
  Users = {}
  Gone = gone
  Nil = nil
  MaxChanges = 2
  MaxLag = 1
  MaxFaults = 1
  MaxCrashes = 0
SPECIFICATION Spec
PROPERTIES
  ConfigMapEnsured
CHECK_DEADLOCK FALSE
