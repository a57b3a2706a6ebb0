CONSTANTS
  n1 = n1
  w1 = w1
  w2 = w2
  c1 = c1
  c2 = c2
  gone = gone
  nil = nil
  Names = {n1}
  Workers = {w1}
  Configs = {c1, c2}
  Port <- MCPort
  Secrets = {"aws"}
  Specs <- MCSpecs
  Users = {"delete", "secret"}
  Gone = gone
  Nil = nil
  MaxChanges = 3
  MaxLag = 1
  MaxFaults = 0
  MaxCrashes = 1
SPECIFICATION FairSpec
PROPERTIES
  EventuallyConverged
CHECK_DEADLOCK FALSE
