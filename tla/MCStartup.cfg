CONSTANTS
  r1 = r1
  r2 = r2
  Absent = Absent
  NotAList = NotAList
  Replicas = {r1, r2}
  Names <- MCNames
  Ids <- MCIds
  Infos = {"", "tams"}
  Stores <- MCStores
  Invocations <- MCInvocations
  MaxEdits = 1
  MaxFaults = 1
SPECIFICATION Spec
INVARIANTS
  TypeOK
  TablesReady
  BackendsReachable
PROPERTIES
  TablesKept
  Recovers
