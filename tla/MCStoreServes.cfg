CONSTANTS
  r1 = r1
  r2 = r2
  Absent = Absent
  NotAList = NotAList
  Replicas = {r1, r2}
  Names <- MCNames
  Ids <- MCIds
  Infos = {"", "tams"}
  Stores <- MCReadme
  Invocations <- MCNoSettings
  MaxEdits = 0
  MaxFaults = 0
SPECIFICATION Spec
PROPERTY StoreServes
