\* app.pg's two connections, three transactions that want them and a report.
SPECIFICATION Spec
CONSTANTS
  r1 = r1  r2 = r2  r3 = r3  r4 = r4  r5 = r5
  Requests = {r1, r2, r3, r4, r5}
  Mixes <- CrowdOnly
  OwnerOf <- OneOwner
  AgentOf <- OneAgent
  KeyOf <- Keys
  AppMax = 2
  IdemMax = 3
INVARIANTS NeverStuck
CHECK_DEADLOCK FALSE
