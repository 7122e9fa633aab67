\* Three mixes of routes on two connections of app.pg and three of idem's pool.
SPECIFICATION FairSpec
CONSTANTS
  r1 = r1  r2 = r2  r3 = r3  r4 = r4  r5 = r5
  Requests = {r1, r2, r3, r4, r5}
  Mixes <- ThreeMixes
  OwnerOf <- OneOwner
  AgentOf <- OneAgent
  KeyOf <- Keys
  AppMax = 2
  IdemMax = 3
INVARIANTS OnlyReportsStick
PROPERTIES EveryoneAnswered
CHECK_DEADLOCK FALSE
