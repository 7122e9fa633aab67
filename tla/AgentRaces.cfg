\* One agent, two concurrent requests, two sessions under a cap of one.
SPECIFICATION Spec
CONSTANTS
  Agents = {a1}
  Requests = {r1, r2}
  MaxSessions = 2
  SessionCap = 1
  NoAgent = NoAgent
SYMMETRY Symmetry
INVARIANTS CapInv SweepMissesNothing SweptIsNoticed RevokedKeepsFlag
PROPERTIES SweepTakesAll EndedIsFinal
