SPECIFICATION Spec
CONSTANTS
  Agents = {a1}
  Requests = {r1, r2}
  MaxSessions = 2
  SessionCap = 1
  NoAgent = NoAgent
SYMMETRY Symmetry
CONSTRAINT OwnerFree
INVARIANTS UnlinkedCannotAct
