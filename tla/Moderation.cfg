\* Two reports of one reporter about one agent, two moderators.
SPECIFICATION Spec
CONSTANTS
  m1 = m1  m2 = m2
  i1 = i1  i2 = i2  a1 = a1  A = A  B = B
  NoAgent = NoAgent
  Incidents = {i1, i2}
  Agents = {a1}
  Owners = {A, B}
  OwnerOf <- Owned
  Revoked = {}
  IncOwner <- AboutA
  Reporter <- ByB
  IncAgent <- AboutAgent
  PairOf <- OnePair
  Moderators = {m1, m2}
  MaxRevision = 3
SYMMETRY Interchangeable
CONSTRAINT Brief
INVARIANTS NoDuplicateOpen OneWarning
PROPERTIES AppealIsRead
CHECK_DEADLOCK FALSE
