\* Two confirmations that overlap.
SPECIFICATION Spec
CONSTANTS
  a0 = a0  b1 = b1  b2 = b2  c1 = c1  c2 = c2  A = A  B = B  C = C
  Agents = {a0, b1, c1}
  Owners = {A, B, C}
  Author = a0
  OwnerOf <- OneEach
  Threshold = 2
  MaxVersion = 1
CONSTRAINT Overlapping
INVARIANTS QuorumIsRecorded
