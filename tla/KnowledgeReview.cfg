\* Two independent owners with two agents each; two versions; reviews that
\* overlap, changes of mind, and restrictions that come and go.
SPECIFICATION Spec
CONSTANTS
  a0 = a0  b1 = b1  b2 = b2  c1 = c1  c2 = c2  A = A  B = B  C = C
  Agents = {a0, b1, b2, c1, c2}
  Owners = {A, B, C}
  Author = a0
  OwnerOf <- TwoEach
  Threshold = 2
  MaxVersion = 2
CONSTRAINT FourReviews
SYMMETRY Swaps
INVARIANTS CanonicalEarned FilterAgrees
PROPERTIES CanonicalAdvances
