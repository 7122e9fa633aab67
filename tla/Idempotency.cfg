\* Three clients with one key, on each kind of handler that keeps the promise,
\* and on one whose response bears a credential.
SPECIFICATION FairSpec
CONSTANTS
  NoBody = NoBody
  r1 = r1  r2 = r2  r3 = r3  m1 = m1  m2 = m2
  Requests = {r1, r2, r3}
  Bodies = {m1, m2}
  BodyOf <- Asks
  RowPart <- Distinct
  Kinds = {"joined", "message", "version", "token"}
  MaxTries = 2
  MaxPrunes <- Prunes
INVARIANTS OneEffect
PROPERTIES KeepsPromise AttemptEnds
CHECK_DEADLOCK FALSE
