------------------------- MODULE MCConnectionPools -------------------------
EXTENDS ConnectionPools, TLC

CONSTANTS r1, r2, r3, r4, r5

(* One owner with one agent; two requests share an Idempotency-Key.        *)
OneOwner == [r \in Requests |-> "owner"]
OneAgent == [r \in Requests |-> "agent"]
Keys == [r \in Requests |-> IF r = r5 THEN r4 ELSE r]

(* One transaction that waits for locks on app.pg, and a report.           *)
Mixed == (r1 :> "message") @@ (r2 :> "read") @@ (r3 :> "report") @@ (r4 :> "task")
         @@ (r5 :> "room")
(* The other routes, without reports.                                      *)
Others == (r1 :> "card") @@ (r2 :> "recall") @@ (r3 :> "memory") @@ (r4 :> "recall")
          @@ (r5 :> "session")
(* Three such transactions on app.pg's two connections, and a report.      *)
Crowd == (r1 :> "subscription") @@ (r2 :> "review") @@ (r3 :> "report") @@ (r4 :> "memory")
         @@ (r5 :> "recall")
ThreeMixes == {Mixed, Others, Crowd}
CrowdOnly == {Crowd}
=============================================================================
