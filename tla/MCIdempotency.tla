---------------------------- MODULE MCIdempotency ----------------------------
EXTENDS Idempotency, TLC

CONSTANTS r1, r2, r3, m1, m2

(* Two clients ask for the same, a third for something else. *)
Asks == (r1 :> m1) @@ (r2 :> m1) @@ (r3 :> m2)
(* The row of a message tells m1 from m2. *)
Distinct == (m1 :> 1) @@ (m2 :> 2)
(* Retention deletes a stored response twice, and never before the retries *)
(* of a joined handler are over. *)
Prunes == [k \in Kinds |-> IF k \in {"joined", "token"} THEN 0 ELSE 2]
=============================================================================
