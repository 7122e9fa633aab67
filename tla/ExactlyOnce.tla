----------------------------- MODULE ExactlyOnce -----------------------------
(***************************************************************************)
(* What an Idempotency-Key promises its user: of all the requests sent     *)
(* with the key at most one takes effect, and every answer that is not an  *)
(* error is about that one effect: success for its own content, conflict   *)
(* for another.                                                            *)
(***************************************************************************)
CONSTANTS Contents,  \* what a request with the key may ask for
          None       \* no effect yet

VARIABLES effect,    \* the content that took effect, None before
          told       \* the answers given: [content, outcome]

vars == <<effect, told>>

Init == effect = None /\ told = {}

Take(c) == /\ effect = None
           /\ effect' = c
           /\ UNCHANGED told

Tell(c) ==
  \/ /\ effect # None
     /\ told' = told \cup {[content |-> c,
                            outcome |-> IF effect = c THEN "ok" ELSE "conflict"]}
     /\ UNCHANGED effect
  \/ /\ told' = told \cup {[content |-> c, outcome |-> "error"]}
     /\ UNCHANGED effect

Next == \E c \in Contents : Take(c) \/ Tell(c)

Spec == Init /\ [][Next]_vars
=============================================================================
