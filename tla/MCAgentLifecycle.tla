-------------------------- MODULE MCAgentLifecycle --------------------------
EXTENDS AgentLifecycle, TLC

(* Requests are interchangeable; so are agents. *)
Symmetry == Permutations(Requests) \cup Permutations(Agents)

(* Bound of the counterexample run: no restriction of the whole owner.     *)
OwnerFree == ownerLimit = "none"
=============================================================================
