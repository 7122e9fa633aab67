---------------------------- MODULE MCModeration ----------------------------
EXTENDS Moderation, TLC

CONSTANTS i1, i2, a1, A, B, m1, m2

(* One agent of owner A; owner B reports it. *)
Owned == [a \in Agents |-> A]
AboutA == [i \in Incidents |-> A]
ByB == [i \in Incidents |-> B]
AboutAgent == [i \in Incidents |-> a1]
(* All of one target, or each of its own. *)
OnePair == [i \in Incidents |-> "target"]
OwnPairs == [i \in Incidents |-> i]

(* The moderators are interchangeable, and so are the two incidents. *)
Interchangeable == Permutations(Moderators) \cup Permutations(Incidents)

(* The bounds of the run: no incident goes back to reviewing, which the    *)
(* handlers tell apart from owner_escalation in the appeal alone, and      *)
(* nothing is decided after a permanent restriction, which no guard of a   *)
(* report, a decision or an appeal tells apart from a temporary one.       *)
Brief ==
  /\ \A i \in Incidents : inc[i].status # "reviewing"
  /\ \A a \in Agents : agentBar[a] # "permanent"
  /\ \A o \in Owners : ownerBar[o] # "permanent"
=============================================================================
