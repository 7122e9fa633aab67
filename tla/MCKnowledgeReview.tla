-------------------------- MODULE MCKnowledgeReview --------------------------
EXTENDS KnowledgeReview, TLC

CONSTANTS a0, b1, b2, c1, c2, A, B, C

(* The author, of owner A; two agents of each of two independent owners. *)
TwoEach == (a0 :> A) @@ (b1 :> B) @@ (b2 :> B) @@ (c1 :> C) @@ (c2 :> C)
(* One agent of each owner. *)
OneEach == (a0 :> A) @@ (b1 :> B) @@ (c1 :> C)

(* Agents of one owner are interchangeable, and so are the owners B and C  *)
(* with their agents: OwnerOf is the same after each of these.             *)
Within == {p @@ q @@ (B :> B) @@ (C :> C) :
             p \in Permutations({b1, b2}), q \in Permutations({c1, c2})}
Across == (b1 :> c1) @@ (b2 :> c2) @@ (c1 :> b1) @@ (c2 :> b2) @@ (B :> C) @@ (C :> B)
Swaps == Within \cup {[x \in DOMAIN p |-> Across[p[x]]] : p \in Within}

(* The constraints below are the bounds of the runs. *)
UnderWay == Cardinality({a \in Agents : tx[a] # Idle})
Written == Cardinality({x \in Versions \X Agents : verdicts[x[1]][x[2]] # "none"})
Bars == Cardinality(barredAgents) + Cardinality(barredOwners)

(* Owners that took a confirmation back.                                   *)
Fickle == Cardinality({x \in Versions \X Owners :
            /\ x[2] \in vouched[x[1]]
            /\ \A a \in Agents : OwnerOf[a] = x[2] => verdicts[x[1]][a] # "confirm"})

(* Versions the author has reviewed itself.                                *)
Own == Cardinality({v \in Versions : verdicts[v][Author] # "none"})

(* At most four confirmations and refutations, two under way at a time;    *)
(* one restriction at a time, or one owner that changes its mind about a   *)
(* confirmation; the author, if it reviews, is the first and confirms.     *)
FourReviews ==
  /\ Written + UnderWay <= 4
  /\ UnderWay <= 2
  /\ Bars + Fickle + Own <= 1
  /\ \A a \in Agents : tx[a].verdict # "comment"
  /\ tx[Author] # Idle => Written + UnderWay + Bars = 1 /\ tx[Author].verdict = "confirm"
(* Two reviews overlap, nobody is restricted. *)
Overlapping == Bars = 0 /\ UnderWay <= 2
=============================================================================
