-------------------------------- MODULE MCParts --------------------------------
(* A small instance of every part.                                            *)
EXTENDS Parts, TLC

CONSTANTS a1, a2, o, r1, r2, c1, c2

Swaps == Permutations({r1, r2}) \cup Permutations({c1, c2})

BothClients == {"resident", "participant"}

WrittenBy == [x \in {"thread", "card"} |-> IF x = "thread" THEN "bob" ELSE "ann"]

(* ann is olga's, bob is otto's.                                              *)
OwnedBy == [x \in {"olga", "otto", "ann", "bob"} |-> IF x \in {"olga", "ann"} THEN "olga" ELSE "otto"]
CreatedBy == [x \in {"room"} |-> "otto"]

Draft1(who, key, to, tags) == [sender |-> who, key |-> key, to |-> to, tags |-> tags, text |-> "x"]
Drafts ==
  [p \in {"p1", "p2", "p3"} |->
    CASE p = "p1" -> {Draft1(a1, 1, NoPost, {})}
      [] p = "p2" -> {Draft1(a1, 1, NoPost, {}), Draft1(a1, 2, a2, {})}
      [] p = "p3" -> {Draft1(a1, 3, NoPost, {}), Draft1(a2, 1, a1, {}), Draft1(o, 1, NoPost, {"t"})}]
Scopes == [a \in {a2} |-> "all"]

Shown == {[room |-> "room", from |-> "ann", to |-> "bob"],
          [room |-> "room", from |-> "otto", to |-> Nobody]}
=============================================================================
