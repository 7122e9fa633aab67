----------------------- MODULE ConnectionPoolsProofs -----------------------
(***************************************************************************)
(* Proofs about ConnectionPools.  The routes take connections and locks in *)
(* an order that is theirs; from it, whoever waits waits in the end for a  *)
(* report that wants a connection of app.pg under its quota lock.          *)
(***************************************************************************)
EXTENDS ConnectionPools, FiniteSetTheorems, TLAPS

(* The order in which a route takes connections and locks, at one stage. *)
OrderedAt(kind, H, G) ==
  /\ {"agent", "memory", "sessions"} \cap H # {} => G = {}
  /\ "quota" \in H => G \subseteq {"agent"} \/ (kind = "report" /\ G = {"app"})
  /\ "spam" \in H => G \subseteq {"quota"}
  /\ "app" \in H => G \subseteq Locks \ {"key"} /\ (G # {} => kind \in TransactionKinds)
  /\ "key" \in H => G \subseteq (Locks \ {"key"}) \cup {"app"}
  /\ "idem" \in H => G \subseteq Locks \cup {"app"}
  /\ G \subseteq Locks \cup {"app", "idem"}

Ordered(kind, s) ==
  /\ Len(s) \in Nat \ {0} /\ s[Len(s)] = {}
  /\ \A n \in 1..Len(s) - 1 : OrderedAt(kind, s[n], s[n + 1] \ s[n])

(* Read takes them in this order. *)
LEMMA ReadOrdered == Ordered("read", Read)
  BY DEF Ordered, OrderedAt, Locks, TransactionKinds, Read, Nothing, App, Idem, Keyed, Inner

(* Room takes them in this order. *)
LEMMA RoomOrdered == Ordered("room", Room)
  BY DEF Ordered, OrderedAt, Locks, TransactionKinds, Room, Nothing, App, Idem, Keyed, Inner

(* Task takes them in this order. *)
LEMMA TaskOrdered == Ordered("task", Task)
  BY DEF Ordered, OrderedAt, Locks, TransactionKinds, Task, Nothing, App, Idem, Keyed, Inner

(* Message takes them in this order. *)
LEMMA MessageOrdered == Ordered("message", Message)
  BY DEF Ordered, OrderedAt, Locks, TransactionKinds, Message, Nothing, App, Idem, Keyed, Inner

(* Review takes them in this order. *)
LEMMA ReviewOrdered == Ordered("review", Review)
  BY DEF Ordered, OrderedAt, Locks, TransactionKinds, Review, Nothing, App, Idem, Keyed, Inner

(* Card takes them in this order. *)
LEMMA CardOrdered == Ordered("card", Card)
  BY DEF Ordered, OrderedAt, Locks, TransactionKinds, Card, Nothing, App, Idem, Keyed, Inner

(* Subscription takes them in this order. *)
LEMMA SubscriptionOrdered == Ordered("subscription", Subscription)
  BY DEF Ordered, OrderedAt, Locks, TransactionKinds, Subscription, Nothing, App, Idem, Keyed, Inner

(* Session takes them in this order. *)
LEMMA SessionOrdered == Ordered("session", Session)
  BY DEF Ordered, OrderedAt, Locks, TransactionKinds, Session, Nothing, App, Idem, Keyed, Inner

(* Report takes them in this order. *)
LEMMA ReportOrdered == Ordered("report", Report)
  BY DEF Ordered, OrderedAt, Locks, TransactionKinds, Report, Nothing, App, Idem, Keyed, Inner

(* Memory takes them in this order. *)
LEMMA MemoryOrdered == Ordered("memory", Memory)
  BY DEF Ordered, OrderedAt, Locks, TransactionKinds, Memory, Nothing, App, Idem, Keyed, Inner

(* Recall takes them in this order. *)
LEMMA RecallOrdered == Ordered("recall", Recall)
  BY DEF Ordered, OrderedAt, Locks, TransactionKinds, Recall, Nothing, App, Idem, Keyed, Inner

(* Every route takes them in this order. *)
LEMMA LifeOrdered == \A kind \in Kinds : Ordered(kind, Life(kind))
  BY ReadOrdered, RoomOrdered, TaskOrdered, MessageOrdered, ReviewOrdered, CardOrdered,
     SubscriptionOrdered, SessionOrdered, ReportOrdered, MemoryOrdered, RecallOrdered
  DEF Kinds, Life

-----------------------------------------------------------------------------
(* Types *)

Stages ==
  /\ route \in [Requests -> Kinds]
  /\ stage \in [Requests -> Nat] /\ \A r \in Requests : stage[r] \in 1..Last(r)

(* What a request holds and gains keeps its route's order, and one that is *)
(* done holds nothing. *)
LEMMA StageOrdered ==
  ASSUME Stages, NEW r \in Requests
  PROVE  /\ ~Done(r) => OrderedAt(route[r], Holding(r), Gain(r))
         /\ Done(r) => Holding(r) = {}
         /\ Last(r) \in Nat \ {0} /\ Life(route[r])[Last(r)] = {}
<1>1. route[r] \in Kinds
  BY DEF Stages
<1>2. Ordered(route[r], Life(route[r]))
  BY <1>1, LifeOrdered
<1> DEFINE s == Life(route[r])
<1>3. Len(s) \in Nat \ {0} /\ s[Len(s)] = {}
      /\ \A n \in 1..Len(s) - 1 : OrderedAt(route[r], s[n], s[n + 1] \ s[n])
  BY <1>2 DEF Ordered
<1>4. stage[r] \in 1..Len(s)
  BY DEF Stages, Last
<1> HIDE DEF s
<1>5. ASSUME stage[r] # Len(s)
      PROVE  OrderedAt(route[r], s[stage[r]], s[stage[r] + 1] \ s[stage[r]])
  <2>1. stage[r] \in 1..Len(s) - 1
    BY <1>3, <1>4, <1>5
  <2>2. QED  BY <1>3, <2>1
<1>6. stage[r] = Len(s) => s[stage[r]] = {}
  BY <1>3
<1>7. QED  BY <1>3, <1>5, <1>6 DEF s, Done, Holding, Gain, Last

(* A step takes one request on and lets it gain only what is free. *)
LEMMA StepGains ==
  ASSUME Stages, Next
  PROVE  Stages' /\ \E r \in Requests :
           /\ \A q \in Requests \ {r} : Holding(q)' = Holding(q)
           /\ \A x : x \in Holding(r)' /\ x \notin Holding(r) => Free(r, x)
<1>1. PICK r \in Requests : Advance(r) \/ Leave(r)
  BY DEF Next
<1>2. Last(r) \in Nat \ {0} /\ Life(route[r])[Last(r)] = {}
  BY StageOrdered
<1>3. \A q \in Requests : Last(q) \in Nat
  BY StageOrdered
<1>4. route' = route /\ \A q \in Requests \ {r} : stage'[q] = stage[q]
  BY <1>1 DEF Advance, Leave, Stages
<1>5. stage[r] \in 1..Last(r) /\ stage[r] # Last(r)
  BY <1>1 DEF Advance, Leave, CanStep, Done, Stages
<1>6. stage' \in [Requests -> Nat] /\ stage'[r] \in 1..Last(r)
  BY <1>1, <1>2, <1>5 DEF Advance, Leave, Stages
<1>7. Stages'
  BY <1>4, <1>6 DEF Stages, Last
<1>8. \A q \in Requests \ {r} : Holding(q)' = Holding(q)
  BY <1>4 DEF Holding
<1>9. \A x : x \in Holding(r)' /\ x \notin Holding(r) => Free(r, x)
  <2>1. CASE Advance(r)
    <3>1. stage'[r] = stage[r] + 1 /\ CanStep(r)
      BY <2>1 DEF Advance, Stages
    <3>2. QED  BY <3>1, <1>4 DEF Holding, Gain, CanStep
  <2>2. CASE Leave(r)
    <3>1. stage'[r] = Last(r)
      BY <2>2 DEF Leave, Stages
    <3>2. QED  BY <3>1, <1>2, <1>4 DEF Holding
  <2>3. QED  BY <1>1, <2>1, <2>2
<1>10. QED  BY <1>7, <1>8, <1>9

(* Holders are finitely many requests. *)
LEMMA HoldersFinite ==
  \A x : IsFiniteSet(Holders(x)) /\ Cardinality(Holders(x)) \in Nat
<1> TAKE x
<1>1. Holders(x) \subseteq Requests /\ IsFiniteSet(Requests)
  BY PoolsAssumption DEF Holders
<1>2. QED  BY <1>1, FS_Subset, FS_CardinalityType

(* A pool that lends below its bound stays within it. *)
LEMMA PoolBound ==
  ASSUME Stages, Next, NEW x, NEW max \in Nat, Cardinality(Holders(x)) <= max,
         \A r \in Requests : Free(r, x) => Cardinality(Holders(x)) < max
  PROVE  Cardinality(Holders(x)') <= max
<1>1. PICK r \in Requests :
        /\ \A q \in Requests \ {r} : Holding(q)' = Holding(q)
        /\ \A y : y \in Holding(r)' /\ y \notin Holding(r) => Free(r, y)
  BY StepGains
<1> DEFINE H == Holders(x)  G == Holders(x)'
<1>2. IsFiniteSet(H) /\ Cardinality(H) \in Nat /\ Cardinality(H) <= max
  BY HoldersFinite
<1>3. CASE x \in Holding(r)' /\ x \notin Holding(r)
  <2>1. Cardinality(H) < max
    BY <1>1, <1>3
  <2>2. G \subseteq H \cup {r} /\ r \notin H
    BY <1>1, <1>3 DEF Holders
  <2> HIDE DEF H, G
  <2>3. IsFiniteSet(H \cup {r}) /\ Cardinality(H \cup {r}) = Cardinality(H) + 1
    BY <1>2, <2>2, FS_AddElement
  <2>4. Cardinality(G) <= Cardinality(H \cup {r}) /\ Cardinality(G) \in Nat
    BY <2>2, <2>3, FS_Subset, FS_CardinalityType
  <2>5. Cardinality(G) <= max
    BY <1>2, <2>1, <2>3, <2>4
  <2>6. QED  BY <2>5 DEF G
<1>4. CASE ~(x \in Holding(r)' /\ x \notin Holding(r))
  <2>1. G \subseteq H
    BY <1>1, <1>4 DEF Holders
  <2> HIDE DEF H, G
  <2>2. Cardinality(G) <= Cardinality(H) /\ Cardinality(G) \in Nat
    BY <1>2, <2>1, FS_Subset, FS_CardinalityType
  <2>3. Cardinality(G) <= max
    BY <1>2, <2>2
  <2>4. QED  BY <2>3 DEF G
<1>5. QED  BY <1>3, <1>4

(* Requests stay on their routes and the pools within their bounds.        *)
THEOREM TypeCorrect == Spec => []TypeOK
<1>1. Init => TypeOK
  <2> SUFFICES ASSUME Init PROVE TypeOK
    OBVIOUS
  <2>1. \A r \in Requests : Ordered(route[r], Life(route[r])) /\ Life(route[r])[1] = {}
    <3> TAKE r \in Requests
    <3>1. route[r] \in Kinds  BY PoolsAssumption DEF Init
    <3>2. \A kind \in Kinds : Life(kind)[1] = {}
      BY DEF Kinds, Life, Read, Room, Task, Message, Review, Card, Subscription, Session,
         Report, Memory, Recall, Nothing
    <3>3. QED  BY <3>1, <3>2, LifeOrdered
  <2>2. Stages
    BY <2>1, PoolsAssumption DEF Init, Stages, Ordered, Last
  <2>3. \A r \in Requests : Holding(r) = {}
    BY <2>1 DEF Init, Holding
  <2>4. Holders("app") = {} /\ Holders("idem") = {}
    BY <2>3 DEF Holders
  <2>5. Cardinality(Holders("app")) <= AppMax /\ Cardinality(Holders("idem")) <= IdemMax
    <3>1. Cardinality({}) = 0  BY FS_EmptySet
    <3>2. 0 <= AppMax /\ 0 <= IdemMax  BY PoolsAssumption
    <3> HIDE DEF Holders
    <3>3. QED  BY <2>4, <3>1, <3>2
  <2>6. QED  BY <2>2, <2>5 DEF TypeOK, Stages
<1>2. TypeOK /\ [Next]_vars => TypeOK'
  <2> SUFFICES ASSUME TypeOK, [Next]_vars PROVE TypeOK'
    OBVIOUS
  <2>1. CASE Next
    <3>1. Stages /\ Stages'
      BY <2>1, StepGains DEF TypeOK, Stages
    <3>2. Cardinality(Holders("app")') <= AppMax
      <4>1. \A r \in Requests : Free(r, "app") => Cardinality(Holders("app")) < AppMax
        BY DEF Free
      <4>2. QED  BY <2>1, <3>1, <4>1, PoolBound, PoolsAssumption DEF TypeOK
    <3>3. Cardinality(Holders("idem")') <= IdemMax
      <4>1. \A r \in Requests : Free(r, "idem") => Cardinality(Holders("idem")) < IdemMax
        BY DEF Free
      <4>2. QED  BY <2>1, <3>1, <4>1, PoolBound, PoolsAssumption DEF TypeOK
    <3>4. QED  BY <3>1, <3>2, <3>3 DEF TypeOK, Stages
  <2>2. CASE UNCHANGED vars
    BY <2>2 DEF vars, TypeOK, Holders, Holding, Last
  <2>3. QED  BY <2>1, <2>2
<1>3. QED  BY <1>1, <1>2, PTL DEF Spec

-----------------------------------------------------------------------------
(* The one gridlock *)

ReportWaits ==
  \E r \in Requests : route[r] = "report" /\ "quota" \in Holding(r) /\ Gain(r) = {"app"}

(* When all are stuck, whoever holds anything is stuck behind a report.    *)
LEMMA StuckBehindReport ==
  ASSUME Stages, Stuck
  PROVE  ReportWaits
<1>1. \A r \in Requests : ~Done(r) =>
        OrderedAt(route[r], Holding(r), Gain(r)) /\ \E x \in Gain(r) : ~Free(r, x)
  BY StageOrdered DEF Stuck, CanStep
<1>2. \A r \in Requests : \A x : x \in Holding(r) => ~Done(r)
  BY StageOrdered
<1>3. \A r \in Requests : \A x : x \in Locks \cup {"app", "idem"} /\ ~Free(r, x) =>
        \E q \in Requests : x \in Holding(q)
  <2> SUFFICES ASSUME NEW r \in Requests, NEW x \in Locks \cup {"app", "idem"}, ~Free(r, x)
               PROVE  \E q \in Requests : x \in Holding(q)
    OBVIOUS
  <2>1. CASE x \in Locks
    BY <2>1 DEF Free, Locks, Holders
  <2>2. CASE x \in {"app", "idem"}
    <3>1. Cardinality(Holders(x)) # 0
      BY <2>2, HoldersFinite, PoolsAssumption DEF Free, Locks
    <3>2. Holders(x) # {}
      BY <3>1, FS_EmptySet
    <3>3. QED  BY <3>2 DEF Holders
  <2>3. QED  BY <2>1, <2>2
<1>4. \A q \in Requests : {"agent", "memory", "sessions"} \cap Holding(q) = {}
  BY <1>1, <1>2 DEF OrderedAt
<1>5. ASSUME NEW q \in Requests, "quota" \in Holding(q)  PROVE ReportWaits
  <2>1. PICK x \in Gain(q) : ~Free(q, x)
    BY <1>1, <1>2, <1>5
  <2>2. Gain(q) \subseteq {"agent"} \/ (route[q] = "report" /\ Gain(q) = {"app"})
    BY <1>1, <1>2, <1>5 DEF OrderedAt
  <2>3. x # "agent"
    BY <2>1, <1>3, <1>4 DEF Locks
  <2>4. QED  BY <1>5, <2>1, <2>2, <2>3 DEF ReportWaits
<1>6. ASSUME NEW q \in Requests, "spam" \in Holding(q)  PROVE ReportWaits
  <2>1. ~Free(q, "quota")
    BY <1>1, <1>2, <1>6 DEF OrderedAt
  <2>2. QED  BY <2>1, <1>3, <1>5 DEF Locks
<1>7. ASSUME NEW q \in Requests, "app" \in Holding(q)  PROVE ReportWaits
  <2>1. PICK x \in Locks \ {"key"} : ~Free(q, x)
    BY <1>1, <1>2, <1>7 DEF OrderedAt
  <2>2. QED  BY <2>1, <1>3, <1>4, <1>5, <1>6 DEF Locks
<1>8. ASSUME NEW q \in Requests, "key" \in Holding(q)  PROVE ReportWaits
  <2>1. PICK x \in (Locks \ {"key"}) \cup {"app"} : ~Free(q, x)
    BY <1>1, <1>2, <1>8 DEF OrderedAt
  <2>2. QED  BY <2>1, <1>3, <1>4, <1>5, <1>6, <1>7 DEF Locks
<1>9. ASSUME NEW q \in Requests, "idem" \in Holding(q)  PROVE ReportWaits
  <2>1. PICK x \in Locks \cup {"app"} : ~Free(q, x)
    BY <1>1, <1>2, <1>9 DEF OrderedAt
  <2>2. QED  BY <2>1, <1>3, <1>4, <1>5, <1>6, <1>7, <1>8 DEF Locks
<1>10. PICK r \in Requests : ~Done(r)
  BY DEF Stuck
<1>11. PICK x \in Locks \cup {"app", "idem"} : ~Free(r, x)
  BY <1>1, <1>10 DEF OrderedAt
<1>12. QED
  BY <1>11, <1>3, <1>4, <1>5, <1>6, <1>7, <1>8, <1>9 DEF Locks

(* Then every connection of app.pg is held by a transaction that waits for *)
(* a lock. *)
LEMMA StuckHolders ==
  ASSUME Stages, Stuck, ReportWaits
  PROVE  /\ \A q \in Holders("app") :
              Gain(q) \subseteq Locks /\ Gain(q) # {} /\ route[q] \in TransactionKinds
         /\ Cardinality(Holders("app")) >= AppMax
<1>1. \A r \in Requests : ~Done(r) =>
        OrderedAt(route[r], Holding(r), Gain(r)) /\ \E x \in Gain(r) : ~Free(r, x)
  BY StageOrdered DEF Stuck, CanStep
<1>2. \A r \in Requests : \A x : x \in Holding(r) => ~Done(r)
  BY StageOrdered
<1>3. \A q \in Holders("app") :
        Gain(q) \subseteq Locks /\ Gain(q) # {} /\ route[q] \in TransactionKinds
  BY <1>1, <1>2 DEF Holders, OrderedAt
<1>4. \E r \in Requests : ~Free(r, "app")
  BY <1>1, <1>2 DEF ReportWaits
<1>5. ~(Cardinality(Holders("app")) < AppMax)
  BY <1>4 DEF Free, Locks
<1>6. QED  BY <1>3, <1>5, HoldersFinite, PoolsAssumption

(* Requests are stuck only when a report waits for app.pg with its owner's *)
(* quota lock in hand and transactions that wait for locks have all of     *)
(* app.pg's connections: POST /v1/reports is the only route whose lock     *)
(* order the fixed order of the locks does not cover. *)
THEOREM GridlockCorrect == Spec => []OnlyReportsStick
<1>1. TypeOK => OnlyReportsStick
  <2> SUFFICES ASSUME TypeOK, Stuck
               PROVE  /\ ReportWaits
                      /\ Cardinality({q \in Holders("app") : Gain(q) \subseteq Locks
                                                         /\ Gain(q) # {}}) >= AppMax
    BY DEF OnlyReportsStick, ReportWaits
  <2>1. Stages
    BY DEF TypeOK, Stages
  <2>2. ReportWaits
    BY <2>1, StuckBehindReport
  <2>3. {q \in Holders("app") : Gain(q) \subseteq Locks /\ Gain(q) # {}} = Holders("app")
    BY <2>1, <2>2, StuckHolders
  <2>4. QED  BY <2>1, <2>2, <2>3, StuckHolders
<1>2. QED  BY <1>1, TypeCorrect, PTL

(* With more connections in app.pg than requests that run a locking        *)
(* transaction on it, reports included, and without reports however small  *)
(* the pools are, the fixed order of the locks keeps everyone from being   *)
(* stuck: the safety that EveryoneAnswered rests on, for any number of     *)
(* requests. *)
THEOREM SafeMixCorrect == Spec => [](Roomy \/ NoReports => ~Stuck)
<1>1. ASSUME TypeOK, Stuck, NoReports PROVE FALSE
  BY <1>1, StuckBehindReport DEF NoReports, ReportWaits, TypeOK, Stages
<1>2. ASSUME TypeOK, Stuck, Roomy PROVE FALSE
  <2> DEFINE T == {r \in Requests : route[r] \in TransactionKinds}
  <2>1. Stages
    BY <1>2 DEF TypeOK, Stages
  <2>2. /\ \A q \in Holders("app") : route[q] \in TransactionKinds
        /\ Cardinality(Holders("app")) >= AppMax
    BY <1>2, <2>1, StuckBehindReport, StuckHolders
  <2>3. Holders("app") \subseteq T
    BY <2>2 DEF Holders
  <2>4. IsFiniteSet(T)
    BY PoolsAssumption, FS_Subset
  <2>5. Cardinality(T) < AppMax
    BY <1>2 DEF Roomy
  <2> HIDE DEF T
  <2>6. Cardinality(Holders("app")) <= Cardinality(T) /\ Cardinality(T) \in Nat
    BY <2>3, <2>4, FS_Subset, FS_CardinalityType
  <2>7. QED  BY <2>2, <2>5, <2>6, HoldersFinite, PoolsAssumption
<1>3. TypeOK => (Roomy \/ NoReports => ~Stuck)
  BY <1>1, <1>2
<1>4. QED  BY <1>3, TypeCorrect, PTL
=============================================================================
