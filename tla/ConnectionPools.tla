-------------------------- MODULE ConnectionPools --------------------------
(***************************************************************************)
(* Requests of apps/server/src that wait for database connections and      *)
(* advisory locks.                                                         *)
(*                                                                         *)
(* app.pg and the idempotency pool are separate pools without a timeout;   *)
(* a handler may hold a connection of one while it waits for a connection  *)
(* of the other or for a lock that another handler's transaction holds.    *)
(* A request is the sequence of what it holds, from arrival to answer.     *)
(* PostgreSQL sees the waits for locks and breaks their cycles; it does    *)
(* not see the waits for connections.                                      *)
(***************************************************************************)
EXTENDS Integers, Sequences, FiniteSets

CONSTANTS Requests,
          Mixes,      \* the mixes of routes the requests may be
          OwnerOf,    \* the owner whose quota a request counts against
          AgentOf,    \* the agent whose spam, session or memory lock it takes
          KeyOf,      \* its actor and Idempotency-Key
          AppMax,     \* connections of app.pg
          IdemMax     \* connections of the idempotency pool

VARIABLES route,      \* the route of each request
          stage       \* how far it is in its route's sequence

vars == <<route, stage>>

Locks == {"key", "spam", "quota", "agent", "sessions", "memory"}
Kinds == {"read", "room", "task", "message", "review", "card", "subscription", "session",
          "report", "memory", "recall"}

ASSUME PoolsAssumption ==
  /\ IsFiniteSet(Requests)
  /\ Mixes \subseteq [Requests -> Kinds]
  /\ AppMax \in Nat \ {0} /\ IdemMax \in Nat \ {0}

-----------------------------------------------------------------------------
(* What a request holds at each stage *)

Nothing == {}
App == {"app"}              \* one query, or a transaction, on app.pg
Idem == {"idem"}            \* idem's connection
Keyed == {"idem", "key"}    \* and the lock of the actor's key
Inner == {"idem", "key", "app"}  \* and a transaction on app.pg beside it

(* GET routes, and single statements.  principal's query is the first of   *)
(* every route; more such queries before the others are left out.          *)
Read == <<Nothing, App, Nothing, App, Nothing>>
(* POST /v1/rooms, and tags with a key: counted on idem's connection.      *)
Room == <<Nothing, App, Nothing, Idem, Keyed, Keyed \cup {"quota"}, Nothing>>
(* POST /v1/rooms/:roomId/tasks                                            *)
Task == <<Nothing, App, Nothing, Idem, Keyed, Keyed \cup {"quota"},
          Keyed \cup {"quota", "agent"}, Nothing>>
(* POST /v1/rooms/:roomId/messages                                         *)
Message == <<Nothing, App, Nothing, Idem, Keyed, Inner, Inner \cup {"spam"},
             Inner \cup {"spam", "quota"}, Keyed, Nothing>>
(* POST /v1/knowledge/versions/:versionId/reviews                          *)
Review == <<Nothing, App, Nothing, Idem, Keyed, Inner, Inner \cup {"quota"}, Keyed, Nothing>>
(* POST /v1/knowledge/cards and /versions: the card is read back.          *)
Card == <<Nothing, App, Nothing, Idem, Keyed, Inner, Inner \cup {"quota"}, Keyed, Inner,
          Keyed, Nothing>>
(* PUT and DELETE /v1/agents/me/subscriptions without a key                *)
Subscription == <<Nothing, App, Nothing, App, App \cup {"quota"}, Nothing>>
(* POST /v1/sessions: bootstrapFor reads app.pg before the key's lock goes. *)
Session == <<Nothing, App, Nothing, Idem, Keyed, Inner, Inner \cup {"sessions"}, Keyed,
             Inner, Keyed, Nothing>>
(* POST /v1/reports: counted on idem's connection, then the target and the *)
(* open reports are read from app.pg.                                      *)
Report == <<Nothing, App, Nothing, Idem, Keyed, Keyed \cup {"quota"}, Inner \cup {"quota"},
            Keyed \cup {"quota"}, Inner \cup {"quota"}, Keyed \cup {"quota"}, Nothing>>
(* Mutant: the agent's owner is looked up after the lock, as reports do.   *)
MemoryAskedLate ==
  <<Nothing, App, Nothing, Idem, Keyed, Keyed \cup {"memory"}, Inner \cup {"memory"},
    Keyed \cup {"memory"}, Nothing>>
(* POST /v1/agents/:agentId/memory and its consolidate and rollback        *)
Memory == <<Nothing, App, Nothing, Idem, Keyed, Keyed \cup {"memory"}, Nothing>>
(* PATCH /v1/agents/:agentId/memory/:memoryId                              *)
Recall == <<Nothing, App, Nothing, App, App \cup {"memory"}, Nothing>>

Life(kind) ==
  CASE kind = "read" -> Read
    [] kind = "room" -> Room
    [] kind = "task" -> Task
    [] kind = "message" -> Message
    [] kind = "review" -> Review
    [] kind = "card" -> Card
    [] kind = "subscription" -> Subscription
    [] kind = "session" -> Session
    [] kind = "report" -> Report
    [] kind = "memory" -> Memory
    [] kind = "recall" -> Recall

Last(r) == Len(Life(route[r]))
Done(r) == stage[r] = Last(r)
Holding(r) == Life(route[r])[stage[r]]
Gain(r) == Life(route[r])[stage[r] + 1] \ Holding(r)

-----------------------------------------------------------------------------
(* Pools and locks *)

(* Whether two requests mean the same lock.                                *)
SameLock(r, q, x) ==
  CASE x = "key" -> KeyOf[r] = KeyOf[q]
    [] x = "quota" -> OwnerOf[r] = OwnerOf[q]
    [] OTHER -> AgentOf[r] = AgentOf[q]
Holders(x) == {q \in Requests : x \in Holding(q)}

(* Mutant: app.pg has a connection fewer than it was given.                *)
FreeOneFewer(r, x) ==
  /\ x = "app" => Cardinality(Holders("app")) < AppMax - 1
  /\ x = "idem" => Cardinality(Holders("idem")) < IdemMax
  /\ x \in Locks => ~\E q \in Holders(x) : SameLock(r, q, x)

Free(r, x) ==
  /\ x = "app" => Cardinality(Holders("app")) < AppMax
  /\ x = "idem" => Cardinality(Holders("idem")) < IdemMax
  /\ x \in Locks => ~\E q \in Holders(x) : SameLock(r, q, x)

CanStep(r) == ~Done(r) /\ \A x \in Gain(r) : Free(r, x)

Init == route \in Mixes /\ stage = [r \in Requests |-> 1]

(* It takes the connection or the lock it waits for, or gives what it held *)
(* back.                                                                   *)
Advance(r) ==
  /\ CanStep(r)
  /\ stage' = [stage EXCEPT ![r] = @ + 1]
  /\ UNCHANGED route

(* It answers early: a stored answer, a refusal or an error rolls back and *)
(* releases everything.                                                    *)
Leave(r) ==
  /\ CanStep(r)
  /\ stage' = [stage EXCEPT ![r] = Last(r)]
  /\ UNCHANGED route

Next == \E r \in Requests : Advance(r) \/ Leave(r)

Spec == Init /\ [][Next]_vars
(* Both pools and PostgreSQL's locks serve waiters in the order they came. *)
FairSpec == Spec /\ \A r \in Requests : SF_vars(Advance(r))

-----------------------------------------------------------------------------
(* Properties *)

(* Requests are between arrival and answer, and the pools lend no more     *)
(* connections than they have. *)
TypeOK ==
  /\ route \in [Requests -> Kinds]
  /\ stage \in [Requests -> Nat] /\ \A r \in Requests : stage[r] \in 1..Last(r)
  /\ Cardinality(Holders("app")) <= AppMax /\ Cardinality(Holders("idem")) <= IdemMax

Stuck == (\E r \in Requests : ~Done(r)) /\ \A r \in Requests : ~CanStep(r)

(* "concurrent mixed actions of one owner never deadlock": some request    *)
(* can always go on until all are answered. *)
NeverStuck == ~Stuck

(* The order of the locks leaves one gridlock: a report waits for app.pg   *)
(* with its owner's quota lock in hand, and transactions that wait for     *)
(* locks have all of app.pg's connections. *)
OnlyReportsStick ==
  Stuck =>
    /\ \E r \in Requests : route[r] = "report" /\ "quota" \in Holding(r) /\ Gain(r) = {"app"}
    /\ Cardinality({q \in Holders("app") : Gain(q) \subseteq Locks /\ Gain(q) # {}}) >= AppMax

(* Routes with a transaction on app.pg that waits for a lock.              *)
TransactionKinds == {"message", "review", "card", "subscription", "session", "recall"}
Roomy == Cardinality({r \in Requests : route[r] \in TransactionKinds}) < AppMax
NoReports == \A r \in Requests : route[r] # "report"

(* In a mix that has no report, however small the pools, and in one with   *)
(* fewer lock-waiting transactions than app.pg has connections, reports    *)
(* included, every request is answered.                                    *)
EveryoneAnswered == Roomy \/ NoReports => \A r \in Requests : <>Done(r)
=============================================================================
