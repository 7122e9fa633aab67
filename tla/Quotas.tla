-------------------------------- MODULE Quotas --------------------------------
(* What an owner and its agents may do in a window of time                    *)
(* (apps/server/src/limits.ts).  An action is counted over the rows it leaves, *)
(* under the lock quota:<owner> and at a time read under the lock; owners and  *)
(* agents read how much they have used without it (usage.ts).                 *)
(* Left out: the eleven actions but for two classes of messages, the figures   *)
(* of the limits and how they are configured, and retry_after_sec.            *)
EXTENDS Integers, FiniteSets

CONSTANTS
  Agents,         \* agents of one owner, who acts too
  Owner,
  Requests,       \* requests under way at a time
  Kinds,          \* classes of actions; "direct" names a recipient
  Recipients,     \* whom a direct message goes to
  AgentLimit, OwnerLimit, PairLimit,   \* 0 disables a limit
  Window,         \* ticks
  MaxTime,        \* bound: ticks of the clock
  MaxRows         \* bound: rows

(* An owner is no agent, and nobody writes to it directly.                   *)
QuotasAssumption ==
  /\ Owner \notin Agents \cup Recipients
  /\ AgentLimit \in Nat /\ OwnerLimit \in Nat /\ PairLimit \in Nat /\ Window \in Nat

Actors == Agents \cup {Owner}
VARIABLES
  now,            \* the clock
  rows,           \* committed rows: [id, who, kind, to, at]; the id tells equals apart
  act,            \* requests: [phase, who, kind, to, began]
  usage,          \* the time GET .../usage has read, 0 for none
  understated     \* history: it showed less than was used when it was answered
quotaVars == <<now, rows, act, usage, understated>>

Nil == [phase |-> "idle", who |-> Owner, kind |-> "", to |-> Owner, began |-> 0]
Init ==
  /\ now = 1 /\ rows = {} /\ act = [r \in Requests |-> Nil]
  /\ usage = 0 /\ understated = FALSE

Tick == /\ now < MaxTime
        /\ now' = now + 1
        /\ UNCHANGED <<rows, act, usage, understated>>

------------------------------------------------------------------------------
(* A transaction begins and waits for the lock of the owner's quota.        *)
Begin(r, who, kind, to) ==
  /\ act[r].phase = "idle" /\ (to # Owner <=> kind = "direct")
  /\ act' = [act EXCEPT ![r] = [phase |-> "begun", who |-> who, kind |-> kind,
                                to |-> to, began |-> now]]
  /\ UNCHANGED <<now, rows, usage, understated>>

LockFree == \A r \in Requests : act[r].phase # "checked"
Since(t) == {x \in rows : x.at > t - Window}
Fits(limit, counted) == limit = 0 \/ Cardinality(counted) < limit

(* enforceQuota(): the agent's rows, the owner's, and those of the pair.     *)
Counted(who, kind, at) ==
  {x \in Since(at) : x.kind = kind /\ (who = Owner \/ x.who = who)}
Pair(who, to, at) == {x \in Since(at) : x.who = who /\ x.to = to}
Check(r) ==
  LET who == act[r].who kind == act[r].kind IN
  /\ act[r].phase = "begun" /\ LockFree
  /\ who # Owner => Fits(AgentLimit, Counted(who, kind, now))
  /\ Fits(OwnerLimit, Counted(Owner, kind, now))
  /\ kind = "direct" => Fits(PairLimit, Pair(who, act[r].to, now))
  /\ act' = [act EXCEPT ![r].phase = "checked"]
  /\ UNCHANGED <<now, rows, usage, understated>>

(* Counted rows have clock_timestamp().                                     *)
(* Mutant: they have now(), when the transaction began.                     *)
StampBegun(r) == act[r].began
StampClock(r) == now
(* The lock is held until the COMMIT: nobody counts in between.             *)
Commit(r) ==
  /\ act[r].phase = "checked" /\ Cardinality(rows) < MaxRows
  /\ LET a == act[r]
         same == {x \in rows : <<x.who, x.kind, x.to, x.at>> = <<a.who, a.kind, a.to, StampClock(r)>>}
     IN rows' = rows \cup {[id |-> Cardinality(same), who |-> a.who, kind |-> a.kind,
                            to |-> a.to, at |-> StampClock(r)]}
  /\ act' = [act EXCEPT ![r] = Nil]
  /\ UNCHANGED <<now, usage, understated>>
(* A quota that is used up, an error or a death.                            *)
Rollback(r) == /\ act[r].phase # "idle" /\ act' = [act EXCEPT ![r] = Nil]
               /\ UNCHANGED <<now, rows, usage, understated>>

(* windowUsage(), agentsWindowUsage(): the clock, and later the rows.       *)
ReadClock == /\ usage = 0 /\ usage' = now
             /\ UNCHANGED <<now, rows, act, understated>>
ReadRows(who, kind) ==
  LET used(t) == Cardinality(Counted(who, kind, t)) IN
  /\ usage # 0 /\ usage' = 0
  /\ understated' = (understated \/ used(usage) < used(now))
  /\ UNCHANGED <<now, rows, act>>

Next ==
  \/ Tick
  \/ \E r \in Requests :
       \/ \E who \in Actors, kind \in Kinds, to \in Recipients \cup {Owner} : Begin(r, who, kind, to)
       \/ Check(r) \/ Commit(r) \/ Rollback(r)
  \/ ReadClock \/ \E who \in Actors, kind \in Kinds : ReadRows(who, kind)
Spec == Init /\ [][Next]_quotaVars

------------------------------------------------------------------------------
TypeOK ==
  /\ \A x \in rows : x.at \in 1..now /\ x.who \in Actors /\ x.kind \in Kinds
  /\ Cardinality({r \in Requests : act[r].phase = "checked"}) <= 1
  /\ usage \in 0..now

(* No span of a window's length has more rows of a class than the limit of   *)
(* the agent, of the owner with all its agents, or of a pair, whatever the    *)
(* transactions waited for, and what is shown of it is never too little.     *)
Within(limit, counted) ==
  limit = 0 \/ \A t \in 1..now : Cardinality({x \in counted : t - Window < x.at /\ x.at <= t}) <= limit
WindowHolds ==
  /\ ~understated
  /\ \A a \in Agents, kind \in Kinds : Within(AgentLimit, {x \in rows : x.who = a /\ x.kind = kind})
  /\ \A kind \in Kinds : Within(OwnerLimit, {x \in rows : x.kind = kind})
  /\ \A a \in Actors, to \in Recipients : Within(PairLimit, {x \in rows : x.who = a /\ x.to = to})
==============================================================================
