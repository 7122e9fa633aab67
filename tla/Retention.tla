------------------------------- MODULE Retention -------------------------------
(* The deletion of what is old (apps/server/src/retention.ts) from under those *)
(* who still use it: each server of the system prunes when it starts and every *)
(* six hours, one at a time, in statements that delete a batch of rows each.   *)
(* Here are the sessions of one agent, which say when it was last seen, and   *)
(* the rows that quotas count.  Keys of requests and inbox events, which a     *)
(* pass deletes as well, are in Idempotency and Inbox.                        *)
(* Left out: OLIMPYX_PRUNE=off and how the days are configured.               *)
EXTENDS Integers, FiniteSets

CONSTANTS
  Servers, None,
  Ids,          \* bound: sessions, by their ids, which are in no order of time
  Batch,        \* rows that a statement deletes at most
  Cap,          \* live sessions that an agent has at most
  Silence,      \* a session without a heartbeat for so long is over (90 seconds)
  Lifetime,     \* and so is one that began so long ago
  Days,         \* a session is kept for so long after that
  Window,       \* the longest window of a quota
  MaxTime       \* bound: ticks of the clock

VARIABLES
  now,          \* the clock
  sessions,     \* of each row its [beat, expires, ended], 0 for one not ended
  used,         \* ids of sessions there have been
  quota,        \* the times of the rows of quota_events
  lock,         \* the server whose connection has the advisory lock, or None
  pass,         \* of each server: what its pass deletes next
  seen,         \* history: the last heartbeat of the agent, or 0
  counted       \* history: the times of all rows of quota_events
retentionVars == <<now, sessions, used, quota, lock, pass, seen, counted>>

(* Ids have an order, in no relation to time, and nobody is called None.    *)
RetentionAssumption ==
  /\ Ids \subseteq Int /\ None \notin Servers
  /\ Silence \in Nat /\ Lifetime \in Nat /\ Days \in Nat /\ Window \in Nat

Init ==
  /\ now = 1 /\ sessions = [s \in {} |-> 0] /\ used = {} /\ quota = {}
  /\ lock = None /\ pass = [v \in Servers |-> "idle"]
  /\ seen = 0 /\ counted = {}

Rows == DOMAIN sessions
Smaller(a, b) == IF a < b THEN a ELSE b
Deadline(s) == Smaller(sessions[s].expires, sessions[s].beat + Silence)
Live(s) == sessions[s].ended = 0 /\ now < Deadline(s)
Tick == /\ now < MaxTime /\ now' = now + 1
        /\ UNCHANGED <<sessions, used, quota, lock, pass, seen, counted>>

------------------------------------------------------------------------------
(* What the agent does: a session is seen when it begins and with each        *)
(* heartbeat; a change of its subscriptions leaves a row to be counted.       *)
Beat(s) ==
  /\ used' = used \cup {s} /\ seen' = now
  /\ UNCHANGED <<now, quota, lock, pass, counted>>
(* The oldest of the live sessions that a new one leaves no room for.         *)
Excess ==
  LET live == {s \in Rows : Live(s)} IN
  CHOOSE b \in SUBSET live :
    /\ Cardinality(b) = IF Cardinality(live) < Cap THEN 0 ELSE Cardinality(live) - Cap + 1
    /\ \A x \in b, y \in live \ b : sessions[x].expires <= sessions[y].expires
SessionBegin(s) ==
  /\ s \notin used /\ Beat(s)
  /\ LET over == Excess IN
     sessions' = [x \in Rows \cup {s} |->
       IF x = s THEN [beat |-> now, expires |-> now + Lifetime, ended |-> 0]
       ELSE IF x \in over THEN [sessions[x] EXCEPT !.ended = now] ELSE sessions[x]]
(* It may have been found live just before it was ended.                      *)
Heartbeat(s) ==
  /\ now < Deadline(s) /\ sessions[s].ended \in {0, now} /\ Beat(s)
  /\ sessions' = [sessions EXCEPT ![s].beat = now]
SessionEnd(s) ==
  /\ Live(s) /\ sessions' = [sessions EXCEPT ![s].ended = now]
  /\ UNCHANGED <<now, used, quota, lock, pass, seen, counted>>
SubscriptionChange ==
  /\ quota' = quota \cup {now} /\ counted' = counted \cup {now}
  /\ UNCHANGED <<now, sessions, used, lock, pass, seen>>

------------------------------------------------------------------------------
(* The row that is not the agent's latest: among those with the same          *)
(* heartbeat the greatest id is, so that one of them is always kept.          *)
Superseded(s) ==
  \E x \in Rows \ {s} : \/ sessions[x].beat > sessions[s].beat
                        \/ sessions[x].beat = sessions[s].beat /\ x > s
OverSince(s) == IF sessions[s].ended # 0 THEN sessions[s].ended ELSE Deadline(s)
Stale == {s \in Rows : OverSince(s) < now - Days /\ Superseded(s)}
Uncounted == {t \in quota : t < now - Window}

(* pg_try_advisory_lock(): another server that prunes makes this one skip.    *)
Begin(v) ==
  /\ pass[v] = "idle" /\ lock = None /\ lock' = v
  /\ pass' = [pass EXCEPT ![v] = "sessions"]
  /\ UNCHANGED <<now, sessions, used, quota, seen, counted>>

(* deleteInBatches(): statements are repeated until one deletes fewer rows    *)
(* than a batch has.                                                          *)
Batches(rows) ==
  {b \in SUBSET rows : Cardinality(b) = Smaller(Batch, Cardinality(rows))}
After(v, b, next) == pass' = [pass EXCEPT ![v] = IF Cardinality(b) < Batch THEN next ELSE @]
PruneSessions(v) ==
  /\ pass[v] = "sessions"
  /\ \E b \in Batches(Stale) :
       /\ sessions' = [s \in Rows \ b |-> sessions[s]]
       /\ After(v, b, "quota")
  /\ UNCHANGED <<now, used, quota, lock, seen, counted>>
PruneQuota(v) ==
  /\ pass[v] = "quota"
  /\ \E b \in Batches(Uncounted) :
       /\ quota' = quota \ b
       /\ After(v, b, "done")
  /\ UNCHANGED <<now, sessions, used, lock, seen, counted>>

(* The lock is given back after the pass, after an error, or by the death of  *)
(* the server with its connection; statements that were run stay.             *)
Finish(v) ==
  /\ pass[v] # "idle" /\ lock' = None
  /\ pass' = [pass EXCEPT ![v] = "idle"]
  /\ UNCHANGED <<now, sessions, used, quota, seen, counted>>

Next ==
  \/ Tick \/ SubscriptionChange
  \/ \E s \in Ids : SessionBegin(s)
  \/ \E s \in Rows : Heartbeat(s) \/ SessionEnd(s)
  \/ \E v \in Servers : Begin(v) \/ PruneSessions(v) \/ PruneQuota(v) \/ Finish(v)
Spec == Init /\ [][Next]_retentionVars

------------------------------------------------------------------------------
TypeOK ==
  /\ Rows \subseteq used /\ used \subseteq Ids /\ quota \subseteq 1..now
  /\ \A s \in Rows : sessions[s].beat \in 1..now /\ sessions[s].ended \in 0..now
  /\ \A v \in Servers : pass[v] # "idle" <=> lock = v

(* However many sessions shared its last heartbeat and however often the      *)
(* passes of several servers were cut off, the agent's profile says when it   *)
(* was seen last, and nothing that a quota still counts was deleted.          *)
LastSeenStays ==
  /\ seen # 0 => \E s \in Rows : sessions[s].beat = seen
  /\ \A t \in counted \ quota : t < now - Window
==============================================================================
