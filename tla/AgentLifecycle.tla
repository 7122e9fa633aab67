--------------------------- MODULE AgentLifecycle ---------------------------
(***************************************************************************)
(* Agents, their tokens and their sessions in apps/server/src/app.ts:      *)
(* how a credential is accepted, how a session is created under the        *)
(* per-agent cap, and how an owner (stop, revoke, unlink) or a moderator   *)
(* (restrict, lift) ends what an agent may do.                             *)
(*                                                                         *)
(* Every handler first runs principal(), outside of any transaction, and   *)
(* writes later: a request is therefore a record with a phase, and         *)
(* anything may happen between its admission and its transaction.  A       *)
(* transaction that takes the advisory lock sessions:<agent> is one step   *)
(* when it only writes after the lock, and two steps (lock and read, write *)
(* and commit) in POST /v1/sessions, which reads before it writes.         *)
(*                                                                         *)
(* One owner owns all the agents.  Time appears as the steps by which a    *)
(* heartbeat grows stale, a session expires and a restriction lapses.      *)
(***************************************************************************)
EXTENDS Naturals, FiniteSets

CONSTANTS Agents,       \* the owner's enrolled agents
          Requests,     \* slots for the requests in flight
          MaxSessions,  \* bound: sessions ever created in a behaviour
          SessionCap,   \* limits.capacity.sessions_per_agent
          NoAgent       \* the agent of a session id not yet used

ASSUME LifecycleAssumption ==
  /\ MaxSessions \in Nat
  /\ SessionCap \in Nat \ {0}    \* "sessions must be >= 1"
  /\ NoAgent \notin Agents

VARIABLES agents,      \* rows of agents, auth_tokens and agent_subscriptions
          ownerLimit,  \* the owner's restriction columns
          sessions,    \* rows of sessions, by id; ids follow created_at
          begun,       \* how many session ids have been handed out
          requests,    \* the request each slot is serving
          notices      \* agent.* rows of inbox_events, by kind

vars == <<agents, ownerLimit, sessions, begun, requests, notices>>

SessionIds == 1..MaxSessions

(* restricted, restricted_until: "lapsed" is restricted = true with        *)
(* restricted_until in the past, which no code ever writes back to false.  *)
Limits == {"none", "temporary", "lapsed", "permanent"}
Sweeps == {"owner_stop", "revoked", "restricted", "owner_unlinked"}
EndReasons == Sweeps \cup {"superseded", "agent_ended"}
(* ended_at is null.  "stale" covers a heartbeat older than 90 seconds and *)
(* a session past expires_at; "revived" is a live session that was stale   *)
(* before, which the code does not tell from "fresh".                      *)
OpenStates == {"fresh", "stale", "revived"}
NoticeKinds == {"stop_requested", "revoked", "restricted", "unlinked"}
(* Bound: how far the notices of a kind are counted.  Two tells a second   *)
(* row from the first where the code means to write one.                   *)
NoticeBound == [stop_requested |-> 1, restricted |-> 1,
                revoked |-> 2, unlinked |-> 2]

AgentRow == [revoked: BOOLEAN, unlinked: BOOLEAN, limit: Limits,
             token: BOOLEAN, subscribed: BOOLEAN, late: BOOLEAN]
(* late marks what a revoke or an unlink could not take: a subscription    *)
(* written, or a session whose creation got sessions:<agent>, after it.    *)
SessionRow == [agent: Agents \cup {NoAgent},
               state: {"absent"} \cup OpenStates \cup EndReasons,
               late: BOOLEAN]
Request == [op: {"none", "create", "subscribe", "heartbeat", "end",
                 "stop", "revoke", "unlink"},
            phase: {"idle", "admitted", "begun", "locked", "read"},
            agent: Agents \cup {NoAgent},
            session: {0} \cup SessionIds,
            excess: SUBSET SessionIds,
            late: BOOLEAN]

Idle == [op |-> "none", phase |-> "idle", agent |-> NoAgent,
         session |-> 0, excess |-> {}, late |-> FALSE]
NoSession == [agent |-> NoAgent, state |-> "absent", late |-> FALSE]

Init ==
  /\ agents = [a \in Agents |->
                 [revoked |-> FALSE, unlinked |-> FALSE, limit |-> "none",
                  token |-> TRUE, subscribed |-> FALSE, late |-> FALSE]]
  /\ ownerLimit = "none"
  /\ sessions = [s \in SessionIds |-> NoSession]
  /\ begun = 0
  /\ requests = [r \in Requests |-> Idle]
  /\ notices = [a \in Agents |-> [k \in NoticeKinds |-> 0]]

-----------------------------------------------------------------------------
(* Credentials *)

InForce(limit) == limit \in {"temporary", "permanent"}
Restricted(a) == InForce(agents[a].limit) \/ InForce(ownerLimit)
Open(s) == sessions[s].state \in OpenStates
Live(s) == sessions[s].state \in {"fresh", "revived"}
Out(a) == agents[a].revoked \/ agents[a].unlinked

TokenAccepted(a) == agents[a].token /\ ~agents[a].revoked /\ ~Restricted(a)

(* What principal() answers to a session token, in its order of checks.    *)
Answer(s) ==
  LET a == sessions[s].agent IN
  CASE sessions[s].state = "absent" -> "unauthorized"
    [] OTHER ->
       IF agents[a].revoked THEN "agent_revoked"
       ELSE IF Restricted(a) THEN "restricted"
       ELSE IF sessions[s].state = "owner_stop" THEN "session_stopped"
       ELSE IF sessions[s].state = "superseded" THEN "session_superseded"
       ELSE IF sessions[s].state = "revoked" THEN "agent_revoked"
       ELSE IF ~Live(s) THEN "session_expired"
       ELSE "accepted"

SessionsOf(a) == {s \in SessionIds : sessions[s].agent = a}
OpenSessions(a) == {s \in SessionsOf(a) : Open(s)}
Active(a) == {s \in OpenSessions(a) : Live(s)}

-----------------------------------------------------------------------------
(* Admission: a free slot takes a request that principal() accepts.        *)

Serve(r, op, a, s) ==
  /\ requests[r] = Idle
  /\ requests' = [requests EXCEPT ![r] =
                    [op |-> op, phase |-> "admitted", agent |-> a,
                     session |-> s, excess |-> {}, late |-> FALSE]]
  /\ UNCHANGED <<agents, ownerLimit, sessions, begun, notices>>

AdmitToken(r, a) == TokenAccepted(a) /\ Serve(r, "create", a, 0)

AdmitSubscribe(r, a) ==
  /\ TokenAccepted(a) \/ \E s \in SessionsOf(a) : Answer(s) = "accepted"
  /\ Serve(r, "subscribe", a, 0)

AdmitSession(r, s) ==
  /\ Answer(s) = "accepted"
  /\ \E op \in {"heartbeat", "end"} : Serve(r, op, sessions[s].agent, s)

AdmitOwner(r, a) ==
  /\ ~InForce(ownerLimit)
  /\ \E op \in {"stop", "revoke", "unlink"} : Serve(r, op, a, 0)

-----------------------------------------------------------------------------
(* Writing: each handler from its admission to its COMMIT.                 *)

Serving(r, op, phase) == requests[r].op = op /\ requests[r].phase = phase
Done(r) == requests' = [requests EXCEPT ![r] = Idle]

(* Mutant: a sweep and a creation do not wait for the lock.                *)
LockIgnored(a) == TRUE

(* pg_advisory_xact_lock(sessions:<agent>): only POST /v1/sessions keeps   *)
(* it from one step to the next.                                           *)
LockFree(a) ==
  \A r \in Requests : requests[r].phase = "locked" => requests[r].agent # a

(* Mutants: a sweep of the online sessions only; one that rewrites ended   *)
(* sessions, as an UPDATE without "ended_at IS NULL" would.                *)
EndSessionsOnline(as, reason) ==
  sessions' = [s \in SessionIds |->
                 IF sessions[s].agent \in as /\ Live(s)
                 THEN [sessions[s] EXCEPT !.state = reason]
                 ELSE sessions[s]]
EndSessionsAgain(as, reason) ==
  sessions' = [s \in SessionIds |->
                 IF sessions[s].agent \in as
                 THEN [sessions[s] EXCEPT !.state = reason]
                 ELSE sessions[s]]

(* endAgentSessions                                                        *)
EndSessions(as, reason) ==
  sessions' = [s \in SessionIds |->
                 IF sessions[s].agent \in as /\ Open(s)
                 THEN [sessions[s] EXCEPT !.state = reason]
                 ELSE sessions[s]]

(* Mutant: the event is inserted without looking for an earlier one.       *)
NotedAgain(n, once) == n + 1

(* agentEvent; once: only when no row of this kind exists yet.             *)
Noted(n, once) == IF once /\ n > 0 THEN n ELSE n + 1
Notify(as, kind, once) ==
  notices' = [a \in Agents |->
                IF a \in as /\ notices[a][kind] < NoticeBound[kind]
                THEN [notices[a] EXCEPT ![kind] = Noted(@, once)]
                ELSE notices[a]]

(* POST /v1/sessions.  created_at is the time of BEGIN: ids are handed     *)
(* out there, before the lock is granted.                                  *)
CreateBegin(r) ==
  /\ Serving(r, "create", "admitted")
  /\ begun < MaxSessions
  /\ begun' = begun + 1
  /\ requests' = [requests EXCEPT ![r] =
                    [@ EXCEPT !.phase = "begun", !.session = begun + 1]]
  /\ UNCHANGED <<agents, ownerLimit, sessions, notices>>

Oldest(chosen, all) == \A s \in chosen, t \in all \ chosen : s < t

(* Mutant: one session too many is kept.                                   *)
CreateOneTooMany(r) ==
  LET active == Active(requests[r].agent) IN
  /\ Serving(r, "create", "begun")
  /\ LockFree(requests[r].agent)
  /\ \E excess \in SUBSET active :
       /\ Oldest(excess, active)
       /\ IF Cardinality(active) <= SessionCap
          THEN excess = {}
          ELSE Cardinality(active \ excess) = SessionCap
       /\ requests' = [requests EXCEPT ![r] =
                         [@ EXCEPT !.phase = "locked", !.excess = excess,
                                   !.late = Out(requests[r].agent)]]
  /\ UNCHANGED <<agents, ownerLimit, sessions, begun, notices>>

CreateLock(r) ==
  LET active == Active(requests[r].agent) IN
  /\ Serving(r, "create", "begun")
  /\ LockFree(requests[r].agent)
  /\ \E excess \in SUBSET active :
       /\ Oldest(excess, active)
       /\ IF Cardinality(active) < SessionCap
          THEN excess = {}
          ELSE Cardinality(active \ excess) = SessionCap - 1
       /\ requests' = [requests EXCEPT ![r] =
                         [@ EXCEPT !.phase = "locked", !.excess = excess,
                                   !.late = Out(requests[r].agent)]]
  /\ UNCHANGED <<agents, ownerLimit, sessions, begun, notices>>

CreateCommit(r) ==
  LET new == requests[r].session
      a == requests[r].agent IN
  /\ Serving(r, "create", "locked")
  /\ sessions' = [s \in SessionIds |->
       IF s = new THEN [agent |-> a, state |-> "fresh", late |-> requests[r].late]
       ELSE IF s \in requests[r].excess
            THEN [sessions[s] EXCEPT !.state = "superseded"]
       ELSE sessions[s]]
  /\ Done(r)
  /\ UNCHANGED <<agents, ownerLimit, begun, notices>>

(* PUT /v1/agents/me/subscriptions                                         *)
Subscribe(r) ==
  LET a == requests[r].agent IN
  /\ Serving(r, "subscribe", "admitted")
  /\ agents' = [agents EXCEPT ![a] =
                  [@ EXCEPT !.subscribed = TRUE, !.late = Out(a)]]
  /\ Done(r)
  /\ UNCHANGED <<ownerLimit, sessions, begun, notices>>

(* The UPDATE is by id alone; on an ended session it changes nothing that  *)
(* is read again, and past expires_at it does not bring a session back.    *)
Heartbeat(r) ==
  /\ Serving(r, "heartbeat", "admitted")
  /\ \/ UNCHANGED sessions
     \/ /\ sessions[requests[r].session].state = "stale"
        /\ sessions' = [sessions EXCEPT ![requests[r].session].state = "revived"]
  /\ Done(r)
  /\ UNCHANGED <<agents, ownerLimit, begun, notices>>

(* The UPDATE is by id alone, with the reason the caller gives.            *)
EndOwn(r) ==
  /\ Serving(r, "end", "admitted")
  /\ sessions' = [sessions EXCEPT ![requests[r].session].state = "agent_ended"]
  /\ Done(r)
  /\ UNCHANGED <<agents, ownerLimit, begun, notices>>

Stop(r) ==
  LET a == requests[r].agent IN
  /\ Serving(r, "stop", "admitted")
  /\ LockFree(a)
  /\ EndSessions({a}, "owner_stop")
  /\ Notify({a}, "stop_requested", FALSE)
  /\ Done(r)
  /\ UNCHANGED <<agents, ownerLimit, begun>>

(* restricted = true, restricted_until left as it is.                      *)
Flagged(limit) == IF limit = "none" THEN "permanent" ELSE limit

Revoke(r) ==
  LET a == requests[r].agent IN
  /\ Serving(r, "revoke", "admitted")
  /\ LockFree(a)
  /\ agents' = [agents EXCEPT ![a] =
       [@ EXCEPT !.revoked = TRUE, !.limit = Flagged(agents[a].limit),
                 !.token = FALSE, !.subscribed = FALSE, !.late = FALSE]]
  /\ EndSessions({a}, "revoked")
  /\ Notify({a}, "revoked", TRUE)
  /\ Done(r)
  /\ UNCHANGED <<ownerLimit, begun>>

(* The row is read without FOR UPDATE; 409 already_unlinked ends here.     *)
UnlinkRead(r) ==
  /\ Serving(r, "unlink", "admitted")
  /\ IF agents[requests[r].agent].unlinked
     THEN Done(r)
     ELSE requests' = [requests EXCEPT ![r].phase = "read"]
  /\ UNCHANGED <<agents, ownerLimit, sessions, begun, notices>>

Unlink(r) ==
  LET a == requests[r].agent IN
  /\ Serving(r, "unlink", "read")
  /\ LockFree(a)
  /\ agents' = [agents EXCEPT ![a] =
       [@ EXCEPT !.unlinked = TRUE, !.limit = Flagged(agents[a].limit),
                 !.token = FALSE, !.subscribed = FALSE, !.late = FALSE]]
  /\ EndSessions({a}, "owner_unlinked")
  /\ Notify({a}, "unlinked", TRUE)
  /\ Done(r)
  /\ UNCHANGED <<ownerLimit, begun>>

(* The connection or the server is lost: the transaction rolls back.       *)
Abandon(r) ==
  /\ requests[r] # Idle
  /\ Done(r)
  /\ UNCHANGED <<agents, ownerLimit, sessions, begun, notices>>

-----------------------------------------------------------------------------
(* Moderation, one transaction each; revoked agents are left alone.        *)

Penalties == {"temporary", "permanent"}

RestrictAgents(as, kind) ==
  LET hit == {a \in as : ~agents[a].revoked} IN
  /\ \A a \in hit : LockFree(a)
  /\ agents' = [a \in Agents |-> IF a \in hit
                                 THEN [agents[a] EXCEPT !.limit = kind]
                                 ELSE agents[a]]
  /\ EndSessions(hit, "restricted")
  /\ Notify(hit, "restricted", FALSE)
  /\ UNCHANGED <<begun, requests>>

RestrictAgent(a) ==
  /\ \E kind \in Penalties : RestrictAgents({a}, kind)
  /\ UNCHANGED ownerLimit

RestrictOwner ==
  \E kind \in Penalties : ownerLimit' = kind /\ RestrictAgents(Agents, kind)

(* Mutant: an appeal without "AND revoked_at IS NULL".                     *)
LiftAll(as) ==
  /\ agents' = [a \in Agents |->
                  IF a \in as
                  THEN [agents[a] EXCEPT !.limit = "none"]
                  ELSE agents[a]]
  /\ UNCHANGED <<sessions, begun, requests, notices>>

Lift(as) ==
  /\ agents' = [a \in Agents |->
                  IF a \in as /\ ~agents[a].revoked
                  THEN [agents[a] EXCEPT !.limit = "none"]
                  ELSE agents[a]]
  /\ UNCHANGED <<sessions, begun, requests, notices>>

LiftAgent(a) == Lift({a}) /\ UNCHANGED ownerLimit
LiftOwner == Lift(Agents) /\ ownerLimit' = "none"

-----------------------------------------------------------------------------
(* Time *)

Lapse(a) ==
  /\ agents[a].limit = "temporary"
  /\ agents' = [agents EXCEPT ![a].limit = "lapsed"]
  /\ UNCHANGED <<ownerLimit, sessions, begun, requests, notices>>

LapseOwner ==
  /\ ownerLimit = "temporary"
  /\ ownerLimit' = "lapsed"
  /\ UNCHANGED <<agents, sessions, begun, requests, notices>>

(* 90 seconds without a heartbeat, or 24 hours since the creation.         *)
GoQuiet(s) ==
  /\ Live(s)
  /\ sessions' = [sessions EXCEPT ![s].state = "stale"]
  /\ UNCHANGED <<agents, ownerLimit, begun, requests, notices>>

-----------------------------------------------------------------------------
Admit(r) ==
  \/ \E a \in Agents : AdmitToken(r, a) \/ AdmitSubscribe(r, a) \/ AdmitOwner(r, a)
  \/ \E s \in SessionIds : AdmitSession(r, s)

Write(r) ==
  \/ CreateBegin(r) \/ CreateLock(r) \/ CreateCommit(r)
  \/ Subscribe(r) \/ Heartbeat(r) \/ EndOwn(r)
  \/ Stop(r) \/ Revoke(r) \/ UnlinkRead(r) \/ Unlink(r)
  \/ Abandon(r)

Moderate == RestrictOwner \/ LiftOwner \/ \E a \in Agents : RestrictAgent(a) \/ LiftAgent(a)

Tick == LapseOwner \/ (\E a \in Agents : Lapse(a)) \/ (\E s \in SessionIds : GoQuiet(s))

Next == (\E r \in Requests : Admit(r) \/ Write(r)) \/ Moderate \/ Tick

Spec == Init /\ [][Next]_vars

-----------------------------------------------------------------------------
(* Properties *)

(* The rows and the requests keep their types. *)
TypeOK ==
  /\ agents \in [Agents -> AgentRow]
  /\ ownerLimit \in Limits
  /\ sessions \in [SessionIds -> SessionRow]
  /\ begun \in 0..MaxSessions
  /\ requests \in [Requests -> Request]
  /\ notices \in [Agents -> [NoticeKinds -> 0..2]]

(* However creations, stops and heartbeats of one agent interleave, its    *)
(* open sessions that never missed a heartbeat stay within the cap: the    *)
(* sessions:<agent> lock makes read-count-insert in POST /v1/sessions safe. *)
NeverLapsed(a) == {s \in OpenSessions(a) : sessions[s].state = "fresh"}
CapHolds == \A a \in Agents : Cardinality(NeverLapsed(a)) <= SessionCap

(* The inductive strengthening of CapHolds: one creation at a time holds   *)
(* the lock of an agent, and what it found leaves room for one more.       *)
Exclusive ==
  \A r, q \in Requests :
    /\ requests[r].phase = "locked" /\ requests[q].phase = "locked"
    /\ requests[r].agent = requests[q].agent
    => r = q
Reserved ==
  \A r \in Requests, a \in Agents :
    requests[r].phase = "locked" /\ requests[r].agent = a =>
      Cardinality(NeverLapsed(a) \ requests[r].excess) < SessionCap
CapInv == Exclusive /\ Reserved /\ CapHolds

(* An open session of an agent that is revoked or unlinked belongs to a    *)
(* creation that got the agent's lock after the sweep: one that had the    *)
(* lock before has committed and was swept, as the comment of              *)
(* endAgentSessions says.  Excepted is what no lock orders: that later     *)
(* creation, of a request accepted before, and a subscription that such a  *)
(* request writes after the DELETE.  The token goes without exception.     *)
SweepMissesNothing ==
  \A a \in Agents : Out(a) =>
    /\ ~agents[a].token
    /\ \A s \in OpenSessions(a) : sessions[s].late
    /\ agents[a].subscribed => agents[a].late

(* A stop, a revoke, an unlink or a restriction that ends a session of an  *)
(* agent ends all of them, stale ones too, and no creation is under way    *)
(* that has counted the sessions and has still to insert its own.          *)
SweepTakesAll ==
  [][\A a \in Agents :
       (\E s \in OpenSessions(a) : sessions'[s].state \in Sweeps) =>
         /\ \A s \in SessionIds :
              sessions'[s].agent = a => sessions'[s].state \notin OpenStates
         /\ \A r \in Requests :
              requests'[r].phase = "locked" => requests'[r].agent # a]_vars

(* A session ended by a stop, a revoke, a restriction or an unlink has its *)
(* event in the agent's inbox, and revoke and unlink leave at most one     *)
(* event each, even when two of them race.                                 *)
NoticeOf == [owner_stop |-> "stop_requested", revoked |-> "revoked",
             restricted |-> "restricted", owner_unlinked |-> "unlinked"]
SweptIsNoticed ==
  \A a \in Agents :
    /\ \A s \in SessionsOf(a) :
         sessions[s].state \in Sweeps => notices[a][NoticeOf[sessions[s].state]] > 0
    /\ notices[a]["revoked"] <= 1 /\ notices[a]["unlinked"] <= 1
    /\ agents[a].revoked <=> (notices[a]["revoked"] = 1)
    /\ agents[a].unlinked <=> (notices[a]["unlinked"] = 1)

(* A revoked agent's row stays flagged restricted whatever moderation of   *)
(* the agent or of its whole owner follows: neither a restriction of the   *)
(* owner nor a granted appeal re-includes it.                              *)
RevokedKeepsFlag == \A a \in Agents : agents[a].revoked => agents[a].limit # "none"

(* An ended session never reopens, and its end_reason, on which the typed  *)
(* 401 depends, changes only by a request that was already past its checks *)
(* when the session ended: no later stop, revoke or restriction rewrites it. *)
Overtaken(s) ==
  \E r \in Requests : \/ requests[r].op = "end" /\ requests[r].session = s
                      \/ s \in requests[r].excess
EndedIsFinal ==
  [][\A s \in SessionIds :
       sessions[s].state \in EndReasons =>
         /\ sessions'[s].state \in EndReasons
         /\ sessions'[s].state # sessions[s].state => Overtaken(s)]_vars

-----------------------------------------------------------------------------
(* A claim of the documentation that the code does not keep.               *)

(* "this owner loses the ability to act as it": after an unlink none of    *)
(* the agent's credentials is accepted.                                    *)
UnlinkedCannotAct ==
  \A a \in Agents : agents[a].unlinked =>
    ~TokenAccepted(a) /\ \A s \in SessionsOf(a) : Answer(s) # "accepted"
=============================================================================
