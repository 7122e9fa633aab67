------------------------ MODULE AgentLifecycleProofs ------------------------
(***************************************************************************)
(* Proofs about AgentLifecycle for every set of agents and of requests,    *)
(* every cap and every number of sessions.                                 *)
(*                                                                         *)
(* CapHolds is not inductive: between the SELECT and the INSERT of a       *)
(* creation the count it read must stay an upper bound.  CapInv says so    *)
(* (Reserved) for the one request that holds the agent's lock (Exclusive). *)
(***************************************************************************)
EXTENDS AgentLifecycle, FiniteSetTheorems, TLAPS

USE LifecycleAssumption

-----------------------------------------------------------------------------
(* The initial state is well typed. *)
LEMMA InitType == Init => TypeOK
BY DEF Init, TypeOK, AgentRow, SessionRow, Request, Idle, NoSession,
       Limits, OpenStates, EndReasons, Sweeps, NoticeKinds, SessionIds

(* Freeing a slot keeps the type of the requests. *)
LEMMA DoneType ==
  ASSUME NEW r \in Requests, requests \in [Requests -> Request], Done(r)
  PROVE  requests' \in [Requests -> Request]
BY DEF Done, Request, Idle

(* endAgentSessions keeps the type of the sessions. *)
LEMMA EndSessionsType ==
  ASSUME NEW as, NEW reason \in EndReasons, EndSessions(as, reason),
         sessions \in [SessionIds -> SessionRow]
  PROVE  sessions' \in [SessionIds -> SessionRow]
BY DEF EndSessions, SessionRow

(* agentEvent keeps the counts of notices below their bounds. *)
LEMMA NotifyType ==
  ASSUME NEW as, NEW kind \in NoticeKinds, NEW once \in BOOLEAN,
         Notify(as, kind, once),
         notices \in [Agents -> [NoticeKinds -> 0..2]]
  PROVE  notices' \in [Agents -> [NoticeKinds -> 0..2]]
<1> SUFFICES ASSUME NEW a \in Agents, a \in as,
                    notices[a][kind] < NoticeBound[kind]
             PROVE  [notices[a] EXCEPT ![kind] = Noted(@, once)]
                      \in [NoticeKinds -> 0..2]
  BY DEF Notify
<1>1. NoticeBound[kind] \in {1, 2}
  BY DEF NoticeBound, NoticeKinds
<1>2. Noted(notices[a][kind], once) \in 0..2
  BY <1>1 DEF Noted
<1> QED
  BY <1>2

(* A request taken from admission keeps every type. *)
LEMMA AdmitType ==
  ASSUME TypeOK, NEW r \in Requests, Admit(r)
  PROVE  TypeOK'
<1>1. ASSUME NEW a \in Agents \cup {NoAgent}, NEW s \in {0} \cup SessionIds,
             NEW op \in {"create", "subscribe", "heartbeat", "end",
                         "stop", "revoke", "unlink"},
             Serve(r, op, a, s)
      PROVE  TypeOK'
  BY <1>1 DEF TypeOK, Serve, Request
<1>2. ASSUME NEW a \in Agents, AdmitToken(r, a) PROVE TypeOK'
  BY <1>1, <1>2 DEF AdmitToken
<1>3. ASSUME NEW a \in Agents, AdmitSubscribe(r, a) PROVE TypeOK'
  BY <1>1, <1>3 DEF AdmitSubscribe
<1>4. ASSUME NEW a \in Agents, AdmitOwner(r, a) PROVE TypeOK'
  BY <1>1, <1>4 DEF AdmitOwner
<1>5. ASSUME NEW s \in SessionIds, AdmitSession(r, s) PROVE TypeOK'
  <2>1. sessions[s].agent \in Agents \cup {NoAgent}
    BY DEF TypeOK, SessionRow
  <2> QED
    BY <1>1, <1>5, <2>1 DEF AdmitSession
<1> QED
  BY <1>2, <1>3, <1>4, <1>5 DEF Admit

(* The transactions keep every type. *)
LEMMA WriteType ==
  ASSUME TypeOK, NEW r \in Requests, Write(r)
  PROVE  TypeOK'
<1> DEFINE a == requests[r].agent
<1>a. requests[r] \in Request
  BY DEF TypeOK
<1>b. a \in Agents \cup {NoAgent} /\ requests[r].session \in {0} \cup SessionIds
  BY <1>a DEF Request
<1>c. ASSUME a \in Agents PROVE agents[a] \in AgentRow
  BY <1>c DEF TypeOK
<1>1. CASE CreateBegin(r)
  <2>1. begun + 1 \in SessionIds /\ begun + 1 \in 0..MaxSessions
    BY <1>1 DEF CreateBegin, TypeOK, SessionIds
  <2>2. [requests[r] EXCEPT !.phase = "begun", !.session = begun + 1] \in Request
    BY <2>1, <1>a DEF Request
  <2> QED
    BY <1>1, <2>1, <2>2 DEF CreateBegin, TypeOK
<1>2. CASE CreateLock(r)
  <2>1. Active(a) \subseteq SessionIds
    BY DEF Active, OpenSessions, SessionsOf
  <2>2. PICK excess \in SUBSET Active(a) :
          requests' = [requests EXCEPT ![r] =
                         [@ EXCEPT !.phase = "locked", !.excess = excess, !.late = Out(a)]]
    BY <1>2 DEF CreateLock
  <2>3. [requests[r] EXCEPT !.phase = "locked", !.excess = excess, !.late = Out(a)] \in Request
    <3>1. Out(a) \in BOOLEAN
      BY DEF Out
    <3> QED
      BY <1>a, <2>1, <3>1 DEF Request
  <2> QED
    BY <1>2, <2>2, <2>3 DEF CreateLock, TypeOK
<1>3. CASE CreateCommit(r)
  <2>1. requests[r].late \in BOOLEAN
    BY <1>a DEF Request
  <2> QED
    BY <1>3, <1>b, <2>1, DoneType
    DEF CreateCommit, TypeOK, SessionRow, OpenStates, EndReasons, Sweeps
<1>4. CASE Subscribe(r)
  <2>1. ASSUME a \in Agents
        PROVE  [agents[a] EXCEPT !.subscribed = TRUE, !.late = Out(a)] \in AgentRow
    BY <1>c, <2>1 DEF AgentRow, Out
  <2> QED
    BY <1>4, <2>1, DoneType DEF Subscribe, TypeOK
<1>5. CASE Heartbeat(r)
  <2>1. \A s \in SessionIds :
          [sessions[s] EXCEPT !.state = "revived"] \in SessionRow
    BY DEF TypeOK, SessionRow, OpenStates
  <2>2. sessions' \in [SessionIds -> SessionRow]
    BY <1>5, <2>1 DEF Heartbeat, TypeOK
  <2> QED
    BY <1>5, <2>2, DoneType DEF Heartbeat, TypeOK
<1>6. CASE EndOwn(r)
  BY <1>6, DoneType, ZenonT(30) DEF EndOwn, TypeOK, SessionRow, EndReasons
<1>7. CASE Stop(r)
  <2>1. "owner_stop" \in EndReasons /\ "stop_requested" \in NoticeKinds
    BY DEF EndReasons, Sweeps, NoticeKinds
  <2> QED
    BY <1>7, <2>1, DoneType, EndSessionsType, NotifyType DEF Stop, TypeOK
<1>8. CASE Revoke(r)
  <2>1. "revoked" \in EndReasons /\ "revoked" \in NoticeKinds
    BY DEF EndReasons, Sweeps, NoticeKinds
  <2>2. ASSUME a \in Agents
        PROVE  [agents[a] EXCEPT !.revoked = TRUE, !.limit = Flagged(agents[a].limit),
                 !.token = FALSE, !.subscribed = FALSE, !.late = FALSE] \in AgentRow
    BY <1>c, <2>2 DEF AgentRow, Flagged, Limits
  <2>3. agents' \in [Agents -> AgentRow]
    BY <1>8, <2>2 DEF Revoke, TypeOK
  <2> QED
    BY <1>8, <2>1, <2>3, DoneType, EndSessionsType, NotifyType
    DEF Revoke, TypeOK
<1>9. CASE UnlinkRead(r)
  <2>1. [requests[r] EXCEPT !.phase = "read"] \in Request
    BY <1>a DEF Request
  <2> QED
    BY <1>9, <2>1, DoneType DEF UnlinkRead, TypeOK
<1>10. CASE Unlink(r)
  <2>1. "owner_unlinked" \in EndReasons /\ "unlinked" \in NoticeKinds
    BY DEF EndReasons, Sweeps, NoticeKinds
  <2>2. ASSUME a \in Agents
        PROVE  [agents[a] EXCEPT !.unlinked = TRUE, !.limit = Flagged(agents[a].limit),
                 !.token = FALSE, !.subscribed = FALSE, !.late = FALSE] \in AgentRow
    BY <1>c, <2>2 DEF AgentRow, Flagged, Limits
  <2>3. agents' \in [Agents -> AgentRow]
    BY <1>10, <2>2 DEF Unlink, TypeOK
  <2> QED
    BY <1>10, <2>1, <2>3, DoneType, EndSessionsType, NotifyType
    DEF Unlink, TypeOK
<1>11. CASE Abandon(r)
  BY <1>11, DoneType DEF Abandon, TypeOK
<1> QED
  BY <1>1, <1>2, <1>3, <1>4, <1>5, <1>6, <1>7, <1>8, <1>9, <1>10, <1>11
  DEF Write

(* Moderation and time keep every type. *)
LEMMA RestrictType ==
  ASSUME TypeOK, NEW as, NEW kind \in Penalties, RestrictAgents(as, kind),
         ownerLimit' \in Limits
  PROVE  TypeOK'
<1>1. "restricted" \in EndReasons /\ "restricted" \in NoticeKinds
  BY DEF EndReasons, Sweeps, NoticeKinds
<1>2. \A a \in Agents : [agents[a] EXCEPT !.limit = kind] \in AgentRow
  BY DEF TypeOK, AgentRow, Penalties, Limits
<1>3. agents' \in [Agents -> AgentRow]
  BY <1>2 DEF RestrictAgents, TypeOK
<1> QED
  BY <1>1, <1>3, EndSessionsType, NotifyType DEF RestrictAgents, TypeOK

(* Moderation's restrictions and their ends keep the types.                *)
LEMMA ModerateType ==
  ASSUME TypeOK, Moderate
  PROVE  TypeOK'
<1>1. CASE RestrictOwner
  BY <1>1, RestrictType DEF RestrictOwner, Penalties, Limits
<1>2. ASSUME NEW a \in Agents, RestrictAgent(a) PROVE TypeOK'
  BY <1>2, RestrictType DEF RestrictAgent, TypeOK
<1>3. CASE LiftOwner
  BY <1>3, SMTT(30) DEF LiftOwner, Lift, TypeOK, AgentRow, Limits
<1>4. ASSUME NEW a \in Agents, LiftAgent(a) PROVE TypeOK'
  BY <1>4, SMTT(30) DEF LiftAgent, Lift, TypeOK, AgentRow, Limits
<1> QED
  BY <1>1, <1>2, <1>3, <1>4 DEF Moderate

(* The passing of time keeps the types.                                    *)
LEMMA TickType ==
  ASSUME TypeOK, Tick
  PROVE  TypeOK'
<1>1. CASE LapseOwner
  BY <1>1 DEF LapseOwner, TypeOK, Limits
<1>2. ASSUME NEW a \in Agents, Lapse(a) PROVE TypeOK'
  BY <1>2, SMTT(30) DEF Lapse, TypeOK, AgentRow, Limits
<1>3. ASSUME NEW s \in SessionIds, GoQuiet(s) PROVE TypeOK'
  BY <1>3 DEF GoQuiet, TypeOK, SessionRow, OpenStates
<1> QED
  BY <1>1, <1>2, <1>3 DEF Tick

(* Every step keeps the types.                                             *)
LEMMA NextType == TypeOK /\ [Next]_vars => TypeOK'
<1>1. CASE UNCHANGED vars
  BY <1>1 DEF TypeOK, vars
<1>2. CASE Next
  BY <1>2, AdmitType, WriteType, ModerateType, TickType DEF Next
<1> QED
  BY <1>1, <1>2

(* Rows, requests and notices keep their types in every behaviour. *)
THEOREM TypeCorrect == Spec => []TypeOK
<1>1. Init => TypeOK
  BY InitType
<1>2. TypeOK /\ [Next]_vars => TypeOK'
  BY NextType
<1> QED
  BY <1>1, <1>2, PTL DEF Spec

-----------------------------------------------------------------------------
(* Sets of sessions are finite, and counting them is monotonic. *)
LEMMA SessionsFinite ==
  ASSUME NEW S \in SUBSET SessionIds, NEW T \in SUBSET S
  PROVE  /\ Cardinality(S) \in Nat /\ Cardinality(T) \in Nat
         /\ Cardinality(T) <= Cardinality(S)
<1>1. IsFiniteSet(SessionIds)
  BY FS_Interval DEF SessionIds
<1>2. IsFiniteSet(S) /\ IsFiniteSet(T)
  BY <1>1, FS_Subset
<1> QED
  BY <1>2, FS_Subset, FS_CardinalityType

(* One more element makes a finite set at most one larger.                 *)
LEMMA AddOne ==
  ASSUME NEW S, NEW x, IsFiniteSet(S)
  PROVE  IsFiniteSet(S \cup {x}) /\ Cardinality(S \cup {x}) <= Cardinality(S) + 1
<1>1. Cardinality(S) \in Nat
  BY FS_CardinalityType
<1>2. /\ IsFiniteSet(S \cup {x})
      /\ Cardinality(S \cup {x}) =
           IF x \in S THEN Cardinality(S) ELSE Cardinality(S) + 1
  BY FS_AddElement
<1> QED
  BY <1>1, <1>2

(* NeverLapsed in terms of the rows alone. *)
LEMMA NeverLapsedDef ==
  \A a : NeverLapsed(a) =
         {s \in SessionIds : sessions[s].agent = a /\ sessions[s].state = "fresh"}
BY DEF NeverLapsed, OpenSessions, SessionsOf, Open, OpenStates

(* A step that opens no session and takes no lock keeps CapInv. *)
Shrinks ==
  /\ \A a \in Agents : NeverLapsed(a)' \subseteq NeverLapsed(a)
  /\ \A r \in Requests :
       requests'[r].phase = "locked" => requests'[r] = requests[r]

(* A step that opens no session and moves no creation keeps CapInv.        *)
LEMMA ShrinkCap ==
  ASSUME TypeOK, CapInv, Shrinks
  PROVE  CapInv'
<1>1. \A a : NeverLapsed(a) \subseteq SessionIds
  BY NeverLapsedDef
<1>2. Exclusive'
  BY DEF CapInv, Exclusive, Shrinks
<1>3. CapHolds'
  <2> SUFFICES ASSUME NEW a \in Agents
               PROVE  Cardinality(NeverLapsed(a)') <= SessionCap
    BY DEF CapHolds
  <2>1. NeverLapsed(a)' \subseteq NeverLapsed(a)
    BY DEF Shrinks
  <2> DEFINE S == NeverLapsed(a)
             T == NeverLapsed(a)'
  <2>2. S \in SUBSET SessionIds /\ T \in SUBSET S
    BY <1>1, <2>1
  <2>3. Cardinality(S) \in Nat /\ Cardinality(T) \in Nat /\ Cardinality(T) <= Cardinality(S)
    <3> HIDE DEF S, T
    <3> QED BY <2>2, SessionsFinite
  <2>4. Cardinality(S) <= SessionCap
    BY DEF CapInv, CapHolds
  <2> QED
    BY <2>3, <2>4
<1>4. Reserved'
  <2> SUFFICES ASSUME NEW r \in Requests, NEW a \in Agents,
                      requests'[r].phase = "locked", requests'[r].agent = a
               PROVE  Cardinality(NeverLapsed(a)' \ requests'[r].excess) < SessionCap
    BY DEF Reserved
  <2>1. requests'[r] = requests[r]
    BY DEF Shrinks
  <2> DEFINE S == NeverLapsed(a) \ requests[r].excess
             T == NeverLapsed(a)' \ requests[r].excess
  <2>2. T \in SUBSET S /\ S \in SUBSET SessionIds
    BY <1>1 DEF Shrinks
  <2>3. Cardinality(S) \in Nat /\ Cardinality(T) \in Nat /\ Cardinality(T) <= Cardinality(S)
    <3> HIDE DEF S, T
    <3> QED BY <2>2, SessionsFinite
  <2>4. Cardinality(S) < SessionCap
    BY <2>1 DEF CapInv, Reserved
  <2>5. Cardinality(T) < SessionCap
    <3> HIDE DEF S, T
    <3> QED BY <2>3, <2>4
  <2> QED
    BY <2>1, <2>5
<1> QED
  BY <1>2, <1>3, <1>4 DEF CapInv

(* Sufficient for Shrinks: no session turns fresh or changes its agent. *)
NoneOpened ==
  \A s \in SessionIds :
    sessions'[s].state = "fresh" => sessions'[s] = sessions[s]
NoneLocked ==
  \A r \in Requests :
    requests'[r].phase = "locked" => requests'[r] = requests[r]

(* No session opened and no creation that has the lock: nothing to count.  *)
LEMMA NoneOpenedShrinks == NoneOpened /\ NoneLocked => Shrinks
BY DEF NoneOpened, NoneLocked, Shrinks, NeverLapsed, OpenSessions, SessionsOf,
       Open, OpenStates

(* A request that ends leaves no creation newly at the lock.               *)
LEMMA DoneNoneLocked ==
  ASSUME TypeOK, NEW r \in Requests, Done(r)
  PROVE  NoneLocked
BY DEF Done, Idle, NoneLocked, TypeOK

(* Sweeping sessions opens none.                                           *)
LEMMA EndSessionsNoneOpened ==
  ASSUME TypeOK, NEW as, NEW reason \in EndReasons, EndSessions(as, reason)
  PROVE  NoneOpened
BY DEF EndSessions, NoneOpened, TypeOK, SessionRow, EndReasons, Sweeps

(* Admitting a request opens no session.                                   *)
LEMMA AdmitShrinks ==
  ASSUME TypeOK, NEW r \in Requests, Admit(r)
  PROVE  Shrinks
<1>1. ASSUME NEW a, NEW s, NEW op, Serve(r, op, a, s)
      PROVE  NoneOpened /\ NoneLocked
  BY <1>1 DEF Serve, NoneOpened, NoneLocked, TypeOK
<1> QED
  BY <1>1, NoneOpenedShrinks
  DEF Admit, AdmitToken, AdmitSubscribe, AdmitSession, AdmitOwner

(* No write but a session creation opens a session.                        *)
LEMMA WriteShrinks ==
  ASSUME TypeOK, NEW r \in Requests, Write(r), ~CreateLock(r), ~CreateCommit(r)
  PROVE  Shrinks
<1>1. CASE CreateBegin(r)
  BY <1>1, NoneOpenedShrinks DEF CreateBegin, NoneOpened, NoneLocked, TypeOK, Request
<1>2. CASE Subscribe(r)
  BY <1>2, NoneOpenedShrinks, DoneNoneLocked DEF Subscribe, NoneOpened
<1>3. CASE Heartbeat(r)
  <2>1. NoneOpened
    BY <1>3 DEF Heartbeat, NoneOpened, TypeOK, SessionRow
  <2> QED
    BY <1>3, <2>1, NoneOpenedShrinks, DoneNoneLocked DEF Heartbeat
<1>4. CASE EndOwn(r)
  <2>1. NoneOpened
    BY <1>4 DEF EndOwn, NoneOpened, TypeOK, SessionRow
  <2> QED
    BY <1>4, <2>1, NoneOpenedShrinks, DoneNoneLocked DEF EndOwn
<1>5. CASE Stop(r)
  <2>1. "owner_stop" \in EndReasons
    BY DEF EndReasons, Sweeps
  <2> QED
    BY <1>5, <2>1, NoneOpenedShrinks, DoneNoneLocked, EndSessionsNoneOpened DEF Stop
<1>6. CASE Revoke(r)
  <2>1. "revoked" \in EndReasons
    BY DEF EndReasons, Sweeps
  <2> QED
    BY <1>6, <2>1, NoneOpenedShrinks, DoneNoneLocked, EndSessionsNoneOpened DEF Revoke
<1>7. CASE UnlinkRead(r)
  <2>1. NoneOpened
    BY <1>7 DEF UnlinkRead, NoneOpened
  <2>2. NoneLocked
    BY <1>7, DoneNoneLocked DEF UnlinkRead, NoneLocked, TypeOK, Request
  <2> QED
    BY <2>1, <2>2, NoneOpenedShrinks
<1>8. CASE Unlink(r)
  <2>1. "owner_unlinked" \in EndReasons
    BY DEF EndReasons, Sweeps
  <2> QED
    BY <1>8, <2>1, NoneOpenedShrinks, DoneNoneLocked, EndSessionsNoneOpened DEF Unlink
<1>9. CASE Abandon(r)
  BY <1>9, NoneOpenedShrinks, DoneNoneLocked DEF Abandon, NoneOpened
<1> QED
  BY <1>1, <1>2, <1>3, <1>4, <1>5, <1>6, <1>7, <1>8, <1>9 DEF Write

(* Moderation and time open no session.                                    *)
LEMMA OtherShrinks ==
  ASSUME TypeOK, Moderate \/ Tick
  PROVE  Shrinks
<1>1. "restricted" \in EndReasons
  BY DEF EndReasons, Sweeps
<1>2. ASSUME NEW as, NEW kind, RestrictAgents(as, kind)
      PROVE  NoneOpened /\ NoneLocked
  BY <1>1, <1>2, EndSessionsNoneOpened DEF RestrictAgents, NoneLocked
<1>3. ASSUME NEW as, Lift(as) PROVE NoneOpened /\ NoneLocked
  BY <1>3 DEF Lift, NoneOpened, NoneLocked
<1>4. ASSUME Tick PROVE NoneOpened /\ NoneLocked
  BY <1>4 DEF Tick, LapseOwner, Lapse, GoQuiet, NoneOpened, NoneLocked,
              TypeOK, SessionRow
<1> QED
  BY <1>2, <1>3, <1>4, NoneOpenedShrinks
  DEF Moderate, RestrictOwner, RestrictAgent, LiftOwner, LiftAgent

-----------------------------------------------------------------------------
(* A creation that takes the lock leaves room for the session it will add. *)
LEMMA LockCap ==
  ASSUME TypeOK, CapInv, NEW r \in Requests, CreateLock(r)
  PROVE  CapInv'
<1> DEFINE active == Active(requests[r].agent)
<1>1. PICK excess \in SUBSET active :
        /\ IF Cardinality(active) < SessionCap
           THEN excess = {}
           ELSE Cardinality(active \ excess) = SessionCap - 1
        /\ requests' = [requests EXCEPT ![r] =
                          [@ EXCEPT !.phase = "locked", !.excess = excess,
                                    !.late = Out(requests[r].agent)]]
  BY DEF CreateLock
<1>2. /\ requests'[r].agent = requests[r].agent /\ requests'[r].excess = excess
      /\ \A q \in Requests \ {r} : requests'[q] = requests[q]
  BY <1>1 DEF TypeOK, Request
<1>3. \A a : NeverLapsed(a)' = NeverLapsed(a)
  BY DEF CreateLock, NeverLapsed, OpenSessions, SessionsOf, Open
<1>4. Exclusive'
  BY <1>2 DEF CapInv, Exclusive, CreateLock, LockFree
<1>5. CapHolds'
  BY <1>3 DEF CapInv, CapHolds
<1>6. Reserved'
  <2> SUFFICES ASSUME NEW q \in Requests, NEW a \in Agents,
                      requests'[q].phase = "locked", requests'[q].agent = a
               PROVE  Cardinality(NeverLapsed(a)' \ requests'[q].excess) < SessionCap
    BY DEF Reserved
  <2>1. CASE q # r
    BY <2>1, <1>2, <1>3 DEF CapInv, Reserved
  <2>2. CASE q = r
    <3> DEFINE S == active \ excess
               T == NeverLapsed(a) \ excess
    <3>1. S \in SUBSET SessionIds /\ T \in SUBSET S
      BY <2>2, <1>2 DEF Active, NeverLapsed, OpenSessions, SessionsOf, Live
    <3>2. Cardinality(S) \in Nat /\ Cardinality(T) \in Nat /\ Cardinality(T) <= Cardinality(S)
      <4> HIDE DEF S, T
      <4> QED BY <3>1, SessionsFinite
    <3>3. Cardinality(S) < SessionCap
      <4>1. CASE Cardinality(active) < SessionCap
        <5>1. S = active
          BY <1>1, <4>1
        <5> QED
          BY <4>1, <5>1
      <4>2. CASE ~(Cardinality(active) < SessionCap)
        BY <1>1, <4>2
      <4> QED
        BY <4>1, <4>2
    <3>4. Cardinality(T) < SessionCap
      <4> HIDE DEF S, T
      <4> QED BY <3>2, <3>3
    <3> QED
      BY <2>2, <1>2, <1>3, <3>4
  <2> QED
    BY <2>1, <2>2
<1> QED
  BY <1>4, <1>5, <1>6 DEF CapInv

(* The commit of a creation adds one session to what its lock left.        *)
LEMMA CommitCap ==
  ASSUME TypeOK, CapInv, NEW r \in Requests, CreateCommit(r)
  PROVE  CapInv'
<1> DEFINE new == requests[r].session
<1>1. /\ requests[r].phase = "locked"
      /\ requests'[r].phase = "idle"
      /\ \A q \in Requests \ {r} : requests'[q] = requests[q]
  BY DEF CreateCommit, Serving, Done, Idle, TypeOK
<1>2. ASSUME NEW a, a # requests[r].agent
      PROVE  NeverLapsed(a)' \subseteq NeverLapsed(a)
  BY <1>2 DEF CreateCommit, NeverLapsed, OpenSessions, SessionsOf, Open, OpenStates
<1>3. ASSUME NEW a, a = requests[r].agent
      PROVE  NeverLapsed(a)' \subseteq (NeverLapsed(a) \ requests[r].excess) \cup {new}
  BY <1>3 DEF CreateCommit, NeverLapsed, OpenSessions, SessionsOf, Open, OpenStates,
              TypeOK, SessionRow
<1>4. \A a : NeverLapsed(a) \subseteq SessionIds
  BY NeverLapsedDef
<1>5. Exclusive'
  BY <1>1 DEF CapInv, Exclusive
<1>6. CapHolds'
  <2> SUFFICES ASSUME NEW a \in Agents
               PROVE  Cardinality(NeverLapsed(a)') <= SessionCap
    BY DEF CapHolds
  <2>1. CASE a # requests[r].agent
    <3> DEFINE S == NeverLapsed(a)
               T == NeverLapsed(a)'
    <3>1. S \in SUBSET SessionIds /\ T \in SUBSET S
      BY <1>4, <1>2, <2>1
    <3>2. Cardinality(S) <= SessionCap
      BY DEF CapInv, CapHolds
    <3> HIDE DEF S, T
    <3>3. Cardinality(T) <= SessionCap
      BY <3>1, <3>2, SessionsFinite
    <3> QED
      BY <3>3 DEF T
  <2>2. CASE a = requests[r].agent
    <3> DEFINE S == NeverLapsed(a) \ requests[r].excess
               U == S \cup {new}
               T == NeverLapsed(a)'
    <3>1. S \in SUBSET SessionIds /\ T \in SUBSET U
      BY <1>4, <1>3, <2>2
    <3>2. Cardinality(S) < SessionCap
      BY <1>1, <2>2 DEF CapInv, Reserved
    <3> HIDE DEF S, T
    <3>3. IsFiniteSet(S) /\ Cardinality(S) \in Nat
      <4>1. IsFiniteSet(SessionIds)
        BY FS_Interval DEF SessionIds
      <4> HIDE DEF U
      <4> QED BY <3>1, <4>1, FS_Subset, FS_CardinalityType
    <3>4. IsFiniteSet(U) /\ Cardinality(U) <= Cardinality(S) + 1
      BY <3>3, AddOne
    <3>5. Cardinality(T) <= Cardinality(U) /\ IsFiniteSet(T)
      <4>1. T \subseteq U /\ IsFiniteSet(U)
        BY <3>1, <3>4
      <4> HIDE DEF U
      <4> QED BY <4>1, FS_Subset
    <3>6. Cardinality(T) \in Nat /\ Cardinality(U) \in Nat /\ Cardinality(S) \in Nat
      BY <3>3, <3>4, <3>5, FS_CardinalityType
    <3>7. Cardinality(T) <= SessionCap
      <4> HIDE DEF U
      <4> QED BY <3>2, <3>4, <3>5, <3>6
    <3> QED
      BY <3>7 DEF T
  <2> QED
    BY <2>1, <2>2
<1>7. Reserved'
  <2> SUFFICES ASSUME NEW q \in Requests, NEW a \in Agents,
                      requests'[q].phase = "locked", requests'[q].agent = a
               PROVE  Cardinality(NeverLapsed(a)' \ requests'[q].excess) < SessionCap
    BY DEF Reserved
  <2>1. requests'[q] = requests[q] /\ a # requests[r].agent
    BY <1>1 DEF CapInv, Exclusive
  <2> DEFINE S == NeverLapsed(a) \ requests[q].excess
             T == NeverLapsed(a)' \ requests[q].excess
  <2>2. S \in SUBSET SessionIds /\ T \in SUBSET S
    BY <1>4, <1>2, <2>1
  <2>3. Cardinality(S) < SessionCap
    BY <2>1 DEF CapInv, Reserved
  <2>4. Cardinality(T) < SessionCap
    <3> HIDE DEF S, T
    <3> QED BY <2>2, <2>3, SessionsFinite
  <2> QED
    BY <2>1, <2>4
<1> QED
  BY <1>5, <1>6, <1>7 DEF CapInv

(* Every step keeps CapInv.                                                *)
LEMMA NextCap == TypeOK /\ CapInv /\ [Next]_vars => CapInv'
<1> SUFFICES ASSUME TypeOK, CapInv, [Next]_vars PROVE CapInv'
  OBVIOUS
<1>1. CASE UNCHANGED vars
  <2>1. NoneOpened /\ NoneLocked
    BY <1>1 DEF vars, NoneOpened, NoneLocked
  <2> QED
    BY <2>1, NoneOpenedShrinks, ShrinkCap
<1>2. ASSUME NEW r \in Requests, Admit(r) PROVE CapInv'
  BY <1>2, AdmitShrinks, ShrinkCap
<1>3. ASSUME NEW r \in Requests, Write(r) PROVE CapInv'
  BY <1>3, WriteShrinks, ShrinkCap, LockCap, CommitCap
<1>4. CASE Moderate \/ Tick
  BY <1>4, OtherShrinks, ShrinkCap
<1> QED
  BY <1>1, <1>2, <1>3, <1>4 DEF Next

(* There is no session at first.                                           *)
LEMMA InitCap == Init => CapInv
<1> SUFFICES ASSUME Init PROVE CapInv
  OBVIOUS
<1>1. Exclusive /\ Reserved
  BY DEF Init, Exclusive, Reserved, Idle
<1>2. \A a : NeverLapsed(a) = {}
  BY NeverLapsedDef DEF Init, NoSession
<1>3. CapHolds
  BY <1>2, FS_EmptySet DEF CapHolds
<1> QED
  BY <1>1, <1>3 DEF CapInv

(* For any number of agents, requests and sessions, and any cap: POST      *)
(* /v1/sessions never leaves an agent with more sessions that kept their   *)
(* heartbeat than the cap, and no two creations of one agent hold the lock. *)
THEOREM CapCorrect == Spec => []CapInv
<1>1. Init => CapInv
  BY InitCap
<1>2. TypeOK /\ TypeOK' /\ CapInv /\ [Next]_vars => CapInv'
  BY NextCap
<1> QED
  BY <1>1, <1>2, TypeCorrect, PTL DEF Spec

-----------------------------------------------------------------------------
(* SweepMissesNothing, one agent at a time.  It is not inductive: between  *)
(* the lock and the commit of a creation the mark is still the request's.  *)
Swept(a) ==
  Out(a) => /\ ~agents[a].token
            /\ \A s \in OpenSessions(a) : sessions[s].late
            /\ agents[a].subscribed => agents[a].late
            /\ \A r \in Requests :
                 requests[r].phase = "locked" /\ requests[r].agent = a => requests[r].late
AllSwept == \A a \in Agents : Swept(a)

(* An agent not newly out, whose token, subscription and open sessions are *)
(* at most what they were, is still swept.                                 *)
Kept(a) ==
  /\ agents'[a].revoked = agents[a].revoked
  /\ agents'[a].unlinked = agents[a].unlinked
  /\ agents'[a].token = agents[a].token
  /\ agents'[a].subscribed = agents[a].subscribed
  /\ agents'[a].late = agents[a].late
NoneReopened ==
  \A s \in SessionIds :
    sessions'[s].state \in OpenStates =>
      /\ sessions[s].state \in OpenStates
      /\ sessions'[s].agent = sessions[s].agent
      /\ sessions'[s].late = sessions[s].late

(* An agent that stays out, with no session reopened, stays swept.         *)
LEMMA KeptSwept ==
  ASSUME NEW a, Swept(a), Kept(a), NoneReopened, NoneLocked
  PROVE  Swept(a)'
BY DEF Swept, Kept, NoneReopened, NoneLocked, Out, OpenSessions, SessionsOf, Open

(* A sweep reopens no session and leaves none of its agents' open.         *)
LEMMA EndSessionsNoneReopened ==
  ASSUME TypeOK, NEW as, NEW reason \in EndReasons, EndSessions(as, reason)
  PROVE  /\ NoneReopened
         /\ \A a \in as : OpenSessions(a)' = {}
<1>1. reason \notin OpenStates
  BY DEF EndReasons, Sweeps, OpenStates
<1>2. NoneReopened
  BY <1>1 DEF EndSessions, NoneReopened, TypeOK, SessionRow, Open
<1>3. ASSUME NEW a \in as PROVE OpenSessions(a)' = {}
  <2>1. ASSUME NEW s \in SessionIds, sessions'[s].agent = a
        PROVE  sessions'[s].state \notin OpenStates
    <3>1. sessions[s] \in SessionRow
      BY DEF TypeOK
    <3>2. CASE sessions[s].agent \in as /\ Open(s)
      BY <1>1, <3>1, <3>2 DEF EndSessions, SessionRow
    <3>3. CASE ~(sessions[s].agent \in as /\ Open(s))
      BY <2>1, <3>3 DEF EndSessions, Open
    <3> QED
      BY <3>2, <3>3
  <2> QED
    BY <2>1 DEF Open, OpenSessions, SessionsOf
<1> QED
  BY <1>2, <1>3

(* An agent whose credentials and open sessions are all gone, and whose    *)
(* lock nobody held, is swept.                                             *)
LEMMA EmptySwept ==
  ASSUME NEW a, ~agents'[a].token, ~agents'[a].subscribed, OpenSessions(a)' = {},
         LockFree(a), NoneLocked
  PROVE  Swept(a)'
BY DEF Swept, LockFree, NoneLocked

(* Every write of a request keeps an agent swept.                          *)
LEMMA WriteSwept ==
  ASSUME TypeOK, NEW a \in Agents, Swept(a), NEW r \in Requests, Write(r)
  PROVE  Swept(a)'
<1>a. agents[a] \in AgentRow
  BY DEF TypeOK
<1>b. requests[r] \in Request
  BY DEF TypeOK
<1>1. CASE CreateBegin(r) \/ UnlinkRead(r) \/ Abandon(r)
  <2>1. NoneLocked
    <3>1. CASE Done(r)
      BY <3>1, DoneNoneLocked
    <3>2. CASE CreateBegin(r)
      BY <1>b, <3>2 DEF CreateBegin, NoneLocked, TypeOK, Request
    <3>3. CASE UnlinkRead(r) /\ ~Done(r)
      BY <1>b, <3>3 DEF UnlinkRead, NoneLocked, TypeOK, Request
    <3>4. Abandon(r) => Done(r)
      BY DEF Abandon
    <3> QED
      BY <1>1, <3>1, <3>2, <3>3, <3>4
  <2> QED
    BY <1>1, <2>1, KeptSwept DEF CreateBegin, UnlinkRead, Abandon, Kept, NoneReopened
<1>8. CASE CreateLock(r)
  <2>1. /\ agents' = agents /\ sessions' = sessions
        /\ \A q \in Requests \ {r} : requests'[q] = requests[q]
        /\ requests'[r].agent = requests[r].agent
        /\ requests'[r].late = Out(requests[r].agent)
    BY <1>b, <1>8 DEF CreateLock, TypeOK, Request
  <2> QED
    BY <2>1 DEF Swept, Out, OpenSessions, SessionsOf, Open
<1>2. CASE CreateCommit(r)
  <2>1. agents' = agents /\ requests[r].phase = "locked"
    BY <1>2 DEF CreateCommit, Serving
  <2>3. NoneLocked
    BY <1>2, DoneNoneLocked DEF CreateCommit
  <2>2. ASSUME NEW s \in SessionIds, sessions'[s].state \in OpenStates,
               sessions'[s].agent = a, Out(a)
        PROVE  sessions'[s].late
    <3>1. CASE s = requests[r].session
      <4>1. sessions'[s] = [agent |-> requests[r].agent, state |-> "fresh",
                            late |-> requests[r].late]
        BY <1>2, <3>1 DEF CreateCommit
      <4> QED
        BY <2>1, <2>2, <4>1 DEF Swept
    <3>2. CASE s # requests[r].session
      BY <1>2, <2>2, <3>2
      DEF CreateCommit, TypeOK, SessionRow, OpenStates, Swept, OpenSessions, SessionsOf, Open
    <3> QED
      BY <3>1, <3>2
  <2> QED
    BY <2>1, <2>2, <2>3 DEF Swept, NoneLocked, Out, OpenSessions, SessionsOf, Open
<1>3. CASE Subscribe(r)
  <2>1. sessions' = sessions /\ NoneLocked
    BY <1>3, DoneNoneLocked DEF Subscribe
  <2>2. CASE requests[r].agent # a
    BY <1>3, <2>1, <2>2, KeptSwept DEF Subscribe, Kept, NoneReopened, TypeOK
  <2>3. CASE requests[r].agent = a
    <3>1. agents'[a] = [agents[a] EXCEPT !.subscribed = TRUE, !.late = Out(a)]
      BY <1>3, <2>3 DEF Subscribe, TypeOK
    <3> QED
      BY <1>a, <2>1, <3>1
      DEF Swept, NoneLocked, Out, OpenSessions, SessionsOf, Open, AgentRow
  <2> QED
    BY <2>2, <2>3
<1>4. CASE Heartbeat(r) \/ EndOwn(r)
  <2>1. "agent_ended" \notin OpenStates /\ {"stale", "revived"} \subseteq OpenStates
    BY DEF OpenStates
  <2>2. NoneReopened
    BY <1>4, <2>1 DEF Heartbeat, EndOwn, NoneReopened, TypeOK, SessionRow
  <2> QED
    BY <1>4, <2>2, KeptSwept, DoneNoneLocked DEF Heartbeat, EndOwn, Kept
<1>5. CASE Stop(r)
  <2>1. "owner_stop" \in EndReasons
    BY DEF EndReasons, Sweeps
  <2> QED
    BY <1>5, <2>1, KeptSwept, EndSessionsNoneReopened, DoneNoneLocked DEF Stop, Kept
<1>6. CASE Revoke(r)
  <2>1. "revoked" \in EndReasons
    BY DEF EndReasons, Sweeps
  <2>2. CASE requests[r].agent # a
    BY <1>6, <2>1, <2>2, KeptSwept, EndSessionsNoneReopened, DoneNoneLocked
    DEF Revoke, Kept, TypeOK
  <2>3. CASE requests[r].agent = a
    <3>1. ~agents'[a].token /\ ~agents'[a].subscribed
      BY <1>a, <1>6, <2>3 DEF Revoke, TypeOK, AgentRow
    <3> QED
      BY <1>6, <2>1, <2>3, <3>1, EmptySwept, EndSessionsNoneReopened, DoneNoneLocked
      DEF Revoke
  <2> QED
    BY <2>2, <2>3
<1>7. CASE Unlink(r)
  <2>1. "owner_unlinked" \in EndReasons
    BY DEF EndReasons, Sweeps
  <2>2. CASE requests[r].agent # a
    BY <1>7, <2>1, <2>2, KeptSwept, EndSessionsNoneReopened, DoneNoneLocked
    DEF Unlink, Kept, TypeOK
  <2>3. CASE requests[r].agent = a
    <3>1. ~agents'[a].token /\ ~agents'[a].subscribed
      BY <1>a, <1>7, <2>3 DEF Unlink, TypeOK, AgentRow
    <3> QED
      BY <1>7, <2>1, <2>3, <3>1, EmptySwept, EndSessionsNoneReopened, DoneNoneLocked
      DEF Unlink
  <2> QED
    BY <2>2, <2>3
<1> QED
  BY <1>1, <1>2, <1>3, <1>4, <1>5, <1>6, <1>7, <1>8 DEF Write

(* Admission, moderation and time keep an agent swept.                     *)
LEMMA OtherSwept ==
  ASSUME TypeOK, NEW a \in Agents, Swept(a),
         Moderate \/ Tick \/ \E r \in Requests : Admit(r)
  PROVE  Swept(a)'
<1>a. agents[a] \in AgentRow
  BY DEF TypeOK
<1>1. "restricted" \in EndReasons
  BY DEF EndReasons, Sweeps
<1>2. ASSUME NEW as, NEW kind, RestrictAgents(as, kind)
      PROVE  Kept(a) /\ NoneReopened /\ NoneLocked
  BY <1>a, <1>1, <1>2, EndSessionsNoneReopened 
  DEF RestrictAgents, Kept, NoneLocked, TypeOK, AgentRow
<1>3. ASSUME NEW as, Lift(as) PROVE Kept(a) /\ NoneReopened /\ NoneLocked
  BY <1>a, <1>3 DEF Lift, Kept, NoneReopened, NoneLocked, TypeOK, AgentRow
<1>4. ASSUME Tick PROVE Kept(a) /\ NoneReopened /\ NoneLocked
  <2>1. Kept(a)
    BY <1>a, <1>4, SMTT(30) DEF Tick, LapseOwner, Lapse, GoQuiet, Kept, TypeOK, AgentRow
  <2>2. NoneReopened
    BY <1>4 DEF Tick, LapseOwner, Lapse, GoQuiet, NoneReopened, TypeOK, SessionRow,
                Live, OpenStates
  <2>3. NoneLocked
    BY <1>4 DEF Tick, LapseOwner, Lapse, GoQuiet, NoneLocked
  <2> QED
    BY <2>1, <2>2, <2>3
<1>5. ASSUME NEW r \in Requests, Admit(r) PROVE Kept(a) /\ NoneReopened /\ NoneLocked
  BY <1>5 DEF Admit, AdmitToken, AdmitSubscribe, AdmitSession, AdmitOwner, Serve,
              Kept, NoneReopened, NoneLocked, TypeOK
<1>6. Kept(a) /\ NoneReopened /\ NoneLocked => Swept(a)'
  BY KeptSwept
<1> QED
  BY <1>2, <1>3, <1>4, <1>5, <1>6
  DEF Moderate, RestrictOwner, RestrictAgent, LiftOwner, LiftAgent

(* Of an agent that is revoked or unlinked only such sessions are open and *)
(* such subscriptions left as no lock could have kept from being written   *)
(* later; a creation that held the lock before the sweep left none.        *)
THEOREM SweepCorrect == Spec => []SweepMissesNothing
<1>1. Init => AllSwept
  BY DEF Init, AllSwept, Swept, Out
<1>2. TypeOK /\ AllSwept /\ [Next]_vars => AllSwept'
  <2> SUFFICES ASSUME TypeOK, AllSwept, [Next]_vars, NEW a \in Agents
               PROVE  Swept(a)'
    BY DEF AllSwept
  <2>1. Swept(a)
    BY DEF AllSwept
  <2>2. CASE UNCHANGED vars
    BY <2>1, <2>2, KeptSwept DEF vars, Kept, NoneReopened, NoneLocked
  <2>3. CASE Next
    BY <2>1, <2>3, WriteSwept, OtherSwept DEF Next
  <2> QED
    BY <2>2, <2>3
<1>3. AllSwept => SweepMissesNothing
  BY DEF AllSwept, Swept, SweepMissesNothing
<1> QED
  BY <1>1, <1>2, <1>3, TypeCorrect, PTL DEF Spec

-----------------------------------------------------------------------------
(* What one step must do for SweepTakesAll.                                *)
TakesAll ==
  \A a \in Agents :
    (\E s \in OpenSessions(a) : sessions'[s].state \in Sweeps) =>
      /\ \A s \in SessionIds :
           sessions'[s].agent = a => sessions'[s].state \notin OpenStates
      /\ \A r \in Requests : requests'[r].phase = "locked" => requests'[r].agent # a

(* A step that puts no session to an end by a sweep has nothing to show.   *)
LEMMA NoSweepTakesAll ==
  ASSUME \A s \in SessionIds :
           sessions'[s].state \in Sweeps => sessions'[s].state = sessions[s].state
  PROVE  TakesAll
BY DEF TakesAll, OpenSessions, SessionsOf, Open, OpenStates, Sweeps

(* A sweep under the locks of its agents takes all their sessions.         *)
LEMMA LockedTakesAll ==
  ASSUME TypeOK, NEW as, NEW reason \in Sweeps, EndSessions(as, reason),
         \A a \in as : LockFree(a), NoneLocked
  PROVE  TakesAll
<1> SUFFICES ASSUME NEW a \in Agents, NEW s \in OpenSessions(a),
                    sessions'[s].state \in Sweeps
             PROVE  /\ \A t \in SessionIds :
                         sessions'[t].agent = a => sessions'[t].state \notin OpenStates
                    /\ \A r \in Requests :
                         requests'[r].phase = "locked" => requests'[r].agent # a
  BY DEF TakesAll
<1>1. s \in SessionIds /\ sessions[s].agent = a /\ sessions[s].state \in OpenStates
  BY DEF OpenSessions, SessionsOf, Open
<1>2. a \in as
  <2> SUFFICES ASSUME a \notin as PROVE FALSE
    OBVIOUS
  <2>1. sessions'[s] = sessions[s]
    BY <1>1 DEF EndSessions
  <2> QED
    BY <1>1, <2>1 DEF OpenStates, Sweeps
<1>3. OpenSessions(a)' = {}
  BY <1>2, EndSessionsNoneReopened DEF EndReasons
<1>4. \A t \in SessionIds : sessions'[t].agent = a => sessions'[t].state \notin OpenStates
  BY <1>3 DEF OpenSessions, SessionsOf, Open
<1>5. \A r \in Requests : requests'[r].phase = "locked" => requests'[r].agent # a
  BY <1>2 DEF NoneLocked, LockFree
<1> QED
  BY <1>4, <1>5

(* Every step that sweeps an agent takes all of its sessions.              *)
LEMMA NextTakesAll == TypeOK /\ [Next]_vars => TakesAll
<1> SUFFICES ASSUME TypeOK, [Next]_vars PROVE TakesAll
  OBVIOUS
<1>1. ASSUME NEW r \in Requests, Admit(r) PROVE TakesAll
  <2>1. sessions' = sessions
    BY <1>1 DEF Admit, AdmitToken, AdmitSubscribe, AdmitSession, AdmitOwner, Serve
  <2> QED
    BY <2>1, NoSweepTakesAll
<1>2. ASSUME NEW r \in Requests, Write(r) PROVE TakesAll
  <2>1. CASE CreateBegin(r) \/ CreateLock(r) \/ UnlinkRead(r) \/ Abandon(r) \/ Subscribe(r)
    BY <2>1, NoSweepTakesAll DEF CreateBegin, CreateLock, UnlinkRead, Abandon, Subscribe
  <2>2. CASE CreateCommit(r) \/ Heartbeat(r) \/ EndOwn(r)
    <3>1. {"fresh", "superseded", "revived", "agent_ended"} \cap Sweeps = {}
      BY DEF Sweeps
    <3>2. \A s \in SessionIds :
            sessions'[s].state \in Sweeps => sessions'[s].state = sessions[s].state
      <4>1. CASE CreateCommit(r)
        BY <3>1, <4>1 DEF CreateCommit, TypeOK, SessionRow
      <4>2. CASE Heartbeat(r)
        BY <3>1, <4>2 DEF Heartbeat, TypeOK, SessionRow
      <4>3. CASE EndOwn(r)
        BY <3>1, <4>3 DEF EndOwn, TypeOK, SessionRow
      <4> QED
        BY <2>2, <4>1, <4>2, <4>3
    <3> QED
      BY <3>2, NoSweepTakesAll
  <2>3. CASE Stop(r)
    BY <2>3, LockedTakesAll, DoneNoneLocked DEF Stop, Sweeps
  <2>4. CASE Revoke(r)
    BY <2>4, LockedTakesAll, DoneNoneLocked DEF Revoke, Sweeps
  <2>5. CASE Unlink(r)
    BY <2>5, LockedTakesAll, DoneNoneLocked DEF Unlink, Sweeps
  <2> QED
    BY <1>2, <2>1, <2>2, <2>3, <2>4, <2>5 DEF Write
<1>3. CASE Moderate
  <2>1. ASSUME NEW as, NEW kind, RestrictAgents(as, kind) PROVE TakesAll
    <3> DEFINE hit == {a \in as : ~agents[a].revoked}
    <3>1. /\ EndSessions(hit, "restricted") /\ NoneLocked
          /\ \A a \in hit : LockFree(a)
      BY <2>1 DEF RestrictAgents, NoneLocked
    <3> HIDE DEF hit
    <3> QED
      BY <3>1, LockedTakesAll DEF Sweeps
  <2>2. ASSUME NEW as, Lift(as) PROVE TakesAll
    BY <2>2, NoSweepTakesAll DEF Lift
  <2> QED
    BY <1>3, <2>1, <2>2 DEF Moderate, RestrictOwner, RestrictAgent, LiftOwner, LiftAgent
<1>4. CASE Tick
  <2>1. \A s \in SessionIds :
          sessions'[s].state \in Sweeps => sessions'[s].state = sessions[s].state
    BY <1>4 DEF Tick, LapseOwner, Lapse, GoQuiet, TypeOK, SessionRow, Sweeps
  <2> QED
    BY <2>1, NoSweepTakesAll
<1>5. CASE UNCHANGED vars
  BY <1>5, NoSweepTakesAll DEF vars
<1> QED
  BY <1>1, <1>2, <1>3, <1>4, <1>5 DEF Next

(* Whoever sweeps an agent, for whatever reason, ends every session of it, *)
(* and no creation is left that counted before and inserts afterwards.     *)
THEOREM TakesAllCorrect == Spec => SweepTakesAll
<1>1. TypeOK /\ [Next]_vars => [TakesAll]_vars
  BY NextTakesAll
<1> QED
  BY <1>1, TypeCorrect, PTL DEF Spec, SweepTakesAll, TakesAll

-----------------------------------------------------------------------------
(* What makes EndedIsFinal hold: an id handed out to a creation belongs to *)
(* that creation alone and its row does not exist before the commit, and   *)
(* a request to end or supersede a session was admitted on an existing row. *)
Creating(r) == requests[r].phase \in {"begun", "locked"}
Numbered ==
  /\ \A s \in SessionIds : s > begun => sessions[s].state = "absent"
  /\ \A r \in Requests : Creating(r) =>
       /\ requests[r].session \in SessionIds /\ requests[r].session <= begun
       /\ sessions[requests[r].session].state = "absent"
  /\ \A r, q \in Requests :
       Creating(r) /\ Creating(q) /\ requests[r].session = requests[q].session => r = q
  /\ \A r \in Requests :
       requests[r].op \in {"heartbeat", "end"} =>
         /\ requests[r].session \in SessionIds
         /\ sessions[requests[r].session].state # "absent"
  /\ \A r \in Requests : \A s \in requests[r].excess : sessions[s].state # "absent"

SameRows ==
  \A s \in SessionIds : sessions'[s].state = "absent" <=> sessions[s].state = "absent"
Carried ==
  \A r \in Requests :
    \/ requests'[r] = requests[r]
    \/ requests'[r] = Idle
    \/ requests'[r] = [requests[r] EXCEPT !.phase = "read"]

(* A step that adds no row and gives no request a session keeps Numbered. *)
LEMMA CarriedNumbered ==
  ASSUME TypeOK, Numbered, SameRows, Carried, begun' = begun
  PROVE  Numbered'
<1>1. \A r \in Requests :
        /\ requests[r] \in Request
        /\ requests'[r].phase \in {"begun", "locked"} => requests'[r] = requests[r]
        /\ requests'[r].op \in {"heartbeat", "end"} =>
             requests'[r].op = requests[r].op /\ requests'[r].session = requests[r].session
        /\ requests'[r].excess \subseteq requests[r].excess
  <2> SUFFICES ASSUME NEW r \in Requests
      PROVE  /\ requests[r] \in Request
             /\ requests'[r].phase \in {"begun", "locked"} => requests'[r] = requests[r]
             /\ requests'[r].op \in {"heartbeat", "end"} =>
                  requests'[r].op = requests[r].op /\ requests'[r].session = requests[r].session
             /\ requests'[r].excess \subseteq requests[r].excess
    OBVIOUS
  <2>1. requests[r] \in Request
    BY DEF TypeOK
  <2>2. CASE requests'[r] = requests[r]
    BY <2>1, <2>2
  <2>3. CASE requests'[r] = Idle
    BY <2>1, <2>3 DEF Idle
  <2>4. CASE requests'[r] = [requests[r] EXCEPT !.phase = "read"]
    BY <2>1, <2>4 DEF Request
  <2> QED
    BY <2>1, <2>2, <2>3, <2>4 DEF Carried
<1>2. \A r \in Requests : requests[r].excess \subseteq SessionIds
  BY <1>1 DEF Request
<1>3. \A r \in Requests :
        Creating(r)' => Creating(r) /\ requests'[r].session = requests[r].session
  BY <1>1 DEF Creating
<1>4. \A r \in Requests : requests'[r].op \in {"heartbeat", "end"} =>
        /\ requests'[r].session \in SessionIds
        /\ sessions'[requests'[r].session].state # "absent"
  BY <1>1 DEF Numbered, SameRows
<1>5. \A r \in Requests : Creating(r)' =>
        /\ requests'[r].session \in SessionIds /\ requests'[r].session <= begun
        /\ sessions'[requests'[r].session].state = "absent"
  BY <1>3 DEF Numbered, SameRows
<1>6. \A r, q \in Requests :
        Creating(r)' /\ Creating(q)' /\ requests'[r].session = requests'[q].session => r = q
  BY <1>3 DEF Numbered
<1>7. \A r \in Requests : \A s \in requests'[r].excess : sessions'[s].state # "absent"
  BY <1>1, <1>2 DEF Numbered, SameRows
<1>8. \A s \in SessionIds : s > begun => sessions'[s].state = "absent"
  BY DEF Numbered, SameRows
<1> QED
  BY <1>4, <1>5, <1>6, <1>7, <1>8 DEF Numbered

(* A sweep creates no session row and moves none.                          *)
LEMMA EndSessionsSameRows ==
  ASSUME TypeOK, NEW as, NEW reason \in EndReasons, EndSessions(as, reason)
  PROVE  SameRows
BY DEF EndSessions, SameRows, TypeOK, SessionRow, Open, OpenStates, EndReasons, Sweeps

(* A request that ends carries no session number any more.                 *)
LEMMA DoneCarried ==
  ASSUME TypeOK, NEW r \in Requests, Done(r)
  PROVE  Carried
BY DEF TypeOK, Done, Carried

(* Admission gives a session creation no number yet.                       *)
LEMMA AdmitNumbered ==
  ASSUME TypeOK, Numbered, NEW r \in Requests, Admit(r)
  PROVE  Numbered'
<1>1. ASSUME NEW a, NEW s, NEW op, Serve(r, op, a, s),
             op \in {"heartbeat", "end"} =>
               s \in SessionIds /\ sessions[s].state # "absent"
      PROVE  Numbered'
  <2>1. /\ requests'[r] = [op |-> op, phase |-> "admitted", agent |-> a,
                           session |-> s, excess |-> {}, late |-> FALSE]
        /\ \A q \in Requests \ {r} : requests'[q] = requests[q]
        /\ sessions' = sessions /\ begun' = begun
    BY <1>1 DEF Serve, TypeOK
  <2> QED
    BY <1>1, <2>1 DEF Numbered, Creating
<1>2. ASSUME NEW s \in SessionIds, AdmitSession(r, s) PROVE Numbered'
  <2>1. sessions[s].state # "absent"
    BY <1>2 DEF AdmitSession, Answer
  <2> QED
    BY <1>1, <1>2, <2>1 DEF AdmitSession
<1> QED
  BY <1>1, <1>2 DEF Admit, AdmitToken, AdmitSubscribe, AdmitOwner

(* The steps of a session creation keep the numbers apart.                 *)
LEMMA CreateNumbered ==
  ASSUME TypeOK, Numbered, NEW r \in Requests,
         CreateBegin(r) \/ CreateLock(r) \/ CreateCommit(r)
  PROVE  Numbered'
<1>a. requests[r] \in Request
  BY DEF TypeOK
<1>1. CASE CreateBegin(r)
  <2>1. /\ requests'[r] = [requests[r] EXCEPT !.phase = "begun", !.session = begun + 1]
        /\ \A q \in Requests \ {r} : requests'[q] = requests[q]
        /\ sessions' = sessions /\ begun' = begun + 1 /\ requests[r].op = "create"
    BY <1>1 DEF CreateBegin, TypeOK, Serving
  <2>a. /\ sessions' = sessions /\ begun' = begun + 1
        /\ \A q \in Requests \ {r} : requests'[q] = requests[q]
    BY <2>1
  <2>2. begun + 1 \in SessionIds /\ begun \in Nat /\ begun + 1 <= begun + 1
    BY <1>1 DEF CreateBegin, TypeOK, SessionIds
  <2>3. /\ requests'[r].phase = "begun" /\ requests'[r].session = begun + 1
        /\ requests'[r].op = "create" /\ requests'[r].excess = requests[r].excess
    BY <1>a, <2>1 DEF Request
  <2>4. \A q \in Requests \ {r} : Creating(q) => requests[q].session # begun + 1
    <3>1. \A q \in Requests : Creating(q) => requests[q].session <= begun
      BY DEF Numbered
    <3>2. ~(begun + 1 <= begun)
      BY <2>2
    <3> QED
      BY <3>1, <3>2
  <2>5. \A q \in Requests \ {r} : Creating(q)' <=> Creating(q)
    BY <2>1 DEF Creating
  <2>6. \A s \in SessionIds : s > begun' => s > begun
    BY <2>1, <2>2 DEF SessionIds
  <2>7. sessions[begun + 1].state = "absent"
    BY <2>2 DEF Numbered
  <2>8. \A q \in Requests : Creating(q)' =>
          /\ requests'[q].session \in SessionIds /\ requests'[q].session <= begun'
          /\ sessions'[requests'[q].session].state = "absent"
    <3>1. \A q \in Requests \ {r} : Creating(q)' =>
            /\ requests[q].session \in SessionIds /\ requests[q].session <= begun
            /\ sessions[requests[q].session].state = "absent"
      BY <2>5 DEF Numbered
    <3>2. \A n \in SessionIds : n <= begun => n <= begun + 1
      BY <2>2 DEF SessionIds
    <3> SUFFICES ASSUME NEW q \in Requests, Creating(q)'
                 PROVE  /\ requests'[q].session \in SessionIds
                        /\ requests'[q].session <= begun'
                        /\ sessions'[requests'[q].session].state = "absent"
      OBVIOUS
    <3>3. CASE q = r
      BY <2>a, <2>2, <2>3, <2>7, <3>3
    <3>4. CASE q # r
      BY <2>1, <2>5, <3>1, <3>2, <3>4
    <3> QED
      BY <3>3, <3>4
  <2>9. \A q, p \in Requests :
          Creating(q)' /\ Creating(p)' /\ requests'[q].session = requests'[p].session
          => q = p
    <3> SUFFICES ASSUME NEW q \in Requests, NEW p \in Requests,
                        Creating(q)', Creating(p)',
                        requests'[q].session = requests'[p].session
                 PROVE  q = p
      OBVIOUS
    <3>0. requests'[r].session = begun + 1
      BY <2>3
    <3>1. CASE q = r \/ p = r
      BY <2>a, <3>0, <2>4, <2>5, <3>1
    <3>2. CASE q # r /\ p # r
      BY <2>1, <2>5, <3>2 DEF Numbered
    <3> QED
      BY <3>1, <3>2
  <2>10. \A q \in Requests : requests'[q].op \in {"heartbeat", "end"} =>
           /\ requests'[q].session \in SessionIds
           /\ sessions'[requests'[q].session].state # "absent"
    BY <2>1, <2>3, ZenonT(30) DEF Numbered
  <2>11. \A q \in Requests : \A s \in requests'[q].excess : sessions'[s].state # "absent"
    <3>1. \A q \in Requests : requests'[q].excess = requests[q].excess
      BY <2>1, <2>3
    <3> QED
      BY <2>1, <3>1 DEF Numbered
  <2>12. \A s \in SessionIds : s > begun' => sessions'[s].state = "absent"
    BY <2>1, <2>6 DEF Numbered
  <2> QED
    BY <2>8, <2>9, <2>10, <2>11, <2>12 DEF Numbered
<1>2. CASE CreateLock(r)
  <2>1. PICK excess \in SUBSET Active(requests[r].agent) :
          requests' = [requests EXCEPT ![r] =
                         [@ EXCEPT !.phase = "locked", !.excess = excess,
                                   !.late = Out(requests[r].agent)]]
    BY <1>2 DEF CreateLock
  <2>2. /\ requests[r].phase = "begun"
        /\ sessions' = sessions /\ begun' = begun
    BY <1>2 DEF CreateLock, Serving
  <2>3. /\ requests'[r].session = requests[r].session
        /\ requests'[r].op = requests[r].op /\ requests'[r].excess = excess
        /\ \A q \in Requests \ {r} : requests'[q] = requests[q]
    BY <1>a, <2>1 DEF TypeOK, Request
  <2>4. \A s \in excess : sessions[s].state # "absent"
    BY DEF Active, Live
  <2> QED
    BY <2>2, <2>3, <2>4 DEF Numbered, Creating
<1>3. CASE CreateCommit(r)
  <2> DEFINE new == requests[r].session
  <2>1. /\ requests'[r] = Idle /\ Creating(r) /\ begun' = begun
        /\ \A q \in Requests \ {r} : requests'[q] = requests[q]
    BY <1>3 DEF CreateCommit, Serving, Done, TypeOK, Creating
  <2>2. \A s \in SessionIds \ {new} :
          sessions'[s].state = "absent" <=> sessions[s].state = "absent"
    BY <1>3 DEF CreateCommit, Numbered, TypeOK, SessionRow
  <2>3. new \in SessionIds /\ new <= begun /\ sessions'[new].state = "fresh"
    BY <1>3, <2>1 DEF CreateCommit, Numbered
  <2>4. \A q \in Requests : requests[q].excess \subseteq SessionIds
    BY DEF TypeOK, Request
  <2>5. \A s \in SessionIds : s > begun => s # new
    BY <2>3 DEF SessionIds, TypeOK
  <2>6. \A q \in Requests \ {r} : Creating(q) => requests[q].session # new
    BY <2>1 DEF Numbered
  <2>7. /\ ~Creating(r)' /\ requests'[r].op = "none" /\ requests'[r].excess = {}
        /\ \A q \in Requests \ {r} : Creating(q)' <=> Creating(q)
    BY <2>1 DEF Creating, Idle
  <2>8. \A q \in Requests : Creating(q)' =>
          /\ requests'[q].session \in SessionIds /\ requests'[q].session <= begun
          /\ sessions'[requests'[q].session].state = "absent"
    BY <2>1, <2>2, <2>6, <2>7 DEF Numbered
  <2>9. \A q, p \in Requests :
          Creating(q)' /\ Creating(p)' /\ requests'[q].session = requests'[p].session
          => q = p
    BY <2>1, <2>7 DEF Numbered
  <2>10. \A s \in SessionIds : sessions[s].state # "absent" => sessions'[s].state # "absent"
    BY <2>2, <2>3
  <2>11. \A q \in Requests : requests'[q].op \in {"heartbeat", "end"} =>
           /\ requests'[q].session \in SessionIds
           /\ sessions'[requests'[q].session].state # "absent"
    BY <2>1, <2>7, <2>10 DEF Numbered
  <2>12. \A q \in Requests : \A s \in requests'[q].excess : sessions'[s].state # "absent"
    BY <2>1, <2>4, <2>7, <2>10 DEF Numbered
  <2>13. \A s \in SessionIds : s > begun' => sessions'[s].state = "absent"
    BY <2>1, <2>2, <2>5 DEF Numbered
  <2> QED
    BY <2>1, <2>8, <2>9, <2>11, <2>12, <2>13 DEF Numbered
<1> QED
  BY <1>1, <1>2, <1>3

(* The other writes create no row and carry no new number.                 *)
LEMMA WriteRows ==
  ASSUME TypeOK, Numbered, NEW r \in Requests, Write(r),
         ~CreateBegin(r), ~CreateLock(r), ~CreateCommit(r)
  PROVE  SameRows /\ Carried /\ begun' = begun
<1>1. CASE Subscribe(r) \/ Abandon(r) \/ UnlinkRead(r)
  BY <1>1, DoneCarried
  DEF Subscribe, Abandon, UnlinkRead, SameRows, Carried, TypeOK
<1>2. CASE Heartbeat(r)
  BY <1>2, DoneCarried DEF Heartbeat, SameRows, TypeOK, SessionRow
<1>3. CASE EndOwn(r)
  BY <1>3, DoneCarried DEF EndOwn, SameRows, TypeOK, SessionRow, Numbered, Serving
<1>4. CASE Stop(r) \/ Revoke(r) \/ Unlink(r)
  <2>1. {"owner_stop", "revoked", "owner_unlinked"} \subseteq EndReasons
    BY DEF EndReasons, Sweeps
  <2> QED
    BY <1>4, <2>1, DoneCarried, EndSessionsSameRows DEF Stop, Revoke, Unlink
<1> QED
  BY <1>1, <1>2, <1>3, <1>4 DEF Write

(* Moderation and time create no row and carry no new number.              *)
LEMMA OtherRows ==
  ASSUME TypeOK, Moderate \/ Tick
  PROVE  SameRows /\ Carried /\ begun' = begun
<1>1. ASSUME NEW as, NEW kind, RestrictAgents(as, kind)
      PROVE  SameRows /\ Carried /\ begun' = begun
  <2>1. "restricted" \in EndReasons
    BY DEF EndReasons, Sweeps
  <2> QED
    BY <1>1, <2>1, EndSessionsSameRows DEF RestrictAgents, Carried
<1>2. ASSUME NEW as, Lift(as) PROVE SameRows /\ Carried /\ begun' = begun
  BY <1>2 DEF Lift, SameRows, Carried
<1>3. ASSUME Tick PROVE SameRows /\ Carried /\ begun' = begun
  BY <1>3 DEF Tick, LapseOwner, Lapse, GoQuiet, SameRows, Carried, TypeOK,
              SessionRow, Live
<1> QED
  BY <1>1, <1>2, <1>3
  DEF Moderate, RestrictOwner, RestrictAgent, LiftOwner, LiftAgent

(* Every step keeps the numbers of session rows apart.                     *)
LEMMA NextNumbered ==
  ASSUME TypeOK, Numbered, [Next]_vars
  PROVE  Numbered'
<1>1. CASE UNCHANGED vars
  BY <1>1, CarriedNumbered DEF vars, SameRows, Carried
<1>2. CASE Next
  BY <1>2, CarriedNumbered, AdmitNumbered, CreateNumbered, WriteRows, OtherRows DEF Next
<1> QED
  BY <1>1, <1>2

(* There is no row and no number at first.                                 *)
LEMMA InitNumbered == Init => Numbered
BY DEF Init, Numbered, Creating, Idle, NoSession

(* One step leaves an ended session ended, and rewrites its reason only    *)
(* for a request that was admitted before it ended.                        *)
Final(s) ==
  sessions[s].state \in EndReasons =>
    /\ sessions'[s].state \in EndReasons
    /\ sessions'[s].state # sessions[s].state => Overtaken(s)

(* A sweep changes no session that has ended.                              *)
LEMMA EndSessionsFinal ==
  ASSUME NEW as, NEW reason, EndSessions(as, reason), NEW s \in SessionIds
  PROVE  Final(s)
BY DEF EndSessions, Final, Open, OpenStates, EndReasons, Sweeps

(* No step changes a session that has ended.                               *)
LEMMA NextFinal ==
  ASSUME TypeOK, Numbered, Next, NEW s \in SessionIds
  PROVE  Final(s)
<1>1. ASSUME NEW r \in Requests, Admit(r) PROVE Final(s)
  BY <1>1 DEF Admit, AdmitToken, AdmitSubscribe, AdmitSession, AdmitOwner, Serve, Final
<1>2. ASSUME NEW r \in Requests, Write(r) PROVE Final(s)
  <2>1. CASE CreateBegin(r) \/ CreateLock(r) \/ Subscribe(r) \/ UnlinkRead(r) \/ Abandon(r)
    BY <2>1 DEF CreateBegin, CreateLock, Subscribe, UnlinkRead, Abandon, Final
  <2>2. CASE CreateCommit(r)
    <3>1. sessions[requests[r].session].state = "absent"
      BY <2>2 DEF CreateCommit, Serving, Numbered, Creating
    <3>2. sessions'[s] = sessions[s] \/ s = requests[r].session
            \/ (s \in requests[r].excess /\ sessions'[s] = [sessions[s] EXCEPT !.state = "superseded"])
      BY <2>2 DEF CreateCommit
    <3>3. sessions[s] \in SessionRow
      BY DEF TypeOK
    <3> QED
      BY <3>1, <3>2, <3>3
      DEF Final, Overtaken, EndReasons, Sweeps, SessionRow
  <2>3. CASE Heartbeat(r)
    BY <2>3 DEF Heartbeat, Final, EndReasons, Sweeps, TypeOK
  <2>4. CASE EndOwn(r)
    <3>1. requests[r].op = "end"
      BY <2>4 DEF EndOwn, Serving
    <3>2. sessions' = [sessions EXCEPT ![requests[r].session].state = "agent_ended"]
      BY <2>4 DEF EndOwn
    <3>3. sessions[s] \in SessionRow
      BY DEF TypeOK
    <3>4. CASE s = requests[r].session
      BY <3>1, <3>2, <3>3, <3>4 DEF Final, Overtaken, EndReasons, TypeOK, SessionRow
    <3>5. CASE s # requests[r].session
      BY <3>2, <3>5 DEF Final, TypeOK
    <3> QED
      BY <3>4, <3>5
  <2>5. CASE Stop(r) \/ Revoke(r) \/ Unlink(r)
    BY <2>5, EndSessionsFinal DEF Stop, Revoke, Unlink
  <2> QED
    BY <1>2, <2>1, <2>2, <2>3, <2>4, <2>5 DEF Write
<1>3. CASE Moderate
  BY <1>3, EndSessionsFinal
  DEF Moderate, RestrictOwner, RestrictAgent, RestrictAgents, LiftOwner, LiftAgent,
      Lift, Final
<1>4. CASE Tick
  <2>1. CASE LapseOwner \/ \E a \in Agents : Lapse(a)
    BY <2>1 DEF LapseOwner, Lapse, Final
  <2>2. ASSUME NEW t \in SessionIds, GoQuiet(t) PROVE Final(s)
    BY <2>2 DEF GoQuiet, Final, Live, EndReasons, Sweeps, TypeOK
  <2> QED
    BY <1>4, <2>1, <2>2 DEF Tick
<1> QED
  BY <1>1, <1>2, <1>3, <1>4 DEF Next

(* In every behaviour an ended session stays ended, with the reason it     *)
(* ended for unless an overtaken request to end it was still in flight.    *)
THEOREM EndCorrect == Spec => EndedIsFinal
<1>1. Init => Numbered
  BY InitNumbered
<1>2. TypeOK /\ Numbered /\ [Next]_vars => Numbered'
  BY NextNumbered
<1>3. TypeOK /\ Numbered /\ [Next]_vars =>
        [\A s \in SessionIds :
           sessions[s].state \in EndReasons =>
             /\ sessions'[s].state \in EndReasons
             /\ sessions'[s].state # sessions[s].state => Overtaken(s)]_vars
  BY NextFinal DEF Final
<1> QED
  BY <1>1, <1>2, <1>3, TypeCorrect, PTL DEF Spec, EndedIsFinal

-----------------------------------------------------------------------------
(* The flag of a revoked agent: revoke sets it, a restriction and an       *)
(* appeal leave revoked agents alone, and a lapse is never written back.   *)
LEMMA NextKeepsFlag ==
  ASSUME TypeOK, RevokedKeepsFlag, [Next]_vars
  PROVE  RevokedKeepsFlag'
<1> USE DEF RevokedKeepsFlag
<1>1. ASSUME NEW r \in Requests, Admit(r) PROVE RevokedKeepsFlag'
  BY <1>1 DEF Admit, AdmitToken, AdmitSubscribe, AdmitSession, AdmitOwner, Serve
<1>2. ASSUME NEW r \in Requests, Write(r) PROVE RevokedKeepsFlag'
  <2> DEFINE a == requests[r].agent
  <2>1. CASE CreateBegin(r) \/ CreateLock(r) \/ CreateCommit(r) \/ Heartbeat(r)
               \/ EndOwn(r) \/ Stop(r) \/ UnlinkRead(r) \/ Abandon(r)
    BY <2>1 DEF CreateBegin, CreateLock, CreateCommit, Heartbeat, EndOwn, Stop,
                UnlinkRead, Abandon
  <2>2. CASE Subscribe(r)
    BY <2>2 DEF Subscribe, TypeOK, AgentRow
  <2>3. Flagged(agents[a].limit) # "none"
    BY DEF Flagged
  <2>4. CASE Revoke(r)
    BY <2>3, <2>4 DEF Revoke, TypeOK, AgentRow
  <2>5. CASE Unlink(r)
    BY <2>3, <2>5 DEF Unlink, TypeOK, AgentRow
  <2> QED
    BY <1>2, <2>1, <2>2, <2>4, <2>5 DEF Write
<1>3. CASE Moderate
  <2>1. ASSUME NEW as, NEW kind \in Penalties, RestrictAgents(as, kind)
        PROVE  RevokedKeepsFlag'
    BY <2>1 DEF RestrictAgents, Penalties, TypeOK, AgentRow
  <2>2. ASSUME NEW as, Lift(as) PROVE RevokedKeepsFlag'
    BY <2>2, ZenonT(30) DEF Lift, TypeOK, AgentRow
  <2> QED
    BY <1>3, <2>1, <2>2 DEF Moderate, RestrictOwner, RestrictAgent, LiftOwner, LiftAgent
<1>4. CASE Tick
  BY <1>4, ZenonT(30) DEF Tick, LapseOwner, Lapse, GoQuiet, TypeOK, AgentRow
<1>5. CASE UNCHANGED vars
  BY <1>5 DEF vars
<1> QED
  BY <1>1, <1>2, <1>3, <1>4, <1>5 DEF Next

(* Whatever moderation follows, a revoked agent stays flagged restricted.  *)
THEOREM FlagCorrect == Spec => []RevokedKeepsFlag
<1>1. Init => RevokedKeepsFlag
  BY DEF Init, RevokedKeepsFlag
<1>2. TypeOK /\ RevokedKeepsFlag /\ [Next]_vars => RevokedKeepsFlag'
  BY NextKeepsFlag
<1> QED
  BY <1>1, <1>2, TypeCorrect, PTL DEF Spec

-----------------------------------------------------------------------------
(* SweptIsNoticed is inductive.  A step either sweeps no session and       *)
(* touches neither the notices nor the two marks of an agent (Quiet), or   *)
(* sweeps the sessions of some agents and tells each of them (Sweeping).   *)
Quiet ==
  /\ notices' = notices
  /\ \A a \in Agents : /\ agents'[a].revoked = agents[a].revoked
                       /\ agents'[a].unlinked = agents[a].unlinked
  /\ \A s \in SessionIds :
       sessions'[s].state \in Sweeps => sessions'[s] = sessions[s]

(* Nothing is left unnoticed by a step that sweeps nothing.                *)
LEMMA QuietSwept ==
  ASSUME SweptIsNoticed, Quiet
  PROVE  SweptIsNoticed'
BY DEF SweptIsNoticed, Quiet, SessionsOf

(* Every way to sweep, with the agent.* event that announces it.           *)
LEMMA SweepKinds ==
  /\ Sweeps \subseteq EndReasons
  /\ \A reason \in Sweeps : NoticeOf[reason] \in NoticeKinds
  /\ \A reason \in Sweeps :
       /\ reason = "revoked" <=> NoticeOf[reason] = "revoked"
       /\ reason = "owner_unlinked" <=> NoticeOf[reason] = "unlinked"
BY DEF Sweeps, EndReasons, NoticeOf, NoticeKinds

(* agentEvent never removes a row: no count of notices goes down; the      *)
(* A sweep of some agents: their open sessions end for reason and each of  *)
(* them is told; only a revoke and an unlink mark the row, and they tell   *)
(* it once.                                                                *)
Sweeping(as, reason, once) ==
  /\ EndSessions(as, reason)
  /\ Notify(as, NoticeOf[reason], once)
  /\ reason \in {"revoked", "owner_unlinked"} => once
  /\ \A a \in Agents :
       /\ agents'[a].revoked <=> agents[a].revoked \/ (a \in as /\ reason = "revoked")
       /\ agents'[a].unlinked <=> agents[a].unlinked \/ (a \in as /\ reason = "owner_unlinked")

(* A sweep leaves nothing it swept unnoticed.                              *)
LEMMA SweepingSwept ==
  ASSUME TypeOK, SweptIsNoticed, NEW as, NEW reason \in Sweeps,
         NEW once \in BOOLEAN, Sweeping(as, reason, once)
  PROVE  SweptIsNoticed'
<1> SUFFICES ASSUME NEW a \in Agents
             PROVE  /\ \A s \in SessionsOf(a)' :
                         sessions'[s].state \in Sweeps =>
                           notices'[a][NoticeOf[sessions'[s].state]] > 0
                    /\ notices'[a]["revoked"] <= 1 /\ notices'[a]["unlinked"] <= 1
                    /\ agents'[a].revoked <=> (notices'[a]["revoked"] = 1)
                    /\ agents'[a].unlinked <=> (notices'[a]["unlinked"] = 1)
  BY DEF SweptIsNoticed
<1>1. PICK kind \in NoticeKinds : kind = NoticeOf[reason]
  BY SweepKinds
<1>2. notices[a] \in [NoticeKinds -> 0..2] /\ notices'[a] \in [NoticeKinds -> 0..2]
  <2>1. notices[a] \in [NoticeKinds -> 0..2]
    BY DEF TypeOK
  <2>2. notices'[a] = IF a \in as /\ notices[a][kind] < NoticeBound[kind]
                      THEN [notices[a] EXCEPT ![kind] = Noted(@, once)]
                      ELSE notices[a]
    BY <1>1 DEF Sweeping, Notify
  <2>3. NoticeBound[kind] \in {1, 2}
    BY <1>1 DEF NoticeBound, NoticeKinds
  <2>4. notices[a][kind] < NoticeBound[kind] => Noted(notices[a][kind], once) \in 0..2
    BY <1>1, <2>1, <2>3 DEF Noted
  <2> QED
    BY <1>1, <2>1, <2>2, <2>4
<1>3. /\ \A k \in NoticeKinds : notices'[a][k] >= notices[a][k]
      /\ a \in as => notices'[a][kind] > 0
      /\ \A k \in NoticeKinds \ {kind} : notices'[a][k] = notices[a][k]
      /\ a \notin as => notices'[a] = notices[a]
      /\ (a \in as /\ once /\ notices[a][kind] <= 1 /\ NoticeBound[kind] = 2)
           => notices'[a][kind] = 1
  <2>1. notices[a] \in [NoticeKinds -> 0..2]
    BY DEF TypeOK
  <2>2. notices'[a] = IF a \in as /\ notices[a][kind] < NoticeBound[kind]
                      THEN [notices[a] EXCEPT ![kind] = Noted(@, once)]
                      ELSE notices[a]
    BY <1>1 DEF Sweeping, Notify
  <2>3. NoticeBound[kind] \in {1, 2}
    BY <1>1 DEF NoticeBound, NoticeKinds
  <2>4. Noted(notices[a][kind], once) >= notices[a][kind] /\ Noted(notices[a][kind], once) > 0
    BY <2>1 DEF Noted
  <2>5. once /\ notices[a][kind] <= 1 => Noted(notices[a][kind], once) = 1
    BY <2>1 DEF Noted
  <2>6. CASE a \in as /\ notices[a][kind] < NoticeBound[kind]
    <3>1. notices'[a] = [notices[a] EXCEPT ![kind] = Noted(notices[a][kind], once)]
      BY <2>2, <2>6
    <3>2. /\ notices'[a][kind] = Noted(notices[a][kind], once)
          /\ \A k \in NoticeKinds \ {kind} : notices'[a][k] = notices[a][k]
      BY <2>1, <3>1
    <3>3. ASSUME NEW k \in NoticeKinds PROVE notices'[a][k] >= notices[a][k]
      <4>1. CASE k = kind
        BY <2>4, <3>2, <4>1
      <4>2. CASE k # kind
        BY <2>1, <3>2, <4>2
      <4> QED
        BY <4>1, <4>2
    <3>4. notices'[a][kind] > 0
      BY <2>4, <3>2
    <3>5. once /\ notices[a][kind] <= 1 => notices'[a][kind] = 1
      BY <2>5, <3>2
    <3> QED
      BY <2>6, <3>2, <3>3, <3>4, <3>5
  <2>7. CASE ~(a \in as /\ notices[a][kind] < NoticeBound[kind])
    <3>1. notices'[a] = notices[a]
      BY <2>2, <2>7
    <3> QED
      <4>1. \A k \in NoticeKinds : notices'[a][k] >= notices[a][k]
        BY <2>1, <3>1
      <4>a. \A n \in 0..2, b \in {1, 2} : ~(n < b) => n > 0 /\ (n <= 1 => b # 2)
        OBVIOUS
      <4>b. notices[a][kind] \in 0..2
        BY <2>1
      <4>2. a \in as => ~(notices[a][kind] < NoticeBound[kind])
        BY <2>7
      <4>3. a \in as => /\ notices[a][kind] > 0
                        /\ notices[a][kind] <= 1 => NoticeBound[kind] # 2
        BY <2>3, <4>a, <4>b, <4>2
      <4> QED
        BY <3>1, <4>1, <4>3
  <2> QED
    BY <2>6, <2>7
<1>4. ASSUME NEW s \in SessionsOf(a)', sessions'[s].state \in Sweeps
      PROVE  notices'[a][NoticeOf[sessions'[s].state]] > 0
  <2>1. /\ s \in SessionIds /\ sessions[s] \in SessionRow
        /\ sessions'[s] = IF sessions[s].agent \in as /\ Open(s)
                          THEN [sessions[s] EXCEPT !.state = reason]
                          ELSE sessions[s]
    BY <1>4 DEF SessionsOf, Sweeping, EndSessions, TypeOK
  <2>2. sessions[s].agent = a
    BY <1>4, <2>1 DEF SessionsOf, SessionRow
  <2>3. CASE sessions'[s] = sessions[s]
    <3>1. NoticeOf[sessions[s].state] \in NoticeKinds
      BY <1>4, <2>3, SweepKinds
    <3>2. notices[a][NoticeOf[sessions[s].state]] > 0
      BY <1>4, <2>1, <2>2, <2>3 DEF SweptIsNoticed, SessionsOf
    <3>3. notices'[a][NoticeOf[sessions[s].state]] >= notices[a][NoticeOf[sessions[s].state]]
      BY <1>3, <3>1
    <3>4. \A m, n \in 0..2 : m >= n /\ n > 0 => m > 0
      OBVIOUS
    <3> QED
      BY <1>2, <2>3, <3>1, <3>2, <3>3, <3>4
  <2>4. CASE sessions'[s] # sessions[s]
    <3>1. sessions'[s].state = reason /\ a \in as
      BY <2>1, <2>2, <2>4 DEF SessionRow
    <3> QED
      BY <1>1, <1>3, <3>1
  <2> QED
    BY <2>3, <2>4
<1>5. /\ notices[a]["revoked"] <= 1 /\ notices[a]["unlinked"] <= 1
      /\ agents[a].revoked <=> (notices[a]["revoked"] = 1)
      /\ agents[a].unlinked <=> (notices[a]["unlinked"] = 1)
  BY DEF SweptIsNoticed
<1>6. NoticeBound["revoked"] = 2 /\ NoticeBound["unlinked"] = 2
      /\ {"revoked", "unlinked"} \subseteq NoticeKinds
  BY DEF NoticeBound, NoticeKinds
<1>7. /\ kind = "revoked" <=> reason = "revoked"
      /\ kind = "unlinked" <=> reason = "owner_unlinked"
  BY <1>1, SweepKinds
<1>8. notices'[a]["revoked"] =
        IF a \in as /\ reason = "revoked" THEN 1 ELSE notices[a]["revoked"]
  BY <1>3, <1>5, <1>6, <1>7 DEF Sweeping
<1>9. notices'[a]["unlinked"] =
        IF a \in as /\ reason = "owner_unlinked" THEN 1 ELSE notices[a]["unlinked"]
  BY <1>3, <1>5, <1>6, <1>7 DEF Sweeping
<1>10. /\ agents'[a].revoked <=> agents[a].revoked \/ (a \in as /\ reason = "revoked")
       /\ agents'[a].unlinked <=> agents[a].unlinked \/ (a \in as /\ reason = "owner_unlinked")
  BY DEF Sweeping
<1>11. agents'[a].revoked <=> (notices'[a]["revoked"] = 1)
  <2>1. CASE a \in as /\ reason = "revoked"
    BY <1>8, <1>10, <2>1
  <2>2. CASE ~(a \in as /\ reason = "revoked")
    BY <1>5, <1>8, <1>10, <2>2
  <2> QED
    BY <2>1, <2>2
<1>12. agents'[a].unlinked <=> (notices'[a]["unlinked"] = 1)
  <2>1. CASE a \in as /\ reason = "owner_unlinked"
    BY <1>9, <1>10, <2>1
  <2>2. CASE ~(a \in as /\ reason = "owner_unlinked")
    BY <1>5, <1>9, <1>10, <2>2
  <2> QED
    BY <2>1, <2>2
<1>13. notices'[a]["revoked"] <= 1 /\ notices'[a]["unlinked"] <= 1
  <2>1. notices'[a]["revoked"] \in {1, notices[a]["revoked"]}
    BY <1>8
  <2>2. notices'[a]["unlinked"] \in {1, notices[a]["unlinked"]}
    BY <1>9
  <2> QED
    BY <1>5, <2>1, <2>2
<1> QED
  BY <1>4, <1>11, <1>12, <1>13

(* Every step notices what it sweeps. *)
LEMMA NextSwept ==
  ASSUME TypeOK, SweptIsNoticed, [Next]_vars
  PROVE  SweptIsNoticed'
<1>a. {"fresh", "stale", "revived", "superseded", "agent_ended"} \cap Sweeps = {}
  BY DEF Sweeps
<1>1. ASSUME NEW r \in Requests, Admit(r) PROVE SweptIsNoticed'
  <2>1. Quiet
    BY <1>1 DEF Admit, AdmitToken, AdmitSubscribe, AdmitSession, AdmitOwner, Serve, Quiet
  <2> QED
    BY <2>1, QuietSwept
<1>2. ASSUME NEW r \in Requests, Write(r) PROVE SweptIsNoticed'
  <2> DEFINE a == requests[r].agent
  <2>1. CASE CreateBegin(r) \/ CreateLock(r) \/ UnlinkRead(r) \/ Abandon(r)
    BY <2>1, QuietSwept DEF CreateBegin, CreateLock, UnlinkRead, Abandon, Quiet
  <2>2. CASE CreateCommit(r)
    BY <1>a, <2>2, QuietSwept DEF CreateCommit, Quiet, TypeOK, SessionRow
  <2>3. CASE Subscribe(r)
    BY <2>3, QuietSwept DEF Subscribe, Quiet, TypeOK, AgentRow
  <2>4. CASE Heartbeat(r)
    BY <1>a, <2>4, QuietSwept DEF Heartbeat, Quiet, TypeOK, SessionRow
  <2>5. CASE EndOwn(r)
    BY <1>a, <2>5, QuietSwept DEF EndOwn, Quiet, TypeOK, SessionRow
  <2>6. CASE Stop(r)
    <3>1. Sweeping({requests[r].agent}, "owner_stop", FALSE)
      BY <2>6 DEF Stop, Sweeping, NoticeOf
    <3> QED
      BY <3>1, SweepingSwept DEF Sweeps
  <2>7. CASE Revoke(r)
    <3>a. \A b \in Agents :
            /\ agents'[b].unlinked = agents[b].unlinked
            /\ agents'[b].revoked = IF b = a THEN TRUE ELSE agents[b].revoked
      BY <2>7 DEF Revoke, TypeOK, AgentRow
    <3>1. Sweeping({a}, "revoked", TRUE)
      BY <2>7, <3>a DEF Revoke, Sweeping, NoticeOf
    <3> QED
      BY <3>1, SweepingSwept DEF Sweeps
  <2>8. CASE Unlink(r)
    <3>a. \A b \in Agents :
            /\ agents'[b].revoked = agents[b].revoked
            /\ agents'[b].unlinked = IF b = a THEN TRUE ELSE agents[b].unlinked
      BY <2>8 DEF Unlink, TypeOK, AgentRow
    <3>1. Sweeping({a}, "owner_unlinked", TRUE)
      BY <2>8, <3>a DEF Unlink, Sweeping, NoticeOf
    <3> QED
      BY <3>1, SweepingSwept DEF Sweeps
  <2> QED
    BY <1>2, <2>1, <2>2, <2>3, <2>4, <2>5, <2>6, <2>7, <2>8 DEF Write
<1>3. CASE Moderate
  <2>1. ASSUME NEW as, NEW kind, RestrictAgents(as, kind) PROVE SweptIsNoticed'
    <3> DEFINE hit == {a \in as : ~agents[a].revoked}
    <3>1. Sweeping(hit, "restricted", FALSE)
      BY <2>1, ZenonT(30) DEF RestrictAgents, Sweeping, NoticeOf, TypeOK, AgentRow
    <3> QED
      BY <3>1, SweepingSwept DEF Sweeps
  <2>2. ASSUME NEW as, Lift(as) PROVE SweptIsNoticed'
    BY <2>2, QuietSwept DEF Lift, Quiet, TypeOK, AgentRow
  <2> QED
    BY <1>3, <2>1, <2>2 DEF Moderate, RestrictOwner, RestrictAgent, LiftOwner, LiftAgent
<1>4. CASE Tick
  <2>1. CASE LapseOwner
    BY <2>1, QuietSwept DEF LapseOwner, Quiet
  <2>2. ASSUME NEW a \in Agents, Lapse(a) PROVE SweptIsNoticed'
    BY <2>2, QuietSwept DEF Lapse, Quiet, TypeOK, AgentRow
  <2>3. ASSUME NEW s \in SessionIds, GoQuiet(s) PROVE SweptIsNoticed'
    BY <1>a, <2>3, QuietSwept DEF GoQuiet, Quiet, TypeOK, SessionRow
  <2> QED
    BY <1>4, <2>1, <2>2, <2>3 DEF Tick
<1>5. CASE UNCHANGED vars
  BY <1>5, QuietSwept DEF vars, Quiet
<1> QED
  BY <1>1, <1>2, <1>3, <1>4, <1>5 DEF Next

(* Whatever ended a session against the agent's will told the agent, and   *)
(* a revoke or an unlink told it exactly once, also when two of them race. *)
THEOREM NoticeCorrect == Spec => []SweptIsNoticed
<1>1. Init => SweptIsNoticed
  BY DEF Init, SweptIsNoticed, NoSession, Sweeps, NoticeKinds, SessionsOf
<1>2. TypeOK /\ SweptIsNoticed /\ [Next]_vars => SweptIsNoticed'
  BY NextSwept
<1> QED
  BY <1>1, <1>2, TypeCorrect, PTL DEF Spec
=============================================================================
