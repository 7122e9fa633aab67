----------------------------- MODULE Moderation -----------------------------
(***************************************************************************)
(* Reports, incidents, sanctions and appeals in apps/server/src/app.ts.    *)
(*                                                                         *)
(* A report opens an incident about an owner and, mostly, one of its       *)
(* agents.  Moderators read the incident and change it with the revision   *)
(* they have read; the owner appeals.  Sanctions write the restriction of  *)
(* the owner and of the agents.  Dismissing a report as malicious warns    *)
(* its reporter's owner the first time and restricts it from then on.      *)
(* What a restriction does to sessions is in AgentLifecycle.               *)
(***************************************************************************)
EXTENDS Naturals, FiniteSets

CONSTANTS Incidents, Agents, Owners,
          OwnerOf,    \* agents.owner_id
          Revoked,    \* agents revoked before, which restrictions leave alone
          IncOwner,   \* incidents.owner_id
          IncAgent,   \* incidents.agent_id, or NoAgent
          NoAgent,
          PairOf,     \* the reporter and the target of an incident's report
          Reporter,   \* the owner of the reporter
          Moderators,
          MaxRevision \* bound: revisions of an incident

ASSUME ModerationAssumption ==
  /\ OwnerOf \in [Agents -> Owners]
  /\ Revoked \subseteq Agents
  /\ IncOwner \in [Incidents -> Owners] /\ Reporter \in [Incidents -> Owners]
  /\ NoAgent \notin Agents
  /\ IncAgent \in [Incidents -> Agents \cup {NoAgent}]
  /\ \A i \in Incidents : IncAgent[i] # NoAgent => OwnerOf[IncAgent[i]] = IncOwner[i]
  /\ \A i, j \in Incidents : PairOf[i] = PairOf[j] => Reporter[i] = Reporter[j]
  /\ IsFiniteSet(Incidents) /\ MaxRevision \in Nat \ {0}

VARIABLES inc,        \* the incidents
          agentBar, ownerBar,  \* restrictions of agents and owners
          filing,     \* reports checked and not yet committed
          desk,       \* what each moderator has read or is changing
          closed,     \* incidents that were once resolved; history
          spared      \* dismissed as malicious with a warning only; history

vars == <<inc, agentBar, ownerBar, filing, desk, closed, spared>>
history == <<closed, spared>>

Bars == {"none", "temporary", "permanent"}
Statuses == {"reviewing", "resolved", "owner_escalation", "appeal_pending"}
Sanctions == {"none", "warning", "temporary_restriction", "permanent_restriction"}
Actions == {"none", "warn", "restrict_agent_temporary", "restrict_agent",
            "restrict_owner_temporary", "restrict_owner", "grant_appeal", "deny_appeal",
            "dismissed_malicious"}

Unfiled == [status |-> "unfiled", action |-> "none", sanction |-> "none",
            appeal |-> "none", revision |-> 0]
Idle == [phase |-> "idle", incident |-> NoAgent, revision |-> 0, appeal |-> "none",
         others |-> 0]

Init ==
  /\ inc = [i \in Incidents |-> Unfiled]
  /\ agentBar = [a \in Agents |-> "none"]
  /\ ownerBar = [o \in Owners |-> "none"]
  /\ filing = {}
  /\ desk = [m \in Moderators |-> Idle]
  /\ closed = {} /\ spared = {}

Filed(i) == inc[i].status # "unfiled"
OpenReport(i) == Filed(i) /\ inc[i].status # "resolved"

-----------------------------------------------------------------------------
(* POST /v1/reports.  The lock quota:<owner> is held from the check to the *)
(* commit; owners with a restriction may not report.                       *)

(* Mutant: the open reports are looked for before the lock.                *)
CheckReportUnlocked(i) ==
  /\ ~Filed(i) /\ i \notin filing
  /\ ownerBar[Reporter[i]] = "none"
  /\ ~\E j \in Incidents : PairOf[j] = PairOf[i] /\ OpenReport(j)
  /\ filing' = filing \cup {i}
  /\ UNCHANGED <<inc, agentBar, ownerBar, desk, history>>

CheckReport(i) ==
  /\ ~Filed(i)
  /\ ownerBar[Reporter[i]] = "none"
  /\ \A j \in filing : Reporter[j] # Reporter[i]
  /\ ~\E j \in Incidents : PairOf[j] = PairOf[i] /\ OpenReport(j)
  /\ filing' = filing \cup {i}
  /\ UNCHANGED <<inc, agentBar, ownerBar, desk, history>>

FileReport(i) ==
  /\ i \in filing
  /\ filing' = filing \ {i}
  /\ inc' = [inc EXCEPT ![i].status = "owner_escalation", ![i].revision = 1]
  /\ UNCHANGED <<agentBar, ownerBar, desk, history>>

-----------------------------------------------------------------------------
(* SELECT .. FOR UPDATE: one transaction at a time has the incident's row; *)
(* a dismissal keeps it, and its reporter's owner, until it commits.       *)
RowFree(i) == \A m \in Moderators : desk[m].phase # "read" => desk[m].incident # i
OwnerRowFree(o) ==
  \A m \in Moderators : desk[m].phase = "counted" => Reporter[desk[m].incident] # o

(* POST /v1/owners/me/incidents/:incidentId/appeal, open to a restricted   *)
(* owner too.                                                              *)
Appeal(i) ==
  /\ Filed(i) /\ RowFree(i)
  /\ inc[i].revision < MaxRevision
  /\ inc[i].appeal = "none"
  /\ inc[i].sanction # "none" \/ inc[i].status = "owner_escalation"
  /\ inc' = [inc EXCEPT ![i].status = "appeal_pending", ![i].appeal = "pending",
                        ![i].revision = @ + 1]
  /\ UNCHANGED <<agentBar, ownerBar, filing, desk, history>>

(* GET /v1/moderation/incidents                                            *)
Read(m, i) ==
  /\ desk[m].phase \in {"idle", "read"}
  /\ Filed(i)
  /\ desk' = [desk EXCEPT ![m] = [Idle EXCEPT !.phase = "read", !.incident = i,
                 !.revision = inc[i].revision, !.appeal = inc[i].appeal]]
  /\ UNCHANGED <<inc, agentBar, ownerBar, filing, history>>

(* Mutant: the revision the moderator has read is not compared.            *)
LockedUnchecked(m, i) ==
  /\ desk[m].phase = "read" /\ desk[m].incident = i
  /\ RowFree(i)
  /\ inc[i].revision < MaxRevision

(* PATCH /v1/moderation/incidents/:incidentId has the row at the revision  *)
(* it expects.                                                             *)
Locked(m, i) ==
  /\ desk[m].phase = "read" /\ desk[m].incident = i
  /\ RowFree(i)
  /\ inc[i].revision = desk[m].revision
  /\ inc[i].revision < MaxRevision

(* UPDATE incidents: the decision's own fields, any status the request     *)
(* gives, and the next revision.                                           *)
Decide(i, status, action, sanction, appeal) ==
  /\ inc' = [inc EXCEPT ![i] = [status |-> status, action |-> action, sanction |-> sanction,
                                appeal |-> appeal, revision |-> @.revision + 1]]
  /\ closed' = IF status = "resolved" THEN closed \cup {i} ELSE closed
Done(m) == desk' = [desk EXCEPT ![m] = Idle]

(* restrictAgents and applyOwnerRestriction.                               *)
BarAgents(S, kind) ==
  agentBar' = [a \in Agents |-> IF a \in S \ Revoked THEN kind ELSE agentBar[a]]
AgentsOf(o) == {a \in Agents : OwnerOf[a] = o}
BarOwner(o, kind) ==
  /\ OwnerRowFree(o)
  /\ ownerBar' = [ownerBar EXCEPT ![o] = kind]
  /\ BarAgents(AgentsOf(o), kind)

(* A change without an action, or with action none, or dismiss.            *)
Note(m, i, status) ==
  /\ Locked(m, i)
  /\ \E action \in {inc[i].action, "none"} :
       Decide(i, status, action, inc[i].sanction, inc[i].appeal)
  /\ Done(m)
  /\ UNCHANGED <<agentBar, ownerBar, filing, spared>>

Warn(m, i, status) ==
  /\ Locked(m, i)
  /\ Decide(i, status, "warn", "warning", inc[i].appeal)
  /\ Done(m)
  /\ UNCHANGED <<agentBar, ownerBar, filing, spared>>

RestrictAgent(m, i, kind, status) ==
  /\ Locked(m, i)
  /\ IncAgent[i] # NoAgent
  /\ BarAgents({IncAgent[i]}, kind)
  /\ Decide(i, status, IF kind = "temporary" THEN "restrict_agent_temporary"
                       ELSE "restrict_agent",
            IF kind = "temporary" THEN "temporary_restriction" ELSE "permanent_restriction",
            inc[i].appeal)
  /\ Done(m)
  /\ UNCHANGED <<ownerBar, filing, spared>>

RestrictOwner(m, i, kind, status) ==
  /\ Locked(m, i)
  /\ BarOwner(IncOwner[i], kind)
  /\ Decide(i, status, IF kind = "temporary" THEN "restrict_owner_temporary"
                       ELSE "restrict_owner",
            IF kind = "temporary" THEN "temporary_restriction" ELSE "permanent_restriction",
            inc[i].appeal)
  /\ Done(m)
  /\ UNCHANGED <<filing, spared>>

(* grant_appeal: the last action of the incident decides whom it releases. *)
ReleasesOwner(i) ==
  \/ inc[i].action \in {"restrict_owner", "restrict_owner_temporary"}
  \/ IncAgent[i] = NoAgent
GrantAppeal(m, i, status) ==
  /\ Locked(m, i)
  /\ IF ReleasesOwner(i) THEN BarOwner(IncOwner[i], "none")
     ELSE BarAgents({IncAgent[i]}, "none") /\ UNCHANGED ownerBar
  /\ Decide(i, status, "grant_appeal", inc[i].sanction, "granted")
  /\ Done(m)
  /\ UNCHANGED <<filing, spared>>

DenyAppeal(m, i, status) ==
  /\ Locked(m, i)
  /\ Decide(i, status, "deny_appeal", inc[i].sanction, "denied")
  /\ Done(m)
  /\ UNCHANGED <<agentBar, ownerBar, filing, spared>>

(* dismiss_malicious: the incident's row, then the reporter's owner's row  *)
(* and the other dismissals that have committed, then the penalty.         *)
StartDismissal(m, i) ==
  /\ Locked(m, i)
  /\ desk' = [desk EXCEPT ![m].phase = "locked"]
  /\ UNCHANGED <<inc, agentBar, ownerBar, filing, history>>

OtherDismissals(i) ==
  {j \in Incidents \ {i} : /\ inc[j].action = "dismissed_malicious"
                           /\ Reporter[j] = Reporter[i]}

(* Mutant: the reporter's owner is not locked while its dismissals count.  *)
CountDismissalsUnlocked(m) ==
  /\ desk[m].phase = "locked"
  /\ desk' = [desk EXCEPT ![m].phase = "counted",
                          ![m].others = Cardinality(OtherDismissals(desk[m].incident))]
  /\ UNCHANGED <<inc, agentBar, ownerBar, filing, history>>

CountDismissals(m) ==
  /\ desk[m].phase = "locked"
  /\ OwnerRowFree(Reporter[desk[m].incident])
  /\ desk' = [desk EXCEPT ![m].phase = "counted",
                          ![m].others = Cardinality(OtherDismissals(desk[m].incident))]
  /\ UNCHANGED <<inc, agentBar, ownerBar, filing, history>>

FinishDismissal(m, status) ==
  LET i == desk[m].incident
      o == Reporter[i] IN
  /\ desk[m].phase = "counted"
  /\ IF desk[m].others = 0
     THEN UNCHANGED <<agentBar, ownerBar>> /\ spared' = spared \cup {i}
     ELSE /\ ownerBar' = [ownerBar EXCEPT ![o] = "temporary"]
          /\ BarAgents(AgentsOf(o), "temporary")
          /\ spared' = spared \ {i}
  /\ Decide(i, status, "dismissed_malicious", inc[i].sanction, inc[i].appeal)
  /\ Done(m)
  /\ UNCHANGED filing

(* restricted_until passes.                                                *)
LapseAgent(a) ==
  /\ agentBar[a] = "temporary"
  /\ agentBar' = [agentBar EXCEPT ![a] = "none"]
  /\ UNCHANGED <<inc, ownerBar, filing, desk, history>>
LapseOwner(o) ==
  /\ ownerBar[o] = "temporary"
  /\ ownerBar' = [ownerBar EXCEPT ![o] = "none"]
  /\ UNCHANGED <<inc, agentBar, filing, desk, history>>

Next ==
  \/ \E i \in Incidents : CheckReport(i) \/ FileReport(i) \/ Appeal(i)
  \/ \E m \in Moderators, i \in Incidents :
       \/ Read(m, i) \/ StartDismissal(m, i)
       \/ \E status \in Statuses :
            \/ Note(m, i, status) \/ Warn(m, i, status)
            \/ \E kind \in {"temporary", "permanent"} :
                 RestrictAgent(m, i, kind, status) \/ RestrictOwner(m, i, kind, status)
            \/ GrantAppeal(m, i, status) \/ DenyAppeal(m, i, status)
  \/ \E m \in Moderators :
       CountDismissals(m) \/ \E status \in Statuses : FinishDismissal(m, status)
  \/ \E a \in Agents : LapseAgent(a)
  \/ \E o \in Owners : LapseOwner(o)

Spec == Init /\ [][Next]_vars

-----------------------------------------------------------------------------
(* Properties *)

Rows ==
  /\ inc \in [Incidents -> [status : Statuses \cup {"unfiled"}, action : Actions,
                            sanction : Sanctions,
                            appeal : {"none", "pending", "granted", "denied"},
                            revision : 0..MaxRevision]]
  /\ agentBar \in [Agents -> Bars] /\ ownerBar \in [Owners -> Bars]
  /\ filing \subseteq Incidents
  /\ desk \in [Moderators -> [phase : {"idle", "read", "locked", "counted"},
                              incident : Incidents \cup {NoAgent}, revision : 0..MaxRevision,
                              appeal : {"none", "pending", "granted", "denied"}, others : Nat]]
  /\ closed \subseteq Incidents /\ spared \subseteq Incidents

(* The rows keep their types, and an incident being dismissed is still     *)
(* what its moderator read: nobody else decides it or appeals meanwhile.   *)
TypeOK ==
  /\ Rows
  /\ \A m \in Moderators : desk[m].phase \in {"locked", "counted"} =>
       inc[desk[m].incident].revision = desk[m].revision

(* Of the incidents of one reporter that stand dismissed as malicious, at  *)
(* most one cost it a warning only, whichever moderators dismiss them at   *)
(* the same time and whatever is decided again. *)
OneWarning ==
  \A i, j \in spared :
    /\ inc[i].action = "dismissed_malicious" /\ inc[j].action = "dismissed_malicious"
    /\ Reporter[i] = Reporter[j]
    => i = j

(* A reporter has two unresolved reports of one target only when one of    *)
(* them had been resolved and was opened again. *)
NoDuplicateOpen ==
  \A i, j \in Incidents :
    i # j /\ PairOf[i] = PairOf[j] /\ OpenReport(i) /\ OpenReport(j) => {i, j} \cap closed # {}

(* An appeal is taken off the moderators' list, decided or not, only by a  *)
(* moderator who has read the incident with the appeal in it. *)
AppealIsRead ==
  [][\A i \in Incidents :
       inc[i].status = "appeal_pending" /\ inc[i].appeal = "pending"
       /\ inc'[i].status # "appeal_pending"
       => \E m \in Moderators : desk[m].incident = i /\ desk[m].appeal = "pending"]_vars

-----------------------------------------------------------------------------
(* Claims of the documentation that the code does not keep.                *)

Granted(i) == inc'[i] # inc[i] /\ inc'[i].action = "grant_appeal"

(* "Permanent restriction blocks indefinitely until appealed": an agent      *)
(* restricted for good by an incident that nobody has appealed stays so,      *)
(* whatever is decided of another incident, until an appeal is granted.       *)
Unappealed(i) == inc[i].sanction = "permanent_restriction" /\ inc[i].appeal = "none"
PermanentHolds ==
  [][\A a \in Agents : agentBar[a] = "permanent" /\ agentBar'[a] # "permanent"
       => \E i \in Incidents :
            \/ Granted(i)
            \/ inc'[i] # inc[i] /\ \A j \in Incidents \ {i} : ~Unappealed(j)]_vars
=============================================================================
