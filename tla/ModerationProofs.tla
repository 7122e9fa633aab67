-------------------------- MODULE ModerationProofs --------------------------
(***************************************************************************)
(* Proofs about Moderation.  The rows keep their types.  Reports of one    *)
(* reporter are checked one at a time under its quota lock, so that a      *)
(* second unresolved report of one target always involves a report that    *)
(* was resolved and opened again.                                          *)
(* A warning is decided on a count that the lock on the reporter's owner   *)
(* keeps true (WarningInv), and an appeal on a revision that counts every  *)
(* change of the incident (ReadInv).                                       *)
(***************************************************************************)
EXTENDS Moderation, FiniteSetTheorems, TLAPS

(* One decision of a moderator about an incident it has read. *)
DecisionStep(m, i) ==
  \E status \in Statuses :
    \/ Note(m, i, status) \/ Warn(m, i, status)
    \/ \E kind \in {"temporary", "permanent"} :
         RestrictAgent(m, i, kind, status) \/ RestrictOwner(m, i, kind, status)
    \/ GrantAppeal(m, i, status) \/ DenyAppeal(m, i, status)

(* What a moderator has open is an incident that was filed. *)
DeskFiled ==
  \A m \in Moderators : desk[m].phase # "idle" =>
    desk[m].incident \in Incidents /\ Filed(desk[m].incident)

TypeInv == Rows /\ DeskFiled

(* A moderator in the middle of a dismissal has the incident's row. *)
Holds(m) == desk[m].phase \in {"locked", "counted"}

(* Nobody else changes or dismisses an incident whose row is held, so that *)
(* its revision stays the one that was read, below the bound.              *)
HoldInv ==
  \A m \in Moderators : Holds(m) =>
    /\ inc[desk[m].incident].revision = desk[m].revision
    /\ inc[desk[m].incident].revision < MaxRevision
    /\ \A n \in Moderators : Holds(n) /\ desk[n].incident = desk[m].incident => n = m

(* What keeps duplicates out: a resolved incident is in closed, closed     *)
(* incidents are filed, a report being filed is new and alone of its       *)
(* reporter, and every open report of its pair was once closed.            *)
DuplicateInv ==
  /\ \A i \in Incidents : inc[i].status = "resolved" => i \in closed
  /\ \A i \in closed : Filed(i)
  /\ \A i \in filing : ~Filed(i)
  /\ \A i, j \in filing : Reporter[i] = Reporter[j] => i = j
  /\ \A i \in filing, j \in Incidents :
       PairOf[i] = PairOf[j] /\ OpenReport(j) => j \in closed
  /\ NoDuplicateOpen

Inv == TypeInv /\ HoldInv /\ DuplicateInv

-----------------------------------------------------------------------------
(* Types *)

IncType == [Incidents -> [status : Statuses \cup {"unfiled"}, action : Actions,
                          sanction : Sanctions,
                          appeal : {"none", "pending", "granted", "denied"},
                          revision : 0..MaxRevision]]

DeskType == [phase : {"idle", "read", "locked", "counted"},
                           incident : Incidents \cup {NoAgent}, revision : 0..MaxRevision,
                           appeal : {"none", "pending", "granted", "denied"}, others : Nat]

(* An incident decided about keeps its type and is filed. *)
LEMMA DecideType ==
  ASSUME Rows, NEW i \in Incidents, NEW status \in Statuses, NEW action \in Actions,
         NEW sanction \in Sanctions, NEW appeal \in {"none", "pending", "granted", "denied"},
         inc[i].revision < MaxRevision, Decide(i, status, action, sanction, appeal)
  PROVE  /\ inc' \in IncType /\ closed' \subseteq Incidents
         /\ \A j \in Incidents : Filed(j) => Filed(j)'
<1> USE ModerationAssumption DEF Rows, IncType
<1>1. inc[i].revision + 1 \in 0..MaxRevision
  <2>1. inc[i].revision \in 0..MaxRevision
    OBVIOUS
  <2>2. QED  BY <2>1
<1>2. [status |-> status, action |-> action, sanction |-> sanction, appeal |-> appeal,
       revision |-> inc[i].revision + 1]
      \in [status : Statuses \cup {"unfiled"}, action : Actions, sanction : Sanctions,
           appeal : {"none", "pending", "granted", "denied"}, revision : 0..MaxRevision]
  BY <1>1
<1>3. inc' \in IncType
  BY <1>2 DEF Decide
<1>4. closed' \subseteq Incidents
  BY DEF Decide
<1>5. \A j \in Incidents : Filed(j) => Filed(j)'
  BY DEF Decide, Filed, Statuses
<1>6. QED  BY <1>3, <1>4, <1>5

(* Restrictions written keep the rows' types. *)
LEMMA BarsType ==
  ASSUME Rows, NEW kind \in Bars
  PROVE  /\ \A S : BarAgents(S, kind) => agentBar' \in [Agents -> Bars]
         /\ \A o \in Owners : BarOwner(o, kind) =>
              agentBar' \in [Agents -> Bars] /\ ownerBar' \in [Owners -> Bars]
BY DEF Rows, BarAgents, BarOwner

(* A moderator who is done has nothing open. *)
LEMMA DoneType ==
  ASSUME TypeInv, NEW m \in Moderators, Done(m),
         \A j \in Incidents : Filed(j) => Filed(j)'
  PROVE  /\ desk' \in [Moderators -> DeskType]
         /\ DeskFiled'
<1>1. Idle \in DeskType
  BY ModerationAssumption DEF Idle, DeskType
<1>2. desk' = [desk EXCEPT ![m] = Idle] /\ Idle.phase = "idle"
  BY DEF Done, Idle
<1>3. desk \in [Moderators -> DeskType]
  BY DEF TypeInv, Rows, DeskType
<1> HIDE DEF Idle
<1>4. QED  BY <1>1, <1>2, <1>3 DEF TypeInv, DeskFiled

(* A decision keeps the rows' types, keeps incidents filed and clears the  *)
(* desk.                                                                   *)
LEMMA DecisionType ==
  ASSUME TypeInv, NEW m \in Moderators, NEW i \in Incidents, DecisionStep(m, i)
  PROVE  TypeInv'
<1> USE ModerationAssumption
<1>1. PICK status \in Statuses :
         \/ Note(m, i, status) \/ Warn(m, i, status)
         \/ \E kind \in {"temporary", "permanent"} :
              RestrictAgent(m, i, kind, status) \/ RestrictOwner(m, i, kind, status)
         \/ GrantAppeal(m, i, status) \/ DenyAppeal(m, i, status)
  BY DEF DecisionStep
<1>2. inc[i].action \in Actions /\ inc[i].sanction \in Sanctions
      /\ inc[i].appeal \in {"none", "pending", "granted", "denied"}
  BY DEF TypeInv, Rows
<1>3. \E action \in Actions, sanction \in Sanctions,
         appeal \in {"none", "pending", "granted", "denied"} :
        Decide(i, status, action, sanction, appeal)
  <2>1. CASE Note(m, i, status)  BY <2>1, <1>2 DEF Note, Actions
  <2>2. CASE Warn(m, i, status)  BY <2>2, <1>2 DEF Warn, Actions, Sanctions
  <2>3. ASSUME NEW kind \in {"temporary", "permanent"},
               RestrictAgent(m, i, kind, status) \/ RestrictOwner(m, i, kind, status)
        PROVE  \E action \in Actions, sanction \in Sanctions :
                 Decide(i, status, action, sanction, inc[i].appeal)
    BY <2>3 DEF RestrictAgent, RestrictOwner, Actions, Sanctions
  <2>4. CASE GrantAppeal(m, i, status)  BY <2>4, <1>2 DEF GrantAppeal, Actions
  <2>5. CASE DenyAppeal(m, i, status)  BY <2>5, <1>2 DEF DenyAppeal, Actions
  <2>6. QED  BY <1>1, <1>2, <2>1, <2>2, <2>3, <2>4, <2>5
<1>4. inc[i].revision < MaxRevision
  BY <1>1 DEF Note, Warn, RestrictAgent, RestrictOwner, GrantAppeal, DenyAppeal, Locked
<1>5. inc' \in IncType /\ closed' \subseteq Incidents /\ \A j \in Incidents : Filed(j) => Filed(j)'
  BY <1>3, <1>4, DecideType DEF TypeInv
<1>6. Done(m)
  BY <1>1 DEF Note, Warn, RestrictAgent, RestrictOwner, GrantAppeal, DenyAppeal
<1>7. agentBar' \in [Agents -> Bars] /\ ownerBar' \in [Owners -> Bars]
  <2>1. CASE Note(m, i, status) \/ Warn(m, i, status) \/ DenyAppeal(m, i, status)
    BY <2>1 DEF Note, Warn, DenyAppeal, TypeInv, Rows
  <2>2. CASE GrantAppeal(m, i, status)
    <3>1. "none" \in Bars  BY DEF Bars
    <3>2. IncOwner[i] \in Owners  OBVIOUS
    <3>3. QED  BY <2>2, <3>1, <3>2, BarsType DEF GrantAppeal, TypeInv, Rows
  <2>3. ASSUME NEW kind \in {"temporary", "permanent"},
               RestrictAgent(m, i, kind, status) \/ RestrictOwner(m, i, kind, status)
        PROVE  agentBar' \in [Agents -> Bars] /\ ownerBar' \in [Owners -> Bars]
    <3>1. kind \in Bars  BY DEF Bars
    <3>2. IncOwner[i] \in Owners  OBVIOUS
    <3>3. QED  BY <2>3, <3>1, <3>2, BarsType DEF RestrictAgent, RestrictOwner, TypeInv, Rows
  <2>4. QED  BY <1>1, <2>1, <2>2, <2>3
<1>8. /\ filing' \subseteq Incidents
      /\ spared' \subseteq Incidents
  BY <1>1 DEF Note, Warn, RestrictAgent, RestrictOwner, GrantAppeal, DenyAppeal, TypeInv, Rows
<1>9. QED  BY <1>5, <1>6, <1>7, <1>8, DoneType DEF TypeInv, Rows, IncType, DeskType

(* A malicious dismissal keeps them too: its incident is the one the       *)
(* moderator has locked. *)
LEMMA FinishType ==
  ASSUME TypeInv, NEW m \in Moderators, NEW status \in Statuses, FinishDismissal(m, status), HoldInv
  PROVE  TypeInv'
<1> USE ModerationAssumption
<1> DEFINE i == desk[m].incident
<1>1. i \in Incidents
  BY DEF FinishDismissal, TypeInv, DeskFiled
<1>2. inc[i].sanction \in Sanctions /\ inc[i].appeal \in {"none", "pending", "granted", "denied"}
  BY <1>1 DEF TypeInv, Rows
<1>3. Decide(i, status, "dismissed_malicious", inc[i].sanction, inc[i].appeal)
  BY DEF FinishDismissal
<1>4. inc[i].revision < MaxRevision
  BY DEF FinishDismissal, HoldInv, Holds
<1>5. inc' \in IncType /\ closed' \subseteq Incidents /\ \A j \in Incidents : Filed(j) => Filed(j)'
  <2>1. "dismissed_malicious" \in Actions  BY DEF Actions
  <2> HIDE DEF i
  <2>2. QED  BY <1>1, <1>2, <1>3, <1>4, <2>1, DecideType DEF TypeInv
<1>6. agentBar' \in [Agents -> Bars] /\ ownerBar' \in [Owners -> Bars] /\ spared' \subseteq Incidents
  BY <1>1 DEF FinishDismissal, BarAgents, Bars, TypeInv, Rows
<1>7. QED
  BY <1>5, <1>6, DoneType DEF FinishDismissal, TypeInv, Rows, IncType, DeskType

(* Every step keeps the rows' types. *)
LEMMA NextType ==
  ASSUME Inv, [Next]_vars
  PROVE  TypeInv'
<1> USE ModerationAssumption DEF Inv
<1>1. ASSUME NEW i \in Incidents, CheckReport(i)  PROVE TypeInv'
  BY <1>1 DEF CheckReport, TypeInv, Rows, DeskFiled, Filed, history
<1>2. ASSUME NEW i \in Incidents, FileReport(i)  PROVE TypeInv'
  <2>1. inc[i] \in [status : Statuses \cup {"unfiled"}, action : Actions,
                    sanction : Sanctions, appeal : {"none", "pending", "granted", "denied"},
                    revision : 0..MaxRevision]
    BY DEF TypeInv, Rows
  <2>2. 1 \in 0..MaxRevision /\ "owner_escalation" \in Statuses
    BY DEF Statuses
  <2>3. inc' = [inc EXCEPT ![i] = [inc[i] EXCEPT !.status = "owner_escalation", !.revision = 1]]
    BY <1>2 DEF FileReport, TypeInv, Rows
  <2>4. inc' \in IncType
    BY <2>1, <2>2, <2>3 DEF IncType, TypeInv, Rows
  <2>5. \A j \in Incidents : Filed(j) => Filed(j)'
    BY <2>3, <2>1 DEF Filed, TypeInv, Rows
  <2>6. QED
    BY <1>2, <2>4, <2>5 DEF FileReport, TypeInv, Rows, DeskFiled, IncType, history
<1>3. ASSUME NEW i \in Incidents, Appeal(i)  PROVE TypeInv'
  <2>1. inc[i] \in [status : Statuses \cup {"unfiled"}, action : Actions,
                    sanction : Sanctions, appeal : {"none", "pending", "granted", "denied"},
                    revision : 0..MaxRevision]
    BY DEF TypeInv, Rows
  <2>2. inc[i].revision + 1 \in 0..MaxRevision /\ "appeal_pending" \in Statuses
    BY <1>3, <2>1 DEF Appeal, Statuses
  <2>3. inc' = [inc EXCEPT ![i] = [inc[i] EXCEPT !.status = "appeal_pending",
                                     !.appeal = "pending", !.revision = inc[i].revision + 1]]
    BY <1>3 DEF Appeal, TypeInv, Rows
  <2>4. inc' \in IncType
    BY <2>1, <2>2, <2>3 DEF IncType, TypeInv, Rows
  <2>5. \A j \in Incidents : Filed(j) => Filed(j)'
    BY <2>3, <2>1 DEF Filed, TypeInv, Rows
  <2>6. QED
    BY <1>3, <2>4, <2>5 DEF Appeal, TypeInv, Rows, DeskFiled, IncType, history
<1>4. ASSUME NEW m \in Moderators, NEW i \in Incidents, Read(m, i)  PROVE TypeInv'
  BY <1>4 DEF Read, Idle, TypeInv, Rows, DeskFiled, Filed, history
<1>5. ASSUME NEW m \in Moderators, NEW i \in Incidents, StartDismissal(m, i)  PROVE TypeInv'
  <2>1. desk' = [desk EXCEPT ![m] = [desk[m] EXCEPT !.phase = "locked"]]
    BY <1>5 DEF StartDismissal
  <2>2. desk[m] \in DeskType /\ desk[m].phase = "read"
    BY <1>5 DEF StartDismissal, Locked, TypeInv, Rows, DeskType
  <2>3. desk' \in [Moderators -> DeskType]
    BY <2>1, <2>2 DEF TypeInv, Rows, DeskType
  <2>4. DeskFiled'
    BY <1>5, <2>1, <2>2 DEF StartDismissal, DeskFiled, Filed, TypeInv, Rows, DeskType
  <2>5. QED
    BY <1>5, <2>3, <2>4 DEF StartDismissal, TypeInv, Rows, DeskType, history
<1>6. ASSUME NEW m \in Moderators, NEW i \in Incidents, DecisionStep(m, i)  PROVE TypeInv'
  BY <1>6, DecisionType
<1>7. ASSUME NEW m \in Moderators, CountDismissals(m)  PROVE TypeInv'
  <2>1. Cardinality(OtherDismissals(desk[m].incident)) \in Nat
    <3>1. OtherDismissals(desk[m].incident) \subseteq Incidents  BY DEF OtherDismissals
    <3>2. QED  BY <3>1, FS_Subset, FS_CardinalityType
  <2>2. PICK n \in Nat : desk' = [desk EXCEPT ![m] = [desk[m] EXCEPT !.phase = "counted",
                                                                   !.others = n]]
    BY <1>7, <2>1 DEF CountDismissals, TypeInv, Rows
  <2>3. desk[m] \in DeskType /\ desk[m].phase = "locked"
    BY <1>7 DEF CountDismissals, TypeInv, Rows, DeskType
  <2>4. desk' \in [Moderators -> DeskType]
    BY <2>2, <2>3 DEF TypeInv, Rows, DeskType
  <2>5. DeskFiled'
    BY <1>7, <2>2, <2>3 DEF CountDismissals, DeskFiled, Filed, TypeInv, Rows, DeskType
  <2>6. QED
    BY <1>7, <2>4, <2>5 DEF CountDismissals, TypeInv, Rows, DeskType, history
<1>8. ASSUME NEW m \in Moderators, NEW status \in Statuses, FinishDismissal(m, status)
      PROVE TypeInv'
  BY <1>8, FinishType
<1>9. ASSUME NEW a \in Agents, LapseAgent(a)  PROVE TypeInv'
  BY <1>9 DEF LapseAgent, Bars, TypeInv, Rows, DeskFiled, Filed, history
<1>10. ASSUME NEW o \in Owners, LapseOwner(o)  PROVE TypeInv'
  BY <1>10 DEF LapseOwner, Bars, TypeInv, Rows, DeskFiled, Filed, history
<1>11. ASSUME UNCHANGED vars  PROVE TypeInv'
  BY <1>11 DEF vars, TypeInv, Rows, DeskFiled, Filed
<1>12. QED
  BY <1>1, <1>2, <1>3, <1>4, <1>5, <1>6, <1>7, <1>8, <1>9, <1>10, <1>11 DEF Next, DecisionStep

-----------------------------------------------------------------------------
(* Rows held *)

(* A decision about i: no other row changes, it stays filed, it is in      *)
(* closed when it is resolved, and its moderator is done.                  *)
Judged(m, i) ==
  /\ Done(m) /\ Filed(i) /\ UNCHANGED filing
  /\ inc'[i].status \in Statuses
  /\ \A j \in Incidents \ {i} : inc'[j] = inc[j]
  /\ closed' = IF inc'[i].status = "resolved" THEN closed \cup {i} ELSE closed

(* Writing a decision judges the incident. *)
LEMMA DecideJudges ==
  ASSUME Inv, NEW m \in Moderators, NEW i \in Incidents, NEW status \in Statuses,
         NEW action, NEW sanction, NEW appeal, Filed(i), UNCHANGED filing, Done(m),
         Decide(i, status, action, sanction, appeal)
  PROVE  Judged(m, i)
BY DEF Decide, Judged, Inv, TypeInv, Rows

(* Each decision judges an incident whose row nobody holds. *)
LEMMA DecisionJudges ==
  ASSUME Inv, NEW m \in Moderators, NEW i \in Incidents, DecisionStep(m, i)
  PROVE  Judged(m, i) /\ RowFree(i)
<1>1. PICK status \in Statuses :
         \/ Note(m, i, status) \/ Warn(m, i, status)
         \/ \E kind \in {"temporary", "permanent"} :
              RestrictAgent(m, i, kind, status) \/ RestrictOwner(m, i, kind, status)
         \/ GrantAppeal(m, i, status) \/ DenyAppeal(m, i, status)
  BY DEF DecisionStep
<1>2. Locked(m, i) /\ Done(m) /\ UNCHANGED filing
  BY <1>1 DEF Note, Warn, RestrictAgent, RestrictOwner, GrantAppeal, DenyAppeal
<1>3. Filed(i) /\ RowFree(i)
  BY <1>2 DEF Locked, Inv, TypeInv, DeskFiled
<1>4. \E action, sanction, appeal : Decide(i, status, action, sanction, appeal)
  BY <1>1 DEF Note, Warn, RestrictAgent, RestrictOwner, GrantAppeal, DenyAppeal
<1>5. QED  BY <1>2, <1>3, <1>4, DecideJudges

(* So does a malicious dismissal, of the incident held. *)
LEMMA FinishJudges ==
  ASSUME Inv, NEW m \in Moderators, NEW status \in Statuses, FinishDismissal(m, status)
  PROVE  desk[m].incident \in Incidents /\ Judged(m, desk[m].incident)
<1>1. desk[m].incident \in Incidents /\ Filed(desk[m].incident)
  BY DEF FinishDismissal, Inv, TypeInv, DeskFiled
<1>2. QED  BY <1>1, DecideJudges DEF FinishDismissal

(* Judging an incident that nobody else holds leaves the held rows alone. *)
LEMMA JudgedHolds ==
  ASSUME Inv, NEW m \in Moderators, NEW i \in Incidents, Judged(m, i),
         \A n \in Moderators \ {m} : Holds(n) => desk[n].incident # i
  PROVE  HoldInv'
<1>1. desk' = [desk EXCEPT ![m] = Idle] /\ Idle.phase = "idle"
  BY DEF Judged, Done, Idle
<1>2. \A n \in Moderators : desk'[n].phase \in {"locked", "counted"} => n # m /\ desk'[n] = desk[n]
  BY <1>1 DEF Inv, TypeInv, Rows
<1>3. \A n \in Moderators \ {m} : Holds(n) =>
        desk[n].incident \in Incidents /\ inc'[desk[n].incident] = inc[desk[n].incident]
  BY DEF Judged, Holds, Inv, TypeInv, DeskFiled
<1>4. QED  BY <1>2, <1>3 DEF HoldInv, Holds, Inv

(* Every step leaves a held row to its holder. *)
LEMMA NextHold ==
  ASSUME Inv, [Next]_vars
  PROVE  HoldInv'
<1> USE DEF Inv
<1>1. ASSUME NEW i \in Incidents, CheckReport(i)  PROVE HoldInv'
  BY <1>1 DEF CheckReport, HoldInv, Holds
<1>2. ASSUME NEW i \in Incidents, FileReport(i)  PROVE HoldInv'
  <2>1. \A m \in Moderators : Holds(m) =>
          desk[m].incident \in Incidents /\ desk[m].incident # i
    BY <1>2 DEF FileReport, DuplicateInv, TypeInv, DeskFiled, Holds
  <2>2. \A j \in Incidents \ {i} : inc'[j] = inc[j]
    BY <1>2 DEF FileReport, TypeInv, Rows
  <2>3. desk' = desk
    BY <1>2 DEF FileReport
  <2>4. QED  BY <2>1, <2>2, <2>3 DEF HoldInv, Holds
<1>3. ASSUME NEW i \in Incidents, Appeal(i)  PROVE HoldInv'
  <2>1. \A m \in Moderators : Holds(m) =>
          desk[m].incident \in Incidents /\ desk[m].incident # i
    BY <1>3 DEF Appeal, RowFree, TypeInv, DeskFiled, Holds
  <2>2. \A j \in Incidents \ {i} : inc'[j] = inc[j]
    BY <1>3 DEF Appeal, TypeInv, Rows
  <2>3. desk' = desk
    BY <1>3 DEF Appeal
  <2>4. QED  BY <2>1, <2>2, <2>3 DEF HoldInv, Holds
<1>4. ASSUME NEW m \in Moderators, NEW i \in Incidents, Read(m, i)  PROVE HoldInv'
  <2>1. \A n \in Moderators : Holds(n)' => n # m /\ desk'[n] = desk[n] /\ Holds(n)
    BY <1>4 DEF Read, Idle, Holds, TypeInv, Rows
  <2>2. QED  BY <1>4, <2>1 DEF Read, HoldInv
<1>5. ASSUME NEW m \in Moderators, NEW i \in Incidents, StartDismissal(m, i)  PROVE HoldInv'
  <2>1. \A n \in Moderators \ {m} : desk'[n] = desk[n] /\ (Holds(n) => desk[n].incident # i)
    BY <1>5 DEF StartDismissal, Locked, RowFree, Holds, TypeInv, Rows
  <2>2. /\ desk'[m].incident = i /\ inc[i].revision < MaxRevision
        /\ inc[i].revision = desk'[m].revision
    BY <1>5 DEF StartDismissal, Locked, TypeInv, Rows
  <2>3. QED  BY <1>5, <2>1, <2>2 DEF StartDismissal, HoldInv, Holds
<1>6. ASSUME NEW m \in Moderators, NEW i \in Incidents, DecisionStep(m, i)  PROVE HoldInv'
  <2>1. Judged(m, i) /\ RowFree(i)  BY <1>6, DecisionJudges
  <2>2. \A n \in Moderators \ {m} : Holds(n) => desk[n].incident # i
    BY <2>1 DEF RowFree, Holds
  <2>3. QED  BY <2>1, <2>2, JudgedHolds
<1>7. ASSUME NEW m \in Moderators, CountDismissals(m)  PROVE HoldInv'
  <2>1. \A n \in Moderators : 
          /\ desk'[n].incident = desk[n].incident /\ desk'[n].revision = desk[n].revision
          /\ Holds(n)' => Holds(n)
    BY <1>7 DEF CountDismissals, Holds, TypeInv, Rows
  <2>2. inc' = inc
    BY <1>7 DEF CountDismissals
  <2>3. \A n \in Moderators : Holds(n)' =>
          /\ inc'[desk'[n].incident].revision = desk'[n].revision
          /\ inc'[desk'[n].incident].revision < MaxRevision
    BY <2>1, <2>2 DEF HoldInv
  <2>4. \A n, k \in Moderators :
          Holds(n)' /\ Holds(k)' /\ desk'[k].incident = desk'[n].incident => k = n
    BY <2>1 DEF HoldInv
  <2>5. QED  BY <2>3, <2>4 DEF HoldInv
<1>8. ASSUME NEW m \in Moderators, NEW status \in Statuses, FinishDismissal(m, status)
      PROVE HoldInv'
  <2>1. desk[m].incident \in Incidents /\ Judged(m, desk[m].incident)
    BY <1>8, FinishJudges
  <2>2. \A n \in Moderators \ {m} : Holds(n) => desk[n].incident # desk[m].incident
    BY <1>8 DEF FinishDismissal, HoldInv, Holds
  <2>3. QED  BY <2>1, <2>2, JudgedHolds
<1>9. ASSUME \E a \in Agents : LapseAgent(a)  PROVE HoldInv'
  BY <1>9 DEF LapseAgent, HoldInv, Holds
<1>10. ASSUME \E o \in Owners : LapseOwner(o)  PROVE HoldInv'
  BY <1>10 DEF LapseOwner, HoldInv, Holds
<1>11. ASSUME UNCHANGED vars  PROVE HoldInv'
  BY <1>11 DEF vars, HoldInv, Holds
<1>12. QED
  BY <1>1, <1>2, <1>3, <1>4, <1>5, <1>6, <1>7, <1>8, <1>9, <1>10, <1>11 DEF Next, DecisionStep

-----------------------------------------------------------------------------
(* Duplicate reports *)

(* An incident that was filed and keeps every row's openness, or was       *)
(* closed before, makes no duplicate. *)
LEMMA JudgedDuplicate ==
  ASSUME Inv, NEW m \in Moderators, NEW i \in Incidents, Judged(m, i)
  PROVE  DuplicateInv'
<1>1. \A j \in Incidents : Filed(j)' <=> Filed(j)
  BY DEF Judged, Filed, Statuses
<1>2. \A j \in Incidents : OpenReport(j)' => OpenReport(j) \/ j \in closed
  BY <1>1 DEF Judged, OpenReport, Inv, DuplicateInv
<1>3. closed \subseteq closed' /\ closed' \subseteq closed \cup {i}
  BY DEF Judged
<1>4. \A j \in Incidents : inc'[j].status = "resolved" => j \in closed'
  BY <1>3 DEF Judged, Inv, DuplicateInv
<1>5. \A j \in closed' : Filed(j)'
  BY <1>1, <1>3 DEF Judged, Inv, DuplicateInv, TypeInv, Rows
<1>6. filing' = filing /\ filing \subseteq Incidents
  BY DEF Judged, Inv, TypeInv, Rows
<1>7. (\A j \in filing : ~Filed(j))'
  BY <1>1, <1>6 DEF Inv, DuplicateInv
<1>8. NoDuplicateOpen'
  BY <1>2, <1>3 DEF NoDuplicateOpen, Inv, DuplicateInv
<1>9. \A k \in filing', j \in Incidents :
        PairOf[k] = PairOf[j] /\ OpenReport(j)' => j \in closed'
  BY <1>2, <1>3, <1>6 DEF Inv, DuplicateInv
<1>10. \A k, j \in filing' : Reporter[k] = Reporter[j] => k = j
  BY <1>6 DEF Inv, DuplicateInv
<1>11. QED  BY <1>4, <1>5, <1>7, <1>8, <1>9, <1>10 DEF DuplicateInv

(* No step makes a duplicate. *)
LEMMA NextDuplicate ==
  ASSUME Inv, [Next]_vars
  PROVE  DuplicateInv'
<1> USE DEF Inv
<1>1. ASSUME NEW i \in Incidents, CheckReport(i)  PROVE DuplicateInv'
  <2>1. inc' = inc /\ closed' = closed /\ filing' = filing \cup {i} /\ ~Filed(i)
    BY <1>1 DEF CheckReport, history
  <2>2. \A j \in filing : Reporter[j] # Reporter[i]
    BY <1>1 DEF CheckReport
  <2>3. \A j \in Incidents : PairOf[i] = PairOf[j] => ~OpenReport(j)
    BY <1>1 DEF CheckReport
  <2>4. QED
    BY <2>1, <2>2, <2>3 DEF DuplicateInv, NoDuplicateOpen, OpenReport, Filed
<1>2. ASSUME NEW i \in Incidents, FileReport(i)  PROVE DuplicateInv'
  <2>1. /\ filing' = filing \ {i} /\ closed' = closed /\ i \in filing /\ ~Filed(i)
        /\ filing \subseteq Incidents
    BY <1>2 DEF FileReport, history, DuplicateInv, TypeInv, Rows
  <2>2. inc'[i].status = "owner_escalation" /\ \A j \in Incidents \ {i} : inc'[j] = inc[j]
    BY <1>2 DEF FileReport, TypeInv, Rows
  <2>3. \A j \in Incidents : (Filed(j)' <=> j = i \/ Filed(j))
                            /\ (OpenReport(j)' <=> j = i \/ OpenReport(j))
    BY <2>2 DEF Filed, OpenReport
  <2>4. \A j \in filing : j # i => PairOf[j] # PairOf[i]
    BY <2>1, ModerationAssumption DEF DuplicateInv
  <2>5. \A j \in Incidents : inc'[j].status = "resolved" => j \in closed'
    BY <2>1, <2>2 DEF DuplicateInv
  <2>6. \A j \in closed' : Filed(j)'
    BY <2>1, <2>3 DEF DuplicateInv, TypeInv, Rows
  <2>7. \A k \in filing', j \in Incidents :
          PairOf[k] = PairOf[j] /\ OpenReport(j)' => j \in closed'
    BY <2>1, <2>3, <2>4 DEF DuplicateInv
  <2>8. NoDuplicateOpen'
    BY <2>1, <2>3 DEF DuplicateInv, NoDuplicateOpen
  <2>9. (\A j \in filing : ~Filed(j))' /\ \A k, j \in filing' : Reporter[k] = Reporter[j] => k = j
    BY <2>1, <2>3 DEF DuplicateInv
  <2>10. QED  BY <2>5, <2>6, <2>7, <2>8, <2>9 DEF DuplicateInv
<1>3. ASSUME NEW i \in Incidents, Appeal(i)  PROVE DuplicateInv'
  <2>1. filing' = filing /\ closed' = closed /\ Filed(i)
    BY <1>3 DEF Appeal, history
  <2>2. inc'[i].status = "appeal_pending" /\ \A j \in Incidents \ {i} : inc'[j] = inc[j]
    BY <1>3 DEF Appeal, TypeInv, Rows
  <2>3. \A j \in Incidents : Filed(j)' <=> Filed(j)
    BY <2>1, <2>2 DEF Filed
  <2>4. \A j \in Incidents : OpenReport(j)' => OpenReport(j) \/ j \in closed
    BY <2>1, <2>2, <2>3 DEF OpenReport, DuplicateInv
  <2>5. filing \subseteq Incidents /\ closed \subseteq Incidents
    BY DEF TypeInv, Rows
  <2>6. \A j \in Incidents : inc'[j].status = "resolved" => j \in closed'
    BY <2>1, <2>2 DEF DuplicateInv
  <2>7. NoDuplicateOpen'
    BY <2>1, <2>4 DEF DuplicateInv, NoDuplicateOpen
  <2>8. (\A j \in filing : ~Filed(j))' /\ (\A j \in closed : Filed(j))'
    BY <2>1, <2>3, <2>5 DEF DuplicateInv
  <2>9. \A k \in filing', j \in Incidents :
          PairOf[k] = PairOf[j] /\ OpenReport(j)' => j \in closed'
    BY <2>1, <2>4 DEF DuplicateInv
  <2>10. QED  BY <2>1, <2>6, <2>7, <2>8, <2>9 DEF DuplicateInv
<1>4. ASSUME NEW m \in Moderators, NEW i \in Incidents, DecisionStep(m, i)  PROVE DuplicateInv'
  BY <1>4, DecisionJudges, JudgedDuplicate
<1>5. ASSUME NEW m \in Moderators, NEW status \in Statuses, FinishDismissal(m, status)
      PROVE DuplicateInv'
  BY <1>5, FinishJudges, JudgedDuplicate
<1>6. ASSUME UNCHANGED <<inc, filing, closed>>  PROVE DuplicateInv'
  BY <1>6 DEF DuplicateInv, NoDuplicateOpen, OpenReport, Filed
<1>7. ASSUME NEW m \in Moderators, NEW i \in Incidents, Read(m, i) \/ StartDismissal(m, i)
      PROVE DuplicateInv'
  BY <1>7, <1>6 DEF Read, StartDismissal, history
<1>8. ASSUME NEW m \in Moderators, CountDismissals(m)  PROVE DuplicateInv'
  BY <1>8, <1>6 DEF CountDismissals, history
<1>9. ASSUME (\E a \in Agents : LapseAgent(a)) \/ (\E o \in Owners : LapseOwner(o))
      PROVE DuplicateInv'
  BY <1>9, <1>6 DEF LapseAgent, LapseOwner, history
<1>10. ASSUME UNCHANGED vars  PROVE DuplicateInv'
  BY <1>10, <1>6 DEF vars
<1>11. QED
  BY <1>1, <1>2, <1>3, <1>4, <1>5, <1>7, <1>8, <1>9, <1>10 DEF Next, DecisionStep

-----------------------------------------------------------------------------
(* Theorems *)

(* At first nothing is filed and no desk is taken. *)
LEMMA InitInv == Init => Inv
<1> SUFFICES ASSUME Init PROVE Inv
  OBVIOUS
<1>1. Unfiled \in [status : Statuses \cup {"unfiled"}, action : Actions, sanction : Sanctions,
                   appeal : {"none", "pending", "granted", "denied"}, revision : 0..MaxRevision]
  BY ModerationAssumption DEF Unfiled, Actions, Sanctions
<1>2. Idle \in DeskType
  BY ModerationAssumption DEF Idle, DeskType
<1>3. Rows
  BY <1>1, <1>2 DEF Init, Rows, Bars, DeskType
<1>4. \A i \in Incidents : ~Filed(i) /\ inc[i].status = "unfiled"
  BY DEF Init, Filed, Unfiled
<1>5. \A m \in Moderators : desk[m].phase = "idle"
  BY DEF Init, Idle
<1>6. QED
  BY <1>3, <1>4, <1>5 DEF Inv, TypeInv, DeskFiled, HoldInv, Holds, DuplicateInv,
     NoDuplicateOpen, OpenReport, Init

(* The incidents, restrictions and desks keep their types, and a dismissal *)
(* under way has its incident to itself: SELECT .. FOR UPDATE. *)
THEOREM TypeCorrect == Spec => []TypeOK
<1>1. Inv /\ [Next]_vars => Inv'
  BY NextType, NextHold, NextDuplicate DEF Inv
<1>2. Inv => TypeOK
  BY DEF Inv, TypeInv, HoldInv, Holds, TypeOK
<1>3. QED  BY InitInv, <1>1, <1>2, PTL DEF Spec

(* Two unresolved reports of one reporter about one target include one     *)
(* that was resolved and opened again: the quota lock that POST            *)
(* /v1/reports holds keeps two new ones apart. *)
THEOREM DuplicateCorrect == Spec => []NoDuplicateOpen
<1>1. Inv /\ [Next]_vars => Inv'
  BY NextType, NextHold, NextDuplicate DEF Inv
<1>2. Inv => NoDuplicateOpen
  BY DEF Inv, DuplicateInv
<1>3. QED  BY InitInv, <1>1, <1>2, PTL DEF Spec

-----------------------------------------------------------------------------
(* Warnings *)

(* Neither property is inductive.  A warning is decided on a count read    *)
(* earlier, which the lock on the reporter's owner keeps true: one         *)
(* dismissal at a time has counted for a reporter, and while one has found *)
(* no other there is none.                                                 *)
WarningInv ==
  /\ \A m, n \in Moderators :
       /\ desk[m].phase = "counted" /\ desk[n].phase = "counted"
       /\ Reporter[desk[m].incident] = Reporter[desk[n].incident]
       => m = n
  /\ \A m \in Moderators :
       desk[m].phase = "counted" /\ desk[m].others = 0 =>
         OtherDismissals(desk[m].incident) = {}
  /\ OneWarning

(* A step after which no incident is newly dismissed as malicious or       *)
(* spared and no dismissal newly counts.                                   *)
NoneDismissed ==
  /\ \A i \in Incidents : inc'[i].action = "dismissed_malicious" =>
       inc[i].action = "dismissed_malicious"
  /\ spared' = spared
  /\ \A m \in Moderators : desk'[m].phase = "counted" => desk'[m] = desk[m]

(* Such a step keeps the warnings apart.                                   *)
LEMMA NoneDismissedWarning ==
  ASSUME Inv, WarningInv, NoneDismissed
  PROVE  WarningInv'
<1>1. \A i : OtherDismissals(i)' \subseteq OtherDismissals(i)
  BY DEF NoneDismissed, OtherDismissals
<1>2. OneWarning'
  BY DEF NoneDismissed, WarningInv, OneWarning, Inv, TypeInv, Rows
<1>3. \A m \in Moderators :
        desk'[m].phase = "counted" /\ desk'[m].others = 0 =>
          OtherDismissals(desk[m].incident)' = {}
  BY <1>1 DEF NoneDismissed, WarningInv
<1>4. \A m, n \in Moderators :
        /\ desk'[m].phase = "counted" /\ desk'[n].phase = "counted"
        /\ Reporter[desk'[m].incident] = Reporter[desk'[n].incident]
        => m = n
  BY DEF NoneDismissed, WarningInv
<1> QED
  BY <1>2, <1>3, <1>4 DEF WarningInv

(* A moderator who is done counts nothing any more.                        *)
LEMMA DoneUncounted ==
  ASSUME Inv, NEW m \in Moderators, Done(m)
  PROVE  \A n \in Moderators : desk'[n].phase = "counted" => n # m /\ desk'[n] = desk[n]
BY DEF Done, Idle, Inv, TypeInv, Rows

(* The decisions but the malicious dismissal.                              *)
LEMMA DecisionNoneDismissed ==
  ASSUME Inv, NEW m \in Moderators, NEW i \in Incidents, DecisionStep(m, i)
  PROVE  NoneDismissed
<1>1. PICK status \in Statuses :
         \/ Note(m, i, status) \/ Warn(m, i, status)
         \/ \E kind \in {"temporary", "permanent"} :
              RestrictAgent(m, i, kind, status) \/ RestrictOwner(m, i, kind, status)
         \/ GrantAppeal(m, i, status) \/ DenyAppeal(m, i, status)
  BY DEF DecisionStep
<1>2. Done(m) /\ spared' = spared
  BY <1>1 DEF Note, Warn, RestrictAgent, RestrictOwner, GrantAppeal, DenyAppeal
<1>3. PICK action, sanction, appeal :
        /\ Decide(i, status, action, sanction, appeal)
        /\ action = "dismissed_malicious" => inc[i].action = "dismissed_malicious"
  BY <1>1 DEF Note, Warn, RestrictAgent, RestrictOwner, GrantAppeal, DenyAppeal
<1>4. \A j \in Incidents : inc'[j].action = "dismissed_malicious" =>
        inc[j].action = "dismissed_malicious"
  BY <1>3 DEF Decide, Inv, TypeInv, Rows
<1> QED
  BY <1>2, <1>4, DoneUncounted DEF NoneDismissed

(* A count is taken under the lock of the reporter's owner.                *)
LEMMA CountWarning ==
  ASSUME Inv, WarningInv, NEW m \in Moderators, CountDismissals(m)
  PROVE  WarningInv'
<1> DEFINE i == desk[m].incident
<1>1. /\ inc' = inc /\ spared' = spared
      /\ \A n \in Moderators \ {m} : desk'[n] = desk[n]
      /\ desk'[m].incident = i /\ desk'[m].others = Cardinality(OtherDismissals(i))
      /\ \A n \in Moderators : desk[n].phase = "counted" => Reporter[desk[n].incident] # Reporter[i]
  BY DEF CountDismissals, history, OwnerRowFree, Inv, TypeInv, Rows
<1>2. IsFiniteSet(OtherDismissals(i))
  <2>1. OtherDismissals(i) \subseteq Incidents
    BY DEF OtherDismissals
  <2> QED
    BY <2>1, FS_Subset, ModerationAssumption
<1>3. desk'[m].others = 0 => OtherDismissals(i) = {}
  BY <1>1, <1>2, FS_EmptySet
<1>4. \A j : OtherDismissals(j)' = OtherDismissals(j)
  BY <1>1 DEF OtherDismissals
<1>5. \A n \in Moderators :
        desk'[n].phase = "counted" /\ desk'[n].others = 0 =>
          OtherDismissals(desk[n].incident)' = {}
  BY <1>1, <1>3, <1>4 DEF WarningInv
<1>6. \A n, k \in Moderators :
        /\ desk'[n].phase = "counted" /\ desk'[k].phase = "counted"
        /\ Reporter[desk'[n].incident] = Reporter[desk'[k].incident]
        => n = k
  <2> HIDE DEF i
  <2> QED
    BY <1>1 DEF WarningInv
<1>7. OneWarning'
  BY <1>1 DEF WarningInv, OneWarning
<1> QED
  BY <1>5, <1>6, <1>7 DEF WarningInv

(* The dismissal itself: a warning is given only if no other stands, and   *)
(* no other dismissal of the reporter has counted meanwhile.               *)
LEMMA FinishWarning ==
  ASSUME Inv, WarningInv, NEW m \in Moderators, NEW status \in Statuses,
         FinishDismissal(m, status)
  PROVE  WarningInv'
<1> DEFINE i == desk[m].incident
<1>1. /\ i \in Incidents /\ desk[m].phase = "counted" /\ Done(m)
      /\ \A j \in Incidents \ {i} : inc'[j] = inc[j]
      /\ spared' = IF desk[m].others = 0 THEN spared \cup {i} ELSE spared \ {i}
  BY FinishJudges DEF FinishDismissal, Judged
<1>2. \A n \in Moderators : desk'[n].phase = "counted" =>
        n # m /\ desk'[n] = desk[n] /\ Reporter[desk[n].incident] # Reporter[i]
  BY <1>1, DoneUncounted DEF WarningInv
<1>3. \A j \in Incidents : Reporter[j] # Reporter[i] =>
        OtherDismissals(j)' = OtherDismissals(j)
  BY <1>1 DEF OtherDismissals
<1>4. \A n \in Moderators : desk[n].phase = "counted" => desk[n].incident \in Incidents
  BY DEF Inv, TypeInv, DeskFiled
<1>5. \A n \in Moderators :
        desk'[n].phase = "counted" /\ desk'[n].others = 0 =>
          OtherDismissals(desk[n].incident)' = {}
  BY <1>2, <1>3, <1>4 DEF WarningInv
<1>6. \A n, k \in Moderators :
        /\ desk'[n].phase = "counted" /\ desk'[k].phase = "counted"
        /\ Reporter[desk'[n].incident] = Reporter[desk'[k].incident]
        => n = k
  BY <1>2 DEF WarningInv
<1>7. OneWarning'
  <2> SUFFICES ASSUME NEW j \in spared', NEW k \in spared',
                      inc'[j].action = "dismissed_malicious",
                      inc'[k].action = "dismissed_malicious",
                      Reporter[j] = Reporter[k]
               PROVE  j = k
    BY DEF OneWarning
  <2>1. spared \subseteq Incidents
    BY DEF Inv, TypeInv, Rows
  <2>2. CASE desk[m].others = 0
    <3>1. OtherDismissals(i) = {}
      BY <1>1, <2>2 DEF WarningInv
    <3>2. ASSUME NEW l \in spared, l # i, inc[l].action = "dismissed_malicious"
          PROVE  Reporter[l] # Reporter[i]
      BY <2>1, <3>1, <3>2 DEF OtherDismissals
    <3>3. CASE j = i \/ k = i
      BY <1>1, <2>1, <2>2, <3>2, <3>3
    <3>4. CASE j # i /\ k # i
      BY <1>1, <2>1, <2>2, <3>4 DEF WarningInv, OneWarning
    <3> QED
      BY <3>3, <3>4
  <2>3. CASE desk[m].others # 0
    BY <1>1, <2>1, <2>3 DEF WarningInv, OneWarning
  <2> QED
    BY <2>2, <2>3
<1> QED
  BY <1>5, <1>6, <1>7 DEF WarningInv

(* Every step keeps the warnings apart.                                    *)
LEMMA NextWarning ==
  ASSUME Inv, WarningInv, [Next]_vars
  PROVE  WarningInv'
<1>1. ASSUME NEW i \in Incidents, CheckReport(i) \/ FileReport(i) \/ Appeal(i)
      PROVE  NoneDismissed
  BY <1>1 DEF CheckReport, FileReport, Appeal, history, NoneDismissed, Inv, TypeInv, Rows
<1>2. ASSUME NEW m \in Moderators, NEW i \in Incidents, Read(m, i)  PROVE NoneDismissed
  BY <1>2 DEF Read, Idle, history, NoneDismissed, Inv, TypeInv, Rows
<1>3. ASSUME NEW m \in Moderators, NEW i \in Incidents, StartDismissal(m, i)
      PROVE  NoneDismissed
  BY <1>3 DEF StartDismissal, history, NoneDismissed, Inv, TypeInv, Rows
<1>4. ASSUME (\E a \in Agents : LapseAgent(a)) \/ (\E o \in Owners : LapseOwner(o))
      PROVE  NoneDismissed
  BY <1>4 DEF LapseAgent, LapseOwner, history, NoneDismissed
<1>5. ASSUME UNCHANGED vars  PROVE NoneDismissed
  BY <1>5 DEF vars, NoneDismissed
<1> QED
  BY <1>1, <1>2, <1>3, <1>4, <1>5, NoneDismissedWarning, DecisionNoneDismissed,
     CountWarning, FinishWarning DEF Next, DecisionStep

-----------------------------------------------------------------------------
(* Appeals *)

(* The revision counts every change: what a moderator has read at the      *)
(* incident's present revision is the incident as it is, its appeal too.   *)
ReadInv ==
  \A m \in Moderators : desk[m].phase # "idle" =>
    /\ desk[m].revision <= inc[desk[m].incident].revision
    /\ desk[m].revision = inc[desk[m].incident].revision =>
         desk[m].appeal = inc[desk[m].incident].appeal

(* One incident gets its next revision, and nobody reads meanwhile.        *)
Bumps(i) ==
  /\ inc'[i].revision = inc[i].revision + 1
  /\ \A j \in Incidents \ {i} : inc'[j] = inc[j]
  /\ \A m \in Moderators : desk'[m].phase # "idle" => desk'[m] = desk[m]

(* What was read before is then out of date.                               *)
LEMMA BumpsRead ==
  ASSUME Inv, ReadInv, NEW i \in Incidents, Bumps(i)
  PROVE  ReadInv'
<1> SUFFICES ASSUME NEW m \in Moderators, desk'[m].phase # "idle"
             PROVE  /\ desk'[m].revision <= inc'[desk'[m].incident].revision
                    /\ desk'[m].revision = inc'[desk'[m].incident].revision =>
                         desk'[m].appeal = inc'[desk'[m].incident].appeal
  BY DEF ReadInv
<1>1. desk'[m] = desk[m] /\ desk[m].phase # "idle"
  BY DEF Bumps
<1>2. desk[m].incident \in Incidents
  BY <1>1 DEF Inv, TypeInv, DeskFiled
<1>3. inc[i].revision \in Nat /\ desk[m].revision \in Nat
  BY DEF Inv, TypeInv, Rows
<1>4. CASE desk[m].incident = i
  <2>1. desk[m].revision <= inc[i].revision
    BY <1>1, <1>4 DEF ReadInv
  <2>2. desk[m].revision < inc[i].revision + 1
    BY <1>3, <2>1
  <2> QED
    BY <1>1, <1>3, <1>4, <2>2 DEF Bumps
<1>5. CASE desk[m].incident # i
  <2>1. inc'[desk[m].incident] = inc[desk[m].incident]
    BY <1>2, <1>5 DEF Bumps
  <2> QED
    BY <1>1, <2>1 DEF ReadInv
<1> QED
  BY <1>4, <1>5

(* Every decision takes the next revision.                                 *)
LEMMA DecideBumps ==
  ASSUME Inv, NEW m \in Moderators, NEW i \in Incidents, NEW status, NEW action,
         NEW sanction, NEW appeal, Decide(i, status, action, sanction, appeal), Done(m)
  PROVE  Bumps(i)
<1>1. inc'[i].revision = inc[i].revision + 1 /\ \A j \in Incidents \ {i} : inc'[j] = inc[j]
  BY DEF Decide, Inv, TypeInv, Rows
<1>2. \A n \in Moderators : desk'[n].phase # "idle" => desk'[n] = desk[n]
  BY DEF Done, Idle, Inv, TypeInv, Rows
<1> QED
  BY <1>1, <1>2 DEF Bumps

(* What decides about an incident: a decision on the revision read, or the *)
(* end of a dismissal that has kept the row since.                         *)
LEMMA DecisionReads ==
  ASSUME Inv, ReadInv, NEW m \in Moderators, NEW i \in Incidents,
         DecisionStep(m, i)
  PROVE  /\ Bumps(i)
         /\ desk[m].incident = i /\ desk[m].appeal = inc[i].appeal
<1>1. PICK status \in Statuses :
         \/ Note(m, i, status) \/ Warn(m, i, status)
         \/ \E kind \in {"temporary", "permanent"} :
              RestrictAgent(m, i, kind, status) \/ RestrictOwner(m, i, kind, status)
         \/ GrantAppeal(m, i, status) \/ DenyAppeal(m, i, status)
  BY DEF DecisionStep
<1>2. Locked(m, i) /\ Done(m)
  BY <1>1 DEF Note, Warn, RestrictAgent, RestrictOwner, GrantAppeal, DenyAppeal
<1>3. \E action, sanction, appeal : Decide(i, status, action, sanction, appeal)
  BY <1>1 DEF Note, Warn, RestrictAgent, RestrictOwner, GrantAppeal, DenyAppeal
<1>4. Bumps(i)
  BY <1>2, <1>3, DecideBumps
<1>5. desk[m].incident = i /\ desk[m].appeal = inc[i].appeal
  BY <1>2 DEF Locked, ReadInv
<1> QED
  BY <1>4, <1>5

(* The same of a malicious dismissal.                                      *)
LEMMA FinishReads ==
  ASSUME Inv, ReadInv, NEW m \in Moderators, NEW status \in Statuses,
         FinishDismissal(m, status)
  PROVE  /\ desk[m].incident \in Incidents /\ Bumps(desk[m].incident)
         /\ desk[m].appeal = inc[desk[m].incident].appeal
<1>1. desk[m].incident \in Incidents
  BY FinishJudges
<1>2. Bumps(desk[m].incident)
  BY <1>1, DecideBumps DEF FinishDismissal
<1>3. desk[m].appeal = inc[desk[m].incident].appeal
  BY DEF FinishDismissal, Inv, HoldInv, Holds, ReadInv
<1> QED
  BY <1>1, <1>2, <1>3

(* Every step keeps what was read in step with the revisions.              *)
LEMMA NextRead ==
  ASSUME Inv, ReadInv, [Next]_vars
  PROVE  ReadInv'
<1>1. ASSUME UNCHANGED <<inc, desk>>  PROVE ReadInv'
  BY <1>1 DEF ReadInv
<1>2. ASSUME NEW i \in Incidents, FileReport(i)  PROVE ReadInv'
  <2>1. /\ desk' = desk /\ ~Filed(i)
        /\ \A j \in Incidents \ {i} : inc'[j] = inc[j]
    BY <1>2 DEF FileReport, Inv, DuplicateInv, TypeInv, Rows
  <2>2. \A m \in Moderators : desk[m].phase # "idle" =>
          desk[m].incident \in Incidents \ {i}
    BY <2>1 DEF Inv, TypeInv, DeskFiled
  <2> QED
    BY <2>1, <2>2 DEF ReadInv
<1>3. ASSUME NEW i \in Incidents, Appeal(i)  PROVE ReadInv'
  <2>1. Bumps(i)
    BY <1>3 DEF Appeal, Bumps, Inv, TypeInv, Rows
  <2> QED
    BY <2>1, BumpsRead
<1>4. ASSUME NEW m \in Moderators, NEW i \in Incidents, Read(m, i)  PROVE ReadInv'
  <2>1. /\ inc' = inc /\ \A n \in Moderators \ {m} : desk'[n] = desk[n]
        /\ desk'[m].incident = i /\ desk'[m].revision = inc[i].revision
        /\ desk'[m].appeal = inc[i].appeal
    BY <1>4 DEF Read, Idle, Inv, TypeInv, Rows
  <2>2. inc[i].revision \in Nat
    BY DEF Inv, TypeInv, Rows
  <2> QED
    BY <2>1, <2>2 DEF ReadInv
<1>5. ASSUME NEW m \in Moderators,
             CountDismissals(m) \/ \E i \in Incidents : StartDismissal(m, i)
      PROVE  ReadInv'
  <2>1. /\ inc' = inc /\ desk[m].phase # "idle"
        /\ \A n \in Moderators \ {m} : desk'[n] = desk[n]
        /\ desk'[m].incident = desk[m].incident /\ desk'[m].revision = desk[m].revision
        /\ desk'[m].appeal = desk[m].appeal
    BY <1>5 DEF CountDismissals, StartDismissal, Locked, Inv, TypeInv, Rows
  <2> QED
    BY <2>1 DEF ReadInv
<1>6. ASSUME NEW m \in Moderators, NEW i \in Incidents, DecisionStep(m, i)  PROVE ReadInv'
  BY <1>6, DecisionReads, BumpsRead
<1>7. ASSUME NEW m \in Moderators, NEW status \in Statuses, FinishDismissal(m, status)
      PROVE  ReadInv'
  BY <1>7, FinishReads, BumpsRead
<1>8. ASSUME \/ \E i \in Incidents : CheckReport(i)
             \/ \E a \in Agents : LapseAgent(a)
             \/ \E o \in Owners : LapseOwner(o)
             \/ UNCHANGED vars
      PROVE  ReadInv'
  BY <1>1, <1>8 DEF CheckReport, LapseAgent, LapseOwner, vars
<1> QED
  BY <1>2, <1>3, <1>4, <1>5, <1>6, <1>7, <1>8 DEF Next, DecisionStep

(* One step of AppealIsRead, for one incident.                             *)
AppealRead(i) ==
  inc[i].status = "appeal_pending" /\ inc[i].appeal = "pending"
  /\ inc'[i].status # "appeal_pending"
  => \E m \in Moderators : desk[m].incident = i /\ desk[m].appeal = "pending"

(* No step takes an appeal off the list unread.                            *)
LEMMA NextAppealRead ==
  ASSUME Inv, ReadInv, Next, NEW i \in Incidents
  PROVE  AppealRead(i)
<1>1. ASSUME inc'[i] = inc[i]  PROVE AppealRead(i)
  BY <1>1 DEF AppealRead
<1>2. ASSUME NEW j \in Incidents, FileReport(j)  PROVE AppealRead(i)
  <2>1. ~Filed(j) /\ (i # j => inc'[i] = inc[i])
    BY <1>2 DEF FileReport, Inv, DuplicateInv, TypeInv, Rows
  <2> QED
    BY <1>1, <2>1 DEF Filed, AppealRead
<1>3. ASSUME NEW j \in Incidents, Appeal(j)  PROVE AppealRead(i)
  <2>1. inc'[i] = inc[i] \/ inc'[i].status = "appeal_pending"
    BY <1>3 DEF Appeal, Inv, TypeInv, Rows
  <2> QED
    BY <2>1 DEF AppealRead
<1>4. ASSUME NEW m \in Moderators, NEW j \in Incidents, DecisionStep(m, j)
      PROVE  AppealRead(i)
  BY <1>1, <1>4, DecisionReads DEF Bumps, AppealRead
<1>5. ASSUME NEW m \in Moderators, NEW status \in Statuses, FinishDismissal(m, status)
      PROVE  AppealRead(i)
  BY <1>1, <1>5, FinishReads DEF Bumps, AppealRead
<1>6. ASSUME UNCHANGED inc  PROVE AppealRead(i)
  BY <1>1, <1>6
<1>7. ASSUME \/ \E j \in Incidents : CheckReport(j)
             \/ \E m \in Moderators, j \in Incidents : Read(m, j) \/ StartDismissal(m, j)
             \/ \E m \in Moderators : CountDismissals(m)
             \/ \E a \in Agents : LapseAgent(a)
             \/ \E o \in Owners : LapseOwner(o)
      PROVE  UNCHANGED inc
  BY <1>7 DEF CheckReport, Read, StartDismissal, CountDismissals, LapseAgent, LapseOwner
<1> QED
  BY <1>2, <1>3, <1>4, <1>5, <1>6, <1>7 DEF Next, DecisionStep

-----------------------------------------------------------------------------
(* One invariant for both                                                  *)
LEMMA InvNext == Inv /\ [Next]_vars => Inv'
BY NextType, NextHold, NextDuplicate DEF Inv

(* Whichever moderators dismiss reports of one reporter at the same time,  *)
(* and whatever is decided again, at most one standing malicious dismissal *)
(* of a reporter's cost it a warning only.                                 *)
THEOREM WarningCorrect == Spec => []OneWarning
<1>1. Init => WarningInv
  BY DEF Init, WarningInv, OneWarning, Idle
<1>2. Inv /\ WarningInv /\ [Next]_vars => WarningInv'
  BY NextWarning
<1>3. WarningInv => OneWarning
  BY DEF WarningInv
<1> QED
  BY <1>1, <1>2, <1>3, InitInv, InvNext, PTL DEF Spec

(* An appeal leaves the list of pending ones only by the decision of a     *)
(* moderator who read the incident with that appeal in it.                 *)
THEOREM AppealCorrect == Spec => AppealIsRead
<1>1. Init => ReadInv
  BY DEF Init, ReadInv, Idle
<1>2. Inv /\ ReadInv /\ [Next]_vars => ReadInv'
  BY NextRead
<1>3. Inv /\ ReadInv /\ [Next]_vars =>
        [\A i \in Incidents :
           inc[i].status = "appeal_pending" /\ inc[i].appeal = "pending"
           /\ inc'[i].status # "appeal_pending"
           => \E m \in Moderators : desk[m].incident = i /\ desk[m].appeal = "pending"]_vars
  BY NextAppealRead DEF AppealRead
<1> QED
  BY <1>1, <1>2, <1>3, InitInv, InvNext, PTL DEF Spec, AppealIsRead
=============================================================================
