-------------------------------- MODULE Tasks --------------------------------
(* Tasks between participants (apps/server/src/app.ts): creation under the    *)
(* lock agent:<assignee>, the assignee's changes and the creator's cancel    *)
(* under the lock of the row, and what the inboxes of the two are told.      *)
(*                                                                          *)
(* A request is let in by principal() and served later: its actor, or the    *)
(* assignee it names, may be revoked or restricted in between.               *)
(* Left out: the idempotency keys (Idempotency) and quotas (Quotas).         *)
EXTENDS Integers, FiniteSets

CONSTANTS
  Agents,      \* agents: they create tasks and are assigned to them
  Owners,      \* owners: they create tasks
  TaskIds,     \* tasks, each made by one request at most
  Requests,    \* requests under way at a time
  Creators,    \* bound: the parties that create tasks
  Results,     \* bound: which of completed and failed an assignee reports
  Fickle,      \* bound: the parties that are barred or let back
  Cap,         \* limits.capacity.open_tasks_per_assignee, not 0
  Nobody       \* null

Parties == Agents \cup Owners
ASSUME TasksAssumption ==
  /\ Cap \in Nat \ {0} /\ IsFiniteSet(TaskIds)
  /\ Nobody \notin Parties /\ Agents \cap Owners = {}
  /\ Creators \cup Fickle \subseteq Parties /\ Results \subseteq {"completed", "failed"}

VARIABLES
  task,        \* the rows: [status, creator, assignee]
  job,         \* requests under way: [phase, who, task, wish]
  barred,      \* parties that are revoked or restricted
  known        \* history: the status each party last set or was told in its inbox
taskVars == <<task, job, barred, known>>

Terminal == {"completed", "failed", "cancelled"}
Statuses == {"proposed", "accepted", "in_progress"} \cup Terminal
Wishes == Agents \cup {"accepted", "in_progress", "decline", "cancel"} \cup Results

NoTask == [status |-> "none", creator |-> Nobody, assignee |-> Nobody]
NoJob == [phase |-> "idle", who |-> Nobody, task |-> Nobody, wish |-> Nobody]
Exists(t) == task[t].status # "none"
OpenTask(t) == Exists(t) /\ task[t].status \notin Terminal
OpenTasks(a) == {t \in TaskIds : OpenTask(t) /\ task[t].assignee = a}
Claimed(t) == Exists(t) \/ \E r \in Requests : job[r].task = t

TasksInit ==
  /\ task = [t \in TaskIds |-> NoTask]
  /\ job = [r \in Requests |-> NoJob]
  /\ barred = {}
  /\ known = [t \in TaskIds |-> [p \in Parties |-> "none"]]

------------------------------------------------------------------------------
(* principal(): the actor is neither revoked nor restricted.                *)
Admit(r, who, t, wish) ==
  /\ job[r].phase = "idle" /\ who \notin barred
  /\ wish \in Agents => who \in Creators /\ ~Claimed(t)
  /\ wish \notin Agents => Exists(t) /\ (wish # "cancel" => who \in Agents)
  /\ job' = [job EXCEPT ![r] = [phase |-> "admitted", who |-> who, task |-> t, wish |-> wish]]
  /\ UNCHANGED <<task, barred, known>>

(* Every early return and error: nothing has been written.                  *)
Refuse(r) ==
  /\ job[r].phase # "idle"
  /\ job' = [job EXCEPT ![r] = NoJob]
  /\ UNCHANGED <<task, barred, known>>

(* POST /v1/rooms/:roomId/tasks: the assignee is available when it is read. *)
CheckAssignee(r) ==
  /\ job[r].phase = "admitted" /\ job[r].wish \in Agents \ barred
  /\ job' = [job EXCEPT ![r].phase = "checked"]
  /\ UNCHANGED <<task, barred, known>>

(* The lock agent:<assignee> is held from the count to the commit.          *)
Counting(a) == {r \in Requests : job[r].phase = "counted" /\ job[r].wish = a}
(* Mutant: the open tasks are counted without the lock.                     *)
CountOpenUnlocked(r) ==
  /\ job[r].phase = "checked"
  /\ Cardinality(OpenTasks(job[r].wish)) < Cap
  /\ job' = [job EXCEPT ![r].phase = "counted"]
  /\ UNCHANGED <<task, barred, known>>
CountOpen(r) ==
  /\ job[r].phase = "checked" /\ Counting(job[r].wish) = {}
  /\ Cardinality(OpenTasks(job[r].wish)) < Cap
  /\ job' = [job EXCEPT ![r].phase = "counted"]
  /\ UNCHANGED <<task, barred, known>>

(* taskEvent(): the recipient's inbox tells it the new status.              *)
Tell(t, status, parties) ==
  known' = [known EXCEPT ![t] = [p \in Parties |-> IF p \in parties THEN status ELSE @[p]]]

Create(r) ==
  LET t == job[r].task IN
  /\ job[r].phase = "counted"
  /\ task' = [task EXCEPT ![t] = [status |-> "proposed", creator |-> job[r].who,
                                  assignee |-> job[r].wish]]
  /\ Tell(t, "proposed", {job[r].who, job[r].wish})
  /\ job' = [job EXCEPT ![r] = NoJob]
  /\ UNCHANGED barred

(* SELECT ... FOR UPDATE, the checks and the UPDATE of one row.             *)
Change(r, status, told) ==
  LET t == job[r].task IN
  /\ task' = [task EXCEPT ![t].status = status]
  /\ Tell(t, status, told)
  /\ job' = [job EXCEPT ![r] = NoJob]
  /\ UNCHANGED barred

(* Mutant: a creator of the same kind as the assignee is taken for itself.  *)
OthersThanAnyAgent(who, party) == {who} \cup ({party} \ Agents)
(* The one who acts knows; the other party has an event.                    *)
Others(who, party) == {who, party}

(* Mutant: a task is declined at any time.                                  *)
MayBecomeAny(t, wish) == Exists(t)
(* PATCH /v1/tasks/:taskId, a decline being the status cancelled.           *)
MayBecome(t, wish) ==
  /\ OpenTask(t)
  /\ wish = "decline" => task[t].status \in {"proposed", "accepted"}

Update(r) ==
  LET t == job[r].task who == job[r].who wish == job[r].wish IN
  /\ job[r].phase = "admitted" /\ wish \notin Agents \cup {"cancel"}
  /\ task[t].assignee = who /\ MayBecome(t, wish)
  /\ Change(r, IF wish = "decline" THEN "cancelled" ELSE wish, Others(who, task[t].creator))

(* POST /v1/tasks/:taskId/cancel.                                           *)
Cancel(r) ==
  LET t == job[r].task who == job[r].who IN
  /\ job[r].phase = "admitted" /\ job[r].wish = "cancel"
  /\ task[t].creator = who /\ OpenTask(t)
  /\ Change(r, "cancelled", Others(who, task[t].assignee))

(* Revocations, restrictions and their end (AgentLifecycle, Moderation).    *)
Bar(p) == /\ barred' = IF p \in barred THEN barred \ {p} ELSE barred \cup {p}
          /\ UNCHANGED <<task, job, known>>

TasksNext ==
  \/ \E r \in Requests, who \in Parties, t \in TaskIds, wish \in Wishes : Admit(r, who, t, wish)
  \/ \E r \in Requests : \/ Refuse(r) \/ CheckAssignee(r) \/ CountOpen(r) \/ Create(r)
                         \/ Update(r) \/ Cancel(r)
  \/ \E p \in Fickle : Bar(p)
TasksSpec == TasksInit /\ [][TasksNext]_taskVars

------------------------------------------------------------------------------
(* Types, and what a request under way is about.                            *)
TasksTypeOK ==
  /\ task \in [TaskIds -> {NoTask} \cup [status : Statuses, creator : Parties, assignee : Agents]]
  /\ job \in [Requests -> {NoJob} \cup [phase : {"admitted", "checked", "counted"},
                                        who : Parties, task : TaskIds, wish : Wishes]]
  /\ barred \subseteq Parties
  /\ known \in [TaskIds -> [Parties -> {"none"} \cup Statuses]]

(* An assignee never has more open tasks than the cap, whatever creations   *)
(* overlap and whenever it is restricted.                                   *)
CapacityHolds == \A a \in Agents : Cardinality(OpenTasks(a)) <= Cap

(* Both parties know the status of a task, from their own act or an event.  *)
BothKnow ==
  \A t \in TaskIds : Exists(t) =>
    known[t][task[t].creator] = task[t].status /\ known[t][task[t].assignee] = task[t].status

(* A task that is completed, failed or cancelled stays so, whichever of     *)
(* the parties' requests come late, and nobody is swapped.                  *)
TaskStep ==
  \A t \in TaskIds : Exists(t) /\ task'[t] # task[t] =>
    /\ task[t].status \notin Terminal
    /\ task'[t].status # "proposed" /\ [task'[t] EXCEPT !.status = task[t].status] = task[t]
TaskSteps == [][TaskStep]_taskVars
==============================================================================
