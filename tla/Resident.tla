------------------------------- MODULE Resident -------------------------------
(***************************************************************************)
(* olimpyx resident act: how a decision of the host is carried out once,   *)
(* within the budget of its experiment, by commands that may die or lose   *)
(* their answers at any step (packages/client/src/resident).  The host     *)
(* repeats a decision whose outcome it does not know, with its actionId.   *)
(* state.json, the receipts and the ledger of sends survive a death; so    *)
(* does a request that the server has not handled yet.                     *)
(***************************************************************************)
EXTENDS Naturals, FiniteSets

CONSTANTS Replies,       \* actionIds of decisions to reply
          Quiet,         \* actionIds of the other plans
          NoAction,
          MaxMessages,   \* messagesSent >= 3
          MaxTurns,      \* iteration >= 100
          MaxExperiments \* bound: experiments

Actions == Replies \cup Quiet

ASSUME ResidentAssumption ==
  /\ IsFiniteSet(Replies)
  /\ Replies \cap Quiet = {} /\ NoAction \notin Actions
  /\ MaxMessages \in Nat /\ MaxTurns \in Nat /\ MaxExperiments \in Nat \ {0}

VARIABLES experiment,  \* state.experimentId
          ended,       \* state.endedAt
          sent,        \* state.messagesSent
          turns,       \* state.iteration
          pending,     \* state.pendingAction
          results,     \* state.completedActions, of every experiment
          receipts,    \* resident-receipts
          counted,     \* send_keys of budget-ledger.json
          flying,      \* keys of requests that the server may still handle
          delivered,   \* keys of messages that the server has
          phase, action, \* the command that runs and the decision it was given
          failed,      \* the last command died or was interrupted
          wedged       \* a guard or an empty lock file was left behind

state == <<experiment, ended, sent, turns, pending, results>>
files == <<receipts, counted>>
server == <<flying, delivered>>
command == <<phase, action>>
fate == <<failed, wedged>>
vars == <<state, files, server, command, fate>>

Keys == (1..MaxExperiments) \X Actions
Key(a) == <<experiment, a>>
Phases == {"idle", "lock", "connect", "decide", "receipt", "check", "post", "posted",
           "save", "count", "complete", "refused"}

Init ==
  /\ experiment = 1 /\ ended = FALSE /\ sent = 0 /\ turns = 0
  /\ pending = NoAction
  /\ results = [k \in Keys |-> "none"]
  /\ receipts = {} /\ counted = {}
  /\ flying = {} /\ delivered = {}
  /\ phase = "idle" /\ action = NoAction
  /\ failed = FALSE /\ wedged = FALSE

Goto(from, to) == phase = from /\ phase' = to /\ UNCHANGED action
Leave == phase' = "idle" /\ action' = NoAction

-----------------------------------------------------------------------------
(* The command: withLock, connect, act                                     *)

Command(a) ==
  /\ phase = "idle" /\ ~wedged
  /\ phase' = "lock" /\ action' = a
  /\ failed' = FALSE
  /\ UNCHANGED <<state, files, server, wedged>>

Locked ==
  /\ Goto("lock", "connect")
  /\ UNCHANGED <<state, files, server, fate>>

Connect ==
  /\ phase = "connect"
  /\ IF ended THEN Leave ELSE Goto("connect", "decide")
  /\ UNCHANGED <<state, files, server, fate>>

(* A stop, a revocation, a restriction, another session or a budget of     *)
(* minutes ends the experiment, whatever is pending.                       *)
Terminal ==
  /\ phase \in {"connect", "check", "posted"}
  /\ ended' = TRUE
  /\ Leave
  /\ UNCHANGED <<experiment, sent, turns, pending, results, files, server, fate>>

(* An action that is complete is replayed, another than the pending one is *)
(* refused, and so is a reply beyond the budget: nothing changes.          *)
Decline ==
  /\ phase = "decide"
  /\ \/ results[Key(action)] # "none"
     \/ pending \notin {NoAction, action}
     \/ pending = NoAction /\ turns < MaxTurns /\ action \in Replies /\ sent >= MaxMessages
  /\ Leave
  /\ UNCHANGED <<state, files, server, fate>>

TurnBudget ==
  /\ phase = "decide"
  /\ results[Key(action)] = "none" /\ pending = NoAction /\ turns >= MaxTurns
  /\ ended' = TRUE
  /\ Leave
  /\ UNCHANGED <<experiment, sent, turns, pending, results, files, server, fate>>

AfterDecision == IF action \in Replies THEN "receipt" ELSE "complete"

(* The message is counted when the intent is saved, before it is sent.     *)
Reserve ==
  /\ Goto("decide", AfterDecision)
  /\ results[Key(action)] = "none" /\ pending = NoAction
  /\ turns < MaxTurns /\ (action \in Replies => sent < MaxMessages)
  /\ pending' = action
  /\ sent' = IF action \in Replies THEN sent + 1 ELSE sent
  /\ UNCHANGED <<experiment, ended, turns, results, files, server, fate>>

(* Mutant: a pending action is not carried on with.                        *)
ResumeDeclined ==
  /\ phase = "decide" /\ pending = action
  /\ Leave
  /\ UNCHANGED <<state, files, server, fate>>

Resume ==
  /\ pending = action
  /\ Goto("decide", AfterDecision)
  /\ UNCHANGED <<state, files, server, fate>>

-----------------------------------------------------------------------------
(* reply                                                                   *)

Receipt ==
  /\ phase = "receipt"
  /\ phase' = IF Key(action) \in receipts THEN "count" ELSE "check"
  /\ UNCHANGED <<state, files, server, action, fate>>

(* The message replied to, the room, and enforceSendBudget, which asks for *)
(* a budget that other commands of the participant use too.                *)
CheckPasses ==
  /\ Goto("check", "post")
  /\ UNCHANGED <<state, files, server, fate>>

CheckRefuses ==
  /\ Goto("check", "refused")
  /\ UNCHANGED <<state, files, server, fate>>

Post ==
  /\ Goto("post", "posted")
  /\ flying' = flying \cup {Key(action)}
  /\ UNCHANGED <<state, files, delivered, fate>>

(* The server handles a request, now or after its client has given up; one *)
(* with a key that it has handled it answers again.                        *)
Deliver(k) ==
  /\ k \in flying
  /\ flying' = flying \ {k}
  /\ delivered' = delivered \cup {k}
  /\ UNCHANGED <<state, files, command, fate>>

LoseRequest(k) ==
  /\ k \in flying
  /\ flying' = flying \ {k}
  /\ UNCHANGED <<state, files, delivered, command, fate>>

(* Mutant: a time-out counts as an answer.                                *)
AnsweredOnSend ==
  /\ Goto("posted", "save")
  /\ UNCHANGED <<state, files, server, fate>>

Answered ==
  /\ Key(action) \in delivered \ flying
  /\ Goto("posted", "save")
  /\ UNCHANGED <<state, files, server, fate>>

(* 4xx: the message is gone, or the body is not accepted.                  *)
PostRefused ==
  /\ Key(action) \in flying \ delivered
  /\ Goto("posted", "refused")
  /\ flying' = flying \ {Key(action)}
  /\ UNCHANGED <<state, files, delivered, fate>>

(* The request was lost; the action stays pending.                         *)
Timeout ==
  /\ phase = "posted" /\ Key(action) \notin flying \cup delivered
  /\ Leave
  /\ UNCHANGED <<state, files, server, fate>>

SaveReceipt ==
  /\ Goto("save", "count")
  /\ receipts' = receipts \cup {Key(action)}
  /\ UNCHANGED <<state, counted, server, fate>>

(* recordSend, keyed.                                                      *)
Count ==
  /\ Goto("count", "complete")
  /\ counted' = counted \cup {Key(action)}
  /\ UNCHANGED <<state, receipts, server, fate>>

-----------------------------------------------------------------------------
(* The outcome                                                             *)

Resolve(result) ==
  /\ results' = [results EXCEPT ![Key(action)] = result]
  /\ pending' = NoAction
  /\ turns' = turns + 1
  /\ Leave
  /\ UNCHANGED <<experiment, ended, files, server, fate>>

(* Mutant: the reservation ends with the action.                          *)
CompleteReleases ==
  /\ phase = "complete"
  /\ sent' = IF action \in Replies THEN sent - 1 ELSE sent
  /\ Resolve("done")

Complete ==
  /\ phase = "complete"
  /\ sent' = sent
  /\ Resolve("done")

(* An explore whose target is gone is refused too.                         *)
Refuse ==
  /\ phase = "refused" \/ (phase = "complete" /\ action \in Quiet)
  /\ sent' = IF action \in Replies THEN sent - 1 ELSE sent
  /\ Resolve("refused")

(* The command dies, is interrupted or gets no answer; an outcome that is  *)
(* not known leaves the action pending.  Inside withLock a death leaves a  *)
(* guard, or a lock file without an owner, that no command removes.        *)
Die ==
  /\ phase # "idle"
  /\ \/ wedged' = wedged
     \/ phase = "lock" /\ wedged' = TRUE
  /\ failed' = TRUE
  /\ Leave
  /\ UNCHANGED <<state, files, server>>

(* olimpyx resident end, and the time budget.                              *)
End ==
  /\ phase = "idle" /\ ~wedged
  /\ ended' = TRUE
  /\ UNCHANGED <<experiment, sent, turns, pending, results, files, server, command, fate>>

(* Mutant: a pending action is forgotten.                                 *)
NewExperimentAnyway ==
  /\ phase = "idle" /\ ~wedged
  /\ ended
  /\ experiment < MaxExperiments
  /\ experiment' = experiment + 1
  /\ ended' = FALSE /\ sent' = 0 /\ turns' = 0 /\ pending' = NoAction
  /\ UNCHANGED <<results, files, server, command, fate>>

(* start --new-experiment: unresolved_previous_action.                     *)
NewExperiment ==
  /\ phase = "idle" /\ ~wedged
  /\ ended /\ pending = NoAction
  /\ experiment < MaxExperiments
  /\ experiment' = experiment + 1
  /\ ended' = FALSE /\ sent' = 0 /\ turns' = 0
  /\ UNCHANGED <<pending, results, files, server, command, fate>>

-----------------------------------------------------------------------------
Decide == Decline \/ TurnBudget \/ Reserve \/ Resume
Check == CheckPasses \/ CheckRefuses
Outcome == Complete \/ Refuse
Step ==
  \/ Locked \/ Connect \/ Terminal \/ Decide \/ Receipt \/ Check \/ Post
  \/ Answered \/ PostRefused \/ Timeout \/ SaveReceipt \/ Count \/ Outcome
Server == \E k \in Keys : Deliver(k) \/ LoseRequest(k)

Next == (\E a \in Actions : Command(a)) \/ Step \/ Server \/ Die \/ End \/ NewExperiment
Spec == Init /\ [][Next]_vars

(* Commands run to their end and requests are handled once failures stop;  *)
(* the host goes on and repeats a pending decision, as its prompt tells it. *)
Fails == Die \/ \E k \in Keys : LoseRequest(k)
FairSpec ==
  /\ Spec
  /\ WF_vars(Step) /\ WF_vars(\E k \in Keys : Deliver(k))
  /\ WF_vars(\E a \in Actions : Command(a))
  /\ SF_vars(\E a \in Actions : pending = a /\ Command(a))
  /\ <>[][~Fails]_vars

-----------------------------------------------------------------------------
(* Types; a reply that is not done, refused or pending has not been sent.  *)
TypeOK ==
  /\ experiment \in 1..MaxExperiments /\ ended \in BOOLEAN
  /\ sent \in 0..MaxMessages /\ turns \in 0..MaxTurns
  /\ pending \in Actions \cup {NoAction}
  /\ results \in [Keys -> {"none", "done", "refused"}]
  /\ UNION {receipts, counted, flying, delivered} \subseteq (1..MaxExperiments) \X Replies
  /\ phase \in Phases /\ action \in Actions \cup {NoAction}
  /\ failed \in BOOLEAN /\ wedged \in BOOLEAN

(* A message that the server has, or that may still reach it, belongs to a *)
(* decision with an outcome or to the pending one of this experiment: a    *)
(* retry is always possible with its key, and no experiment leaves behind  *)
(* one that it could not account for.                                      *)
NothingForgotten ==
  \A k \in flying \cup delivered : results[k] # "none" \/ k = Key(pending)

(* A reply is reported done only when the server has it, with a receipt    *)
(* and counted in the ledger; nothing is counted that was not delivered.   *)
DoneIsTrue ==
  /\ counted \subseteq receipts /\ receipts \subseteq delivered
  /\ \A k \in Keys : results[k] = "done" /\ k[2] \in Replies => k \in counted

Messages == {a \in Replies : Key(a) \in flying \cup delivered}

(* At most MaxMessages of an experiment reach the server, except those     *)
(* that were reported refused: a message that was refused after it had     *)
(* reached the server is the only one the cap does not count.              *)
CapHolds ==
  Cardinality({a \in Messages : results[Key(a)] # "refused"}) <= MaxMessages

(* packages/client/README.md:111, resident-runtime.mjs:155: three outgoing *)
(* messages including recovery; an ambiguous outcome does not bypass it.   *)
MessageCap == Cardinality({a \in Replies : Key(a) \in delivered}) <= MaxMessages

(* While the experiment goes on and its lock works, a pending action gets  *)
(* its outcome.                                                            *)
PendingResolves ==
  \A a \in Actions : pending = a ~> pending = NoAction \/ ended \/ wedged
=============================================================================
