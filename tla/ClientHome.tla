------------------------------ MODULE ClientHome ------------------------------
(* The directory that a caller of the command line keeps in a participant     *)
(* home (packages/client/src/state.js) and the commands that use it (cli.js):  *)
(* its session, the credential of it and the keys of requests that have no     *)
(* answer yet.  Commands are processes of their own; none takes a lock, and    *)
(* one may die, be refused by the server or get no answer at any step.         *)
(* Left out: how options are read and answers printed; --idempotency-key,      *)
(* which leaves the file of keys alone; and the cursor (see Listening).        *)
EXTENDS Integers, FiniteSets

CONSTANTS
  Commands,      \* commands under way at a time
  Callers, Requests, None,
  MaxCommands    \* bound: commands in a behaviour

VARIABLES
  home,          \* of each caller: [there, meta, lease, credential, pending]
  command,       \* of each command: [phase, caller, form, request, meta, pending, key]
  begun,         \* commands begun; a command's sessions and keys are its number
  done,          \* keys of requests that the server carried out
  open,          \* history: those of a request since it was answered last
  disturbed      \* history: callers whose files a stale copy or a death spoiled
homeVars == <<home, command, begun, done, open, disturbed>>

NoKeys == [r \in Requests |-> 0]
NoHome == [there |-> FALSE, meta |-> 0, lease |-> "over", credential |-> 0, pending |-> NoKeys]
Idle == [phase |-> "idle", caller |-> None, form |-> {}, request |-> None,
         meta |-> 0, pending |-> NoKeys, key |-> 0]
InSession == [NoHome EXCEPT !.there = TRUE, !.meta = 1, !.credential = 1, !.lease = "live"]
Init ==
  /\ \E held \in SUBSET Callers :
       home = [c \in Callers |-> IF c \in held THEN InSession ELSE NoHome]
  /\ command = [p \in Commands |-> Idle]
  /\ begun = 1 /\ done = {} /\ disturbed = {}
  /\ open = [c \in Callers |-> [r \in Requests |-> {}]]

Caller(p) == command[p].caller
Home(p) == home[Caller(p)]
Goto(p, from, to) ==
  /\ command[p].phase = from
  /\ command' = [command EXCEPT ![p].phase = to]
Done(p) == command' = [command EXCEPT ![p] = Idle]
Disturb(p, stale) == disturbed' = IF stale THEN disturbed \cup {Caller(p)} ELSE disturbed

------------------------------------------------------------------------------
(* What the commands do besides: renew the lease and send a heartbeat, ask     *)
(* the local budget, keep a key until the answer, and tell where the agent is. *)
(* Those with a lease alone send what they send without a key, reads and       *)
(* changes alike; the owner's commands, which have no session, are left out.   *)
Post == {"lease", "policy", "keyed", "announced"}
Keyed == {"lease", "keyed"}
Unkeyed == {"lease"}
Announced == {"lease", "announced"}
Message == Post
ForumAsk == Post
Inbox == Announced
KnowledgeInspect == Announced
KnowledgeCard == Keyed
KnowledgeReview == Keyed
MemorySave == Keyed
MemoryConsolidate == Keyed
RoomCommand == Keyed
TaskDecline == Keyed
Request == Keyed
KnowledgeArchive == Unkeyed
KnowledgeList == Unkeyed
MemoryCommand == Unkeyed
ReadRoom == Unkeyed
Report == Unkeyed
ForumList == Unkeyed
ForumResolve == Unkeyed
Subscribe == Unkeyed
Recommendations == Unkeyed
Usage == Unkeyed
Forms == {Message, ForumAsk, Inbox, KnowledgeInspect, KnowledgeCard, KnowledgeReview,
          MemorySave, MemoryConsolidate, RoomCommand, TaskDecline, Request,
          KnowledgeArchive, KnowledgeList, MemoryCommand, ReadRoom, Report,
          ForumList, ForumResolve, Subscribe, Recommendations, Usage}

Begins(p, c, phase, form, r) ==
  /\ command[p].phase = "idle" /\ begun < MaxCommands /\ begun' = begun + 1
  /\ command' = [command EXCEPT ![p] = [Idle EXCEPT
       !.phase = phase, !.caller = c, !.form = form, !.request = r,
       !.meta = home[c].meta, !.key = begun + 1]]
  /\ UNCHANGED <<home, done, open, disturbed>>

(* activeClient(): there is a session and its lease is not over; what was      *)
(* read is written back with a new lease.                                      *)
Command(p, c) ==
  /\ home[c].meta # 0 /\ home[c].credential # 0 /\ home[c].lease = "live"
  /\ \E f \in Forms : \E r \in (IF "keyed" \in f THEN Requests ELSE {None}) :
       Begins(p, c, "loaded", f, r)
Renew(p) ==
  LET again == command[p].phase = "announce" IN
  /\ command[p].phase \in {"loaded", "announce"}
  /\ home' = [home EXCEPT ![Caller(p)].there = TRUE, ![Caller(p)].meta = command[p].meta,
                          ![Caller(p)].lease = "live"]
  /\ Disturb(p, Home(p).meta # command[p].meta)
  /\ IF again THEN Done(p)
     ELSE IF "keyed" \in command[p].form THEN Goto(p, "loaded", "keying")
     ELSE IF "announced" \in command[p].form THEN Goto(p, "loaded", "answered")
     ELSE Done(p)
  /\ UNCHANGED <<begun, done, open>>

------------------------------------------------------------------------------
(* mutation(): beginMutation() finds the key of the request or makes one and   *)
(* writes all keys it read back, before the request is sent.                   *)
LoadKeys(p) ==
  /\ command[p].phase = "keying"
  /\ LET found == Home(p).pending[command[p].request]
     IN command' = [command EXCEPT ![p].phase = IF found = 0 THEN "store" ELSE "keyed",
                      ![p].key = IF found = 0 THEN @ ELSE found, ![p].pending = Home(p).pending]
  /\ UNCHANGED <<home, begun, done, open, disturbed>>
WriteKeys(p, key, other) ==
  /\ home' = [home EXCEPT ![Caller(p)].there = TRUE,
                ![Caller(p)].pending = [command[p].pending EXCEPT ![command[p].request] = key]]
  /\ Disturb(p, other \/ Home(p).pending # command[p].pending)
StoreKey(p) ==
  /\ Goto(p, "store", "keyed")
  /\ WriteKeys(p, command[p].key, FALSE)
  /\ UNCHANGED <<begun, done, open>>

(* The server carries a request out once per key, and answers or does not.     *)
CarryOut(p) ==
  LET key == command[p].key c == Caller(p) r == command[p].request IN
  /\ Goto(p, "keyed", "sent")
  /\ done' = done \cup {key}
  /\ open' = IF key \in done THEN open ELSE [open EXCEPT ![c][r] = @ \cup {key}]
  /\ UNCHANGED <<home, begun, disturbed>>
Answer(p) ==
  /\ command[p].phase = "sent"
  /\ open' = [open EXCEPT ![Caller(p)][command[p].request] = {}]
  /\ command' = [command EXCEPT ![p].phase = "complete", ![p].pending = Home(p).pending]
  /\ UNCHANGED <<home, begun, done, disturbed>>

(* completeMutation(): the key that is found goes, which may be the one of     *)
(* another command; a post then tells where the agent is.                      *)
CompleteMutation(p) ==
  /\ command[p].phase = "complete"
  /\ WriteKeys(p, 0, Home(p).pending[command[p].request] \notin {0, command[p].key})
  /\ IF "announced" \in command[p].form THEN Goto(p, "complete", "answered") ELSE Done(p)
  /\ UNCHANGED <<begun, done, open>>
BroadcastActivity(p) ==
  /\ command[p].phase = "answered"
  /\ IF Home(p).lease = "live" /\ Home(p).meta # 0
     THEN command' = [command EXCEPT ![p].phase = "announce", ![p].meta = Home(p).meta]
     ELSE Done(p)
  /\ UNCHANGED <<home, begun, done, open, disturbed>>

------------------------------------------------------------------------------
(* session begin: the server's session, its credential, its metadata and then  *)
(* the directories that are of no use any more.                                *)
SessionBegin(p, c) == Begins(p, c, "begun", {}, None)
SaveCredential(p) ==
  /\ Goto(p, "begun", "credential")
  /\ home' = [home EXCEPT ![Caller(p)].there = TRUE, ![Caller(p)].credential = command[p].key]
  /\ UNCHANGED <<begun, done, open, disturbed>>
SaveSession(p) ==
  /\ command[p].phase = "credential"
  /\ IF Home(p).there
     THEN /\ Goto(p, "credential", "prune")
          /\ home' = [home EXCEPT ![Caller(p)].meta = command[p].key, ![Caller(p)].lease = "live"]
     ELSE Done(p) /\ UNCHANGED home
  /\ Disturb(p, Home(p).credential # command[p].key)
  /\ UNCHANGED <<begun, done, open>>

SessionEnd(p, c) == home[c].meta # 0 /\ home[c].credential # 0 /\ Begins(p, c, "end", {}, None)
ClearSession(p) ==
  /\ Goto(p, "end", "prune")
  /\ home' = [home EXCEPT ![Caller(p)].meta = 0, ![Caller(p)].credential = 0]
  /\ Disturb(p, Home(p).meta # command[p].meta)
  /\ UNCHANGED <<begun, done, open>>

(* Mutant: the keys of requests without an answer do not keep a directory.     *)
RemovableWithKeys(h) == h.there /\ (h.meta # 0 => h.lease = "aged")
Removable(h) == h.there /\ (h.meta # 0 => h.lease = "aged") /\ h.pending = NoKeys

(* pruneCallers(): it looks at each directory, and removes it later.           *)
SessionPrune(p, c) == Begins(p, c, "prune", {}, None)
Look(p, c) ==
  /\ command[p].phase = "prune" /\ Removable(home[c])
  /\ command' = [command EXCEPT ![p].phase = "remove", ![p].caller = c,
                   ![p].meta = home[c].credential, ![p].pending = home[c].pending]
  /\ UNCHANGED <<home, begun, done, open, disturbed>>
Remove(p) ==
  /\ Goto(p, "remove", "prune")
  /\ home' = [home EXCEPT ![Caller(p)] = NoHome]
  /\ Disturb(p, \/ Home(p).pending # command[p].pending \/ Home(p).credential # command[p].meta
                \/ Home(p).lease = "live")
  /\ UNCHANGED <<begun, done, open>>

(* A command ends, fails, gets no answer or dies; the lease of a session runs  *)
(* out, and a day later its directory is of no use.                            *)
Stop(p) ==
  /\ command[p].phase # "idle"
  /\ Done(p) /\ Disturb(p, command[p].phase = "credential")
  /\ UNCHANGED <<home, begun, done, open>>
Pass(c) ==
  /\ home[c].meta # 0 /\ home[c].lease # "aged"
  /\ home' = [home EXCEPT ![c].lease = IF @ = "live" THEN "over" ELSE "aged"]
  /\ UNCHANGED <<command, begun, done, open, disturbed>>

Next ==
  \/ \E p \in Commands :
       \/ Renew(p) \/ LoadKeys(p) \/ StoreKey(p) \/ CarryOut(p) \/ Answer(p)
       \/ CompleteMutation(p) \/ BroadcastActivity(p)
       \/ SaveCredential(p) \/ SaveSession(p) \/ ClearSession(p) \/ Remove(p) \/ Stop(p)
       \/ \E c \in Callers :
            \/ Command(p, c) \/ SessionBegin(p, c) \/ SessionEnd(p, c) \/ SessionPrune(p, c)
            \/ Look(p, c)
  \/ \E c \in Callers : Pass(c)
Spec == Init /\ [][Next]_homeVars

------------------------------------------------------------------------------
TypeOK ==
  /\ \A c \in Callers : /\ home[c].meta \in 0..begun /\ home[c].credential \in 0..begun
                        /\ \A r \in Requests : home[c].pending[r] \in 0..begun
                        /\ ~home[c].there => home[c] = [NoHome EXCEPT !.lease = home[c].lease]
  /\ done \subseteq 1..begun /\ disturbed \subseteq Callers

(* A request without an answer waits for its retry under the key it was        *)
(* carried out with, through deaths, ended sessions and the pruning of homes:  *)
(* so a retry never does it twice.  Only a copy of the file that another       *)
(* command had changed since, or a removal after the look, loses the key.      *)
RetriedOnce ==
  \A c \in Callers \ disturbed : \A r \in Requests :
    open[c][r] # {} => open[c][r] = {home[c].pending[r]}

(* A caller whose files no stale copy or death spoiled has metadata and a      *)
(* credential of one session, whenever none of its commands is between them.   *)
SessionWhole ==
  \A c \in Callers \ disturbed :
    \/ home[c].meta = home[c].credential
    \/ \E p \in Commands : command[p].phase = "credential" /\ Caller(p) = c
==============================================================================
