--------------------------------- MODULE Inbox ---------------------------------
(***************************************************************************)
(* The inbox of one agent: the events that transactions of the server      *)
(* write, the checkpoint and retention (apps/server/src/app.ts and         *)
(* retention.ts), and the client that reads it.  Two clients read:         *)
(*   resident     olimpyx resident: a durable queue in state.json, saved   *)
(*                before the server is told                                *)
(*   participant  olimpyx session begin, wait and listen: a cursor in      *)
(*                session.json, saved before the events are printed        *)
(* An event is its sequence number, which the server takes at the INSERT,  *)
(* before the commit.  One command of a client runs at a time; it may die  *)
(* between any two of its steps.                                           *)
(***************************************************************************)
EXTENDS Naturals, FiniteSets

CONSTANTS Clients,        \* the clients that may read, one at a time
          PageLimit,      \* events of a page
          Batch,          \* events a snapshot shows and an action disposes of
          Capacity,       \* events of the resident's queue
          Recent,         \* sequence numbers that bootstrap's recent_activity goes back
          MaxSequence,    \* bound: sequence numbers
          MaxExperiments  \* bound: experiments of the resident

ASSUME InboxAssumption ==
  /\ Clients \subseteq {"resident", "participant"}
  /\ PageLimit \in Nat \ {0} /\ Batch \in Nat \ {0} /\ Capacity \in Nat \ {0}
  /\ Recent \in Nat /\ MaxSequence \in Nat /\ MaxExperiments \in Nat \ {0}

VARIABLES client,      \* who reads
          next,        \* the sequence of inbox_events
          writing,     \* events of transactions that have not committed
          inbox,       \* inbox_events
          deleted,     \* events that retention deleted
          checkpoint,  \* inbox_checkpoints.sequence
          cursor,      \* state.cursor; inbox_cursor
          queue,       \* state.pendingEvents, which is in the order of sequence
          ack,         \* state.ackPending; the cursor wait is about to send
          intent,      \* state.pendingAction.eventIds
          experiment,
          phase, page, \* the command that runs and the page it has read
          overtaken,   \* committed after a later event had; history
          skipped,     \* below the cursor a session began with; history
          received,    \* saved in the resident's queue; history
          presented,   \* printed to the host; history
          cut,         \* a command died that was about to print them; history
          handled      \* disposed of in this experiment; history

server == <<next, writing, inbox, deleted, checkpoint>>
local == <<cursor, queue, ack, intent, experiment>>
run == <<phase, page>>
history == <<overtaken, skipped, received, presented, cut, handled>>
vars == <<client, server, local, run, history>>

Phases == {"idle", "settle", "settled", "fetch", "save", "ack", "acked", "show"}
Sequences == 1..MaxSequence
Committed == inbox \cup deleted

Init ==
  /\ client \in Clients
  /\ next = 1 /\ writing = {} /\ inbox = {} /\ deleted = {} /\ checkpoint = 0
  /\ cursor = 0 /\ queue = {} /\ ack = 0 /\ intent = {} /\ experiment = 1
  /\ phase = "idle" /\ page = {}
  /\ overtaken = {} /\ skipped = {} /\ received = {} /\ presented = {} /\ cut = {}
  /\ handled = {}

(* Mutant: ORDER BY sequence DESC.                                         *)
Newest(events, n) == {e \in events : Cardinality({f \in events : f > e}) < n}

(* The n lowest of a set of events: ORDER BY sequence LIMIT n, slice(0, n). *)
Lowest(events, n) == {e \in events : Cardinality({f \in events : f < e}) < n}
IsLast(e, events) == e \in events /\ \A f \in events : f <= e

-----------------------------------------------------------------------------
(* The server *)

(* INSERT INTO inbox_events takes a number; the transaction goes on.       *)
Insert ==
  /\ next \in Sequences
  /\ next' = next + 1
  /\ writing' = writing \cup {next}
  /\ UNCHANGED <<client, inbox, deleted, checkpoint, local, run, history>>

CommitEvent(e) ==
  /\ e \in writing
  /\ writing' = writing \ {e}
  /\ inbox' = inbox \cup {e}
  /\ overtaken' = IF \E f \in Committed : f > e THEN overtaken \cup {e} ELSE overtaken
  /\ UNCHANGED <<client, next, deleted, checkpoint, local, run,
                 skipped, received, presented, cut, handled>>

(* The transaction rolls back, or its event is another actor's.            *)
RollbackEvent(e) ==
  /\ e \in writing
  /\ writing' = writing \ {e}
  /\ UNCHANGED <<client, next, inbox, deleted, checkpoint, local, run, history>>

(* pruneOnce: events past retention, up to the checkpoint.                 *)
Prune(e) ==
  /\ e \in inbox
  /\ e <= checkpoint
  /\ inbox' = inbox \ {e}
  /\ deleted' = deleted \cup {e}
  /\ UNCHANGED <<client, next, writing, checkpoint, local, run, history>>

-----------------------------------------------------------------------------
(* Reading: olimpyx resident observe, olimpyx wait and listen              *)

(* A cursor left over from an observe that died is acknowledged first.     *)
Start ==
  /\ phase = "idle"
  /\ phase' = IF ack # 0 THEN "settle" ELSE "fetch"
  /\ UNCHANGED <<client, server, local, page, history>>

AfterCursor == {e \in inbox : e > cursor}
Free == Capacity - Cardinality(queue)

Limit == IF client = "participant" \/ PageLimit <= Free THEN PageLimit ELSE Free

Fetch ==
  /\ phase = "fetch"
  /\ IF client = "resident" /\ Cardinality(queue) >= Capacity
     THEN phase' = "show" /\ UNCHANGED page
     ELSE phase' = "save" /\ page' = Lowest(AfterCursor, Limit)
  /\ UNCHANGED <<client, server, local, history>>

(* The queue, the cursor and the acknowledgement to come are one file, and *)
(* so is session.json; wait acknowledges its cursor even for no events.    *)
Save ==
  /\ phase = "save"
  /\ \E last \in page \cup {cursor} :
       /\ IF page = {} THEN last = cursor ELSE IsLast(last, page)
       /\ cursor' = last
       /\ ack' = IF client = "participant" \/ page # {} THEN last ELSE ack
  /\ phase' = IF ack' = 0 THEN "show" ELSE "ack"
  /\ IF client = "resident"
     THEN queue' = queue \cup page /\ received' = received \cup page
     ELSE UNCHANGED <<queue, received>>
  /\ UNCHANGED <<client, server, intent, experiment, page,
                 overtaken, skipped, presented, cut, handled>>

(* POST /v1/inbox/cursors: greatest(checkpoint, cursor).                   *)
Acknowledge ==
  /\ phase \in {"settle", "ack"}
  /\ checkpoint' = IF ack > checkpoint THEN ack ELSE checkpoint
  /\ phase' = IF phase = "settle" THEN "settled" ELSE "acked"
  /\ UNCHANGED <<client, next, writing, inbox, deleted, local, page, history>>

(* ackInboxCursor is best effort.                                          *)
AcknowledgeLost ==
  /\ client = "participant" /\ phase = "ack"
  /\ phase' = "acked"
  /\ UNCHANGED <<client, server, local, page, history>>

Settle ==
  /\ phase \in {"settled", "acked"}
  /\ ack' = 0
  /\ phase' = IF phase = "settled" THEN "fetch" ELSE "show"
  /\ UNCHANGED <<client, server, cursor, queue, intent, experiment, page, history>>

(* What a command prints when it ends: the snapshot, the page.             *)
Output == IF client = "resident" THEN Lowest(queue, Batch) ELSE page

Show ==
  /\ phase = "show"
  /\ presented' = presented \cup Output
  /\ phase' = "idle" /\ page' = {}
  /\ UNCHANGED <<client, server, local, overtaken, skipped, received, cut, handled>>

(* The command dies or gives up: an error, a timeout, a signal.  A wait    *)
(* that has not saved its cursor yet has taken nothing.                    *)
Die ==
  /\ phase # "idle"
  /\ phase' = "idle" /\ page' = {}
  /\ cut' = IF client = "participant" /\ phase = "save" THEN cut ELSE cut \cup Output
  /\ ack' = IF client = "resident" THEN ack ELSE 0
  /\ UNCHANGED <<client, server, cursor, queue, intent, experiment,
                 overtaken, skipped, received, presented, handled>>

(* olimpyx session begin starts at the newest event and shows the recent.  *)
Begin ==
  /\ client = "participant" /\ phase = "idle"
  /\ \E last \in inbox \cup {0} :
       /\ IF inbox = {} THEN last = 0 ELSE IsLast(last, inbox)
       /\ cursor' = last
       /\ presented' = presented \cup {e \in inbox : e + Recent > last}
       /\ skipped' = skipped \cup {e \in inbox : e + Recent <= last}
  /\ UNCHANGED <<client, server, queue, ack, intent, experiment, run,
                 overtaken, received, cut, handled>>

-----------------------------------------------------------------------------
(* Acting: olimpyx resident act, status and start                          *)

(* Mutant: the whole queue is disposed of.                                 *)
ReserveAll ==
  /\ client = "resident" /\ phase = "idle"
  /\ intent = {} /\ queue # {}
  /\ intent' = queue
  /\ UNCHANGED <<client, server, cursor, queue, ack, experiment, run, history>>

(* The intent is saved before the decision is carried out.                 *)
Reserve ==
  /\ client = "resident" /\ phase = "idle"
  /\ intent = {} /\ queue # {}
  /\ intent' = Lowest(queue, Batch)
  /\ UNCHANGED <<client, server, cursor, queue, ack, experiment, run, history>>

(* A reply, note or rest that did not fail.                                *)
Dispose ==
  /\ client = "resident" /\ phase = "idle"
  /\ intent # {}
  /\ queue' = queue \ intent
  /\ intent' = {}
  /\ handled' = handled \cup intent
  /\ phase' = "show"
  /\ UNCHANGED <<client, server, cursor, ack, experiment, page,
                 overtaken, skipped, received, presented, cut>>

(* An explore, or a reply that was refused for good.                       *)
Retain ==
  /\ client = "resident" /\ phase = "idle"
  /\ intent # {}
  /\ intent' = {}
  /\ phase' = "show"
  /\ UNCHANGED <<client, server, cursor, queue, ack, experiment, page, history>>

(* status, start and an action that is replayed print the snapshot.        *)
Status ==
  /\ client = "resident" /\ phase = "idle"
  /\ phase' = "show"
  /\ UNCHANGED <<client, server, local, page, history>>

(* start --new after the end of an experiment forgets its queue and cursor *)
(* and refuses while an action is pending.                                 *)
NewExperiment ==
  /\ client = "resident" /\ phase = "idle"
  /\ experiment < MaxExperiments
  /\ intent = {}
  /\ experiment' = experiment + 1
  /\ cursor' = 0 /\ queue' = {} /\ ack' = 0
  /\ handled' = {}
  /\ UNCHANGED <<client, server, intent, run, overtaken, skipped, received, presented, cut>>

-----------------------------------------------------------------------------
Server == Insert \/ \E e \in Sequences : CommitEvent(e) \/ RollbackEvent(e) \/ Prune(e)
Read == \/ Start \/ Fetch \/ Save \/ Acknowledge \/ AcknowledgeLost \/ Settle \/ Show \/ Die
        \/ Begin
Act == Reserve \/ Dispose \/ Retain \/ Status \/ NewExperiment

Next == Server \/ Read \/ Act
Spec == Init /\ [][Next]_vars

-----------------------------------------------------------------------------
(* Types, and the resident's queue keeps to its capacity: an observe asks  *)
(* the server for no more than still fits.                                 *)
TypeOK ==
  /\ client \in Clients
  /\ next \in 1..MaxSequence + 1
  /\ writing \subseteq 1..next - 1
  /\ inbox \subseteq 1..next - 1
  /\ deleted \subseteq 1..next - 1
  /\ {checkpoint, cursor, ack} \subseteq 0..MaxSequence
  /\ queue \subseteq Sequences /\ Cardinality(queue) <= Capacity
  /\ intent \subseteq queue
  /\ experiment \in 1..MaxExperiments
  /\ phase \in Phases
  /\ page \subseteq Sequences
  /\ \A h \in {overtaken, skipped, received, presented, cut, handled} : h \subseteq Sequences

InFlight == IF phase \in {"ack", "acked", "show"} THEN page ELSE {}
Accounted(e) ==
  \/ e \in overtaken
  \/ client = "resident" /\ e \in received
  \/ client = "participant" /\ e \in presented \cup cut \cup skipped \cup InFlight

(* An event below the reader's cursor or the checkpoint, or deleted by     *)
(* retention, has been saved in the resident's queue; for a participant it *)
(* has been printed or is about to be, or the command that had it died.    *)
(* The exceptions have names: events that committed after a later one, and *)
(* those that a session began behind.  Dying between any two of read,      *)
(* save, acknowledge and print loses the resident nothing else.            *)
NothingLost ==
  \A e \in Committed : e <= cursor \/ e <= checkpoint \/ e \in deleted => Accounted(e)

(* An action disposes only of events that a snapshot showed, or that one   *)
(* was about to show when its command died: the intent is the batch of the *)
(* snapshot even when observes have added to the queue in the meantime.    *)
HandledWereShown == handled \subseteq presented \cup cut

(* Within an experiment an event that has been disposed of does not come   *)
(* back to the queue, though pages are read again after every death.       *)
DisposedOnce == handled \cap queue = {}

(* What the resident disposes of was shown to its agent, and does not come *)
(* back (resident-runtime.mjs observe, act).                               *)
HandledOnce == HandledWereShown /\ DisposedOnce
=============================================================================
