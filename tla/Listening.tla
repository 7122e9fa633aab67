------------------------------- MODULE Listening -------------------------------
(* olimpyx listen and olimpyx wait (packages/client/src/client.js and cli.js):  *)
(* how a caller is shown the events of its inbox by commands that share one     *)
(* session.json, lose answers, are signalled, stopped by the server or die.     *)
(* Times are left out: a lease or a wait may be over at any step.               *)
EXTENDS Integers, FiniteSets, Sequences

CONSTANTS
  Commands,      \* commands under way at a time
  PageSize,      \* limit=100
  MaxRetries,    \* hbRetries < 3, retries < 3
  MaxEvents, MaxBegun,  \* bounds: events of the inbox, sessions and commands begun
  MaxTeardowns   \* bound: commands that a signal is ending at a time

ListeningAssumption == PageSize \in Nat

VARIABLES
  events,        \* events of the inbox, numbered as they come
  acked,         \* the checkpoint that the server keeps
  server,        \* the session at the server: "live" or "refused"
  session,       \* session.json and its credential: [there, cursor, lease, whole]
  listener,      \* of each command: [form, at, read, cursor, page, retries, teardown]
  begun,         \* sessions and commands begun
  shown,         \* history: events that a command printed
  dropped,       \* history: events of pages that were saved, never printed
  counted        \* history: events that a session's begin passed, never printed
listenVars == <<events, acked, server, session, listener, begun, shown, dropped, counted>>

None == 0 - 1
NoSession == [there |-> FALSE, cursor |-> 0, lease |-> FALSE, whole |-> TRUE]
Idle == [form |-> "none", at |-> 1, read |-> None, cursor |-> 0, page |-> {},
         retries |-> 0, teardown |-> "no"]
Init ==
  /\ events = 0 /\ acked = 0 /\ server = "live" /\ session = NoSession /\ begun = 0
  /\ listener = [p \in Commands |-> Idle]
  /\ shown = {} /\ dropped = {} /\ counted = {}

(* What the two commands do, in order; listen repeats the first three.         *)
Order == [listen |-> <<"heartbeat", "renew", "wait", "cursor", "ack", "save", "ack", "output">>,
          wait |-> <<"renew", "heartbeat", "wait", "save", "ack", "output">>,
          none |-> <<"none">>]
Step(p) == Order[listener[p].form][listener[p].at]
At(p, step) == Step(p) = step /\ (step = "wait" => listener[p].teardown = "no")
Set(p, next) == listener' = [listener EXCEPT ![p] = next]
Gone(p) == [Idle EXCEPT !.teardown = listener[p].teardown]
Onward(p) == [listener[p] EXCEPT !.at = @ + 1, !.retries = 0, !.read = None]

------------------------------------------------------------------------------
(* The session: begun at the newest event, with what is past the checkpoint     *)
(* counted (pending_counts of bootstrapFor()); ended by another command; what   *)
(* happens at the server; the lease that runs out.                             *)
SessionBegin ==
  /\ begun < MaxBegun /\ begun' = begun + 1
  /\ server' = "live"
  /\ session' = [there |-> TRUE, cursor |-> events, lease |-> TRUE, whole |-> TRUE]
  /\ counted' = counted \cup ((acked + 1)..events \ shown)
  /\ UNCHANGED <<events, acked, listener, shown, dropped>>
SessionEnd ==
  /\ session.there
  /\ server' = "refused" /\ session' = NoSession
  /\ UNCHANGED <<events, acked, listener, begun, shown, dropped, counted>>
(* It is stopped, superseded, restricted, revoked or expired.                  *)
Refuse ==
  /\ server = "live" /\ server' = "refused"
  /\ UNCHANGED <<events, acked, session, listener, begun, shown, dropped, counted>>
LeaseOver ==
  /\ session.lease /\ session' = [session EXCEPT !.lease = FALSE]
  /\ UNCHANGED <<events, acked, server, listener, begun, shown, dropped, counted>>
Publish ==
  /\ events < MaxEvents /\ events' = events + 1
  /\ UNCHANGED <<acked, server, session, listener, begun, shown, dropped, counted>>

Start(p, form) ==
  /\ listener[p] = Idle /\ session.there /\ session.whole /\ begun < MaxBegun
  /\ \E after \in 0..session.cursor : Set(p, [Idle EXCEPT !.form = form, !.cursor = after])
  /\ begun' = begun + 1
  /\ UNCHANGED <<events, acked, server, session, shown, dropped, counted>>

------------------------------------------------------------------------------
(* The catch: what was refused and why is printed (mapListenErrorCode()), and a *)
(* page whose cursor was saved is not any more.                                *)
Saved(p) == IF listener[p].at > 4 THEN listener[p].page ELSE {}
Fails(p) ==
  /\ Set(p, Gone(p))
  /\ dropped' = dropped \cup (Saved(p) \ shown)

(* A request with a transient error is tried again, three times.               *)
Retry(p) ==
  /\ At(p, "heartbeat") \/ At(p, "wait")
  /\ IF listener[p].retries < MaxRetries
     THEN /\ Set(p, [listener[p] EXCEPT !.retries = @ + 1])
          /\ UNCHANGED dropped
     ELSE Fails(p)
  /\ UNCHANGED <<events, acked, server, session, begun, shown, counted>>

Heartbeat(p) ==
  /\ At(p, "heartbeat")
  /\ IF server = "live" THEN Set(p, Onward(p)) /\ UNCHANGED dropped ELSE Fails(p)
  /\ UNCHANGED <<events, acked, server, session, begun, shown, counted>>

(* renewSession(): it reads, refuses when there is no session or its lease is  *)
(* over, and writes back what it read, with the cursor if it is given one.     *)
RenewRead(p) ==
  /\ Step(p) \in {"renew", "cursor", "save"} /\ listener[p].read = None
  /\ IF session.there /\ session.whole /\ session.lease
     THEN /\ Set(p, [listener[p] EXCEPT !.read = IF Step(p) = "renew" THEN session.cursor ELSE listener[p].cursor])
          /\ UNCHANGED dropped
     ELSE Fails(p)
  /\ UNCHANGED <<events, acked, server, session, begun, shown, counted>>
RenewWrite(p) ==
  /\ Step(p) \in {"renew", "cursor", "save"} /\ listener[p].read # None
  /\ session' = [there |-> TRUE, lease |-> TRUE, whole |-> session.there /\ session.whole,
                 cursor |-> listener[p].read]
  /\ Set(p, Onward(p))
  /\ UNCHANGED <<events, acked, server, begun, shown, dropped, counted>>

(* Mutant: the cursor of a page is the newest event there is.                  *)
LastOfNewest(page, cursor) == IF page = {} THEN cursor ELSE events
LastOf(page, cursor) == IF page = {} THEN cursor ELSE CHOOSE e \in page : \A f \in page : f <= e

(* The page: listen goes round again when it is empty, or gives up when its    *)
(* time is over; its cursor is saved at once when it is a new one.             *)
Wait(p) ==
  LET from == listener[p].cursor
      page == {e \in from + 1..events : e <= from + PageSize}
      got == [Onward(p) EXCEPT !.page = page, !.cursor = LastOf(page, from)]
  IN /\ At(p, "wait")
     /\ IF server # "live" THEN Fails(p)
        ELSE /\ \/ (page # {} \/ listener[p].form = "wait") /\ Set(p, got)
                \/ page = {} /\ listener[p].form = "listen"
                   /\ \/ Set(p, [got EXCEPT !.at = 1])
                      \/ Set(p, [got EXCEPT !.at = 6])
             /\ UNCHANGED dropped
     /\ UNCHANGED <<events, acked, server, session, begun, shown, counted>>

(* ackInboxCursor(): best effort; the checkpoint never goes back.              *)
Ack(p) ==
  /\ At(p, "ack")
  /\ acked' \in {acked, IF server = "live" /\ listener[p].cursor > acked
                        THEN listener[p].cursor ELSE acked}
  /\ Set(p, Onward(p))
  /\ UNCHANGED <<events, server, session, begun, shown, dropped, counted>>

Output(p) ==
  /\ At(p, "output")
  /\ shown' = shown \cup listener[p].page
  /\ dropped' = dropped \ listener[p].page /\ counted' = counted \ listener[p].page
  /\ Set(p, Gone(p))
  /\ UNCHANGED <<events, acked, server, session, begun>>

------------------------------------------------------------------------------
(* A signal to listen: a wait under way is aborted; a heartbeat or the saving  *)
(* of a cursor goes on beside the teardown, which ends the session and exits.  *)
Signal(p) ==
  /\ listener[p].form = "listen" /\ listener[p].teardown = "no"
  /\ Cardinality({q \in Commands : listener[q].teardown # "no"}) < MaxTeardowns
  /\ Set(p, [(IF Step(p) = "wait" THEN Idle ELSE listener[p]) EXCEPT !.teardown = "end"])
  /\ UNCHANGED <<events, acked, server, session, begun, shown, dropped, counted>>
TeardownEnd(p) ==
  /\ listener[p].teardown = "end"
  /\ Set(p, [listener[p] EXCEPT !.teardown = "clear"])
  /\ server' \in {server, "refused"}
  /\ UNCHANGED <<events, acked, session, begun, shown, dropped, counted>>
TeardownClear(p) ==
  /\ listener[p].teardown = "clear"
  /\ Set(p, [listener[p] EXCEPT !.teardown = "exit"])
  /\ session' = NoSession
  /\ UNCHANGED <<events, acked, server, begun, shown, dropped, counted>>
Exit(p) ==
  /\ listener[p] # Idle
  /\ Set(p, Idle) /\ dropped' = dropped \cup (Saved(p) \ shown)
  /\ UNCHANGED <<events, acked, server, session, begun, shown, counted>>

Next ==
  \/ SessionBegin \/ SessionEnd \/ LeaseOver \/ Publish \/ Refuse
  \/ \E p \in Commands :
       \/ Start(p, "listen") \/ Start(p, "wait")
       \/ Retry(p) \/ Heartbeat(p) \/ RenewRead(p) \/ RenewWrite(p) \/ Wait(p) \/ Ack(p) \/ Output(p)
       \/ Signal(p) \/ TeardownEnd(p) \/ TeardownClear(p) \/ Exit(p)
Spec == Init /\ [][Next]_listenVars

------------------------------------------------------------------------------
TypeOK ==
  /\ acked \in 0..events /\ session.cursor \in 0..events
  /\ \A p \in Commands : listener[p].page \subseteq 1..events

(* An event behind the caller's cursor or the server's checkpoint, which later *)
(* commands begin from, was printed, is about to be, was in a page whose        *)
(* command was signalled, died or failed after it saved the cursor, or was      *)
(* pending when a session began past it and counted to the caller then:         *)
(* retries, empty pages and commands that overwrite each other's cursor lose    *)
(* none.                                                                       *)
NothingMissed ==
  \A e \in 1..events :
    e <= acked \/ e <= session.cursor =>
      e \in shown \cup dropped \cup counted \/ \E p \in Commands : e \in listener[p].page
==============================================================================
