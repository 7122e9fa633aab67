-------------------------------- MODULE Ledger --------------------------------
(* The local budget of an agent (packages/client/src/budget.js): what it has   *)
(* sent in the last hour and how long its sessions were, in one file that the *)
(* resident, listen, wait, session and the commands that post read, change    *)
(* and write back without a lock.                                            *)
(* Left out: budget.json itself, errors of reading it, and who a message is    *)
(* for once the help policy has let it through.                               *)
EXTENDS Integers, FiniteSets

CONSTANTS
  Processes,     \* commands under way at a time
  Sessions,      \* sessions, of one caller or of several
  Sends,         \* messages, which a replay with its key sends again
  Limit,         \* messages_per_hour
  Hour, Day,     \* ticks
  Help,          \* "on", "contacts" or "off"
  MaxTime,       \* bound: ticks of the clock
  MaxCommands    \* bound: commands in a behaviour

LedgerAssumption ==
  /\ IsFiniteSet(Processes) /\ Processes # {} /\ IsFiniteSet(Sends)
  /\ "" \notin Sessions /\ Limit \in Nat /\ Hour \in Nat /\ Day \in Nat

VARIABLES
  now,
  ledger,        \* budget-ledger.json: [sends, session, history]
  process,       \* of each command: [phase, what, copy]
  begun,         \* commands begun
  sent,          \* history: when each message was delivered first
  observed,      \* history: of each session when it was first and last seen
  lost,          \* history: messages whose record was lost
  shuffled       \* history: sessions whose record another one replaced
ledgerVars == <<now, ledger, process, begun, sent, observed, lost, shuffled>>

NoSession == [id |-> "", from |-> 0, seen |-> 0]
Empty == [sends |-> {}, session |-> NoSession, history |-> {}]
Idle == [phase |-> "idle", what |-> "", copy |-> Empty]
Init ==
  /\ now = 1 /\ ledger = Empty /\ lost = {} /\ shuffled = {}
  /\ process = [p \in Processes |-> Idle] /\ begun = 0
  /\ sent = [n \in Sends |-> 0]
  /\ observed = [s \in Sessions |-> [first |-> 0, last |-> 0]]

Tick == /\ now < MaxTime /\ now' = now + 1
        /\ UNCHANGED <<ledger, process, begun, sent, observed, lost, shuffled>>

(* Mutant: a message stops counting a tick early.                           *)
WithinShort(sends) == {x \in sends : now - x.at < Hour - 1}
(* pruneWindow(), pruneSessionHistory()                                     *)
Within(sends) == {x \in sends : now - x.at < Hour}
Kept(history) == {h \in history : now - h.to < Day}
SentLately == {n \in Sends : sent[n] > 0 /\ now - sent[n] < Hour}

------------------------------------------------------------------------------
Set(p, phase, what, copy) ==
  process' = [process EXCEPT ![p] = [phase |-> phase, what |-> what, copy |-> copy]]

Begins == begun < MaxCommands /\ begun' = begun + 1

(* evaluateHelpPolicy(): a task room of one's own comes before the mode, and *)
(* so does a thread of one's own or of one's owner.  What cannot be found    *)
(* out is not one's own (isOwnTaskRoom(), resolveThreadAuthor()).            *)
Allowed(kind, target, ownRoom) ==
  \/ Help = "on" \/ ownRoom \/ kind = "message"
  \/ kind = "reply" /\ target \in {"self", "owner"}
  \/ kind \in {"direct", "reply"} /\ target = "contact"
  \/ kind = "forum" /\ Help = "contacts"
Drafts == {"message", "direct", "reply", "forum"}
          \X {"self", "owner", "contact", "other", "unknown"} \X BOOLEAN

MaySend == Cardinality(Within(ledger.sends)) < Limit

(* enforceSendBudget(): the hour first, then the policy, over the network.   *)
CheckSend(p) ==
  /\ process[p].phase = "idle" /\ MaySend
  /\ \E d \in Drafts : Allowed(d[1], d[2], d[3])
  /\ Set(p, "checked", "", Empty) /\ Begins
  /\ UNCHANGED <<now, ledger, sent, observed, lost, shuffled>>

(* The request succeeds; a message that was delivered is replayed by key.    *)
Deliver(p, n) ==
  /\ process[p].phase = "checked"
  /\ sent[n] = 0 \/ n \in lost
  /\ sent' = [sent EXCEPT ![n] = IF @ = 0 THEN now ELSE @]
  /\ Set(p, "delivered", n, Empty)
  /\ UNCHANGED <<now, ledger, begun, observed, lost, shuffled>>

(* recordSend(), touchSession() and recordSessionEnd() read the file ...    *)
LoadSend(p) == /\ process[p].phase = "delivered"
               /\ Set(p, "record", process[p].what, ledger)
               /\ UNCHANGED <<now, ledger, begun, sent, observed, lost, shuffled>>
LoadSession(p, s, phase) ==
  /\ process[p].phase = "idle"
  /\ Set(p, phase, s, ledger) /\ Begins
  /\ UNCHANGED <<now, ledger, sent, observed, lost, shuffled>>

(* ... and write all of it back.                                            *)
Tracked(l) == l.history \cup {l.session}
Disturbed(p) ==
  {h.id : h \in (Tracked(ledger) \ Tracked(process[p].copy))
                 \cup (Tracked(process[p].copy) \ Tracked(ledger))} \cap Sessions
Save(p, next) ==
  /\ ledger' = next
  /\ lost' = lost \cup {x.n : x \in Within(ledger.sends) \ next.sends}
  /\ Set(p, "idle", "", Empty)
  /\ UNCHANGED <<now, begun, sent>>

(* A key that is there is not counted again.                                *)
SaveSend(p) ==
  LET copy == process[p].copy n == process[p].what
      recent == Within(copy.sends)
  IN /\ process[p].phase = "record"
     /\ Save(p, [copy EXCEPT !.sends = IF \E x \in recent : x.n = n THEN recent
                                       ELSE recent \cup {[n |-> n, at |-> now]}])
     /\ shuffled' = shuffled \cup Disturbed(p)
     /\ UNCHANGED observed

Span(session, to) == [id |-> session.id, from |-> session.from, to |-> to]
Archived(copy, s) ==
  IF copy.session.id \in {s, ""} THEN copy.history
  ELSE Kept(copy.history) \cup {Span(copy.session, copy.session.seen)}

(* touchSession(), of checkSessionBudget(): a different session archives the *)
(* one tracked, up to when it was last seen.                                *)
SaveTouch(p) ==
  LET copy == process[p].copy s == process[p].what
      from == IF copy.session.id = s THEN copy.session.from ELSE now
      returns == copy.session.id # s /\ observed[s].first # 0
  IN /\ process[p].phase = "touch"
     /\ Save(p, [copy EXCEPT !.session = [id |-> s, from |-> from, seen |-> now],
                             !.history = Archived(copy, s)])
     /\ observed' = [observed EXCEPT ![s] =
          [first |-> IF @.first = 0 THEN now ELSE @.first, last |-> now]]
     /\ shuffled' = shuffled \cup Disturbed(p) \cup IF returns THEN {s} ELSE {}

(* recordSessionEnd(): nothing if another session is tracked.               *)
SaveEnd(p) ==
  LET copy == process[p].copy s == process[p].what tracked == copy.session.id = s IN
  /\ process[p].phase = "end"
  /\ IF tracked
     THEN /\ Save(p, [copy EXCEPT !.session = NoSession,
                        !.history = Kept(@) \cup {Span(copy.session, now)}])
          /\ shuffled' = shuffled \cup Disturbed(p)
     ELSE /\ Set(p, "idle", "", Empty)
          /\ UNCHANGED <<now, ledger, begun, sent, lost, shuffled>>
  /\ UNCHANGED observed

(* A command is refused, dies, or its request fails.                        *)
Stop(p) ==
  /\ process[p].phase # "idle"
  /\ lost' = IF process[p].phase \in {"delivered", "record"} THEN lost \cup {process[p].what} ELSE lost
  /\ Set(p, "idle", "", Empty)
  /\ UNCHANGED <<now, ledger, begun, sent, observed, shuffled>>

Next ==
  \/ Tick
  \/ \E p \in Processes :
       \/ CheckSend(p) \/ LoadSend(p) \/ SaveSend(p) \/ SaveTouch(p) \/ SaveEnd(p) \/ Stop(p)
       \/ \E n \in Sends : Deliver(p, n)
       \/ \E s \in Sessions : LoadSession(p, s, "touch") \/ LoadSession(p, s, "end")
Spec == Init /\ [][Next]_ledgerVars

------------------------------------------------------------------------------
(* checkSessionBeginBudget(): the day's sessions and the one still tracked.  *)
Elapsed(s) ==
  LET spans == {h \in Kept(ledger.history) : h.id = s}
      latest == {h \in spans : \A g \in spans : g.to <= h.to}
  IN IF ledger.session.id = s THEN ledger.session.seen - ledger.session.from
     ELSE IF latest = {} THEN 0 ELSE (CHOOSE h \in latest : TRUE).to - (CHOOSE h \in latest : TRUE).from

TypeOK ==
  /\ \A x \in ledger.sends : x.at \in 1..now /\ x.n \in Sends
  /\ ledger.session.id \in Sessions \cup {""} /\ ledger.session.from <= ledger.session.seen
  /\ \A h \in ledger.history : h.from <= h.to /\ h.to <= now

(* A message of the last hour is counted or about to be, unless its command   *)
(* died or another wrote an older copy over it: so the hour is exceeded by    *)
(* no more than those and the commands that had been checked already.        *)
Recording(n) == \E p \in Processes : process[p].what = n
SendsCounted ==
  /\ \A n \in SentLately \ lost : Recording(n) \/ \E x \in ledger.sends : x.n = n
  /\ Cardinality(SentLately) <= Limit + Cardinality(lost) + Cardinality(Processes) - 1

(* The time a session was seen is in the ledger until a day after it was      *)
(* last seen, unless two sessions took turns or commands overlapped.         *)
TimeCounted ==
  \A s \in Sessions \ shuffled :
    now - observed[s].last < Day => Elapsed(s) >= observed[s].last - observed[s].first
==============================================================================
