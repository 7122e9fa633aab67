-------------------------------- MODULE Rooms --------------------------------
(* Messages of one room of the server (apps/server/src/app.ts): posting in    *)
(* a transaction, the row-level idempotency of the message, membership,      *)
(* topic subscriptions, the fan-out to inboxes, the pages a reader walks      *)
(* forward through, and the watcher of repeated messages.                    *)
(*                                                                          *)
(* A message takes its place in the room (created_at, id) at its INSERT and  *)
(* is seen by others only after the COMMIT, so a reader may pass it.         *)
(* A message grows old 60 seconds after its INSERT, which is all of time      *)
(* that the watcher sees.                                                   *)
(* Left out: stored answers of idem() (Idempotency), quotas (Quotas) and the *)
(* validation of tags.                                                      *)
EXTENDS Integers, Sequences, FiniteSets

CONSTANTS
  Agents,       \* agents that post, join, subscribe and read
  Posts,        \* POST requests; a message is named after the one that made it
  DraftsOf,     \* what a request may ask for: a set of [sender, key, to, tags, text]
  Tags,         \* topics
  Listeners,    \* bound: the agents that change their subscriptions
  ScopeOf,      \* what a reader pages through: "all" or "roots"
  Limit,        \* messages in a page
  Threshold,    \* SPAM_REPEAT_THRESHOLD
  NoPost        \* null: no message, no answer, no addressee

Readers == DOMAIN ScopeOf
(* What a request asks for, once its message has its place in a thread.     *)
Asks == [draft : UNION {DraftsOf[p] : p \in Posts},
         parent : Posts \cup {NoPost}, root : Posts \cup {NoPost}]
RoomsAssumption ==
  /\ NoPost \notin Posts \cup Agents \cup Asks /\ "conflict" \notin Posts
  /\ \A p \in Posts : \A d \in DraftsOf[p] :
       d.to \in Agents \cup {NoPost} /\ d.tags \subseteq Tags
  /\ Readers \cup Listeners \subseteq Agents /\ ScopeOf \in [Readers -> {"all", "roots"}]
  /\ Limit \in Nat \ {0} /\ Threshold \in Nat \ {0}

VARIABLES
  log,        \* the rows of the room in the order of (created_at, id)
  ask,        \* what a request asks for: [draft, parent, root], or NoPost
  open,       \* requests whose transaction is under way
  answer,     \* the message a request was answered with, NoPost or "conflict"
  fanout,     \* the agents whose inbox a message's transaction writes to
  alarm,      \* messages on which the watcher opened an incident
  members,    \* room_members
  topics,     \* agent_subscriptions
  cursor,     \* the last message of the reader's last page, or NoPost
  seen,       \* the messages a reader was given
  gap,        \* history: what a member could no longer be given when it joined
  old,        \* the messages of agents whose 60 seconds are over
  early       \* those of its text that were old when a request's transaction began
vars == <<log, ask, open, answer, fanout, alarm, members, topics, cursor, seen, gap, old, early>>

Rows == {log[i] : i \in DOMAIN log}
Visible == Rows \ open
Place(m) == CHOOSE i \in DOMAIN log : log[i] = m
Passed(a, m) == cursor[a] # NoPost /\ Place(m) <= Place(cursor[a])
Draft(m) == ask[m].draft
Sender(m) == Draft(m).sender

Category(d) == d.tags # {}

Init ==
  /\ log = <<>> /\ open = {} /\ alarm = {} /\ members = {}
  /\ ask = [p \in Posts |-> NoPost]
  /\ answer = [p \in Posts |-> NoPost]
  /\ fanout = [p \in Posts |-> {}]
  /\ topics = [a \in Agents |-> {}]
  /\ cursor = [a \in Readers |-> NoPost]
  /\ seen = [a \in Readers |-> {}]
  /\ gap = [a \in Readers |-> {}]
  /\ old = {} /\ early = [p \in Posts |-> {}]

------------------------------------------------------------------------------
(* idem() holds the lock of the key; an agent's posts hold spam:<agent>.    *)
KeyFree(d) == \A q \in open : Sender(q) # d.sender \/ Draft(q).key # d.key
(* Mutant: the lock spam:<agent> is not taken.                              *)
SpamFreeUnlocked(d) == TRUE
SpamFree(d) == d.sender \in Agents => \A q \in open : Sender(q) # d.sender
Holder(d) == {m \in Visible : Sender(m) = d.sender /\ Draft(m).key = d.key}

(* A parent is a committed message; replies define no category.             *)
MayReply(d, parent) == parent = NoPost \/ (parent \in Visible /\ ~Category(d))
NewAsk(d, parent) ==
  [draft |-> d, parent |-> parent,
   root |-> IF parent = NoPost THEN NoPost
            ELSE IF ask[parent].root = NoPost THEN parent ELSE ask[parent].root]

(* Mutant: the addressee is left out of the fan-out and has no event of its own. *)
AudienceForgetful(d) ==
  (members \ {d.sender, d.to})
    \cup ({a \in Agents : topics[a] \cap d.tags # {}} \ {d.sender})

(* Members and the addressee, and the subscribers of the tags of a thread.  *)
Audience(d) ==
  LET others == members \ {d.sender, d.to}
      addressee == {d.to} \ {NoPost}
      subscribers == {a \in Agents : topics[a] \cap d.tags # {}} \ {d.sender}
  IN others \cup addressee \cup subscribers

(* Messages of an agent with one text, and those up to one of the room.     *)
SameText(a, text) == {m \in Visible : Sender(m) = a /\ Draft(m).text = text}
UpTo(last, S) == {m \in S : Place(m) <= Place(last)}

(* now() is when the transaction began, at any time before: then these of   *)
(* its text were old, and the watcher counts the others with the new row.   *)
Starts(d) ==
  LET same == SameText(d.sender, d.text)
  IN {{}} \cup {UpTo(m, same) : m \in same \cap old}
Repeats(d, from) == Cardinality(SameText(d.sender, d.text) \ from)

(* POST /v1/rooms/:roomId/messages up to its COMMIT: nobody has the key yet. *)
Insert(p, d, parent) ==
  /\ ask[p] = NoPost /\ KeyFree(d) /\ SpamFree(d) /\ MayReply(d, parent)
  /\ Holder(d) = {}
  /\ ask' = [ask EXCEPT ![p] = NewAsk(d, parent)]
  /\ log' = Append(log, p)
  /\ open' = open \cup {p}
  /\ fanout' = [fanout EXCEPT ![p] = Audience(d)]
  /\ \E from \in IF d.sender \in Agents THEN Starts(d) ELSE {{}} :
       /\ early' = [early EXCEPT ![p] = from]
       /\ alarm' = IF d.sender \in Agents /\ Repeats(d, from) + 1 = Threshold
                   THEN alarm \cup {p} ELSE alarm
  /\ UNCHANGED <<answer, members, topics, cursor, seen, gap, old>>

(* ON CONFLICT: the same reply_to, recipient and body, or a conflict.       *)
(* Mutant: the parent is not compared.                                      *)
SameMessageAnyParent(m, d, parent) == Draft(m).to = d.to /\ Draft(m).text = d.text
SameMessage(m, d, parent) ==
  Draft(m).to = d.to /\ Draft(m).text = d.text /\ ask[m].parent = parent
Repeat(p, d, parent) ==
  /\ ask[p] = NoPost /\ KeyFree(d) /\ SpamFree(d) /\ MayReply(d, parent)
  /\ \E m \in Holder(d) :
       answer' = [answer EXCEPT ![p] = IF SameMessage(m, d, parent) THEN m ELSE "conflict"]
  /\ ask' = [ask EXCEPT ![p] = NewAsk(d, parent)]
  /\ UNCHANGED <<log, open, fanout, alarm, members, topics, cursor, seen, gap, old, early>>

(* What an agent that joins now cannot be given any more, or not yet.       *)
Lost(a) == {m \in Rows : m \in open \/ (Passed(a, m) /\ m \notin seen[a])}
Enter(a) ==
  /\ members' = members \cup {a}
  /\ gap' = IF a \in members \/ a \notin Readers THEN gap ELSE [gap EXCEPT ![a] = Lost(a)]

(* Posting joins the room in the same transaction.                          *)
Commit(p) ==
  /\ p \in open
  /\ open' = open \ {p}
  /\ answer' = [answer EXCEPT ![p] = p]
  /\ IF Sender(p) \in Agents THEN Enter(Sender(p)) ELSE UNCHANGED <<members, gap>>
  /\ UNCHANGED <<log, ask, fanout, alarm, topics, cursor, seen, old, early>>

Without(s, i) == [j \in 1..Len(s) - 1 |-> IF j < i THEN s[j] ELSE s[j + 1]]

(* ROLLBACK, or the server dies: the request may be sent again.             *)
Abort(p) ==
  /\ p \in open
  /\ open' = open \ {p} /\ alarm' = alarm \ {p}
  /\ log' = Without(log, Place(p))
  /\ ask' = [ask EXCEPT ![p] = NoPost]
  /\ fanout' = [fanout EXCEPT ![p] = {}]
  /\ gap' = [a \in Readers |-> gap[a] \ {p}]
  /\ old' = old \ {p}
  /\ early' = [q \in Posts |-> IF q = p THEN {} ELSE early[q] \ {p}]
  /\ UNCHANGED <<answer, members, topics, cursor, seen>>

(* Time passes.                                                             *)
Timed == {m \in Rows : Sender(m) \in Agents}
Age == \E m \in Timed \ old :
         /\ old' = UpTo(m, Timed)
         /\ UNCHANGED <<log, ask, open, answer, fanout, alarm, members, topics, cursor, seen, gap, early>>

------------------------------------------------------------------------------
(* POST /v1/rooms/:roomId/members and DELETE .../members/me.                *)
Join(a) == /\ a \notin members
           /\ Enter(a)
           /\ UNCHANGED <<log, ask, open, answer, fanout, alarm, topics, cursor, seen, old, early>>
Leave(a) == /\ a \in members
            /\ members' = members \ {a}
            /\ gap' = [b \in Readers |-> IF b = a THEN {} ELSE gap[b]]
            /\ UNCHANGED <<log, ask, open, answer, fanout, alarm, topics, cursor, seen, old, early>>

(* PUT and DELETE /v1/agents/me/subscriptions.                              *)
SetTopics(a, T) == /\ T # topics[a]
                   /\ topics' = [topics EXCEPT ![a] = T]
                   /\ UNCHANGED <<log, ask, open, answer, fanout, alarm, members, cursor, seen, gap, old,
                                   early>>

(* GET /v1/rooms/:roomId/messages?after=: the next page in ascending order. *)
InScope(a, m) == ScopeOf[a] = "all" \/ ask[m].root = NoPost
Following(a) == {m \in Visible : InScope(a, m) /\ ~Passed(a, m)}
ReadPage(a) ==
  \E last \in Following(a) :
    LET page == UpTo(last, Following(a)) IN
    /\ Cardinality(page) <= Limit /\ (page = Following(a) \/ Cardinality(page) = Limit)
    /\ cursor' = [cursor EXCEPT ![a] = last]
    /\ seen' = [seen EXCEPT ![a] = @ \cup page]
    /\ UNCHANGED <<log, ask, open, answer, fanout, alarm, members, topics, gap, old, early>>

Next ==
  \/ \E p \in {q \in Posts : ask[q] = NoPost}, parent \in Posts \cup {NoPost} :
       \E d \in DraftsOf[p] : Insert(p, d, parent) \/ Repeat(p, d, parent)
  \/ \E p \in Posts : Commit(p) \/ Abort(p)
  \/ Age
  \/ \E a \in Agents : Join(a) \/ Leave(a)
  \/ \E a \in Readers : ReadPage(a)
  \/ \E a \in Listeners, T \in SUBSET Tags : SetTopics(a, T)
Spec == Init /\ [][Next]_vars

------------------------------------------------------------------------------
(* Roots are themselves roots, and what was old once is old.                *)
TypeOK ==
  /\ open \subseteq Rows /\ alarm \subseteq Rows
  /\ \A m \in Rows : ask[m] # NoPost
  /\ \A m \in Visible : ask[m].root # NoPost => ask[ask[m].root].root = NoPost
  /\ old \subseteq Rows /\ \A m \in Rows : early[m] \subseteq old \cap Visible
  /\ members \subseteq Agents
  /\ \A a \in Readers : seen[a] \subseteq Visible /\ cursor[a] \in Visible \cup {NoPost}

(* A member is told of every message of another, or has been given it, or   *)
(* will be given it by a page, but for what had slipped past it before it   *)
(* joined or was in flight at that moment (fan-out and forward pages).      *)
Told(a, m) == Sender(m) = a \/ a \in fanout[m]
HeardOrReadable ==
  \A a \in members \cap Readers, m \in Visible :
    InScope(a, m) /\ Passed(a, m) => Told(a, m) \/ m \in seen[a] \/ m \in gap[a]

(* The messages of m's text up to it that are within the 60 seconds before  *)
(* its transaction began.                                                   *)
Burst(m) == UpTo(m, SameText(Sender(m), Draft(m).text)) \ early[m]

(* Their transactions began in the order in which they had the spam lock,   *)
(* as far as what was old then tells.                                       *)
InTurn(S) == \A m, q \in S : Place(m) < Place(q) => early[m] \subseteq early[q]

(* The watcher opens an incident at each message that is the Threshold-th   *)
(* of its text within 60 seconds, and at no other, whatever posts overlap   *)
(* or roll back; and a text repeated that often in the last 60 seconds has  *)
(* had an incident, unless posts overtook each other between BEGIN and the  *)
(* lock: then the count may pass the threshold by.                          *)
BurstReported ==
  /\ \A m \in Visible :
       Sender(m) \in Agents => (m \in alarm <=> Cardinality(Burst(m)) = Threshold)
  /\ \A a \in Agents : \A text \in {Draft(m).text : m \in Visible} :
       LET same == SameText(a, text)
       IN Cardinality(same \ old) >= Threshold /\ InTurn(same) => same \cap alarm # {}

(* A request is answered with the one message of its sender and key, with   *)
(* the body, the addressee and the parent it asked for.                     *)
AnswerMatches ==
  \A p \in Posts : answer[p] \in Posts =>
    LET got == ask[answer[p]] asked == ask[p] IN
    /\ answer[p] \in Visible /\ got.parent = asked.parent
    /\ \A field \in {"sender", "key", "to", "text"} : got.draft[field] = asked.draft[field]
==============================================================================
