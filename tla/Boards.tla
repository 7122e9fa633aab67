-------------------------------- MODULE Boards --------------------------------
(* What a room is for, where its threads stand and whether a knowledge card   *)
(* is public (apps/server/src/app.ts): PATCH /v1/rooms/:roomId, PATCH         *)
(* .../messages/:messageId/status, PATCH /v1/knowledge/cards/:cardId/public.  *)
(* Each reads its row, checks it, and writes it in a later statement that     *)
(* takes no notice of what happened to the row in between.                   *)
(* Left out: criteria, which go the way of the goal; resolved_at, which the   *)
(* UPDATE sets with the status; and the flag archived, which nothing reads    *)
(* before it is written.                                                     *)
EXTENDS Integers, FiniteSets

CONSTANTS
  Requests,     \* requests under way at a time
  OwnerOf,      \* of an agent its owner, of an owner itself
  Owners,       \* those that are owners
  Creator,      \* the creator of the room
  Threads,      \* root messages with a category
  Cards,        \* knowledge cards
  AuthorOf,     \* of each of them
  Goals,        \* what a room may be for
  Stages,       \* bound: members of {"active", "paused", "achieved"}
  Keep          \* a field that the body does not have

Parties == DOMAIN OwnerOf

(* A request says of what kind its row is.                                  *)
BoardsAssumption ==
  /\ IsFiniteSet(Requests)
  /\ Threads \cap Cards = {} /\ "room" \notin Threads \cup Cards

VARIABLES
  room,         \* [goal, status]
  status,       \* of each thread
  card,         \* of each: [public, notices]: knowledge.published since it was private last
  request,      \* [phase, what, wish, saw], once its actor was found to be allowed
  told,         \* the goal_status that the members' inboxes say
  asked,        \* history: what the last body with the field asked of the room
  stale         \* history: rows written from a row that was no longer theirs
boardVars == <<room, status, card, request, told, asked, stale>>

Edges == {<<"open", "resolved">>, <<"open", "closed">>, <<"resolved", "open">>,
          <<"resolved", "closed">>, <<"closed", "open">>}
Statuses == {"open", "resolved", "closed"}
Bodies == [goal : Goals \cup {Keep}, status : Stages \cup {Keep}] \ {[goal |-> Keep, status |-> Keep]}
Idle == [phase |-> "idle", what |-> Keep, wish |-> Keep, saw |-> Keep]

Init ==
  /\ \E g \in Goals, s \in Stages : room = [goal |-> g, status |-> s]
  /\ status = [t \in Threads |-> "open"]
  /\ card = [k \in Cards |-> [public |-> FALSE, notices |-> 0]]
  /\ request = [r \in Requests |-> Idle]
  /\ told = room.status /\ asked = room /\ stale = {}

------------------------------------------------------------------------------
(* isCreator, isRoomOwner: whoever acts for the owner of the creator.       *)
OfTheRoom(who) == OwnerOf[who] = OwnerOf[Creator]
IsAuthor(who, t) == who = AuthorOf[t] \/ (who \in Owners /\ OwnerOf[AuthorOf[t]] = who)

(* Mutant: the status the thread is in is not looked at.                    *)
MayTurnAny(from, to) == TRUE
MayTurn(from, to) == from = to \/ <<from, to>> \in Edges

Read(r, what, wish, saw) ==
  /\ request[r] = Idle
  /\ request' = [request EXCEPT ![r] =
       [phase |-> "read", what |-> what, wish |-> wish, saw |-> saw]]
  /\ UNCHANGED <<room, status, card, told, asked, stale>>

ReadRoom(r, who, body) == OfTheRoom(who) /\ Read(r, "room", body, room)
ReadThread(r, who, t, to) ==
  /\ MayTurn(status[t], to)
  /\ IsAuthor(who, t) \/ OfTheRoom(who)
  /\ Read(r, t, to, status[t])
(* ownsAgent(p, card.author_agent_id), p being an owner.                     *)
ReadCard(r, who, k, public) ==
  who \in Owners /\ OwnerOf[AuthorOf[k]] = who /\ Read(r, k, public, card[k].public)

(* The server dies, or a statement fails: the transaction is rolled back.   *)
Drop(r) == /\ request[r] # Idle
           /\ request' = [request EXCEPT ![r] = Idle]
           /\ UNCHANGED <<room, status, card, told, asked, stale>>

(* nextGoal, nextCriteria, nextStatus: what the body lacks is as it was read. *)
NextOf(body, saw) ==
  [f \in {"goal", "status"} |-> IF body[f] = Keep THEN saw[f] ELSE body[f]]
Announced(body, saw) == body.status \notin {Keep, saw.status}

WriteRoom(r) ==
  LET body == request[r].wish saw == request[r].saw IN
  /\ request[r].phase = "read" /\ request[r].what = "room"
  /\ room' = NextOf(body, saw)
  /\ told' = IF Announced(body, saw) THEN body.status ELSE told
  /\ asked' = NextOf(body, asked)
  /\ stale' = IF saw = room THEN stale ELSE stale \cup {"room"}
  /\ request' = [request EXCEPT ![r] = Idle]
  /\ UNCHANGED <<status, card>>

WriteThread(r) ==
  LET t == request[r].what IN
  /\ request[r].phase = "read" /\ t \in Threads
  /\ status' = [status EXCEPT ![t] = request[r].wish]
  /\ stale' = IF request[r].saw = status[t] THEN stale ELSE stale \cup {t}
  /\ request' = [request EXCEPT ![r] = Idle]
  /\ UNCHANGED <<room, card, told, asked>>

(* Going public tells the author and all who reviewed a version of the card; *)
(* a card that was public when it was read tells nobody.                     *)
Tells(public, saw) == public /\ ~saw
WriteCard(r) ==
  LET k == request[r].what public == request[r].wish saw == request[r].saw IN
  /\ request[r].phase = "read" /\ k \in Cards
  /\ card' = [card EXCEPT ![k].public = public,
                ![k].notices = IF public THEN @ + (IF Tells(public, saw) THEN 1 ELSE 0) ELSE 0]
  /\ stale' = IF saw = card[k].public THEN stale ELSE stale \cup {k}
  /\ request' = [request EXCEPT ![r] = Idle]
  /\ UNCHANGED <<room, status, told, asked>>

Next == \E r \in Requests :
  \/ \E who \in Parties, body \in Bodies : ReadRoom(r, who, body)
  \/ \E who \in Parties, t \in Threads, to \in Statuses : ReadThread(r, who, t, to)
  \/ \E who \in Parties, k \in Cards, public \in BOOLEAN : ReadCard(r, who, k, public)
  \/ Drop(r) \/ WriteRoom(r) \/ WriteThread(r) \/ WriteCard(r)
Spec == Init /\ [][Next]_boardVars

------------------------------------------------------------------------------
(* The rows, and requests that have read what was there.                    *)
TypeOK ==
  /\ room \in [goal : Goals, status : Stages] /\ told \in Stages
  /\ status \in [Threads -> Statuses] /\ stale \subseteq Threads \cup Cards \cup {"room"}
  /\ \A k \in Cards : card[k].public \in BOOLEAN /\ card[k].notices \in 0..Cardinality(Requests)
  /\ \A r \in Requests : request[r] = Idle \/ request[r].what \in Threads \cup Cards \cup {"room"}

(* Unless a PATCH wrote over a change it had not read, the room is as it    *)
(* was last asked to be, field by field, and its members were told so.      *)
GoalAsAsked == "room" \notin stale => room = asked /\ told = room.status

(* A thread leaves closed only to open, unless its row changed between the  *)
(* check and the UPDATE of the PATCH that writes it.                        *)
ThreadEdge ==
  \A t \in Threads : status'[t] # status[t] =>
    <<status[t], status'[t]>> \in Edges \/ t \in stale'

(* Both, of every step.                                                     *)
BoardsAsAsked == [][GoalAsAsked' /\ ThreadEdge]_boardVars

(* Each time the card goes public its author and reviewers are told once,   *)
(* unless a PATCH that publishes it read the card before another one's write: *)
(* two that both read it private tell them twice, against the comment "must   *)
(* not re-notify" of the handler (app.ts:1832-1833).                         *)
ToldOnce ==
  \A k \in Cards \ stale : card[k].notices = IF card[k].public THEN 1 ELSE 0

==============================================================================
