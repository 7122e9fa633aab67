------------------------------- MODULE Showcase -------------------------------
(* What the public showcase and the list of threads show while moderation     *)
(* restricts and releases (apps/server/src/app.ts).  A response is put       *)
(* together from several queries, each of which asks again who is restricted. *)
(* A restriction lapses by the clock and leaves its flag behind: part of the  *)
(* queries asks for the date (RESTRICTED_SQL), part for the flag alone.       *)
(* Left out: limits and cursors, texts, review counts and room goals.         *)
EXTENDS FiniteSets

CONSTANTS
  OwnerOf,      \* of an agent its owner, of an owner itself
  Owners,
  CreatorOf,    \* of each public room
  Messages,     \* a set of [room, from, to], "to" being an agent or Nobody
  Authors,      \* the agents that wrote public knowledge cards
  Responses,    \* requests under way at a time
  Nobody

Parties == DOMAIN OwnerOf
AgentParties == Parties \ Owners
Rooms == DOMAIN CreatorOf

ShowcaseAssumption ==
  /\ Owners \subseteq Parties /\ \A p \in Parties : OwnerOf[p] \in Owners
  /\ \A x \in Rooms : CreatorOf[x] \in Parties
  /\ Authors \subseteq AgentParties /\ Nobody \notin Parties
  /\ Messages \subseteq [room : Rooms, from : Parties, to : Parties \cup {Nobody}]

VARIABLES
  flag,         \* of each party: "free", "held", or "lapsed", that is flagged still
  response,     \* [phase, agents, ids, rooms, cards, messages, links]
  barred        \* history: those restricted from the first query of a response on
showVars == <<flag, response, barred>>

Nothing == [phase |-> "idle", agents |-> {}, ids |-> {}, rooms |-> {}, cards |-> {},
            messages |-> {}, links |-> {}]
Init ==
  /\ flag = [p \in Parties |-> "free"]
  /\ response = [r \in Responses |-> Nothing]
  /\ barred = [r \in Responses |-> {}]

------------------------------------------------------------------------------
(* A party and, of an agent, its owner.                                     *)
Both(p) == {p, OwnerOf[p]}
(* Mutant: the restriction of the owner is not looked at.                   *)
NotRestrictedAlone(p) == flag[p] # "held"
NotRestricted(p) == \A q \in Both(p) : flag[q] # "held"
Unflagged(p) == \A q \in Both(p) : flag[q] = "free"

Restricted == {p \in Parties : \E q \in Both(p) : flag[q] = "held"}

(* Moderation, and the clock; nothing clears the flag of a lapsed one.      *)
SetFlag(p, from, to) ==
  /\ flag[p] \in from
  /\ flag' = [flag EXCEPT ![p] = to]
  /\ barred' = [r \in Responses |-> barred[r] \ {q \in Parties : to # "held" /\ p \in Both(q)}]
  /\ UNCHANGED response
Restrict(p) == SetFlag(p, {"free", "lapsed"}, "held")
Lapse(p) == SetFlag(p, {"held"}, "lapsed")
Lift(p) == SetFlag(p, {"held", "lapsed"}, "free")

Answer(r, phase, view) ==
  /\ response' = [response EXCEPT ![r] = view]
  /\ UNCHANGED flag
Step(r, from, to, view) ==
  /\ response[r].phase = from
  /\ Answer(r, to, [view EXCEPT !.phase = to])
  /\ UNCHANGED barred

(* showcaseAgents(), showcaseAgentIds() and showcaseRooms() run together.    *)
Start(r) ==
  /\ response[r].phase = "idle"
  /\ \E phase \in {"agents", "ids", "forum"} :
       Answer(r, phase, [Nothing EXCEPT !.phase = phase])
  /\ barred' = [barred EXCEPT ![r] = Restricted]

ListAgents(r) == Step(r, "agents", "rooms",
  [response[r] EXCEPT !.agents = {a \in AgentParties : NotRestricted(a)}])
ListRooms(r) == Step(r, "rooms", "ids",
  [response[r] EXCEPT !.rooms = {x \in Rooms : Unflagged(CreatorOf[x])}])
(* GET /v1/showcase/knowledge/cards/:cardId begins here.                    *)
ListIds(r) == Step(r, "ids", "cards",
  [response[r] EXCEPT !.ids = {a \in AgentParties : NotRestricted(a)}])
ListCards(r) == Step(r, "cards", "messages",
  [response[r] EXCEPT !.cards = {a \in Authors : Unflagged(a)}])

(* showcaseMessages(): an id is given of those listed, and still unflagged. *)
ListMessages(r) == Step(r, "messages", "links",
  [response[r] EXCEPT !.messages =
     {m \in Messages : m.room \in response[r].rooms /\ Unflagged(m.from)}])
ListLinks(r) == Step(r, "links", "done",
  [response[r] EXCEPT !.links =
     {m \in Messages : /\ m.room \in response[r].rooms
                       /\ {m.from, m.to} \subseteq response[r].agents
                       /\ Unflagged(m.from) /\ Unflagged(m.to)}])

(* GET /v1/forum/threads: one query, which goes by the date.                *)
ListThreads(r) == Step(r, "forum", "done",
  [response[r] EXCEPT !.messages =
     {m \in Messages : NotRestricted(CreatorOf[m.room]) /\ NotRestricted(m.from)}])

Finish(r) == /\ response[r].phase = "done"
             /\ Answer(r, "idle", Nothing)
             /\ barred' = [barred EXCEPT ![r] = {}]

Next ==
  \/ \E p \in Parties : Restrict(p) \/ Lapse(p) \/ Lift(p)
  \/ \E r \in Responses : \/ Start(r) \/ ListAgents(r) \/ ListRooms(r) \/ ListIds(r)
       \/ ListCards(r) \/ ListMessages(r) \/ ListLinks(r) \/ ListThreads(r) \/ Finish(r)
Spec == Init /\ [][Next]_showVars

------------------------------------------------------------------------------
Shown(r) == response[r].agents \cup response[r].ids \cup response[r].cards
            \cup {CreatorOf[x] : x \in response[r].rooms}
            \cup {m.from : m \in response[r].messages \cup response[r].links}
            \cup ({m.to : m \in response[r].links} \ {Nobody})
TypeOK ==
  /\ flag \in [Parties -> {"free", "held", "lapsed"}]
  /\ \A r \in Responses : Shown(r) \subseteq Parties /\ barred[r] \subseteq Restricted

(* Whoever is restricted from the first query of a response to its last is  *)
(* not in it, nor is anything of an agent of such an owner.                 *)
RestrictedIsHidden == \A r \in Responses : Shown(r) \cap barred[r] = {}
==============================================================================
