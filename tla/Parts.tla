-------------------------------- MODULE Parts ---------------------------------
(* Inbox, Tasks and the parts of the system that no other module composes, one  *)
(* part to a behaviour: `part` is chosen at the start.  Inbox and Tasks keep    *)
(* their own variables; the other parts share the slots s1 to s13, which hold   *)
(* the variables of the part that runs.                                       *)
EXTENDS Inbox, Tasks

CONSTANTS
  Posts, DraftsOf, Tags, Listeners, ScopeOf,              \* Rooms
  MessageLimit, Threshold, NoPost,
  Patches, OwnerOf, Parents, Creator, Threads, Cards,     \* Boards
  AuthorOf, Goals, Stages, Keep,
  CreatorOf, Messages, Authors, Responses,                \* Showcase
  Memories, Texts, KnowledgeLimit, InfluenceLimit, Day,   \* AgentMemory
  MaxMemoryTime, MaxRevision,
  Senders, Owner, SendKinds, Recipients, AgentLimit,      \* Quotas
  OwnerLimit, PairLimit, Window, MaxQuotaTime, MaxRows,
  Homes, EnrollTokens, AgentCap, TokenCap, MaxAgents,     \* Enrollment
  NoEnrollToken,
  Commands, Sessions, Sends, SpendLimit, Hour,            \* Ledger
  LedgerDay, Help, MaxLedgerTime, MaxCommands,
  Callers, Mutations, Absent,                             \* ClientHome
  PageSize, MaxRetries, MaxEvents, MaxBegun,              \* Listening
  MaxTeardowns,
  Ids, MaxEnrolled,                                       \* Setup
  Servers, SessionIds, SweepBatch, SessionCap, Silence,   \* Retention
  Lifetime, Days, SweepWindow, MaxSweepTime,
  CityRooms, MaxHistory,                                  \* CityRoute
  PageRooms, MaxSignIns, MaxCalls                         \* RoomPage

VARIABLES part, s1, s2, s3, s4, s5, s6, s7, s8, s9, s10, s11, s12, s13

slots == <<s1, s2, s3, s4, s5, s6, s7, s8, s9, s10, s11, s12, s13>>

inboxVars == vars

Rm == INSTANCE Rooms WITH
        Limit <- MessageLimit, log <- s1, ask <- s2, open <- s3, answer <- s4,
        fanout <- s5, alarm <- s6, members <- s7, topics <- s8, cursor <- s9,
        seen <- s10, gap <- s11, old <- s12, early <- s13

Bd == INSTANCE Boards WITH
        Requests <- Patches, Owners <- Parents, room <- s1, status <- s2,
        card <- s3, request <- s4, told <- s5, asked <- s6, stale <- s7

Sh == INSTANCE Showcase WITH
        Owners <- Parents, flag <- s1, response <- s2, barred <- s3

Mm == INSTANCE AgentMemory WITH
        MaxTime <- MaxMemoryTime, mem <- s1, covered <- s2, now <- s3,
        persona <- s4, file <- s5, revived <- s6

Qt == INSTANCE Quotas WITH
        Agents <- Senders, Kinds <- SendKinds, MaxTime <- MaxQuotaTime,
        now <- s1, rows <- s2, act <- s3, usage <- s4, understated <- s5

En == INSTANCE Enrollment WITH
        Tokens <- EnrollTokens, Nil <- NoEnrollToken, home <- s1,
        command <- s2, token <- s3, agent <- s4, nobodys <- s5

Lg == INSTANCE Ledger WITH
        Processes <- Commands, Limit <- SpendLimit, Day <- LedgerDay,
        MaxTime <- MaxLedgerTime, now <- s1, ledger <- s2, process <- s3,
        begun <- s4, sent <- s5, observed <- s6, lost <- s7, shuffled <- s8

Hm == INSTANCE ClientHome WITH
        Requests <- Mutations, None <- Absent, home <- s1, command <- s2,
        begun <- s3, done <- s4, open <- s5, disturbed <- s6

Ls == INSTANCE Listening WITH
        events <- s1, acked <- s2, server <- s3, session <- s4,
        listener <- s5, begun <- s6, shown <- s7, dropped <- s8, counted <- s9

St == INSTANCE Setup WITH
        MaxAgents <- MaxEnrolled, home <- s1, vault <- s2, config <- s3,
        enrolled <- s4, unlinked <- s5, setup <- s6, forsaken <- s7,
        forced <- s8

Rt == INSTANCE Retention WITH
        None <- Absent, Ids <- SessionIds, Batch <- SweepBatch,
        Cap <- SessionCap, Window <- SweepWindow, MaxTime <- MaxSweepTime,
        now <- s1, sessions <- s2, used <- s3, quota <- s4, lock <- s5,
        pass <- s6, seen <- s7, counted <- s8

Ct == INSTANCE CityRoute WITH
        Rooms <- CityRooms, history <- s1, at <- s2, shown <- s3, dive <- s4,
        due <- s5, camera <- s6, guest <- s7

Pg == INSTANCE RoomPage WITH
        Rooms <- PageRooms, None <- Absent, store <- s1, shell <- s2,
        minted <- s3, selected <- s4, applied <- s5, pageOf <- s6,
        listed <- s7, calls <- s8, tone <- s9, loaded <- s10

(* What the constants of the parts may be.                                   *)
ASSUME PartsAssumption ==
  /\ Rm!RoomsAssumption /\ Bd!BoardsAssumption /\ Sh!ShowcaseAssumption
  /\ Mm!MemoryAssumption /\ Qt!QuotasAssumption /\ En!EnrollmentAssumption
  /\ Lg!LedgerAssumption /\ Ls!ListeningAssumption /\ Rt!RetentionAssumption
  /\ Ct!RouteAssumption /\ Pg!PageAssumption

(* Requests of "boards" change the room, those of "cards" threads and cards:   *)
(* none of either reads or writes a row of the other.                          *)
Boarding == part \in {"boards", "cards"}
AboutTheRoom == \A r \in Patches : (s4')[r].what \in {Keep, "room"}
AboutRows == \A r \in Patches : (s4')[r].what # "room"

(* In "rooms" no message grows old.  In "watch" all posts are of one sender,    *)
(* and nobody reads, subscribes, joins or leaves but by posting: what the      *)
(* watcher counts depends on none of these, nor they on it.                    *)
Posting == part \in {"rooms", "watch"}
NoneGrowsOld == s12' = {}
OneSender == Cardinality({(s2')[p].draft.sender : p \in {q \in Posts : (s2')[q] # NoPost}}) <= 1
NobodyElse == OneSender /\ s8' = s8 /\ s9' = s9 /\ (s7' = s7 \/ s3' # s3)

(* The slots a part leaves unused, from one on.                               *)
From13 == s13 = "unused"
From12 == s12 = "unused" /\ From13
From11 == s11 = "unused" /\ From12
From10 == s10 = "unused" /\ From11
From9 == s9 = "unused" /\ From10
From8 == s8 = "unused" /\ From9
From7 == s7 = "unused" /\ From8
From6 == s6 = "unused" /\ From7
From5 == s5 = "unused" /\ From6
From4 == s4 = "unused" /\ From5
From3 == s3 = "unused" /\ From4
From2 == s2 = "unused" /\ From3
From1 == s1 = "unused" /\ From2

OwnStill == UNCHANGED <<inboxVars, taskVars>>
ReaderIdle == client = "resident" /\ Init

PartsInit ==
  \/ part = "inbox" /\ Init /\ TasksInit /\ From1
  \/ part = "tasks" /\ ReaderIdle /\ TasksInit /\ From1
  \/ Posting /\ ReaderIdle /\ TasksInit /\ Rm!Init
  \/ Boarding /\ ReaderIdle /\ TasksInit /\ Bd!Init /\ From8
  \/ part = "showcase" /\ ReaderIdle /\ TasksInit /\ Sh!Init /\ From4
  \/ part = "memory" /\ ReaderIdle /\ TasksInit /\ Mm!Init /\ From7
  \/ part = "quotas" /\ ReaderIdle /\ TasksInit /\ Qt!Init /\ From6
  \/ part = "enrollment" /\ ReaderIdle /\ TasksInit /\ En!Init /\ From6
  \/ part = "ledger" /\ ReaderIdle /\ TasksInit /\ Lg!Init /\ From9
  \/ part = "home" /\ ReaderIdle /\ TasksInit /\ Hm!Init /\ From7
  \/ part = "listening" /\ ReaderIdle /\ TasksInit /\ Ls!Init /\ From10
  \/ part = "setup" /\ ReaderIdle /\ TasksInit /\ St!Init /\ From9
  \/ part = "retention" /\ ReaderIdle /\ TasksInit /\ Rt!Init /\ From9
  \/ part = "route" /\ ReaderIdle /\ TasksInit /\ Ct!RouteInit /\ From8
  \/ part = "page" /\ ReaderIdle /\ TasksInit /\ Pg!PageInit /\ From11

PartsNext ==
  /\ UNCHANGED part
  /\ \/ part = "inbox" /\ Next /\ UNCHANGED <<taskVars, slots>>
     \/ part = "tasks" /\ TasksNext /\ UNCHANGED <<inboxVars, slots>>
     \/ part = "rooms" /\ Rm!Next /\ NoneGrowsOld /\ OwnStill
     \/ part = "watch" /\ Rm!Next /\ NobodyElse /\ OwnStill
     \/ part = "boards" /\ Bd!Next /\ AboutTheRoom /\ OwnStill /\ UNCHANGED <<s8, s9, s10, s11, s12, s13>>
     \/ part = "cards" /\ Bd!Next /\ AboutRows /\ OwnStill /\ UNCHANGED <<s8, s9, s10, s11, s12, s13>>
     \/ part = "showcase" /\ Sh!Next /\ OwnStill /\ UNCHANGED <<s4, s5, s6, s7, s8, s9, s10, s11, s12, s13>>
     \/ part = "memory" /\ Mm!Next /\ OwnStill /\ UNCHANGED <<s7, s8, s9, s10, s11, s12, s13>>
     \/ part = "quotas" /\ Qt!Next /\ OwnStill /\ UNCHANGED <<s6, s7, s8, s9, s10, s11, s12, s13>>
     \/ part = "enrollment" /\ En!Next /\ OwnStill /\ UNCHANGED <<s6, s7, s8, s9, s10, s11, s12, s13>>
     \/ part = "ledger" /\ Lg!Next /\ OwnStill /\ UNCHANGED <<s9, s10, s11, s12, s13>>
     \/ part = "home" /\ Hm!Next /\ OwnStill /\ UNCHANGED <<s7, s8, s9, s10, s11, s12, s13>>
     \/ part = "listening" /\ Ls!Next /\ OwnStill /\ UNCHANGED <<s10, s11, s12, s13>>
     \/ part = "setup" /\ St!Next /\ OwnStill /\ UNCHANGED <<s9, s10, s11, s12, s13>>
     \/ part = "retention" /\ Rt!Next /\ OwnStill /\ UNCHANGED <<s9, s10, s11, s12, s13>>
     \/ part = "route" /\ Ct!RouteNext /\ OwnStill /\ UNCHANGED <<s8, s9, s10, s11, s12, s13>>
     \/ part = "page" /\ Pg!PageNext /\ OwnStill /\ UNCHANGED <<s11, s12, s13>>

partsVars == <<part, inboxVars, taskVars, slots>>
PartsSpec == PartsInit /\ [][PartsNext]_partsVars

-----------------------------------------------------------------------------
(* Every variable of every part holds what its code can store in it.           *)
TypesOK ==
  /\ part = "inbox" => TypeOK
  /\ part = "tasks" => TasksTypeOK
  /\ Posting => Rm!TypeOK
  /\ Boarding => Bd!TypeOK
  /\ part = "showcase" => Sh!TypeOK
  /\ part = "memory" => Mm!TypeOK
  /\ part = "quotas" => Qt!TypeOK
  /\ part = "enrollment" => En!TypeOK
  /\ part = "ledger" => Lg!TypeOK
  /\ part = "home" => Hm!TypeOK
  /\ part = "listening" => Ls!TypeOK
  /\ part = "setup" => St!TypeOK
  /\ part = "retention" => Rt!TypeOK
  /\ part = "route" => Ct!RouteTypeOK
  /\ part = "page" => Pg!PageTypeOK

(* A member's message is in its inbox or still ahead of a reader's page,       *)
(* whatever commits behind the page (Rooms; app.ts:1207-1258).                 *)
HeardOrReadable ==
  Posting => Rm!HeardOrReadable

(* A message opens an incident exactly when it is the Threshold-th of its text *)
(* within 60 seconds, and a text said that often has had one unless its posts  *)
(* overtook each other before the lock (Rooms; app.ts:1146-1147, 1260-1268).   *)
(* A card that goes public is told of once; excepted is one that two requests  *)
(* publish that both read it private, which the comment of the handler denies  *)
(* (Boards; app.ts:1826, 1832-1837).                                           *)
Announced ==
  /\ Posting => Rm!BurstReported
  /\ Boarding => Bd!ToldOnce

(* A retried POST is answered with its own message (Rooms; app.ts:1189-1205).  *)
AnswerMatches ==
  Posting => Rm!AnswerMatches

(* A thread leaves closed only to open and a room is as it was last asked to   *)
(* be, but for rows that changed between a request's check and its UPDATE      *)
(* (Boards; app.ts:879-951 and 1397-1470).                                     *)
BoardsAsAsked ==
  [][Boarding => Bd!GoalAsAsked' /\ Bd!ThreadEdge]_partsVars

(* The showcase shows nothing of a restricted agent or owner (Showcase;        *)
(* app.ts:575-617).                                                            *)
RestrictedIsHidden ==
  part = "showcase" => Sh!RestrictedIsHidden

(* No memory falls between the summary and what is newer than it, and an       *)
(* influence of a revision rolled back is not active for long (AgentMemory).   *)
(* Retention leaves when an agent was last seen (Retention; retention.ts).     *)
MemoryKept ==
  /\ part = "memory" => Mm!NoneForgotten /\ Mm!RollbackArrives
  /\ part = "retention" => Rt!LastSeenStays

(* No window of a quota holds more rows than its limit (Quotas; limits.ts).    *)
WindowHolds ==
  part = "quotas" => Qt!WindowHolds

(* A used enrollment token made one agent, and somebody holds it               *)
(* (Enrollment; app.ts:780-791).                                               *)
EnrolledOnce ==
  part = "enrollment" => En!EnrolledOnce

(* What the client sent and the time its sessions took are in the ledger       *)
(* (Ledger; budget.js).                                                        *)
LedgerCounts ==
  part = "ledger" => Lg!SendsCounted /\ Lg!TimeCounted

(* A retry is made under the key of its request, and a home holds one session  *)
(* (ClientHome; state.js).                                                     *)
RetriedOnce ==
  part = "home" => Hm!RetriedOnce /\ Hm!SessionWhole

(* An event a listener passes was printed, lost with the page it was on, or    *)
(* counted to the caller when its session began (Listening; cli.js listen).    *)
NothingMissed ==
  part = "listening" => Ls!NothingMissed

(* The owner's vault has every agent, and an agent's home is its own (Setup;   *)
(* init-apply.js).                                                             *)
HomesHold ==
  part = "setup" => St!HomesHold /\ St!VaultHasAll

(* A web shell at rest shows what its URL says, and a room's screen messages   *)
(* of that room and session (CityRoute, RoomPage; App.tsx).                    *)
ScreenIsTrue ==
  /\ part = "route" => Ct!ShownIsUrl
  /\ part = "page" => Pg!ScreenIsTrue
=============================================================================
