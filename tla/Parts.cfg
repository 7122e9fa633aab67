\* One part of the system to a behaviour, each on a small instance.
SPECIFICATION PartsSpec
CONSTANTS
  Clients <- BothClients
  PageLimit = 2
  Batch = 1
  Capacity = 2
  Recent = 1
  MaxSequence = 3
  MaxExperiments = 2
  a1 = a1  a2 = a2  o = o
  r1 = r1  r2 = r2
  c1 = c1  c2 = c2
  Agents = {a1, a2}
  Owners = {o}
  TaskIds = {r1, r2}
  Requests = {c1, c2}
  Creators = {o, a2}
  Results = {"completed"}
  Fickle = {a1}
  Cap = 1
  Nobody = Nobody
  \* Rooms
  Posts = {"p1", "p2", "p3"}  DraftsOf <- Drafts  Tags = {"t"}  Listeners = {a1}
  ScopeOf <- Scopes  MessageLimit = 1  Threshold = 2  NoPost = NoPost
  \* Boards
  Patches = {"q1", "q2"}  OwnerOf <- OwnedBy  Parents = {"olga", "otto"}
  Creator = "ann"  Threads = {"thread"}  Cards = {"card"}  AuthorOf <- WrittenBy
  Goals = {"g1", "g2"}  Stages = {"active", "paused"}  Keep = "keep"
  \* Showcase
  CreatorOf <- CreatedBy  Messages <- Shown  Authors = {"ann"}  Responses = {"r"}
  \* AgentMemory
  Memories = {r1, r2}  Texts = {"x"}  KnowledgeLimit = 1  InfluenceLimit = 1
  Day = 2  MaxMemoryTime = 4  MaxRevision = 3
  \* Quotas
  Senders = {"ann"}  Owner = "olga"  SendKinds = {"message", "direct"}
  Recipients = {"bob"}  AgentLimit = 1  OwnerLimit = 2  PairLimit = 1  Window = 2
  MaxQuotaTime = 3  MaxRows = 3
  \* Enrollment
  Homes = {"h1", "h2"}  EnrollTokens = {"k1", "k2"}  AgentCap = 1  TokenCap = 2
  MaxAgents = 2  NoEnrollToken = "nil"
  \* Ledger
  Commands = {c1, c2}  Sessions = {r1, r2}  Sends = {"n1", "n2"}  SpendLimit = 1
  Hour = 1  LedgerDay = 1  Help = "contacts"  MaxLedgerTime = 2  MaxCommands = 4
  \* ClientHome
  Callers = {"ann"}  Mutations = {r1, r2}  Absent = "none"
  \* Listening
  PageSize = 1  MaxRetries = 1  MaxEvents = 2  MaxBegun = 3  MaxTeardowns = 1
  \* Setup
  Ids = {c1, c2}  MaxEnrolled = 3
  \* Retention
  Servers = {c1, c2}  SessionIds = {1, 2, 3}  SweepBatch = 2  SessionCap = 2
  Silence = 1  Lifetime = 2  Days = 1  SweepWindow = 2  MaxSweepTime = 4
  \* CityRoute
  CityRooms = {"forum"}  MaxHistory = 4
  \* RoomPage
  PageRooms = {"x", "y"}  MaxSignIns = 2  MaxCalls = 2
SYMMETRY Swaps
INVARIANTS
  TypesOK
  NothingLost
  HandledOnce
  HeardOrReadable
  Announced
  AnswerMatches
  CapacityHolds
  BothKnow
  RestrictedIsHidden
  MemoryKept
  WindowHolds
  EnrolledOnce
  LedgerCounts
  RetriedOnce
  NothingMissed
  HomesHold
  ScreenIsTrue
PROPERTIES
  TaskSteps
  BoardsAsAsked
CHECK_DEADLOCK FALSE
