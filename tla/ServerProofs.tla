----------------------------- MODULE ServerProofs -----------------------------
(* Proofs about what the server's handlers keep, for any number of agents,   *)
(* owners, requests and messages: a room's messages (Rooms), enrollment       *)
(* (Enrollment), the public pages (Showcase), the boards (Boards), quotas     *)
(* (Quotas), retention (Retention) and private memory (AgentMemory).          *)
(*                                                                          *)
(* Rooms.  A message keeps its place in the room while messages before and   *)
(* after it commit or roll back, at least against every other one: that, the  *)
(* messages under way that a member is still to be told of, what a request   *)
(* took for old, and that an agent's one message under way comes after all    *)
(* that it counted are the strengthening.                                    *)
(*                                                                          *)
(* Enrollment.  A token is used up with the row it makes, and a home waits   *)
(* for the row that its command was answered with.                           *)
(*                                                                          *)
(* Showcase.  A list of an unfinished response was made while each party it  *)
(* shows was free, and a bar that lapsed or was lifted does not come back.   *)
(*                                                                          *)
(* Boards.  A request asks for a change that the row it read allows, and the  *)
(* notices of a card, with the requests that may still send one, are no more  *)
(* than the requests there are.                                              *)
(*                                                                          *)
(* Quotas.  The one request that counted under the lock found room for its   *)
(* row in the window that ends at the clock, and time makes more room.       *)
(*                                                                          *)
(* Retention.  The latest of the rows with the last heartbeat is never stale, *)
(* so that every pass leaves it; only the server with the lock prunes.        *)
(*                                                                          *)
(* AgentMemory.  An influence that an applied rollback took back is so until  *)
(* its owner reactivates it, and persona revisions are saved in order.       *)
(*                                                                          *)
(* The module extends ParticipantProofs so that its last theorem can put the  *)
(* types of all parts together.                                              *)
EXTENDS ParticipantProofs

(* The numbers up to n are n.                                               *)
LEMMA UpTo == \A n \in Nat : IsFiniteSet(1..n) /\ Cardinality(1..n) = n
<1> SUFFICES ASSUME NEW n \in Nat
             PROVE  IsFiniteSet(1..n) /\ Cardinality(1..n) = n
  OBVIOUS
<1>1. /\ IsFiniteSet(1..n)
      /\ Cardinality(1..n) = IF 1 > n THEN 0 ELSE n - 1 + 1
  BY FS_Interval
<1> QED
  BY <1>1

(* Where a message is in a sequence of messages, each of which is there once. *)
At(s, m) == CHOOSE i \in DOMAIN s : s[i] = m
Once(s) == \A i, j \in DOMAIN s : s[i] = s[j] => i = j
In(s) == {s[i] : i \in DOMAIN s}

LEMMA AtIs ==
  ASSUME NEW S, NEW s \in Seq(S), Once(s), NEW m \in In(s)
  PROVE  /\ At(s, m) \in 1..Len(s) /\ s[At(s, m)] = m /\ m \in S
         /\ \A i \in DOMAIN s : s[i] = m => i = At(s, m)
<1>1. PICK i \in DOMAIN s : s[i] = m
  BY DEF In
<1>2. At(s, m) \in DOMAIN s /\ s[At(s, m)] = m
  BY <1>1 DEF At
<1> QED
  BY <1>1, <1>2 DEF Once

(* A message that comes last leaves the others at their places.            *)
LEMMA AppendPlaces ==
  ASSUME NEW S, NEW s \in Seq(S), Once(s), NEW p \in S, p \notin In(s)
  PROVE  /\ Append(s, p) \in Seq(S) /\ Once(Append(s, p))
         /\ In(Append(s, p)) = In(s) \cup {p}
         /\ \A m \in In(s) : At(Append(s, p), m) = At(s, m)
<1> DEFINE t == Append(s, p)
<1>1. t \in Seq(S) /\ DOMAIN t = 1..Len(s) + 1 /\ DOMAIN s = 1..Len(s) /\ Len(s) \in Nat
  OBVIOUS
<1>2. t[Len(s) + 1] = p /\ \A i \in 1..Len(s) : t[i] = s[i]
  OBVIOUS
<1>3. Once(t)
  <2> SUFFICES ASSUME NEW i \in 1..Len(s) + 1, NEW j \in 1..Len(s) + 1, t[i] = t[j]
               PROVE  i = j
    BY <1>1 DEF Once
  <2>1. CASE i \in 1..Len(s) /\ j \in 1..Len(s)
    BY <2>1, <1>1, <1>2 DEF Once
  <2>2. CASE i = Len(s) + 1 /\ j \in 1..Len(s)
    BY <2>2, <1>1, <1>2 DEF In
  <2>3. CASE j = Len(s) + 1 /\ i \in 1..Len(s)
    BY <2>3, <1>1, <1>2 DEF In
  <2>4. CASE i = Len(s) + 1 /\ j = Len(s) + 1
    BY <2>4
  <2> QED
    BY <2>1, <2>2, <2>3, <2>4, <1>1
<1>4. In(t) = In(s) \cup {p}
  <2>1. In(t) \subseteq In(s) \cup {p}
    <3> SUFFICES ASSUME NEW i \in 1..Len(s) + 1
                 PROVE  t[i] \in In(s) \cup {p}
      BY <1>1 DEF In
    <3>1. i \in 1..Len(s) \/ i = Len(s) + 1
      BY <1>1
    <3> QED
      BY <3>1, <1>1, <1>2 DEF In
  <2>2. In(s) \subseteq In(t)
    <3> SUFFICES ASSUME NEW i \in 1..Len(s)
                 PROVE  s[i] \in In(t)
      BY <1>1 DEF In
    <3>1. i \in DOMAIN t
      BY <1>1
    <3> QED
      BY <3>1, <1>2 DEF In
  <2>3. Len(s) + 1 \in DOMAIN t
    BY <1>1
  <2>4. p \in In(t)
    BY <2>3, <1>2 DEF In
  <2> QED
    BY <2>1, <2>2, <2>4
<1>5. ASSUME NEW m \in In(s)
      PROVE  At(t, m) = At(s, m)
  <2>1. At(s, m) \in 1..Len(s) /\ s[At(s, m)] = m
    BY AtIs
  <2>2. At(s, m) \in DOMAIN t /\ t[At(s, m)] = m
    BY <2>1, <1>1, <1>2
  <2>3. m \in In(t)
    BY <1>4
  <2>4. \A i \in DOMAIN t : t[i] = m => i = At(t, m)
    BY <2>3, <1>1, <1>3, AtIs
  <2> QED
    BY <2>2, <2>4
<1> QED
  BY <1>1, <1>3, <1>4, <1>5

(* A message that is rolled back leaves the others in their order.         *)
LEMMA WithoutPlaces ==
  ASSUME NEW S, NEW s \in Seq(S), Once(s), NEW p \in In(s), NEW k, k = At(s, p)
  PROVE  /\ Rm!Without(s, k) \in Seq(S) /\ Once(Rm!Without(s, k))
         /\ In(Rm!Without(s, k)) = In(s) \ {p}
         /\ \A m, n \in In(s) \ {p} :
              At(Rm!Without(s, k), m) <= At(Rm!Without(s, k), n) <=> At(s, m) <= At(s, n)
<1> DEFINE t == Rm!Without(s, k)
           Old(j) == IF j < k THEN j ELSE j + 1
<1>1. k \in 1..Len(s) /\ s[k] = p /\ \A i \in DOMAIN s : s[i] = p => i = k
  BY AtIs
<1>2. Len(s) \in Nat /\ DOMAIN s = 1..Len(s) /\ \A i \in 1..Len(s) : s[i] \in S
  OBVIOUS
<1>3. DOMAIN t = 1..Len(s) - 1
  BY DEF Rm!Without
<1>4. ASSUME NEW j \in 1..Len(s) - 1
      PROVE  Old(j) \in 1..Len(s) /\ Old(j) # k /\ t[j] = s[Old(j)]
  BY <1>1, <1>2, <1>4 DEF Rm!Without
<1>5. t \in Seq(S)
  <2>1. Len(s) - 1 \in Nat
    BY <1>1, <1>2
  <2>2. \A j \in 1..Len(s) - 1 : t[j] \in S
    BY <1>2, <1>4
  <2>3. t \in [1..Len(s) - 1 -> S]
    BY <2>2 DEF Rm!Without
  <2> QED
    BY <2>1, <2>3
<1>6. Once(t)
  <2> SUFFICES ASSUME NEW i \in 1..Len(s) - 1, NEW j \in 1..Len(s) - 1, t[i] = t[j]
               PROVE  i = j
    BY <1>3 DEF Once
  <2>1. Old(i) = Old(j)
    BY <1>2, <1>4 DEF Once
  <2> QED
    BY <2>1, <1>1, <1>2
<1>7. ASSUME NEW m \in In(s) \ {p}
      PROVE  /\ m \in In(t) /\ At(s, m) \in 1..Len(s) /\ At(s, m) # k
             /\ At(t, m) = IF At(s, m) < k THEN At(s, m) ELSE At(s, m) - 1
  <2> DEFINE i == At(s, m)
             j == IF i < k THEN i ELSE i - 1
  <2>1. i \in 1..Len(s) /\ s[i] = m
    BY AtIs
  <2>2. i # k
    BY <2>1, <1>1
  <2>3. j \in 1..Len(s) - 1 /\ Old(j) = i
    BY <2>1, <2>2, <1>1, <1>2
  <2>4. t[j] = m
    BY <2>1, <2>3, <1>4
  <2>5. m \in In(t)
    BY <2>3, <2>4, <1>3 DEF In
  <2>6. j = At(t, m)
    BY <2>3, <2>4, <2>5, <1>3, <1>5, <1>6, AtIs
  <2> QED
    BY <2>1, <2>2, <2>5, <2>6
<1>8. In(t) = In(s) \ {p}
  <2>1. In(t) \subseteq In(s) \ {p}
    <3> SUFFICES ASSUME NEW j \in 1..Len(s) - 1
                 PROVE  t[j] \in In(s) \ {p}
      BY <1>3 DEF In
    <3> QED
      BY <1>1, <1>2, <1>4 DEF In
  <2> QED
    BY <2>1, <1>7
<1>9. ASSUME NEW m \in In(s) \ {p}, NEW n \in In(s) \ {p}
      PROVE  At(t, m) <= At(t, n) <=> At(s, m) <= At(s, n)
  <2> DEFINE i == At(s, m)
             j == At(s, n)
  <2>1. i \in 1..Len(s) /\ j \in 1..Len(s) /\ i # k /\ j # k
    BY <1>7
  <2>2. At(t, m) = (IF i < k THEN i ELSE i - 1) /\ At(t, n) = (IF j < k THEN j ELSE j - 1)
    BY <1>7
  <2>3. \A x, y, z \in 1..Len(s) : x # z /\ y # z =>
          ((IF x < z THEN x ELSE x - 1) <= (IF y < z THEN y ELSE y - 1) <=> x <= y)
    BY <1>2
  <2> QED
    BY <2>1, <2>2, <2>3, <1>1
<1> QED
  BY <1>5, <1>6, <1>8, <1>9

(* The variables of Rooms.                                                 *)
log == s1
ask == s2
opened == s3
answer == s4
fanout == s5
alarm == s6
members == s7
topics == s8
reader == s9
seen == s10
gap == s11
aged == s12
early == s13
USE DEF log, ask, opened, answer, fanout, alarm, members, topics, reader, seen, gap, aged, early

(* Counted means the same there as here.                                   *)
LEMMA RoomCounts == \A S : Rm!Cardinality(S) = Cardinality(S)
BY DEF Rm!Cardinality, Cardinality

------------------------------------------------------------------------------
(* Requests, messages and readers: the invariant of the bookkeeping.       *)
LogInv == log \in Seq(Posts) /\ Once(log) /\ opened \subseteq Rm!Rows /\ alarm \subseteq Rm!Rows
AskInv == /\ ask \in [Posts -> Rm!Asks \cup {NoPost}]
          /\ \A m \in Rm!Rows : ask[m] # NoPost
AnswerInv == /\ answer \in [Posts -> Posts \cup {NoPost, "conflict"}]
             /\ \A p \in Posts : ask[p] = NoPost \/ p \in opened => answer[p] = NoPost
ReachInv == /\ members \subseteq Agents /\ topics \in [Agents -> SUBSET Tags]
            /\ fanout \in [Posts -> SUBSET Agents] /\ gap \in [Rm!Readers -> SUBSET Posts]
ReaderInv == /\ reader \in [Rm!Readers -> Posts \cup {NoPost}] /\ seen \in [Rm!Readers -> SUBSET Posts]
           /\ \A a \in Rm!Readers : reader[a] \in Rm!Visible \cup {NoPost} /\ seen[a] \subseteq Rm!Visible
Base == LogInv /\ AskInv /\ AnswerInv /\ ReachInv /\ ReaderInv

LEMMA RowsArePosts ==
  ASSUME LogInv PROVE Rm!Rows \subseteq Posts /\ Rm!Visible \subseteq Posts /\ opened \subseteq Posts
BY DEF LogInv, Rm!Rows, Rm!Visible

(* What a request asks for is recorded with its message.                   *)
LEMMA AskIsTyped ==
  ASSUME LogInv, AskInv, NEW p \in Posts, NEW d \in DraftsOf[p],
         NEW parent \in Posts \cup {NoPost}, Rm!MayReply(d, parent)
  PROVE  Rm!NewAsk(d, parent) \in Rm!Asks /\ Rm!NewAsk(d, parent).draft = d
         /\ Rm!NewAsk(d, parent).parent = parent
<1>1. d \in UNION {DraftsOf[q] : q \in Posts}
  OBVIOUS
<1>2. ASSUME parent # NoPost
      PROVE  ask[parent] \in Rm!Asks
  <2>1. parent \in Rm!Rows
    BY <1>2 DEF Rm!MayReply, Rm!Visible
  <2> QED
    BY <2>1, RowsArePosts DEF AskInv
<1>3. Rm!NewAsk(d, parent).root \in Posts \cup {NoPost}
  BY <1>2 DEF Rm!NewAsk, Rm!Asks
<1>4. /\ Rm!NewAsk(d, parent) = [draft |-> d, parent |-> parent, root |-> Rm!NewAsk(d, parent).root]
      /\ Rm!NewAsk(d, parent).draft = d /\ Rm!NewAsk(d, parent).parent = parent
  BY DEF Rm!NewAsk
<1> QED
  BY <1>1, <1>3, <1>4 DEF Rm!Asks

(* A new message comes last and is seen by nobody yet.                     *)
LEMMA InsertRows ==
  ASSUME Rm!RoomsAssumption, Base, NEW p \in Posts, NEW d, NEW parent, Rm!Insert(p, d, parent)
  PROVE  /\ p \notin Rm!Rows /\ Rm!Rows' = Rm!Rows \cup {p} /\ Rm!Visible' = Rm!Visible
         /\ log' \in Seq(Posts) /\ Once(log')
         /\ \A m \in Rm!Rows : Rm!Place(m)' = Rm!Place(m)
<1>1. p \notin Rm!Rows /\ log' = Append(log, p) /\ opened' = opened \cup {p} /\ Rm!Rows = In(log)
  BY DEF Base, AskInv, Rm!Insert, In, Rm!Rows
<1>2. /\ Append(log, p) \in Seq(Posts) /\ Once(Append(log, p))
      /\ In(Append(log, p)) = In(log) \cup {p}
      /\ \A m \in In(log) : At(Append(log, p), m) = At(log, m)
  BY <1>1, AppendPlaces DEF Base, LogInv
<1>3. Rm!Rows' = In(log') /\ \A m \in Rm!Rows : Rm!Place(m)' = At(log', m) /\ Rm!Place(m) = At(log, m)
  BY DEF Rm!Rows, In, Rm!Place, At
<1>4. Rm!Rows' = Rm!Rows \cup {p}
  BY <1>1, <1>2, <1>3
<1>5. Rm!Visible' = Rm!Visible
  BY <1>1, <1>4 DEF Rm!Visible, Base, LogInv
<1> QED
  BY <1>1, <1>2, <1>3, <1>4, <1>5

(* A message that rolls back was seen by nobody, and the others keep their order. *)
LEMMA AbortRows ==
  ASSUME Rm!RoomsAssumption, Base, NEW p \in Posts, Rm!Abort(p)
  PROVE  /\ p \notin Rm!Visible /\ Rm!Rows' = Rm!Rows \ {p} /\ Rm!Visible' = Rm!Visible
         /\ log' \in Seq(Posts) /\ Once(log')
         /\ \A m, n \in Rm!Rows \ {p} : (Rm!Place(m) <= Rm!Place(n))' <=> Rm!Place(m) <= Rm!Place(n)
<1> DEFINE k == Rm!Place(p)
<1>1. p \in opened /\ p \in In(log) /\ opened' = opened \ {p} /\ log' = Rm!Without(log, k) /\ Rm!Rows = In(log)
  BY DEF Base, LogInv, Rm!Abort, In, Rm!Rows
<1>2. k = At(log, p)
  BY DEF Rm!Place, At
<1>3. /\ Rm!Without(log, k) \in Seq(Posts) /\ Once(Rm!Without(log, k))
      /\ In(Rm!Without(log, k)) = In(log) \ {p}
      /\ \A m, n \in In(log) \ {p} :
           At(Rm!Without(log, k), m) <= At(Rm!Without(log, k), n) <=> At(log, m) <= At(log, n)
  <2> HIDE DEF k
  <2> QED
    BY <1>1, <1>2, WithoutPlaces DEF Base, LogInv
<1>4. Rm!Rows' = In(log') /\ \A m \in Rm!Rows : Rm!Place(m)' = At(log', m) /\ Rm!Place(m) = At(log, m)
  BY DEF Rm!Rows, In, Rm!Place, At
<1>5. Rm!Rows' = Rm!Rows \ {p}
  BY <1>1, <1>3, <1>4
<1>6. p \notin Rm!Visible /\ Rm!Visible' = Rm!Visible
  BY <1>1, <1>5 DEF Rm!Visible
<1>7. \A m, n \in Rm!Rows \ {p} : (Rm!Place(m) <= Rm!Place(n))' <=> Rm!Place(m) <= Rm!Place(n)
  BY <1>1, <1>3, <1>4
<1> QED
  BY <1>1, <1>3, <1>5, <1>6, <1>7

(* A commit shows its message, and no other step changes the room.         *)
LEMMA CommitRows ==
  ASSUME Rm!RoomsAssumption, Base, NEW p \in Posts, Rm!Commit(p)
  PROVE  p \in Rm!Rows /\ p \notin Rm!Visible /\ Rm!Rows' = Rm!Rows /\ Rm!Visible' = Rm!Visible \cup {p}
         /\ \A m \in Posts : Rm!Place(m)' = Rm!Place(m)
BY DEF Rm!Commit, Rm!Rows, Rm!Visible, Rm!Place, Base, LogInv

(* Whoever enters the room is a member, and only a new one has a gap.      *)
LEMMA EnterTypes ==
  ASSUME Base, NEW a \in Agents, Rm!Enter(a)
  PROVE  members' \subseteq Agents /\ gap' \in [Rm!Readers -> SUBSET Posts]
<1>1. Rm!Lost(a) \subseteq Posts
  BY RowsArePosts DEF Rm!Lost, Base
<1> QED
  BY <1>1 DEF Rm!Enter, Base, ReachInv

LEMMA BaseInit == ASSUME Rm!RoomsAssumption, Rm!Init PROVE Base
<1>1. log \in Seq(Posts) /\ DOMAIN log = {} /\ Rm!Rows = {}
  BY DEF Rm!Init, Rm!Rows
<1> QED
  BY <1>1 DEF Rm!Init, Base, LogInv, Once, AskInv, AnswerInv, ReachInv, ReaderInv, Rm!Visible

LEMMA BaseInsert ==
  ASSUME Rm!RoomsAssumption, Base, NEW p \in Posts, NEW d \in DraftsOf[p],
         NEW parent \in Posts \cup {NoPost}, Rm!Insert(p, d, parent)
  PROVE  Base'
<1>1. /\ p \notin Rm!Rows /\ Rm!Rows' = Rm!Rows \cup {p} /\ Rm!Visible' = Rm!Visible
      /\ log' \in Seq(Posts) /\ Once(log')
  BY InsertRows
<1>2. Rm!NewAsk(d, parent) \in Rm!Asks /\ Rm!NewAsk(d, parent) # NoPost
  BY AskIsTyped DEF Base, Rm!Insert, Rm!RoomsAssumption
<1>3. LogInv'
  BY <1>1 DEF Rm!Insert, Base, LogInv
<1>4. AskInv'
  BY <1>1, <1>2 DEF Rm!Insert, Base, AskInv
<1>5. AnswerInv'
  BY <1>2 DEF Rm!Insert, Base, AnswerInv, AskInv
<1>6. Rm!Audience(d) \subseteq Agents
  BY DEF Rm!Audience, Base, ReachInv, Rm!RoomsAssumption
<1>7. ReachInv'
  BY <1>6 DEF Rm!Insert, Base, ReachInv
<1>8. ReaderInv'
  BY <1>1 DEF Rm!Insert, Base, ReaderInv
<1> QED
  BY <1>3, <1>4, <1>5, <1>7, <1>8 DEF Base

LEMMA BaseRepeat ==
  ASSUME Rm!RoomsAssumption, Base, NEW p \in Posts, NEW d \in DraftsOf[p],
         NEW parent \in Posts \cup {NoPost}, Rm!Repeat(p, d, parent)
  PROVE  Base'
<1>1. Rm!NewAsk(d, parent) \in Rm!Asks /\ Rm!NewAsk(d, parent) # NoPost
  BY AskIsTyped DEF Base, Rm!Repeat, Rm!RoomsAssumption
<1>2. Rm!Rows' = Rm!Rows /\ Rm!Visible' = Rm!Visible /\ p \notin Rm!Rows /\ p \notin opened
  BY DEF Rm!Repeat, Rm!Rows, Rm!Visible, Base, AskInv, LogInv
<1>3. PICK m \in Rm!Holder(d) :
        answer' = [answer EXCEPT ![p] = IF Rm!SameMessage(m, d, parent) THEN m ELSE "conflict"]
  BY DEF Rm!Repeat
<1>4. m \in Posts
  BY RowsArePosts DEF Rm!Holder, Base
<1>5. LogInv'
  BY <1>2 DEF Rm!Repeat, Base, LogInv
<1>6. AskInv'
  BY <1>1, <1>2 DEF Rm!Repeat, Base, AskInv
<1>7. AnswerInv'
  BY <1>1, <1>2, <1>3, <1>4 DEF Rm!Repeat, Base, AnswerInv, AskInv
<1>8. ReachInv' /\ ReaderInv'
  BY <1>2 DEF Rm!Repeat, Base, ReachInv, ReaderInv
<1> QED
  BY <1>5, <1>6, <1>7, <1>8 DEF Base

LEMMA BaseCommit ==
  ASSUME Rm!RoomsAssumption, Base, NEW p \in Posts, Rm!Commit(p) PROVE Base'
<1>1. p \in Rm!Rows /\ Rm!Rows' = Rm!Rows /\ Rm!Visible' = Rm!Visible \cup {p}
  BY CommitRows
<1>2. LogInv'
  BY <1>1 DEF Rm!Commit, Base, LogInv
<1>3. AskInv'
  BY <1>1 DEF Rm!Commit, Base, AskInv
<1>4. AnswerInv'
  BY <1>1 DEF Rm!Commit, Base, AnswerInv, AskInv
<1>5. members' \subseteq Agents /\ gap' \in [Rm!Readers -> SUBSET Posts]
  BY EnterTypes DEF Rm!Commit, Base, ReachInv
<1>6. ReachInv'
  BY <1>5 DEF Rm!Commit, Base, ReachInv
<1>7. ReaderInv'
  BY <1>1 DEF Rm!Commit, Base, ReaderInv
<1> QED
  BY <1>2, <1>3, <1>4, <1>6, <1>7 DEF Base

LEMMA BaseAbort ==
  ASSUME Rm!RoomsAssumption, Base, NEW p \in Posts, Rm!Abort(p) PROVE Base'
<1>1. /\ Rm!Rows' = Rm!Rows \ {p} /\ Rm!Visible' = Rm!Visible
      /\ log' \in Seq(Posts) /\ Once(log')
  BY AbortRows
<1>2. LogInv'
  BY <1>1 DEF Rm!Abort, Base, LogInv
<1>3. AskInv'
  BY <1>1, RowsArePosts DEF Rm!Abort, Base, AskInv
<1>4. AnswerInv'
  BY DEF Rm!Abort, Base, AnswerInv, AskInv
<1>5. ReachInv'
  BY DEF Rm!Abort, Base, ReachInv
<1>6. ReaderInv'
  BY <1>1 DEF Rm!Abort, Base, ReaderInv
<1> QED
  BY <1>2, <1>3, <1>4, <1>5, <1>6 DEF Base

LEMMA BaseMembers ==
  ASSUME Rm!RoomsAssumption, Base, NEW a \in Agents, Rm!Join(a) \/ Rm!Leave(a) PROVE Base'
<1>1. Rm!Rows' = Rm!Rows /\ Rm!Visible' = Rm!Visible
  BY DEF Rm!Join, Rm!Leave, Rm!Rows, Rm!Visible
<1>2. members' \subseteq Agents /\ gap' \in [Rm!Readers -> SUBSET Posts]
  <2>1. CASE Rm!Join(a)
    BY <2>1, EnterTypes DEF Rm!Join
  <2>2. CASE Rm!Leave(a)
    BY <2>2 DEF Rm!Leave, Base, ReachInv
  <2> QED
    BY <2>1, <2>2
<1> QED
  BY <1>1, <1>2 DEF Rm!Join, Rm!Leave, Base, LogInv, AskInv, AnswerInv, ReachInv, ReaderInv

LEMMA BaseReadPage ==
  ASSUME Rm!RoomsAssumption, Base, NEW a \in Rm!Readers, Rm!ReadPage(a) PROVE Base'
<1>1. Rm!Rows' = Rm!Rows /\ Rm!Visible' = Rm!Visible
  BY DEF Rm!ReadPage, Rm!Rows, Rm!Visible
<1>2. PICK last \in Rm!Following(a) :
        /\ reader' = [reader EXCEPT ![a] = last]
        /\ seen' = [seen EXCEPT ![a] = @ \cup Rm!UpTo(last, Rm!Following(a))]
  BY DEF Rm!ReadPage
<1>3. last \in Rm!Visible /\ Rm!UpTo(last, Rm!Following(a)) \subseteq Rm!Visible /\ Rm!Visible \subseteq Posts
  BY RowsArePosts DEF Rm!Following, Rm!UpTo, Base
<1>4. ReaderInv'
  BY <1>1, <1>2, <1>3 DEF Base, ReaderInv
<1> QED
  BY <1>1, <1>4 DEF Rm!ReadPage, Base, LogInv, AskInv, AnswerInv, ReachInv

LEMMA BaseStep == ASSUME Rm!RoomsAssumption, Base, [Rm!Next]_(Rm!vars) PROVE Base'
<1>1. CASE UNCHANGED Rm!vars
  BY <1>1 DEF Rm!vars, Base, LogInv, AskInv, AnswerInv, ReachInv, ReaderInv, Rm!Rows, Rm!Visible
<1>2. ASSUME NEW p \in Posts, NEW parent \in Posts \cup {NoPost}, NEW d \in DraftsOf[p],
             Rm!Insert(p, d, parent) \/ Rm!Repeat(p, d, parent)
      PROVE  Base'
  BY <1>2, BaseInsert, BaseRepeat
<1>3. ASSUME NEW p \in Posts, Rm!Commit(p) \/ Rm!Abort(p) PROVE Base'
  BY <1>3, BaseCommit, BaseAbort
<1>4. ASSUME NEW a \in Agents, Rm!Join(a) \/ Rm!Leave(a) PROVE Base'
  BY <1>4, BaseMembers
<1>5. ASSUME NEW a \in Rm!Readers, Rm!ReadPage(a) PROVE Base'
  BY <1>5, BaseReadPage
<1>6. ASSUME NEW a \in Listeners, NEW T \in SUBSET Tags, Rm!SetTopics(a, T) PROVE Base'
  <2>1. Rm!Rows' = Rm!Rows /\ Rm!Visible' = Rm!Visible
    BY <1>6 DEF Rm!SetTopics, Rm!Rows, Rm!Visible
  <2> QED
    BY <1>6, <2>1 DEF Rm!SetTopics, Base, LogInv, AskInv, AnswerInv, ReachInv, ReaderInv
<1>7. CASE Rm!Age
  BY <1>7 DEF Rm!Age, Base, LogInv, AskInv, AnswerInv, ReachInv, ReaderInv, Rm!Rows, Rm!Visible
<1> QED
  BY <1>1, <1>2, <1>3, <1>4, <1>5, <1>6, <1>7 DEF Rm!Next

------------------------------------------------------------------------------
(* A retried POST gets its own message: what is visible stays as it is.    *)
LEMMA AnswerInsert ==
  ASSUME Rm!RoomsAssumption, Base, Rm!AnswerMatches, NEW p \in Posts, NEW d \in DraftsOf[p],
         NEW parent \in Posts \cup {NoPost}, Rm!Insert(p, d, parent)
  PROVE  Rm!AnswerMatches'
<1>1. p \notin Rm!Rows /\ Rm!Visible' = Rm!Visible
  BY InsertRows
<1>2. answer' = answer /\ answer[p] = NoPost /\ \A q \in Posts : q # p => ask'[q] = ask[q]
  BY DEF Rm!Insert, Base, AnswerInv, AskInv
<1>3. ASSUME NEW q \in Posts, answer[q] \in Posts
      PROVE  q # p /\ answer[q] # p
  BY <1>1, <1>2, <1>3 DEF Rm!AnswerMatches, Rm!Visible, Rm!RoomsAssumption
<1> QED
  BY <1>1, <1>2, <1>3 DEF Rm!AnswerMatches

LEMMA AnswerRepeat ==
  ASSUME Rm!RoomsAssumption, Base, Rm!AnswerMatches, NEW p \in Posts, NEW d \in DraftsOf[p],
         NEW parent \in Posts \cup {NoPost}, Rm!Repeat(p, d, parent)
  PROVE  Rm!AnswerMatches'
<1>1. PICK m \in Rm!Holder(d) :
        answer' = [answer EXCEPT ![p] = IF Rm!SameMessage(m, d, parent) THEN m ELSE "conflict"]
  BY DEF Rm!Repeat
<1>2. /\ ask' = [ask EXCEPT ![p] = Rm!NewAsk(d, parent)] /\ Rm!Visible' = Rm!Visible
      /\ p \notin Rm!Visible /\ m \in Rm!Visible /\ Rm!Visible \subseteq Posts
      /\ Rm!Sender(m) = d.sender /\ Rm!Draft(m).key = d.key
  BY RowsArePosts DEF Rm!Repeat, Rm!Holder, Rm!Rows, Rm!Visible, Base, AskInv
<1>3. ask'[p].draft = d /\ ask'[p].parent = parent
  BY <1>2, AskIsTyped DEF Rm!Repeat, Base, AskInv
<1>4. \A q \in Posts : q # p => ask'[q] = ask[q] /\ answer'[q] = answer[q]
  BY <1>1, <1>2 DEF Base, AskInv, AnswerInv
<1>5. ASSUME NEW q \in Posts, q # p, answer'[q] \in Posts
      PROVE  /\ answer'[q] \in Rm!Visible' /\ ask'[answer'[q]].parent = ask'[q].parent
             /\ \A field \in {"sender", "key", "to", "text"} :
                  ask'[answer'[q]].draft[field] = ask'[q].draft[field]
  BY <1>2, <1>4, <1>5 DEF Rm!AnswerMatches
<1>6. ASSUME answer'[p] \in Posts
      PROVE  /\ answer'[p] \in Rm!Visible' /\ ask'[answer'[p]].parent = ask'[p].parent
             /\ \A field \in {"sender", "key", "to", "text"} :
                  ask'[answer'[p]].draft[field] = ask'[p].draft[field]
  <2>1. Rm!SameMessage(m, d, parent) /\ answer'[p] = m
    BY <1>1, <1>6 DEF Rm!RoomsAssumption, Base, AnswerInv
  <2>2. m # p /\ ask'[m] = ask[m]
    BY <1>2, <1>4
  <2> QED
    BY <1>2, <1>3, <2>1, <2>2 DEF Rm!SameMessage, Rm!Sender, Rm!Draft
<1> QED
  BY <1>5, <1>6 DEF Rm!AnswerMatches

LEMMA AnswerEnds ==
  ASSUME Rm!RoomsAssumption, Base, Rm!AnswerMatches, NEW p \in Posts, Rm!Commit(p) \/ Rm!Abort(p)
  PROVE  Rm!AnswerMatches'
<1>1. answer[p] = NoPost /\ p \in Posts /\ p \notin Rm!Visible
  BY DEF Rm!Commit, Rm!Abort, Base, AnswerInv, LogInv, Rm!Visible
<1>2. CASE Rm!Commit(p)
  <2>1. p \in Rm!Visible' /\ Rm!Visible' = Rm!Visible \cup {p}
    BY <1>2, CommitRows
  <2>2. answer' = [answer EXCEPT ![p] = p] /\ ask' = ask
    BY <1>2 DEF Rm!Commit
  <2> QED
    BY <2>1, <2>2 DEF Rm!AnswerMatches, Base, AnswerInv
<1>3. CASE Rm!Abort(p)
  <2>1. Rm!Visible' = Rm!Visible
    BY <1>3, AbortRows
  <2>2. answer' = answer /\ \A q \in Posts : q # p => ask'[q] = ask[q]
    BY <1>3 DEF Rm!Abort, Base, AskInv
  <2>3. ASSUME NEW q \in Posts, answer[q] \in Posts
        PROVE  q # p /\ answer[q] # p
    BY <1>1, <2>3 DEF Rm!AnswerMatches, Rm!RoomsAssumption
  <2> QED
    BY <2>1, <2>2, <2>3 DEF Rm!AnswerMatches
<1> QED
  BY <1>2, <1>3

LEMMA MatchStep == ASSUME Rm!RoomsAssumption, Base, Rm!AnswerMatches, [Rm!Next]_(Rm!vars) PROVE Rm!AnswerMatches'
<1>1. ASSUME UNCHANGED <<log, ask, opened, answer>> PROVE Rm!AnswerMatches'
  BY <1>1 DEF Rm!AnswerMatches, Rm!Visible, Rm!Rows
<1>2. ASSUME NEW p \in Posts, NEW parent \in Posts \cup {NoPost}, NEW d \in DraftsOf[p],
             Rm!Insert(p, d, parent) \/ Rm!Repeat(p, d, parent)
      PROVE  Rm!AnswerMatches'
  BY <1>2, AnswerInsert, AnswerRepeat
<1>3. ASSUME NEW p \in Posts, Rm!Commit(p) \/ Rm!Abort(p) PROVE Rm!AnswerMatches'
  BY <1>3, AnswerEnds
<1> QED
  BY <1>1, <1>2, <1>3 DEF Rm!Next, Rm!vars, Rm!Age, Rm!Join, Rm!Leave, Rm!ReadPage, Rm!SetTopics

(* A thread hangs from a message that is committed and is no reply.        *)
Rooted ==
  \A m \in Rm!Rows : ask[m].root # NoPost =>
    ask[m].root \in Rm!Visible /\ ask[ask[m].root].root = NoPost

LEMMA RootedKept ==
  ASSUME Base, Rooted, Rm!Rows' \subseteq Rm!Rows, Rm!Visible \subseteq Rm!Visible', \A m \in Rm!Rows' : ask'[m] = ask[m]
  PROVE  Rooted'
<1>1. Rm!Visible \subseteq Rm!Rows
  BY DEF Rm!Visible
<1> SUFFICES ASSUME NEW m \in Rm!Rows', ask'[m].root # NoPost
             PROVE  ask'[m].root \in Rm!Visible' /\ ask'[ask'[m].root].root = NoPost
  BY DEF Rooted
<1>2. ask[m].root \in Rm!Visible /\ ask[ask[m].root].root = NoPost
  BY DEF Rooted
<1>3. ask[m].root \in Rm!Rows'
  BY <1>2 DEF Rm!Visible
<1> QED
  BY <1>2, <1>3

LEMMA RootedStep ==
  ASSUME Rm!RoomsAssumption, Base, Rooted, [Rm!Next]_(Rm!vars) PROVE Rooted'
<1>1. CASE Rm!Rows' = Rm!Rows /\ Rm!Visible' = Rm!Visible /\ ask' = ask
  BY <1>1, RootedKept
<1>2. ASSUME NEW p \in Posts, NEW parent \in Posts \cup {NoPost}, NEW d \in DraftsOf[p],
             Rm!Insert(p, d, parent)
      PROVE  Rooted'
  <2>1. p \notin Rm!Rows /\ Rm!Rows' = Rm!Rows \cup {p} /\ Rm!Visible' = Rm!Visible /\ Rm!Visible \subseteq Rm!Rows
    BY <1>2, InsertRows DEF Rm!Visible
  <2>2. /\ ask'[p] = Rm!NewAsk(d, parent) /\ \A m \in Posts : m # p => ask'[m] = ask[m]
        /\ parent = NoPost \/ parent \in Rm!Visible
    BY <1>2 DEF Rm!Insert, Base, AskInv, Rm!MayReply
  <2>3. Rm!Rows \subseteq Posts
    BY RowsArePosts DEF Base
  <2>4. Rm!NewAsk(d, parent).root # NoPost =>
          Rm!NewAsk(d, parent).root \in Rm!Visible /\ ask[Rm!NewAsk(d, parent).root].root = NoPost
    <3>1. CASE parent = NoPost
      BY <3>1 DEF Rm!NewAsk
    <3>2. CASE parent \in Rm!Visible /\ parent # NoPost
      BY <2>1, <3>2 DEF Rm!NewAsk, Rooted
    <3> QED
      BY <2>2, <3>1, <3>2
  <2> QED
    BY <2>1, <2>2, <2>3, <2>4 DEF Rooted
<1>3. ASSUME NEW p \in Posts, NEW parent \in Posts \cup {NoPost}, NEW d \in DraftsOf[p],
             Rm!Repeat(p, d, parent)
      PROVE  Rooted'
  <2>1. p \notin Rm!Rows /\ Rm!Rows' = Rm!Rows /\ Rm!Visible' = Rm!Visible
    BY <1>3 DEF Rm!Repeat, Base, AskInv, Rm!Rows, Rm!Visible
  <2>2. \A m \in Rm!Rows : ask'[m] = ask[m]
    BY <1>3, <2>1, RowsArePosts DEF Rm!Repeat, Base, AskInv
  <2> QED
    BY <2>1, <2>2, RootedKept
<1>4. ASSUME NEW p \in Posts, Rm!Commit(p) PROVE Rooted'
  BY <1>4, CommitRows, RootedKept DEF Rm!Commit
<1>5. ASSUME NEW p \in Posts, Rm!Abort(p) PROVE Rooted'
  <2>1. Rm!Rows' = Rm!Rows \ {p} /\ Rm!Visible' = Rm!Visible
    BY <1>5, AbortRows
  <2>2. \A m \in Rm!Rows' : ask'[m] = ask[m]
    BY <1>5, <2>1, RowsArePosts DEF Rm!Abort, Base, AskInv
  <2> QED
    BY <2>1, <2>2, RootedKept
<1>6. CASE \/ UNCHANGED Rm!vars
           \/ Rm!Age
           \/ \E a \in Agents : Rm!Join(a) \/ Rm!Leave(a)
           \/ \E a \in Rm!Readers : Rm!ReadPage(a)
           \/ \E a \in Listeners, T \in SUBSET Tags : Rm!SetTopics(a, T)
  <2>1. UNCHANGED <<log, opened, ask>>
    BY <1>6 DEF Rm!vars, Rm!Age, Rm!Join, Rm!Leave, Rm!ReadPage, Rm!SetTopics
  <2> QED
    BY <1>1, <2>1 DEF Rm!Rows, Rm!Visible
<1>7. CASE \E p \in {q \in Posts : ask[q] = NoPost}, parent \in Posts \cup {NoPost} :
             \E d \in DraftsOf[p] : Rm!Insert(p, d, parent) \/ Rm!Repeat(p, d, parent)
  BY <1>2, <1>3, <1>7
<1>8. CASE \E p \in Posts : Rm!Commit(p) \/ Rm!Abort(p)
  BY <1>4, <1>5, <1>8
<1> QED
  BY <1>6, <1>7, <1>8 DEF Rm!Next

(* A row is at one place, and no other row is there.                       *)
LEMMA PlaceIs ==
  ASSUME NEW s \in Seq(Posts), Once(s)
  PROVE  \A m, n \in In(s) : At(s, m) \in Nat /\ (At(s, m) = At(s, n) => m = n)
<1> SUFFICES ASSUME NEW m \in In(s), NEW n \in In(s)
             PROVE  At(s, m) \in Nat /\ (At(s, m) = At(s, n) => m = n)
  OBVIOUS
<1>1. At(s, m) \in 1..Len(s) /\ s[At(s, m)] = m
  BY AtIs
<1>2. At(s, n) \in 1..Len(s) /\ s[At(s, n)] = n
  BY AtIs
<1> QED
  BY <1>1, <1>2

LEMMA Places ==
  ASSUME Base
  PROVE  \A m, n \in Rm!Rows : Rm!Place(m) \in Nat /\ (Rm!Place(m) = Rm!Place(n) => m = n)
<1>1. Rm!Rows = In(log) /\ \A m : Rm!Place(m) = At(log, m)
  BY DEF Rm!Rows, In, Rm!Place, At
<1>2. \A m, n \in In(log) : At(log, m) \in Nat /\ (At(log, m) = At(log, n) => m = n)
  BY PlaceIs DEF Base, LogInv
<1> QED
  BY <1>1, <1>2

(* A new row comes after every other.                                      *)
LEMMA InsertLast ==
  ASSUME Rm!RoomsAssumption, Base, NEW p \in Posts, NEW d, NEW parent, Rm!Insert(p, d, parent)
  PROVE  \A m \in Rm!Rows : Rm!Place(m) < Rm!Place(p)'
<1>1. p \notin Rm!Rows /\ log' = Append(log, p) /\ Rm!Rows = In(log) /\ log \in Seq(Posts) /\ Once(log)
  BY DEF Base, LogInv, AskInv, Rm!Insert, In, Rm!Rows
<1>2. Append(log, p) \in Seq(Posts) /\ Once(Append(log, p)) /\ In(Append(log, p)) = In(log) \cup {p}
  BY <1>1, AppendPlaces
<1>3. Len(log) \in Nat /\ Len(log) + 1 \in DOMAIN Append(log, p) /\ Append(log, p)[Len(log) + 1] = p
  BY <1>1
<1>4. At(Append(log, p), p) = Len(log) + 1
  BY <1>2, <1>3, AtIs
<1>5. Rm!Place(p)' = At(log', p) /\ \A m : Rm!Place(m) = At(log, m)
  BY DEF Rm!Place, At
<1>6. \A m \in In(log) : At(log, m) \in 1..Len(log)
  BY <1>1, AtIs
<1> QED
  BY <1>1, <1>3, <1>4, <1>5, <1>6

(* Messages of agents grow old in the order of their places, and those that  *)
(* were old for a request are old still.                                     *)
AgeInv ==
  /\ aged \subseteq Rm!Timed
  /\ \A m \in aged, q \in Rm!Timed : Rm!Place(q) <= Rm!Place(m) => q \in aged
  /\ early \in [Posts -> SUBSET Posts]
  /\ \A m \in Rm!Rows : early[m] \subseteq aged \cap Rm!Visible

LEMMA AgeInsert ==
  ASSUME Rm!RoomsAssumption, Base, AgeInv, NEW p \in Posts, NEW d \in DraftsOf[p],
         NEW parent \in Posts \cup {NoPost}, Rm!Insert(p, d, parent)
  PROVE  AgeInv'
<1>1. p \notin Rm!Rows /\ Rm!Rows' = Rm!Rows \cup {p} /\ Rm!Visible' = Rm!Visible /\ Rm!Visible \subseteq Rm!Rows
      /\ \A m \in Rm!Rows : Rm!Place(m)' = Rm!Place(m) /\ Rm!Place(m) < Rm!Place(p)' /\ Rm!Place(m) \in Nat
  BY InsertRows, InsertLast, Places DEF Rm!Visible
<1>2. Rm!Rows \subseteq Posts
  BY RowsArePosts DEF Base
<1>3. PICK from \in IF d.sender \in Agents THEN Rm!Starts(d) ELSE {{}} : early' = [early EXCEPT ![p] = from]
  BY DEF Rm!Insert
<1>4. aged' = aged /\ \A m \in Rm!Rows : Rm!Sender(m)' = Rm!Sender(m)
  BY <1>1, <1>2 DEF Rm!Insert, Base, AskInv, Rm!Sender, Rm!Draft
<1>5. Rm!Timed' \subseteq Rm!Timed \cup {p} /\ Rm!Timed \subseteq Rm!Timed' /\ Rm!Timed \subseteq Rm!Rows
  BY <1>1, <1>4 DEF Rm!Timed
<1>6. from \subseteq aged \cap Rm!Visible
  <2> SUFFICES ASSUME d.sender \in Agents, NEW m \in Rm!SameText(d.sender, d.text) \cap aged,
                      from = Rm!UpTo(m, Rm!SameText(d.sender, d.text))
               PROVE  from \subseteq aged \cap Rm!Visible
    BY <1>3 DEF Rm!Starts
  <2>1. Rm!SameText(d.sender, d.text) \subseteq Rm!Timed \cap Rm!Visible
    BY <1>1 DEF Rm!SameText, Rm!Timed
  <2> QED
    BY <2>1 DEF AgeInv, Rm!UpTo
<1>7. \A m \in aged, q \in Rm!Timed' : Rm!Place(q)' <= Rm!Place(m)' => q \in aged
  <2> SUFFICES ASSUME NEW m \in aged, NEW q \in Rm!Timed', Rm!Place(q)' <= Rm!Place(m)'
               PROVE  q \in aged
    OBVIOUS
  <2>1. m \in Rm!Rows /\ Rm!Place(m)' = Rm!Place(m) /\ Rm!Place(m) < Rm!Place(p)'
    BY <1>1, <1>5 DEF AgeInv
  <2>2. CASE q = p
    <3>1. Rm!Place(p)' <= Rm!Place(m)
      BY <2>1, <2>2
    <3>2. Rm!Place(p)' \in Nat
      <4>1. log' \in Seq(Posts) /\ Once(log') /\ p \in In(log')
        BY <1>1, InsertRows DEF Rm!Rows, In
      <4> QED
        BY <4>1, PlaceIs DEF Rm!Place, At
    <3> QED
      BY <1>1, <2>1, <3>1, <3>2
  <2>3. CASE q \in Rm!Timed
    <3>1. Rm!Place(q) <= Rm!Place(m)
      BY <1>1, <1>5, <2>1, <2>3
    <3> QED
      BY <2>3, <3>1 DEF AgeInv
  <2> QED
    BY <1>5, <2>2, <2>3
<1>8. early' \in [Posts -> SUBSET Posts]
  BY <1>1, <1>2, <1>3, <1>6 DEF AgeInv
<1>9. \A m \in Rm!Rows \cup {p} : early'[m] \subseteq aged \cap Rm!Visible
  BY <1>2, <1>3, <1>6 DEF AgeInv
<1> QED
  BY <1>1, <1>4, <1>5, <1>7, <1>8, <1>9 DEF AgeInv

LEMMA AgeAbort ==
  ASSUME Rm!RoomsAssumption, Base, AgeInv, NEW p \in Posts, Rm!Abort(p)
  PROVE  AgeInv'
<1>1. p \notin Rm!Visible /\ Rm!Rows' = Rm!Rows \ {p} /\ Rm!Visible' = Rm!Visible
      /\ \A m, n \in Rm!Rows \ {p} : (Rm!Place(m) <= Rm!Place(n))' <=> Rm!Place(m) <= Rm!Place(n)
  BY AbortRows
<1>2. /\ aged' = aged \ {p} /\ early' = [q \in Posts |-> IF q = p THEN {} ELSE early[q] \ {p}]
      /\ ask' = [ask EXCEPT ![p] = NoPost] /\ Rm!Rows \subseteq Posts
  BY RowsArePosts DEF Rm!Abort, Base
<1>3. \A m \in Rm!Rows \ {p} : Rm!Sender(m)' = Rm!Sender(m)
  BY <1>2 DEF Base, AskInv, Rm!Sender, Rm!Draft
<1>4. Rm!Timed' = Rm!Timed \ {p} /\ Rm!Timed \subseteq Rm!Rows
  BY <1>1, <1>3 DEF Rm!Timed
<1>5. \A m \in aged', q \in Rm!Timed' : (Rm!Place(q) <= Rm!Place(m))' => q \in aged'
  <2> SUFFICES ASSUME NEW m \in aged \ {p}, NEW q \in Rm!Timed \ {p}, (Rm!Place(q) <= Rm!Place(m))'
               PROVE  q \in aged
    BY <1>2, <1>4
  <2>1. Rm!Place(q) <= Rm!Place(m)
    BY <1>1, <1>4 DEF AgeInv
  <2> QED
    BY <2>1 DEF AgeInv
<1>6. early' \in [Posts -> SUBSET Posts]
  BY <1>2 DEF AgeInv
<1>7. \A m \in Rm!Rows \ {p} : early'[m] \subseteq (aged \ {p}) \cap Rm!Visible
  BY <1>1, <1>2 DEF AgeInv
<1> QED
  BY <1>1, <1>2, <1>4, <1>5, <1>6, <1>7 DEF AgeInv

(* What is no older than a message that grows old grows old with it.       *)
LEMMA Aging ==
  ASSUME Base, AgeInv, Rm!Age
  PROVE  AgeInv'
<1>1. PICK m \in Rm!Timed \ aged : aged' = Rm!UpTo(m, Rm!Timed)
  BY DEF Rm!Age
<1>2. UNCHANGED <<log, ask, opened, early>>
  BY DEF Rm!Age
<1>3. /\ Rm!Rows' = Rm!Rows /\ Rm!Visible' = Rm!Visible /\ Rm!Timed' = Rm!Timed
      /\ \A q : Rm!Place(q)' = Rm!Place(q)
  BY <1>2 DEF Rm!Rows, Rm!Visible, Rm!Timed, Rm!Sender, Rm!Draft, Rm!Place
<1>4. Rm!Timed \subseteq Rm!Rows /\ \A q \in Rm!Rows : Rm!Place(q) \in Nat
  BY Places DEF Rm!Timed
<1>5. aged' \subseteq Rm!Timed /\ \A n \in aged', q \in Rm!Timed : Rm!Place(q) <= Rm!Place(n) => q \in aged'
  BY <1>1, <1>4 DEF Rm!UpTo
<1>6. aged \subseteq aged'
  <2> SUFFICES ASSUME NEW q \in aged PROVE q \in aged'
    OBVIOUS
  <2>1. q \in Rm!Timed /\ ~(Rm!Place(m) <= Rm!Place(q))
    BY <1>1 DEF AgeInv
  <2>2. Rm!Place(q) <= Rm!Place(m)
    BY <1>1, <1>4, <2>1
  <2> QED
    BY <1>1, <2>1, <2>2 DEF Rm!UpTo
<1> QED
  BY <1>2, <1>3, <1>5, <1>6 DEF AgeInv

(* Nothing grows old, no row comes or goes.                                *)
LEMMA AgeSame ==
  ASSUME AgeInv, UNCHANGED <<log, aged, early>>, Rm!Visible \subseteq Rm!Visible',
         \A m \in Rm!Rows : ask'[m] = ask[m]
  PROVE  AgeInv'
<1>1. Rm!Rows' = Rm!Rows /\ \A q : Rm!Place(q)' = Rm!Place(q)
  BY DEF Rm!Rows, Rm!Place
<1>2. Rm!Timed' = Rm!Timed
  BY <1>1 DEF Rm!Timed, Rm!Sender, Rm!Draft
<1> QED
  BY <1>1, <1>2 DEF AgeInv

LEMMA AgeStep == ASSUME Rm!RoomsAssumption, Base, AgeInv, [Rm!Next]_(Rm!vars) PROVE AgeInv'
<1>1. ASSUME UNCHANGED <<log, ask, opened, aged, early>> PROVE AgeInv'
  BY <1>1, AgeSame DEF Rm!Visible, Rm!Rows
<1>2. ASSUME NEW p \in Posts, NEW parent \in Posts \cup {NoPost}, NEW d \in DraftsOf[p],
             Rm!Insert(p, d, parent)
      PROVE  AgeInv'
  BY <1>2, AgeInsert
<1>3. ASSUME NEW p \in Posts, NEW parent, NEW d, Rm!Repeat(p, d, parent) PROVE AgeInv'
  <2>1. \A m \in Rm!Rows : ask'[m] = ask[m]
    BY <1>3, RowsArePosts DEF Rm!Repeat, Base, AskInv
  <2> QED
    BY <1>3, <2>1, AgeSame DEF Rm!Repeat, Rm!Visible, Rm!Rows
<1>4. ASSUME NEW p \in Posts, Rm!Commit(p) PROVE AgeInv'
  BY <1>4, CommitRows, AgeSame DEF Rm!Commit
<1>5. ASSUME NEW p \in Posts, Rm!Abort(p) PROVE AgeInv'
  BY <1>5, AgeAbort
<1>6. CASE Rm!Age
  BY <1>6, Aging
<1> QED
  BY <1>1, <1>2, <1>3, <1>4, <1>5, <1>6 DEF Rm!Next, Rm!vars, Rm!Join, Rm!Leave, Rm!ReadPage, Rm!SetTopics

LEMMA AgeInit == ASSUME Rm!RoomsAssumption, Rm!Init PROVE AgeInv
<1>1. Rm!Rows = {} /\ aged = {} /\ early = [p \in Posts |-> {}]
  BY DEF Rm!Init, Rm!Rows
<1> QED
  BY <1>1 DEF AgeInv

(* The rows of a room, the requests that are under way and what each reader *)
(* was given keep their types, a thread has one root (app.ts:1189-1205), and  *)
(* what was over 60 seconds old for a request stays so (app.ts:1261).        *)
THEOREM RoomsTypeCorrect == ASSUME Rm!RoomsAssumption PROVE Rm!Spec => [](Base /\ AgeInv /\ Rm!TypeOK)
<1>1. Rm!Init => Base /\ Rooted /\ AgeInv
  <2>1. Rm!Init => Rooted
    BY DEF Rm!Init, Rooted, Rm!Rows
  <2> QED
    BY <2>1, BaseInit, AgeInit
<1>2. Base /\ Rooted /\ AgeInv /\ [Rm!Next]_(Rm!vars) => Base' /\ Rooted' /\ AgeInv'
  BY BaseStep, RootedStep, AgeStep
<1>3. Base /\ Rooted /\ AgeInv => Rm!TypeOK
  BY DEF Base, LogInv, AskInv, ReachInv, ReaderInv, Rooted, AgeInv, Rm!Timed, Rm!Visible, Rm!TypeOK
<1> QED
  BY <1>1, <1>2, <1>3, PTL DEF Rm!Spec

(* A request is answered with the one message of its sender and key, with  *)
(* the body, the addressee and the parent it asked for, for any requests   *)
(* that overlap, repeat or roll back (app.ts:1189-1211).                   *)
THEOREM AnswerCorrect == ASSUME Rm!RoomsAssumption PROVE Rm!Spec => []Rm!AnswerMatches
<1>1. Rm!Init => Base /\ Rm!AnswerMatches
  BY BaseInit DEF Rm!Init, Rm!AnswerMatches, Rm!RoomsAssumption
<1>2. Base /\ Rm!AnswerMatches /\ [Rm!Next]_(Rm!vars) => Base' /\ Rm!AnswerMatches'
  BY BaseStep, MatchStep
<1> QED
  BY <1>1, <1>2, PTL DEF Rm!Spec

------------------------------------------------------------------------------
(* The messages of others that a member is told of, was given or will be:  *)
(* of one under way it is told, or it joined while the message was.        *)
OpenTold == \A a \in members \cap Rm!Readers, p \in opened : Rm!Told(a, p) \/ p \in gap[a]
HeardInv == Rm!HeardOrReadable /\ OpenTold

(* A message that is not touched is heard of as before.                    *)
LEMMA SameFanout ==
  ASSUME NEW a, NEW m, ask'[m] = ask[m], fanout'[m] = fanout[m]
  PROVE  Rm!Told(a, m)' <=> Rm!Told(a, m)
BY DEF Rm!Told, Rm!Sender, Rm!Draft

LEMMA HeardInsert ==
  ASSUME Rm!RoomsAssumption, Base, HeardInv, NEW p \in Posts, NEW d \in DraftsOf[p],
         NEW parent \in Posts \cup {NoPost}, Rm!Insert(p, d, parent)
  PROVE  HeardInv'
<1>1. p \notin Rm!Rows /\ Rm!Rows' = Rm!Rows \cup {p} /\ Rm!Visible' = Rm!Visible /\ Rm!Visible \subseteq Rm!Rows
      /\ \A m \in Rm!Rows : Rm!Place(m)' = Rm!Place(m)
  BY InsertRows DEF Rm!Visible
<1>2. /\ ask' = [ask EXCEPT ![p] = Rm!NewAsk(d, parent)] /\ opened' = opened \cup {p}
      /\ fanout' = [fanout EXCEPT ![p] = Rm!Audience(d)]
      /\ members' = members /\ reader' = reader /\ seen' = seen /\ gap' = gap
  BY DEF Rm!Insert
<1>3. \A m \in Posts \ {p} : ask'[m] = ask[m] /\ fanout'[m] = fanout[m]
  BY <1>2 DEF Base, AskInv, ReachInv
<1>4. Rm!HeardOrReadable'
  <2> SUFFICES ASSUME NEW a \in members \cap Rm!Readers, NEW m \in Rm!Visible,
                      Rm!InScope(a, m)', Rm!Passed(a, m)'
               PROVE  Rm!Told(a, m)' \/ m \in seen[a] \/ m \in gap[a]
    BY <1>1, <1>2 DEF Rm!HeardOrReadable
  <2>1. m \in Posts \ {p} /\ reader[a] \in Rm!Visible \cup {NoPost}
    BY <1>1, RowsArePosts DEF Base, ReaderInv
  <2>2. Rm!InScope(a, m) /\ Rm!Passed(a, m)
    BY <1>1, <1>2, <1>3, <2>1 DEF Rm!InScope, Rm!Passed
  <2>3. Rm!Told(a, m)' <=> Rm!Told(a, m)
    BY <1>3, <2>1, SameFanout
  <2> QED
    BY <2>2, <2>3 DEF HeardInv, Rm!HeardOrReadable
<1>5. OpenTold'
  <2> SUFFICES ASSUME NEW a \in members \cap Rm!Readers, NEW q \in opened \cup {p}
               PROVE  Rm!Told(a, q)' \/ q \in gap[a]
    BY <1>2 DEF OpenTold
  <2>1. CASE q = p
    <3>1. fanout'[p] = Rm!Audience(d) /\ ask'[p].draft = d
      BY <1>2, AskIsTyped DEF Rm!Insert, Base, AskInv, ReachInv
    <3>2. a = d.sender \/ a \in Rm!Audience(d)
      BY DEF Rm!Audience, Base, ReachInv, Rm!RoomsAssumption
    <3> QED
      BY <2>1, <3>1, <3>2 DEF Rm!Told, Rm!Sender, Rm!Draft
  <2>2. CASE q \in opened
    <3>1. q \in Posts \ {p}
      BY <1>1, <2>2, RowsArePosts DEF Base, LogInv
    <3>2. Rm!Told(a, q)' <=> Rm!Told(a, q)
      BY <1>3, <3>1, SameFanout
    <3> QED
      BY <2>2, <3>2 DEF HeardInv, OpenTold
  <2> QED
    BY <2>1, <2>2
<1> QED
  BY <1>4, <1>5 DEF HeardInv

LEMMA HeardRepeat ==
  ASSUME Rm!RoomsAssumption, Base, HeardInv, NEW p \in Posts, NEW d, NEW parent,
         Rm!Repeat(p, d, parent)
  PROVE  HeardInv'
<1>1. p \notin Rm!Rows /\ Rm!Rows' = Rm!Rows /\ Rm!Visible' = Rm!Visible /\ log' = log /\ opened' = opened
      /\ fanout' = fanout /\ members' = members /\ reader' = reader /\ seen' = seen
      /\ gap' = gap
  BY DEF Rm!Repeat, Base, AskInv, Rm!Rows, Rm!Visible
<1>2. \A m \in Rm!Rows : ask'[m] = ask[m]
  BY <1>1, RowsArePosts DEF Rm!Repeat, Base, AskInv
<1>3. Rm!Visible \subseteq Rm!Rows /\ opened \subseteq Rm!Rows
  BY DEF Rm!Visible, Base, LogInv
<1>4. \A a \in Agents, m \in Rm!Rows :
        /\ Rm!Told(a, m)' <=> Rm!Told(a, m)
        /\ Rm!InScope(a, m)' <=> Rm!InScope(a, m)
        /\ Rm!Passed(a, m)' <=> Rm!Passed(a, m)
  BY <1>1, <1>2 DEF Rm!Told, Rm!Sender, Rm!Draft, Rm!InScope, Rm!Passed, Rm!Place
<1> QED
  BY <1>1, <1>3, <1>4 DEF HeardInv, Rm!HeardOrReadable, OpenTold, Rm!RoomsAssumption

(* Who enters is told of, was given or has in its gap all that it passed.  *)
LEMMA Entered ==
  ASSUME Rm!RoomsAssumption, Base, HeardInv, NEW a \in Agents, Rm!Enter(a),
         NEW b \in members' \cap Rm!Readers
  PROVE  /\ \A m \in Rm!Visible :
              Rm!InScope(b, m) /\ Rm!Passed(b, m) => Rm!Told(b, m) \/ m \in seen[b] \/ m \in gap'[b]
         /\ \A p \in opened : Rm!Told(b, p) \/ p \in gap'[b]
<1>1. CASE b = a /\ a \notin members
  <2>1. gap'[b] = Rm!Lost(b)
    BY <1>1 DEF Rm!Enter, Base, ReachInv
  <2>2. Rm!Visible \subseteq Rm!Rows /\ opened \subseteq Rm!Rows
    BY DEF Rm!Visible, Base, LogInv
  <2> QED
    BY <2>1, <2>2 DEF Rm!Lost
<1>2. CASE b # a \/ a \in members
  <2>1. b \in members /\ gap'[b] = gap[b]
    BY <1>2 DEF Rm!Enter, Base, ReachInv
  <2> QED
    BY <2>1 DEF HeardInv, Rm!HeardOrReadable, OpenTold
<1> QED
  BY <1>1, <1>2

LEMMA HeardCommit ==
  ASSUME Rm!RoomsAssumption, Base, HeardInv, NEW p \in Posts, Rm!Commit(p)
  PROVE  HeardInv'
<1>1. /\ p \in opened /\ opened' = opened \ {p} /\ Rm!Visible' = Rm!Visible \cup {p}
      /\ log' = log /\ ask' = ask /\ fanout' = fanout /\ reader' = reader /\ seen' = seen
  BY CommitRows DEF Rm!Commit
<1>2. \A b, m :
        /\ Rm!Told(b, m)' <=> Rm!Told(b, m)
        /\ Rm!InScope(b, m)' <=> Rm!InScope(b, m)
        /\ Rm!Passed(b, m)' <=> Rm!Passed(b, m)
  BY <1>1 DEF Rm!Told, Rm!Sender, Rm!Draft, Rm!InScope, Rm!Passed, Rm!Place
<1>3. ASSUME NEW b \in members' \cap Rm!Readers
      PROVE  /\ \A m \in Rm!Visible :
                  Rm!InScope(b, m) /\ Rm!Passed(b, m) => Rm!Told(b, m) \/ m \in seen[b] \/ m \in gap'[b]
             /\ \A q \in opened : Rm!Told(b, q) \/ q \in gap'[b]
  <2>1. CASE Rm!Sender(p) \in Agents
    BY <1>3, <2>1, Entered DEF Rm!Commit
  <2>2. CASE Rm!Sender(p) \notin Agents
    BY <1>3, <2>2 DEF Rm!Commit, HeardInv, Rm!HeardOrReadable, OpenTold
  <2> QED
    BY <2>1, <2>2
<1> QED
  BY <1>1, <1>2, <1>3 DEF HeardInv, Rm!HeardOrReadable, OpenTold

LEMMA HeardAbort ==
  ASSUME Rm!RoomsAssumption, Base, HeardInv, NEW p \in Posts, Rm!Abort(p)
  PROVE  HeardInv'
<1>1. p \notin Rm!Visible /\ p \in opened /\ Rm!Visible' = Rm!Visible /\ opened' = opened \ {p}
      /\ Rm!Visible \subseteq Rm!Rows /\ opened \subseteq Rm!Rows
      /\ \A m, n \in Rm!Rows \ {p} : (Rm!Place(m) <= Rm!Place(n))' <=> Rm!Place(m) <= Rm!Place(n)
  BY AbortRows DEF Rm!Abort, Rm!Visible, Base, LogInv
<1>2. /\ ask' = [ask EXCEPT ![p] = NoPost] /\ fanout' = [fanout EXCEPT ![p] = {}]
      /\ gap' = [a \in Rm!Readers |-> gap[a] \ {p}]
      /\ members' = members /\ reader' = reader /\ seen' = seen
  BY DEF Rm!Abort
<1>3. ASSUME NEW a \in Rm!Readers, NEW m \in Rm!Rows \ {p}
      PROVE  /\ Rm!Told(a, m)' <=> Rm!Told(a, m)
             /\ Rm!InScope(a, m)' <=> Rm!InScope(a, m)
             /\ Rm!Passed(a, m)' <=> Rm!Passed(a, m)
             /\ m \in gap'[a] <=> m \in gap[a]
  <2>1. m \in Posts /\ ask'[m] = ask[m] /\ fanout'[m] = fanout[m]
    BY <1>2, RowsArePosts DEF Base, AskInv, ReachInv
  <2>2. reader[a] \in (Rm!Rows \ {p}) \cup {NoPost}
    BY <1>1 DEF Base, ReaderInv
  <2>3. Rm!Passed(a, m)' <=> Rm!Passed(a, m)
    BY <1>1, <1>2, <2>2 DEF Rm!Passed
  <2> QED
    BY <1>2, <2>1, <2>3, SameFanout DEF Rm!InScope
<1> QED
  BY <1>1, <1>2, <1>3 DEF HeardInv, Rm!HeardOrReadable, OpenTold

LEMMA HeardMembers ==
  ASSUME Rm!RoomsAssumption, Base, HeardInv, NEW a \in Agents, Rm!Join(a) \/ Rm!Leave(a)
  PROVE  HeardInv'
<1>1. \A b, m :
        /\ Rm!Told(b, m)' <=> Rm!Told(b, m)
        /\ Rm!InScope(b, m)' <=> Rm!InScope(b, m)
        /\ Rm!Passed(b, m)' <=> Rm!Passed(b, m)
  BY ZenonT(30) DEF Rm!Join, Rm!Leave, Rm!Told, Rm!Sender, Rm!Draft, Rm!InScope, Rm!Passed, Rm!Place
<1>2. Rm!Visible' = Rm!Visible /\ opened' = opened /\ seen' = seen
  BY DEF Rm!Join, Rm!Leave, Rm!Visible, Rm!Rows
<1>3. CASE Rm!Join(a)
  BY <1>1, <1>2, <1>3, Entered DEF Rm!Join, HeardInv, Rm!HeardOrReadable, OpenTold
<1>4. CASE Rm!Leave(a)
  BY <1>1, <1>2, <1>4 DEF Rm!Leave, HeardInv, Rm!HeardOrReadable, OpenTold
<1> QED
  BY <1>3, <1>4

(* A page leaves nothing out that it passes.                               *)
LEMMA HeardReadPage ==
  ASSUME Rm!RoomsAssumption, Base, HeardInv, NEW a \in Rm!Readers, Rm!ReadPage(a)
  PROVE  HeardInv'
<1>1. PICK last \in Rm!Following(a) :
        /\ reader' = [reader EXCEPT ![a] = last]
        /\ seen' = [seen EXCEPT ![a] = @ \cup Rm!UpTo(last, Rm!Following(a))]
  BY DEF Rm!ReadPage
<1>2. /\ Rm!Visible' = Rm!Visible /\ log' = log /\ ask' = ask /\ fanout' = fanout /\ opened' = opened
      /\ members' = members /\ gap' = gap
  BY DEF Rm!ReadPage, Rm!Visible, Rm!Rows
<1>3. \A b, m :
        /\ Rm!Told(b, m)' <=> Rm!Told(b, m)
        /\ Rm!InScope(b, m)' <=> Rm!InScope(b, m)
        /\ Rm!Place(m)' = Rm!Place(m)
  BY <1>2 DEF Rm!Told, Rm!Sender, Rm!Draft, Rm!InScope, Rm!Place
<1>4. Rm!HeardOrReadable'
  <2> SUFFICES ASSUME NEW b \in members \cap Rm!Readers, NEW m \in Rm!Visible,
                      Rm!InScope(b, m), Rm!Passed(b, m)'
               PROVE  Rm!Told(b, m) \/ m \in seen'[b] \/ m \in gap[b]
    BY <1>2, <1>3 DEF Rm!HeardOrReadable
  <2>1. CASE Rm!Passed(b, m)
    <3>1. seen[b] \subseteq seen'[b]
      BY <1>1 DEF Base, ReaderInv
    <3> QED
      BY <2>1, <3>1 DEF HeardInv, Rm!HeardOrReadable
  <2>2. CASE ~Rm!Passed(b, m)
    <3>1. b = a
      BY <1>1, <1>2, <2>2 DEF Rm!Passed, Rm!Place, Base, ReaderInv
    <3>2. Rm!Place(m) <= Rm!Place(last)
      BY <1>1, <1>3, <3>1 DEF Rm!Passed, Base, ReaderInv
    <3>3. m \in Rm!UpTo(last, Rm!Following(a))
      BY <2>2, <3>1, <3>2 DEF Rm!UpTo, Rm!Following
    <3> QED
      BY <1>1, <3>1, <3>3 DEF Base, ReaderInv
  <2> QED
    BY <2>1, <2>2
<1>5. OpenTold'
  BY <1>2, <1>3 DEF HeardInv, OpenTold
<1> QED
  BY <1>4, <1>5 DEF HeardInv

LEMMA HeardStep == ASSUME Rm!RoomsAssumption, Base, HeardInv, [Rm!Next]_(Rm!vars) PROVE HeardInv'
<1>1. ASSUME UNCHANGED <<log, ask, opened, fanout, members, reader, seen, gap>>
      PROVE  HeardInv'
  BY <1>1 DEF HeardInv, Rm!HeardOrReadable, OpenTold, Rm!Told, Rm!Sender, Rm!Draft, Rm!InScope, Rm!Passed,
              Rm!Place, Rm!Visible, Rm!Rows
<1>2. ASSUME NEW p \in Posts, NEW parent \in Posts \cup {NoPost}, NEW d \in DraftsOf[p],
             Rm!Insert(p, d, parent) \/ Rm!Repeat(p, d, parent)
      PROVE  HeardInv'
  BY <1>2, HeardInsert, HeardRepeat
<1>3. ASSUME NEW p \in Posts, Rm!Commit(p) \/ Rm!Abort(p) PROVE HeardInv'
  BY <1>3, HeardCommit, HeardAbort
<1>4. ASSUME NEW a \in Agents, Rm!Join(a) \/ Rm!Leave(a) PROVE HeardInv'
  BY <1>4, HeardMembers
<1>5. ASSUME NEW a \in Rm!Readers, Rm!ReadPage(a) PROVE HeardInv'
  BY <1>5, HeardReadPage
<1> QED
  BY <1>1, <1>2, <1>3, <1>4, <1>5 DEF Rm!Next, Rm!vars, Rm!Age, Rm!SetTopics

(* A member is told of every message of another, or has been given it, or  *)
(* will be given it by a page, but for what had slipped past it or was in  *)
(* flight when it joined: whatever commits behind the pages of any reader, *)
(* of any size, and whatever rolls back (app.ts:960-1056, 1207-1258).      *)
THEOREM HeardCorrect == ASSUME Rm!RoomsAssumption PROVE Rm!Spec => []Rm!HeardOrReadable
<1>1. Rm!Init => Base /\ HeardInv
  BY BaseInit DEF Rm!Init, HeardInv, Rm!HeardOrReadable, OpenTold
<1>2. Base /\ HeardInv /\ [Rm!Next]_(Rm!vars) => Base' /\ HeardInv'
  BY BaseStep, HeardStep
<1>3. HeardInv => Rm!HeardOrReadable
  BY DEF HeardInv
<1> QED
  BY <1>1, <1>2, <1>3, PTL DEF Rm!Spec

------------------------------------------------------------------------------
(* The watcher of repeated messages: an agent has one message under way, so *)
(* what its transaction counts is there at its end, and comes before it.     *)
SameText(p) == Rm!SameText(Rm!Sender(p), Rm!Draft(p).text)
OneUnderWay == \A p, q \in opened : Rm!Sender(p) \in Agents /\ Rm!Sender(p) = Rm!Sender(q) => p = q
ComesLast == \A p \in opened : Rm!Sender(p) \in Agents =>
               \A q \in SameText(p) : Rm!Place(q) <= Rm!Place(p)
AlarmDue ==
  \A p \in opened : Rm!Sender(p) \in Agents =>
    (p \in alarm <=> Cardinality(SameText(p) \ early[p]) + 1 = Threshold)
(* What is visible: each alarm is at the threshold; and messages of which no *)
(* transaction took one for old that is not in F, and that are in turn, have *)
(* had an alarm once the Threshold of them are outside F.                    *)
Exact == \A m \in Rm!Visible : Rm!Sender(m) \in Agents =>
           (m \in alarm <=> Cardinality(Rm!Burst(m)) = Threshold)
HadAlarm(S, F) ==
  (\A m \in S : early[m] \subseteq F) /\ Rm!InTurn(S) /\ Cardinality(S \ F) >= Threshold
    => S \cap alarm # {}
Bursts == \A a \in Agents : \A text, F : HadAlarm(Rm!SameText(a, text), F)
WatchInv == OneUnderWay /\ ComesLast /\ AlarmDue /\ Exact /\ Bursts

LEMMA RowsFinite == ASSUME Base PROVE \A S : S \subseteq Rm!Rows => IsFiniteSet(S) /\ Cardinality(S) \in Nat
<1>1. DOMAIN log = 1..Len(log) /\ Len(log) \in Nat
  BY DEF Base, LogInv
<1>2. IsFiniteSet(1..Len(log))
  BY <1>1, UpTo
<1>3. IsFiniteSet(Rm!Rows)
  <2> DEFINE f == [i \in 1..Len(log) |-> log[i]]
  <2>1. Rm!Rows = {f[i] : i \in 1..Len(log)}
    BY <1>1 DEF Rm!Rows
  <2>2. f \in Surjection(1..Len(log), Rm!Rows)
    BY <2>1 DEF Surjection
  <2> QED
    BY <1>2, <2>2, FS_Surjection
<1> QED
  BY <1>3, FS_Subset, FS_CardinalityType

(* As long as what is visible keeps its order, its texts and its alarms, all *)
(* that is said of it holds.                                                *)
LEMMA VisibleKept ==
  ASSUME WatchInv, Rm!Visible' = Rm!Visible, \A m \in Rm!Visible : ask'[m] = ask[m],
         \A m \in Rm!Visible : early'[m] = early[m], alarm' \cap Rm!Visible = alarm \cap Rm!Visible,
         \A m, q \in Rm!Visible :
           /\ (Rm!Place(m) <= Rm!Place(q))' <=> Rm!Place(m) <= Rm!Place(q)
           /\ (Rm!Place(m) < Rm!Place(q))' <=> Rm!Place(m) < Rm!Place(q)
  PROVE  Exact' /\ Bursts' /\ \A a, text : Rm!SameText(a, text)' = Rm!SameText(a, text)
<1>1. \A m \in Rm!Visible : Rm!Sender(m)' = Rm!Sender(m) /\ (Rm!Draft(m).text)' = Rm!Draft(m).text
  BY DEF Rm!Sender, Rm!Draft
<1>2. \A a, text : Rm!SameText(a, text)' = Rm!SameText(a, text) /\ Rm!SameText(a, text) \subseteq Rm!Visible
  BY <1>1 DEF Rm!SameText
<1>3. ASSUME NEW m \in Rm!Visible, Rm!Sender(m) \in Agents
      PROVE  (m \in alarm')  <=> Cardinality(Rm!Burst(m)') = Threshold
  <2> DEFINE S == Rm!SameText(Rm!Sender(m), Rm!Draft(m).text)
  <2>1. S \subseteq Rm!Visible /\ Rm!SameText(Rm!Sender(m), Rm!Draft(m).text)' = S
    BY <1>1, <1>2
  <2>2. {q \in S : Rm!Place(q)' <= Rm!Place(m)'} = {q \in S : Rm!Place(q) <= Rm!Place(m)}
    <3> HIDE DEF S
    <3> QED
      BY <2>1
  <2>3. Rm!Burst(m)' = Rm!Burst(m)
    <3>1. Rm!Burst(m) = {q \in S : Rm!Place(q) <= Rm!Place(m)} \ early[m]
      BY DEF Rm!Burst, Rm!UpTo
    <3>2. Rm!Burst(m)' = {q \in S : Rm!Place(q)' <= Rm!Place(m)'} \ early'[m]
      BY <2>1 DEF Rm!Burst, Rm!UpTo
    <3> QED
      BY <2>2, <3>1, <3>2
  <2>4. m \in alarm' <=> m \in alarm
    OBVIOUS
  <2> QED
    BY <1>3, <2>3, <2>4 DEF WatchInv, Exact
<1>4. Exact'
  BY <1>1, <1>3 DEF Exact
<1>5. ASSUME NEW a \in Agents, NEW text, NEW F PROVE HadAlarm(Rm!SameText(a, text), F)'
  <2> DEFINE S == Rm!SameText(a, text)
  <2>1. S' = S /\ S \subseteq Rm!Visible
    BY <1>2
  <2>2. (\A m \in S : early'[m] \subseteq F) => \A m \in S : early[m] \subseteq F
    BY <2>1
  <2>3. (\A m, q \in S : Rm!Place(m)' < Rm!Place(q)' => early'[m] \subseteq early'[q]) => Rm!InTurn(S)
    <3> HIDE DEF S
    <3> QED
      BY <2>1 DEF Rm!InTurn
  <2>4. HadAlarm(S, F)
    BY DEF WatchInv, Bursts
  <2>5. S \cap alarm' = S \cap alarm
    BY <2>1
  <2>6. HadAlarm(S, F)' = ((\A m \in S : early'[m] \subseteq F)
                           /\ (\A m, q \in S : Rm!Place(m)' < Rm!Place(q)' => early'[m] \subseteq early'[q])
                           /\ Cardinality(S \ F) >= Threshold => S \cap alarm' # {})
    <3> HIDE DEF S
    <3> QED
      BY <2>1 DEF HadAlarm, Rm!InTurn
  <2> HIDE DEF S
  <2>7. HadAlarm(S, F)'
    BY <2>2, <2>3, <2>4, <2>5, <2>6 DEF HadAlarm
  <2> QED
    BY <2>7 DEF S
<1>6. Bursts'
  BY <1>5 DEF Bursts
<1> QED
  BY <1>2, <1>4, <1>6

LEMMA WatchInsert ==
  ASSUME Rm!RoomsAssumption, Base, AgeInv, WatchInv, NEW p \in Posts, NEW d \in DraftsOf[p],
         NEW parent \in Posts \cup {NoPost}, Rm!Insert(p, d, parent)
  PROVE  WatchInv'
<1>1. p \notin Rm!Rows /\ Rm!Rows' = Rm!Rows \cup {p} /\ Rm!Visible' = Rm!Visible /\ Rm!Visible \subseteq Rm!Rows
      /\ opened \subseteq Rm!Rows /\ Rm!Rows \subseteq Posts
      /\ \A m \in Rm!Rows : Rm!Place(m)' = Rm!Place(m) /\ Rm!Place(m) < Rm!Place(p)'
  BY InsertRows, InsertLast, RowsArePosts DEF Rm!Visible, Base, LogInv
<1>2. PICK from \in IF d.sender \in Agents THEN Rm!Starts(d) ELSE {{}} :
        /\ early' = [early EXCEPT ![p] = from]
        /\ alarm' = IF d.sender \in Agents /\ Rm!Repeats(d, from) + 1 = Threshold THEN alarm \cup {p} ELSE alarm
  BY DEF Rm!Insert
<1>3. ask' = [ask EXCEPT ![p] = Rm!NewAsk(d, parent)] /\ opened' = opened \cup {p}
  BY DEF Rm!Insert
<1>4. \A m \in Rm!Rows : m # p /\ ask'[m] = ask[m] /\ early'[m] = early[m]
  BY <1>1, <1>2, <1>3 DEF Base, AskInv, AgeInv
<1>5. \A m \in Rm!Rows : Rm!Sender(m)' = Rm!Sender(m) /\ Rm!Draft(m)' = Rm!Draft(m)
                        /\ (Rm!Draft(m).text)' = Rm!Draft(m).text
  BY <1>4 DEF Rm!Sender, Rm!Draft
<1>6. Rm!Draft(p)' = d /\ Rm!Sender(p)' = d.sender /\ (Rm!Draft(p).text)' = d.text
  BY <1>3, AskIsTyped DEF Rm!Insert, Base, AskInv, Rm!Sender, Rm!Draft
<1>7. Exact' /\ Bursts' /\ \A a, text : Rm!SameText(a, text)' = Rm!SameText(a, text)
  <2>1. alarm' \cap Rm!Visible = alarm \cap Rm!Visible
    BY <1>1, <1>2
  <2> QED
    BY <1>1, <1>4, <2>1, VisibleKept
<1>8. OneUnderWay'
  BY <1>1, <1>3, <1>5, <1>6 DEF OneUnderWay, WatchInv, Rm!Insert, Rm!SpamFree
<1>9. \A a, text : Rm!SameText(a, text) \subseteq Rm!Visible
  BY DEF Rm!SameText
<1>10. \A q \in opened : SameText(q)' = SameText(q)
  BY <1>1, <1>5, <1>7 DEF SameText
<1>11. SameText(p)' = Rm!SameText(d.sender, d.text)
  BY <1>6, <1>7 DEF SameText
<1>12. ComesLast'
  <2> SUFFICES ASSUME NEW q \in opened \cup {p}, Rm!Sender(q)' \in Agents, NEW m \in SameText(q)'
               PROVE  Rm!Place(m)' <= Rm!Place(q)'
    BY <1>3 DEF ComesLast
  <2>1. CASE q = p
    <3>1. m \in Rm!Rows /\ Rm!Place(m)' = Rm!Place(m) /\ Rm!Place(m) < Rm!Place(p)'
      BY <1>1, <1>9, <1>11, <2>1
    <3>2. Rm!Place(m) \in Nat /\ Rm!Place(p)' \in Nat
      <4>1. log' \in Seq(Posts) /\ Once(log') /\ p \in In(log')
        BY <1>1, InsertRows DEF Rm!Rows, In
      <4> QED
        BY <3>1, <4>1, Places, PlaceIs DEF Rm!Place, At
    <3> QED
      BY <2>1, <3>1, <3>2
  <2>2. CASE q \in opened
    <3>1. m \in SameText(q) /\ m \in Rm!Rows /\ q \in Rm!Rows /\ Rm!Sender(q) \in Agents
      BY <1>1, <1>5, <1>9, <1>10, <2>2 DEF SameText
    <3>2. Rm!Place(m) <= Rm!Place(q)
      BY <2>2, <3>1 DEF WatchInv, ComesLast
    <3> QED
      BY <1>1, <3>1, <3>2
  <2> QED
    BY <2>1, <2>2
<1>13. AlarmDue'
  <2> SUFFICES ASSUME NEW q \in opened \cup {p}, Rm!Sender(q)' \in Agents
               PROVE  q \in alarm' <=> Cardinality(SameText(q)' \ early'[q]) + 1 = Threshold
    BY <1>3 DEF AlarmDue
  <2>1. CASE q = p
    <3>1. Rm!Repeats(d, from) = Cardinality(Rm!SameText(d.sender, d.text) \ from)
      BY RoomCounts DEF Rm!Repeats
    <3>2. p \notin alarm /\ early'[p] = from
      BY <1>1, <1>2 DEF Base, LogInv, AgeInv
    <3> QED
      BY <2>1, <3>1, <3>2, <1>2, <1>6, <1>11
  <2>2. CASE q \in opened
    <3>1. q # p /\ q \in Rm!Rows /\ Rm!Sender(q) \in Agents /\ early'[q] = early[q]
      BY <1>1, <1>4, <1>5, <2>2
    <3>2. q \in alarm' <=> q \in alarm
      BY <1>2, <3>1
    <3>3. SameText(q)' = SameText(q)
      BY <1>10, <2>2
    <3> QED
      BY <2>2, <3>1, <3>2, <3>3 DEF WatchInv, AlarmDue
  <2> QED
    BY <2>1, <2>2
<1> QED
  BY <1>7, <1>8, <1>12, <1>13 DEF WatchInv

(* What a message's transaction counted, with itself, once it is visible.  *)
LEMMA Counted1 ==
  ASSUME Base, AgeInv, NEW p \in Rm!Rows, p \notin Rm!Visible, NEW S, S \subseteq Rm!Visible
  PROVE  Cardinality((S \cup {p}) \ early[p]) = Cardinality(S \ early[p]) + 1
<1>1. p \notin early[p] /\ p \notin S \ early[p] /\ (S \cup {p}) \ early[p] = (S \ early[p]) \cup {p}
  BY DEF AgeInv
<1>2. IsFiniteSet(S \ early[p])
  <2>1. S \ early[p] \subseteq Rm!Rows
    BY DEF Rm!Visible
  <2> QED
    BY <2>1, RowsFinite
<1> QED
  BY <1>1, <1>2, FS_AddElement

(* A message that is shown brings its burst to the threshold, or there was   *)
(* an alarm before it, or it is too early for one.                          *)
LEMMA ShownBurst ==
  ASSUME Rm!RoomsAssumption, Base, AgeInv, NEW p \in Rm!Rows, p \notin Rm!Visible,
         NEW S, S \subseteq Rm!Visible, NEW F,
         HadAlarm(S, F), HadAlarm(S, early[p]),
         p \in alarm <=> Cardinality(S \ early[p]) + 1 = Threshold,
         \A q \in S : Rm!Place(q) < Rm!Place(p)
  PROVE  HadAlarm(S \cup {p}, F)
<1> SUFFICES ASSUME \A m \in S \cup {p} : early[m] \subseteq F, Rm!InTurn(S \cup {p}),
                    Cardinality((S \cup {p}) \ F) >= Threshold, p \notin alarm
             PROVE  S \cap alarm # {}
  BY DEF HadAlarm
<1>1. Rm!InTurn(S) /\ \A q \in S : early[q] \subseteq early[p]
  BY DEF Rm!InTurn
<1>2. CASE Cardinality(S \ F) >= Threshold
  BY <1>1, <1>2 DEF HadAlarm
<1>3. CASE ~(Cardinality(S \ F) >= Threshold)
  <2>1. /\ S \ F \subseteq S \ early[p] /\ S \ early[p] \subseteq Rm!Rows /\ S \ F \subseteq Rm!Rows
        /\ p \notin S \ F
    BY DEF Rm!Visible
  <2>2. /\ IsFiniteSet(S \ F) /\ IsFiniteSet(S \ early[p])
        /\ Cardinality(S \ F) \in Nat /\ Cardinality(S \ early[p]) \in Nat
    BY <2>1, RowsFinite
  <2>3. Cardinality(S \ F) <= Cardinality(S \ early[p])
    BY <2>1, <2>2, FS_Subset
  <2>4. Cardinality((S \cup {p}) \ F) <= Cardinality(S \ F) + 1
    <3> DEFINE more == (S \cup {p}) \ F less == S \ F
    <3>1. more = less \/ more = less \cup {p}
      OBVIOUS
    <3>2. IsFiniteSet(less) /\ p \notin less /\ Cardinality(less) \in Nat
      BY <2>1, <2>2
    <3> HIDE DEF more, less
    <3>3. Cardinality(less \cup {p}) = Cardinality(less) + 1
      BY <3>2, FS_AddElement
    <3>4. Cardinality(more) = Cardinality(less) \/ Cardinality(more) = Cardinality(less) + 1
      BY <3>1, <3>3
    <3>5. Cardinality(more) <= Cardinality(less) + 1
      BY <3>2, <3>4
    <3> QED
      BY <3>5 DEF more, less
  <2>5. Threshold \in Nat /\ Cardinality(S \ early[p]) + 1 >= Threshold
    <3>1. Threshold \in Nat /\ Cardinality((S \cup {p}) \ F) \in Nat
      <4>1. (S \cup {p}) \ F \subseteq Rm!Rows
        BY DEF Rm!Visible
      <4> QED
        BY <4>1, RowsFinite DEF Rm!RoomsAssumption
    <3> QED
      BY <2>2, <2>3, <2>4, <3>1
  <2>6. Cardinality(S \ early[p]) >= Threshold
    BY <2>2, <2>5
  <2> QED
    BY <1>1, <2>6 DEF HadAlarm
<1> QED
  BY <1>2, <1>3

LEMMA WatchCommit ==
  ASSUME Rm!RoomsAssumption, Base, AgeInv, WatchInv, NEW p \in Posts, Rm!Commit(p)
  PROVE  WatchInv'
<1>1. /\ p \in opened /\ p \in Rm!Rows /\ p \notin Rm!Visible /\ Rm!Visible' = Rm!Visible \cup {p}
      /\ opened' = opened \ {p} /\ ask' = ask /\ alarm' = alarm /\ early' = early /\ log' = log
  BY CommitRows DEF Rm!Commit
<1>2. \A m : /\ Rm!Sender(m)' = Rm!Sender(m) /\ (Rm!Draft(m).text)' = Rm!Draft(m).text
             /\ Rm!Place(m)' = Rm!Place(m)
  BY <1>1 DEF Rm!Sender, Rm!Draft, Rm!Place
<1>3. ASSUME NEW a, NEW text
      PROVE  Rm!SameText(a, text)' = IF Rm!Sender(p) = a /\ Rm!Draft(p).text = text
                                     THEN Rm!SameText(a, text) \cup {p} ELSE Rm!SameText(a, text)
  BY <1>1, <1>2 DEF Rm!SameText
<1>4. \A a, text : Rm!SameText(a, text) \subseteq Rm!Visible /\ Rm!Visible \subseteq Rm!Rows
  BY DEF Rm!SameText, Rm!Visible
<1>5. ASSUME Rm!Sender(p) \in Agents, NEW q \in SameText(p)
      PROVE  Rm!Place(q) < Rm!Place(p)
  <2>1. q \in Rm!Rows /\ q # p
    BY <1>1, <1>4 DEF SameText
  <2>2. Rm!Place(q) <= Rm!Place(p)
    BY <1>1, <1>5 DEF WatchInv, ComesLast
  <2>3. Rm!Place(q) \in Nat /\ Rm!Place(p) \in Nat /\ Rm!Place(q) # Rm!Place(p)
    BY <1>1, <2>1, Places
  <2> QED
    BY <2>2, <2>3
<1>6. Exact'
  <2> SUFFICES ASSUME NEW m \in Rm!Visible \cup {p}, Rm!Sender(m) \in Agents
               PROVE  m \in alarm <=> Cardinality(Rm!Burst(m)') = Threshold
    BY <1>1, <1>2 DEF Exact
  <2> DEFINE S == SameText(m)
  <2>0. Rm!Burst(m)' = {q \in SameText(m)' : Rm!Place(q) <= Rm!Place(m)} \ early[m]
    BY <1>1, <1>2 DEF Rm!Burst, Rm!UpTo, SameText
  <2>1. CASE m = p
    <3>1. SameText(p)' = SameText(p) \cup {p}
      BY <1>2, <1>3 DEF SameText
    <3>2. \A q \in SameText(p) \cup {p} : Rm!Place(q) <= Rm!Place(p)
      <4>1. Rm!Place(p) <= Rm!Place(p)
        BY <1>1, Places
      <4> QED
        BY <1>1, <2>1, <4>1 DEF WatchInv, ComesLast
    <3>3. Rm!Burst(p)' = (SameText(p) \cup {p}) \ early[p]
      BY <2>0, <2>1, <3>1, <3>2
    <3>4. Cardinality((SameText(p) \cup {p}) \ early[p]) = Cardinality(SameText(p) \ early[p]) + 1
      BY <1>1, <1>4, Counted1 DEF SameText
    <3> QED
      BY <1>1, <2>1, <3>3, <3>4 DEF WatchInv, AlarmDue
  <2>2. CASE m \in Rm!Visible
    <3>1. {q \in SameText(m)' : Rm!Place(q) <= Rm!Place(m)} = {q \in S : Rm!Place(q) <= Rm!Place(m)}
      <4>1. CASE Rm!Sender(p) = Rm!Sender(m) /\ Rm!Draft(p).text = Rm!Draft(m).text
        <5>1. SameText(m)' = S \cup {p} /\ SameText(p) = S
          BY <1>2, <1>3, <4>1 DEF SameText
        <5>2. m \in SameText(p)
          BY <2>2, <4>1 DEF SameText, Rm!SameText
        <5>3. Rm!Place(m) < Rm!Place(p)
          BY <1>5, <4>1, <5>2
        <5>4. ~(Rm!Place(p) <= Rm!Place(m))
          BY <1>1, <1>4, <2>2, <5>3, Places
        <5> QED
          BY <5>1, <5>4
      <4>2. CASE ~(Rm!Sender(p) = Rm!Sender(m) /\ Rm!Draft(p).text = Rm!Draft(m).text)
        BY <1>2, <1>3, <4>2 DEF SameText
      <4> QED
        BY <4>1, <4>2
    <3>2. Rm!Burst(m) = {q \in S : Rm!Place(q) <= Rm!Place(m)} \ early[m]
      BY DEF Rm!Burst, Rm!UpTo, SameText
    <3> QED
      BY <2>0, <2>2, <3>1, <3>2 DEF WatchInv, Exact
  <2> QED
    BY <2>1, <2>2
<1>7. ASSUME NEW a \in Agents, NEW text, NEW F PROVE HadAlarm(Rm!SameText(a, text), F)'
  <2> DEFINE S == Rm!SameText(a, text)
  <2>1. HadAlarm(S, F) /\ HadAlarm(S, early[p])
    BY DEF WatchInv, Bursts
  <2>2. ASSUME NEW T PROVE HadAlarm(T, F)' <=> HadAlarm(T, F)
    BY <1>1, <1>2 DEF HadAlarm, Rm!InTurn
  <2>3. CASE Rm!Sender(p) = a /\ Rm!Draft(p).text = text
    <3>1. S' = S \cup {p} /\ S = SameText(p) /\ S \subseteq Rm!Visible
      BY <1>3, <1>4, <2>3 DEF SameText
    <3>2. \A q \in S : Rm!Place(q) < Rm!Place(p)
      BY <1>5, <2>3, <3>1
    <3>3. p \in alarm <=> Cardinality(S \ early[p]) + 1 = Threshold
      BY <1>1, <2>3, <3>1 DEF WatchInv, AlarmDue
    <3> HIDE DEF S
    <3>4. HadAlarm(S \cup {p}, F)
      BY <1>1, <2>1, <3>1, <3>2, <3>3, ShownBurst
    <3>5. HadAlarm(S \cup {p}, F)
          <=> ((\A m \in S \cup {p} : early[m] \subseteq F) /\ Rm!InTurn(S \cup {p})
               /\ Cardinality((S \cup {p}) \ F) >= Threshold => (S \cup {p}) \cap alarm # {})
      BY DEF HadAlarm
    <3>6. HadAlarm(S, F)' <=> HadAlarm(S \cup {p}, F)
      BY <1>1, <1>2, <3>1 DEF HadAlarm, Rm!InTurn
    <3>7. HadAlarm(S, F)'
      BY <3>4, <3>6
    <3> QED
      BY <3>7 DEF S
  <2>4. CASE ~(Rm!Sender(p) = a /\ Rm!Draft(p).text = text)
    <3>1. S' = S
      BY <1>3, <2>4
    <3> HIDE DEF S
    <3>2. HadAlarm(S, F)' <=> HadAlarm(S, F)
      BY <1>1, <1>2, <3>1 DEF HadAlarm, Rm!InTurn
    <3>3. HadAlarm(S, F)'
      BY <2>1, <3>2
    <3> QED
      BY <3>3 DEF S
  <2> QED
    BY <2>3, <2>4
<1>8. Bursts'
  BY <1>7 DEF Bursts
<1>9. OneUnderWay'
  BY <1>1, <1>2 DEF OneUnderWay, WatchInv
<1>10. ASSUME NEW q \in opened \ {p}, Rm!Sender(q) \in Agents PROVE SameText(q)' = SameText(q)
  <2>1. Rm!Sender(q) # Rm!Sender(p)
    BY <1>1, <1>10 DEF WatchInv, OneUnderWay
  <2> QED
    BY <1>2, <1>3, <2>1 DEF SameText
<1>11. ComesLast' /\ AlarmDue'
  BY <1>1, <1>2, <1>10 DEF WatchInv, ComesLast, AlarmDue
<1> QED
  BY <1>6, <1>8, <1>9, <1>11 DEF WatchInv

LEMMA WatchAbort ==
  ASSUME Rm!RoomsAssumption, Base, AgeInv, WatchInv, NEW p \in Posts, Rm!Abort(p)
  PROVE  WatchInv'
<1>1. /\ p \in opened /\ p \notin Rm!Visible /\ Rm!Visible' = Rm!Visible /\ Rm!Rows' = Rm!Rows \ {p}
      /\ opened' = opened \ {p} /\ alarm' = alarm \ {p}
      /\ \A m, n \in Rm!Rows \ {p} : (Rm!Place(m) <= Rm!Place(n))' <=> Rm!Place(m) <= Rm!Place(n)
  BY AbortRows DEF Rm!Abort
<1>2. Rm!Visible \subseteq Rm!Rows \ {p} /\ opened' \subseteq Rm!Rows \ {p} /\ Rm!Rows \subseteq Posts
  BY <1>1, RowsArePosts DEF Base, LogInv, Rm!Visible
<1>3. \A m, n \in Rm!Rows \ {p} : (Rm!Place(m) < Rm!Place(n))' <=> Rm!Place(m) < Rm!Place(n)
  <2>1. \A m \in Rm!Rows \ {p} : Rm!Place(m) \in Nat /\ Rm!Place(m)' \in Nat
    <3>1. log' \in Seq(Posts) /\ Once(log') /\ Rm!Rows' = In(log') /\ \A m : Rm!Place(m)' = At(log', m)
      BY AbortRows DEF Rm!Rows, In, Rm!Place, At
    <3>2. \A m, n \in In(log') : At(log', m) \in Nat
      BY <3>1, PlaceIs
    <3> QED
      BY <1>1, <3>1, <3>2, Places
  <2> QED
    BY <1>1, <2>1
<1>4. \A m \in Rm!Rows \ {p} : ask'[m] = ask[m] /\ early'[m] = early[m]
  <2>1. /\ ask' = [ask EXCEPT ![p] = NoPost]
        /\ early' = [q \in Posts |-> IF q = p THEN {} ELSE early[q] \ {p}]
    BY DEF Rm!Abort
  <2>2. \A m \in Rm!Rows : p \notin early[m]
    BY <1>1 DEF AgeInv
  <2> QED
    BY <1>2, <2>1, <2>2 DEF Base, AskInv
<1>5. \A m \in Rm!Rows \ {p} : /\ Rm!Sender(m)' = Rm!Sender(m)
                              /\ (Rm!Draft(m).text)' = Rm!Draft(m).text
  BY <1>4 DEF Rm!Sender, Rm!Draft
<1>6. Exact' /\ Bursts' /\ \A a, text : Rm!SameText(a, text)' = Rm!SameText(a, text)
  BY <1>1, <1>2, <1>3, <1>4, VisibleKept
<1>7. \A q \in opened' : SameText(q)' = SameText(q) /\ SameText(q) \subseteq Rm!Visible
  BY <1>2, <1>5, <1>6 DEF SameText, Rm!SameText
<1>8. OneUnderWay'
  BY <1>1, <1>2, <1>5 DEF OneUnderWay, WatchInv
<1>9. ComesLast'
  <2> SUFFICES ASSUME NEW q \in opened', Rm!Sender(q)' \in Agents, NEW m \in SameText(q)'
               PROVE  (Rm!Place(m) <= Rm!Place(q))'
    BY DEF ComesLast
  <2>1. q \in opened /\ Rm!Sender(q) \in Agents /\ m \in SameText(q) /\ m \in Rm!Rows \ {p} /\ q \in Rm!Rows \ {p}
    BY <1>1, <1>2, <1>5, <1>7
  <2>2. Rm!Place(m) <= Rm!Place(q)
    BY <2>1 DEF WatchInv, ComesLast
  <2> QED
    BY <1>1, <2>1, <2>2
<1>10. AlarmDue'
  <2> SUFFICES ASSUME NEW q \in opened', Rm!Sender(q)' \in Agents
               PROVE  q \in alarm' <=> Cardinality(SameText(q)' \ early'[q]) + 1 = Threshold
    BY DEF AlarmDue
  <2>1. q \in opened /\ Rm!Sender(q) \in Agents /\ SameText(q)' = SameText(q) /\ early'[q] = early[q]
        /\ (q \in alarm' <=> q \in alarm)
    BY <1>1, <1>2, <1>4, <1>5, <1>7
  <2> QED
    BY <2>1 DEF WatchInv, AlarmDue
<1> QED
  BY <1>6, <1>8, <1>9, <1>10 DEF WatchInv

(* What a request asks for that has no message is of no concern, nor is time.*)
LEMMA WatchSame ==
  ASSUME Base, WatchInv, UNCHANGED <<log, opened, alarm, early>>, \A m \in Rm!Rows : ask'[m] = ask[m]
  PROVE  WatchInv'
<1>1. Rm!Visible' = Rm!Visible /\ Rm!Visible \subseteq Rm!Rows /\ opened \subseteq Rm!Rows
      /\ \A m : Rm!Place(m)' = Rm!Place(m)
  BY DEF Rm!Visible, Rm!Rows, Rm!Place, Base, LogInv
<1>2. \A m \in Rm!Rows : Rm!Sender(m)' = Rm!Sender(m) /\ (Rm!Draft(m).text)' = Rm!Draft(m).text
  BY DEF Rm!Sender, Rm!Draft
<1>3. Exact' /\ Bursts' /\ \A a, text : Rm!SameText(a, text)' = Rm!SameText(a, text)
  BY <1>1, VisibleKept
<1>4. \A q \in opened : SameText(q)' = SameText(q)
  BY <1>1, <1>2, <1>3 DEF SameText
<1>5. OneUnderWay'
  BY <1>1, <1>2 DEF OneUnderWay, WatchInv
<1>6. ComesLast' /\ AlarmDue'
  BY <1>1, <1>2, <1>4 DEF WatchInv, ComesLast, AlarmDue
<1> QED
  BY <1>3, <1>5, <1>6 DEF WatchInv

LEMMA WatchStep == ASSUME Rm!RoomsAssumption, Base, AgeInv, WatchInv, [Rm!Next]_(Rm!vars) PROVE WatchInv'
<1>1. ASSUME UNCHANGED <<log, ask, opened, alarm, early>> PROVE WatchInv'
  BY <1>1, WatchSame
<1>2. ASSUME NEW p \in Posts, NEW parent \in Posts \cup {NoPost}, NEW d \in DraftsOf[p],
             Rm!Insert(p, d, parent)
      PROVE  WatchInv'
  BY <1>2, WatchInsert
<1>3. ASSUME NEW p \in Posts, NEW parent, NEW d, Rm!Repeat(p, d, parent) PROVE WatchInv'
  <2>1. \A m \in Rm!Rows : ask'[m] = ask[m]
    BY <1>3, RowsArePosts DEF Rm!Repeat, Base, AskInv
  <2> QED
    BY <1>3, <2>1, WatchSame DEF Rm!Repeat
<1>4. ASSUME NEW p \in Posts, Rm!Commit(p) \/ Rm!Abort(p) PROVE WatchInv'
  BY <1>4, WatchCommit, WatchAbort
<1> QED
  BY <1>1, <1>2, <1>3, <1>4 DEF Rm!Next, Rm!vars, Rm!Age, Rm!Join, Rm!Leave, Rm!ReadPage, Rm!SetTopics

(* An incident is opened at each message that is the threshold-th of its     *)
(* text within 60 seconds and at no other, and a text repeated that often in  *)
(* the last 60 seconds has had one unless posts overtook each other, for any  *)
(* threshold and whatever overlaps or rolls back (app.ts:1147, 1260-1268).   *)
THEOREM WatchedCorrect == ASSUME Rm!RoomsAssumption PROVE Rm!Spec => []Rm!BurstReported
<1>1. Rm!Init => Base /\ AgeInv /\ WatchInv
  <2> SUFFICES ASSUME Rm!Init PROVE WatchInv
    BY BaseInit, AgeInit
  <2>1. opened = {} /\ Rm!Visible = {} /\ \A a, text : Rm!SameText(a, text) = {}
    BY DEF Rm!Init, Rm!SameText, Rm!Visible, Rm!Rows
  <2>2. Cardinality({}) = 0 /\ ~(0 >= Threshold)
    BY FS_EmptySet DEF Rm!RoomsAssumption
  <2>3. \A F : HadAlarm({}, F)
    <3> SUFFICES ASSUME NEW F, Cardinality({} \ F) >= Threshold PROVE FALSE
      BY DEF HadAlarm
    <3>1. {} \ F = {}
      OBVIOUS
    <3> QED
      BY <2>2, <3>1
  <2>4. Bursts
    BY <2>1, <2>3 DEF Bursts
  <2>5. OneUnderWay /\ ComesLast /\ AlarmDue /\ Exact
    BY <2>1 DEF OneUnderWay, ComesLast, AlarmDue, Exact
  <2> QED
    BY <2>4, <2>5 DEF WatchInv
<1>2. Base /\ AgeInv /\ WatchInv /\ [Rm!Next]_(Rm!vars) => Base' /\ AgeInv' /\ WatchInv'
  BY BaseStep, AgeStep, WatchStep
<1>3. Base /\ AgeInv /\ WatchInv => Rm!BurstReported
  <2> SUFFICES ASSUME AgeInv, WatchInv, NEW a \in Agents, NEW text,
                      Rm!InTurn(Rm!SameText(a, text)),
                      Cardinality(Rm!SameText(a, text) \ aged) >= Threshold
               PROVE  Rm!SameText(a, text) \cap alarm # {}
    BY RoomCounts DEF WatchInv, Exact, Rm!BurstReported
  <2>1. \A m \in Rm!SameText(a, text) : early[m] \subseteq aged
    BY DEF AgeInv, Rm!SameText, Rm!Visible
  <2>2. HadAlarm(Rm!SameText(a, text), aged)
    BY DEF WatchInv, Bursts
  <2> QED
    BY <2>1, <2>2 DEF HadAlarm
<1> QED
  BY <1>1, <1>2, <1>3, PTL DEF Rm!Spec

(****************************************************************************)
(* Enrollment                                                               *)
(****************************************************************************)
(* The variables of Enrollment.                                             *)
homeOf == s1
commandOf == s2
token == s3
agent == s4
nobodys == s5
USE DEF homeOf, commandOf, token, agent, nobodys

(* Finite and counted mean the same there as here.                         *)
LEMMA EnrollCounts ==
  \A S : (En!IsFiniteSet(S) <=> IsFiniteSet(S)) /\ En!Cardinality(S) = Cardinality(S)
BY DEF En!IsFiniteSet, IsFiniteSet, En!Cardinality, Cardinality

(* A command that is answered brings the agent of its installation, to a   *)
(* home that has none: the installation of a home that has one is known.   *)
Moments == {"idle", "sent", "sent unheard", "admitted", "admitted unheard", "answered", "saved"}
AgentRow == [token : EnrollTokens, install : Nat \ {0}, revoked : BOOLEAN]
Command == [phase : Moments, token : EnrollTokens \cup {NoEnrollToken}, install : Nat, got : Nat]
HomeRow == [credential : Nat, agentId : Nat, installationId : Nat]
EnrollTyped ==
  /\ token \in [EnrollTokens -> {"none", "live", "used", "expired"}]
  /\ agent \in Seq(AgentRow) /\ Len(agent) <= MaxAgents
  /\ commandOf \in [Homes -> Command] /\ homeOf \in [Homes -> HomeRow]
  /\ nobodys \subseteq En!Rows
CommandOK(h) ==
  /\ commandOf[h].phase = "idle" => commandOf[h].install = 0
  /\ commandOf[h].phase # "idle" => commandOf[h].token \in EnrollTokens /\ commandOf[h].install # 0
  /\ commandOf[h].phase \notin {"answered", "saved"} => commandOf[h].got = 0
  /\ commandOf[h].phase \in {"answered", "saved"} =>
       /\ commandOf[h].got \in En!Rows /\ homeOf[h].agentId = 0
       /\ agent[commandOf[h].got].install = commandOf[h].install
  /\ commandOf[h].phase = "saved" => homeOf[h].credential = commandOf[h].got
HomeOK(h) ==
  /\ homeOf[h].credential \in En!Rows \cup {0} /\ homeOf[h].agentId \in En!Rows \cup {0}
  /\ homeOf[h].agentId # 0 =>
       /\ homeOf[h].credential = homeOf[h].agentId /\ homeOf[h].installationId # 0
       /\ agent[homeOf[h].agentId].install = homeOf[h].installationId
       /\ commandOf[h].phase # "idle" => commandOf[h].install = homeOf[h].installationId
EnrollInv == EnrollTyped /\ \A h \in Homes : CommandOK(h) /\ HomeOK(h)

LEMMA RowsAreNumbers == ASSUME EnrollTyped PROVE En!Rows = 1..Len(agent) /\ Len(agent) \in Nat
BY DEF EnrollTyped, En!Rows

(* There is an installation id that nobody has drawn.                      *)
LEMMA FreshIsFresh ==
  ASSUME En!EnrollmentAssumption, EnrollInv, NEW h \in Homes, commandOf[h].phase = "idle"
  PROVE  En!Fresh \in Nat \ {0}
<1> DEFINE R == {agent[a].install : a \in En!Rows}
           D == {commandOf[g].install : g \in Homes}
           E == {commandOf[g].install : g \in Homes \ {h}}
<1>1. DOMAIN agent = 1..Len(agent) /\ Len(agent) \in Nat /\ Len(agent) <= MaxAgents
      /\ MaxAgents \in Nat /\ En!Rows = DOMAIN agent
  BY DEF EnrollInv, EnrollTyped, AgentRow, En!Rows, En!EnrollmentAssumption
<1>2. IsFiniteSet(R) /\ Cardinality(R) <= Len(agent)
  <2> DEFINE f == [a \in 1..Len(agent) |-> agent[a].install]
  <2>1. f \in Surjection(1..Len(agent), R)
    BY <1>1 DEF Surjection
  <2>2. \A n \in Nat : IsFiniteSet(1..n) /\ Cardinality(1..n) = n
    BY UpTo
  <2>3. IsFiniteSet(1..Len(agent)) /\ Cardinality(1..Len(agent)) = Len(agent)
    BY <1>1, <2>2
  <2> QED
    BY <2>1, <2>3, FS_Surjection
<1>3. IsFiniteSet(E) /\ Cardinality(E) <= Cardinality(Homes) - 1 /\ Cardinality(Homes) \in Nat
  <2> DEFINE f == [g \in Homes \ {h} |-> commandOf[g].install]
  <2>1. f \in Surjection(Homes \ {h}, E)
    BY DEF Surjection
  <2>2. IsFiniteSet(Homes)
    BY EnrollCounts DEF En!EnrollmentAssumption
  <2>3. IsFiniteSet(Homes \ {h}) /\ Cardinality(Homes \ {h}) = Cardinality(Homes) - 1
        /\ Cardinality(Homes) \in Nat
    BY <2>2, FS_RemoveElement, FS_CardinalityType
  <2> QED
    BY <2>1, <2>3, FS_Surjection
<1>4. Cardinality(R) \in Nat /\ Cardinality(E) \in Nat /\ IsFiniteSet(R \cup E)
      /\ Cardinality(R \cup E) \in Nat
      /\ Cardinality(R \cup E) <= Cardinality(R) + Cardinality(E)
  <2> HIDE DEF R, E
  <2>1. IsFiniteSet(R \cap E) /\ IsFiniteSet(R \cup E)
        /\ Cardinality(R \cup E) = Cardinality(R) + Cardinality(E) - Cardinality(R \cap E)
    BY <1>2, <1>3, FS_Union, FS_Intersection
  <2>2. Cardinality(R) \in Nat /\ Cardinality(E) \in Nat /\ Cardinality(R \cap E) \in Nat
        /\ Cardinality(R \cup E) \in Nat
    BY <1>2, <1>3, <2>1, FS_CardinalityType
  <2> QED
    BY <2>1, <2>2
<1>5. D \subseteq E \cup {0}
  BY DEF EnrollInv, CommandOK
<1>6. IsFiniteSet(En!Installs) /\ Cardinality(En!Installs) = MaxAgents + Cardinality(Homes)
      /\ En!Installs \subseteq Nat \ {0}
  <2> DEFINE n == MaxAgents + Cardinality(Homes)
  <2>1. n \in Nat /\ En!Installs = 1..n
    BY <1>1, <1>3, EnrollCounts DEF En!Installs
  <2>2. IsFiniteSet(1..n) /\ Cardinality(1..n) = n
    BY <2>1, UpTo
  <2> QED
    BY <2>1, <2>2
<1>7. PICK i \in En!Installs : i \notin R \cup E
  <2>1. CASE En!Installs \subseteq R \cup E
    <3>1. Cardinality(En!Installs) <= Cardinality(R \cup E)
      BY <1>4, <2>1, FS_Subset
    <3> QED
      BY <1>1, <1>2, <1>3, <1>4, <1>6, <3>1
  <2> QED
    BY <2>1
<1>8. i \notin R \cup D
  BY <1>5, <1>6, <1>7
<1>9. En!Fresh \in En!Installs
  BY <1>7, <1>8 DEF En!Fresh
<1> QED
  BY <1>6, <1>9

(* What happens to one home leaves the others as they are.                 *)
LEMMA OtherHomes ==
  ASSUME EnrollInv, NEW h \in Homes, commandOf'[h] = commandOf[h], homeOf'[h] = homeOf[h],
         En!Rows \subseteq En!Rows', \A b \in En!Rows : agent'[b].install = agent[b].install
  PROVE  CommandOK(h)' /\ HomeOK(h)'
<1>1. CommandOK(h) /\ HomeOK(h)
  BY DEF EnrollInv
<1> QED
  BY <1>1 DEF CommandOK, HomeOK

(* A home whose command ends keeps what it has.                            *)
LEMMA IdleHome ==
  ASSUME NEW h \in Homes, HomeOK(h), commandOf'[h] = En!Idle, homeOf'[h] = homeOf[h],
         En!Rows \subseteq En!Rows', \A b \in En!Rows : agent'[b].install = agent[b].install
  PROVE  commandOf'[h] \in Command /\ CommandOK(h)' /\ HomeOK(h)'
<1>1. commandOf'[h] \in Command
  BY DEF En!Idle, Command, Moments
<1>2. commandOf'[h].phase = "idle" /\ commandOf'[h].install = 0 /\ commandOf'[h].got = 0
  BY DEF En!Idle
<1>3. CommandOK(h)'
  BY <1>2 DEF CommandOK
<1>4. HomeOK(h)'
  BY <1>2 DEF HomeOK
<1> QED
  BY <1>1, <1>3, <1>4

LEMMA EnrollInit ==
  ASSUME En!EnrollmentAssumption, En!Init PROVE EnrollInv
<1>1. agent = <<>> /\ Len(agent) = 0 /\ En!Rows = {} /\ MaxAgents \in Nat
  BY DEF En!Init, En!Rows, En!EnrollmentAssumption
<1>2. EnrollTyped
  BY <1>1 DEF En!Init, EnrollTyped, En!Idle, Moments, AgentRow, Command, HomeRow
<1>3. \A h \in Homes : CommandOK(h) /\ HomeOK(h)
  BY <1>1 DEF En!Init, CommandOK, HomeOK, En!Idle
<1> QED
  BY <1>2, <1>3 DEF EnrollInv

LEMMA TokensMove ==
  ASSUME EnrollInv, NEW t \in EnrollTokens, En!Mint(t) \/ En!Expire(t) PROVE EnrollInv'
<1>1. EnrollTyped'
  BY DEF En!Mint, En!Expire, EnrollInv, EnrollTyped, En!Rows
<1>2. UNCHANGED <<agent, commandOf, homeOf>> /\ En!Rows' = En!Rows
  BY DEF En!Mint, En!Expire, En!Rows
<1> QED
  BY <1>1, <1>2, OtherHomes DEF EnrollInv

LEMMA EnrollSend ==
  ASSUME En!EnrollmentAssumption, EnrollInv, NEW h \in Homes, NEW t \in EnrollTokens, En!Send(h, t)
  PROVE  EnrollInv'
<1> DEFINE had == homeOf[h].installationId
           drawn == IF had = 0 THEN En!Fresh ELSE had
<1>1. commandOf[h].phase = "idle" /\ En!Rows' = En!Rows
      /\ UNCHANGED <<token, agent, homeOf, nobodys>>
      /\ commandOf' = [commandOf EXCEPT ![h] =
                       [phase |-> "sent", token |-> t, install |-> drawn, got |-> 0]]
  BY DEF En!Send, En!Rows
<1>2. had \in Nat
  BY DEF EnrollInv, EnrollTyped, HomeRow
<1>3. drawn \in Nat \ {0} /\ (had # 0 => drawn = had)
  BY <1>1, <1>2, FreshIsFresh
<1> HIDE DEF drawn
<1>4. commandOf'[h] = [phase |-> "sent", token |-> t, install |-> drawn, got |-> 0]
      /\ commandOf'[h] \in Command /\ \A g \in Homes \ {h} : commandOf'[g] = commandOf[g]
  BY <1>1, <1>3 DEF EnrollInv, EnrollTyped, Command, Moments
<1>5. EnrollTyped'
  BY <1>1, <1>4 DEF EnrollInv, EnrollTyped
<1>6. CommandOK(h)' /\ HomeOK(h)'
  BY <1>1, <1>3, <1>4 DEF EnrollInv, CommandOK, HomeOK
<1>7. \A g \in Homes \ {h} : CommandOK(g)' /\ HomeOK(g)'
  BY <1>1, <1>4, OtherHomes
<1> QED
  BY <1>5, <1>6, <1>7 DEF EnrollInv

(* A request that is refused, found live or not heard of changes its phase. *)
LEMMA EnrollPhases ==
  ASSUME EnrollInv, NEW h \in Homes, En!Admit(h) \/ En!Refuse(h) \/ En!Miss(h)
  PROVE  EnrollInv'
<1>1. /\ UNCHANGED <<token, agent, homeOf, nobodys>> /\ En!Rows' = En!Rows
      /\ commandOf[h].phase \in {"sent", "sent unheard", "admitted", "admitted unheard"}
  BY DEF En!Admit, En!Refuse, En!Miss, En!Rows
<1>2. /\ commandOf[h] \in Command /\ CommandOK(h) /\ HomeOK(h)
      /\ commandOf' \in [Homes -> {commandOf'[g] : g \in Homes}]
      /\ \A g \in Homes \ {h} : commandOf'[g] = commandOf[g]
  BY DEF En!Admit, En!Refuse, En!Miss, EnrollInv, EnrollTyped
<1>3. \/ commandOf'[h] = En!Idle
      \/ \E p \in {"sent unheard", "admitted", "admitted unheard"} :
           commandOf'[h] = [commandOf[h] EXCEPT !.phase = p]
  BY <1>1 DEF En!Admit, En!Refuse, En!Miss, EnrollInv, EnrollTyped
<1>4. commandOf'[h] \in Command /\ CommandOK(h)' /\ HomeOK(h)'
  <2>1. CASE commandOf'[h] = En!Idle
    BY <1>1, <1>2, <2>1, IdleHome
  <2>2. ASSUME NEW p \in {"sent unheard", "admitted", "admitted unheard"},
               commandOf'[h] = [commandOf[h] EXCEPT !.phase = p]
        PROVE  commandOf'[h] \in Command /\ CommandOK(h)' /\ HomeOK(h)'
    <3>1. /\ commandOf'[h].phase = p /\ commandOf'[h].token = commandOf[h].token
          /\ commandOf'[h].install = commandOf[h].install /\ commandOf'[h].got = commandOf[h].got
          /\ commandOf'[h] \in Command
      BY <1>2, <2>2 DEF Command, Moments
    <3> QED
      BY <1>1, <1>2, <3>1 DEF CommandOK, HomeOK
  <2> QED
    BY <1>3, <2>1, <2>2
<1>5. EnrollTyped'
  BY <1>1, <1>2, <1>4 DEF EnrollInv, EnrollTyped
<1>6. \A g \in Homes \ {h} : CommandOK(g)' /\ HomeOK(g)'
  BY <1>1, <1>2, OtherHomes
<1> QED
  BY <1>4, <1>5, <1>6 DEF EnrollInv

(* The row that is inserted comes last; its installation was not known.    *)
LEMMA EnrollRow ==
  ASSUME EnrollInv, NEW h \in Homes, En!Enroll(h)
  PROVE  /\ En!Rows' = En!Rows \cup {Len(agent) + 1} /\ Len(agent) + 1 \notin En!Rows
         /\ Len(agent) + 1 \in Nat \ {0} /\ commandOf[h].token \in EnrollTokens
         /\ agent' \in Seq(AgentRow) /\ Len(agent') <= MaxAgents
         /\ \A b \in En!Rows : agent'[b] = agent[b] /\ agent[b].install # commandOf[h].install
         /\ agent'[Len(agent) + 1].token = commandOf[h].token
         /\ agent'[Len(agent) + 1].install = commandOf[h].install
<1> DEFINE row == [token |-> commandOf[h].token, install |-> commandOf[h].install, revoked |-> FALSE]
<1>1. agent' = Append(agent, row) /\ Len(agent) + 1 <= MaxAgents
      /\ \A b \in En!Rows : agent[b].install # commandOf[h].install
  BY DEF En!Enroll
<1>2. commandOf[h].token \in EnrollTokens /\ commandOf[h].install \in Nat \ {0}
  BY DEF En!Enroll, EnrollInv, EnrollTyped, Command, CommandOK
<1>3. row \in AgentRow
  BY <1>2 DEF AgentRow
<1>4. /\ agent \in Seq(AgentRow) /\ Len(agent) \in Nat /\ DOMAIN agent = 1..Len(agent)
  BY DEF EnrollInv, EnrollTyped
<1> HIDE DEF row
<1>5. /\ agent' \in Seq(AgentRow)
      /\ Len(agent') = Len(agent) + 1 /\ DOMAIN agent' = 1..Len(agent) + 1
      /\ agent'[Len(agent) + 1] = row /\ \A b \in 1..Len(agent) : agent'[b] = agent[b]
  BY <1>1, <1>3, <1>4
<1>6. En!Rows = 1..Len(agent) /\ En!Rows' = 1..Len(agent) + 1
  BY <1>4, <1>5 DEF En!Rows
<1> QED
  BY <1>1, <1>2, <1>4, <1>5, <1>6 DEF row

LEMMA EnrollEnroll ==
  ASSUME EnrollInv, NEW h \in Homes, En!Enroll(h) PROVE EnrollInv'
<1> DEFINE heard == commandOf[h].phase = "admitted"
<1>1. PICK a : a = Len(agent) + 1
  OBVIOUS
<1>2. /\ En!Rows' = En!Rows \cup {a} /\ a \notin En!Rows /\ a \in Nat \ {0}
      /\ commandOf[h].token \in EnrollTokens /\ agent' \in Seq(AgentRow) /\ Len(agent') <= MaxAgents
      /\ \A b \in En!Rows : agent'[b] = agent[b] /\ agent[b].install # commandOf[h].install
      /\ agent'[a].install = commandOf[h].install
  BY <1>1, EnrollRow
<1>3. /\ commandOf[h].phase \in {"admitted", "admitted unheard"}
      /\ token' = [token EXCEPT ![commandOf[h].token] = "used"]
      /\ commandOf' = [commandOf EXCEPT ![h] =
           IF heard THEN [commandOf[h] EXCEPT !.phase = "answered", !.got = a] ELSE En!Idle]
      /\ nobodys' = IF heard THEN nobodys ELSE nobodys \cup {a}
      /\ homeOf' = homeOf
  BY <1>1 DEF En!Enroll
<1>4. commandOf[h] \in Command /\ CommandOK(h) /\ HomeOK(h)
  BY DEF EnrollInv, EnrollTyped
<1>5. homeOf[h].agentId = 0
  BY <1>2, <1>3, <1>4 DEF HomeOK
<1>6. commandOf'[h] \in Command /\ CommandOK(h)' /\ HomeOK(h)'
  <2>1. CASE heard
    <3>1. commandOf'[h] = [commandOf[h] EXCEPT !.phase = "answered", !.got = a]
      BY <1>3, <2>1 DEF EnrollInv, EnrollTyped
    <3>2. /\ commandOf'[h] \in Command /\ commandOf'[h].phase = "answered" /\ commandOf'[h].got = a
          /\ commandOf'[h].token = commandOf[h].token /\ commandOf'[h].install = commandOf[h].install
      BY <1>2, <1>4, <3>1 DEF Command, Moments
    <3>3. commandOf[h].install # 0 /\ a \in En!Rows' /\ homeOf'[h].agentId = 0
          /\ agent'[commandOf'[h].got].install = commandOf'[h].install
      BY <1>2, <1>3, <1>4, <1>5, <3>2 DEF CommandOK
    <3>5. CommandOK(h)'
      BY <1>2, <3>2, <3>3 DEF CommandOK
    <3>4. HomeOK(h)'
      BY <1>2, <1>3, <1>4, <1>5 DEF HomeOK
    <3> QED
      BY <3>2, <3>4, <3>5
  <2>2. CASE ~heard
    <3>1. commandOf'[h] = En!Idle
      BY <1>3, <2>2 DEF EnrollInv, EnrollTyped
    <3> QED
      BY <1>2, <1>3, <1>4, <3>1, IdleHome
  <2> QED
    BY <2>1, <2>2
<1>7. EnrollTyped'
  BY <1>2, <1>3, <1>6 DEF EnrollInv, EnrollTyped
<1>8. \A g \in Homes \ {h} : CommandOK(g)' /\ HomeOK(g)'
  <2>1. \A g \in Homes \ {h} : commandOf'[g] = commandOf[g] /\ homeOf'[g] = homeOf[g]
    BY <1>3 DEF EnrollInv, EnrollTyped
  <2> QED
    BY <1>2, <2>1, OtherHomes
<1> QED
  BY <1>6, <1>7, <1>8 DEF EnrollInv

LEMMA EnrollEnds ==
  ASSUME EnrollInv, NEW h \in Homes, En!Die(h) \/ En!SaveCredential(h) \/ En!SaveConfig(h)
  PROVE  EnrollInv'
<1>1. /\ UNCHANGED <<token, agent>> /\ En!Rows' = En!Rows
      /\ commandOf[h].phase \in {"answered", "saved"}
      /\ commandOf[h] \in Command /\ homeOf[h] \in HomeRow /\ CommandOK(h) /\ HomeOK(h)
  BY DEF En!Die, En!SaveCredential, En!SaveConfig, En!Rows, EnrollInv, EnrollTyped
<1>2. /\ \A g \in Homes \ {h} : commandOf'[g] = commandOf[g] /\ homeOf'[g] = homeOf[g]
      /\ commandOf' \in [Homes -> {commandOf'[g] : g \in Homes}]
      /\ homeOf' \in [Homes -> {homeOf'[g] : g \in Homes}]
  BY DEF En!Die, En!SaveCredential, En!SaveConfig, EnrollInv, EnrollTyped
<1>3. 0 \notin En!Rows /\ En!Rows \subseteq Nat
  BY RowsAreNumbers DEF EnrollInv
<1>4. /\ commandOf'[h] \in Command /\ homeOf'[h] \in HomeRow /\ CommandOK(h)' /\ HomeOK(h)'
      /\ nobodys' \subseteq En!Rows
  <2>1. CASE En!Die(h)
    <3>1. commandOf'[h] = En!Idle /\ homeOf'[h] = homeOf[h] /\ nobodys' \subseteq nobodys \cup {commandOf[h].got}
      BY <2>1 DEF En!Die, EnrollInv, EnrollTyped
    <3>2. nobodys' \subseteq En!Rows
      BY <1>1, <3>1 DEF CommandOK, EnrollInv, EnrollTyped
    <3> QED
      BY <1>1, <3>1, <3>2, IdleHome
  <2>2. CASE En!SaveCredential(h)
    <3>1. /\ commandOf[h].phase = "answered" /\ commandOf'[h] = [commandOf[h] EXCEPT !.phase = "saved"]
          /\ homeOf'[h] = [homeOf[h] EXCEPT !.credential = commandOf[h].got]
          /\ nobodys' = nobodys \cup ({homeOf[h].credential} \ {0})
      BY <2>2 DEF En!SaveCredential, EnrollInv, EnrollTyped
    <3>2. /\ commandOf'[h] \in Command /\ commandOf'[h].phase = "saved"
          /\ commandOf'[h].got = commandOf[h].got /\ commandOf'[h].token = commandOf[h].token
          /\ commandOf'[h].install = commandOf[h].install
      BY <1>1, <3>1 DEF Command, Moments
    <3>3. /\ homeOf'[h] \in HomeRow /\ homeOf'[h].credential = commandOf[h].got
          /\ homeOf'[h].agentId = homeOf[h].agentId
      BY <1>1, <3>1 DEF Command, HomeRow
    <3>4. nobodys' \subseteq En!Rows
      BY <1>1, <3>1 DEF HomeOK, EnrollInv, EnrollTyped
    <3> QED
      BY <1>1, <3>2, <3>3, <3>4 DEF CommandOK, HomeOK
  <2>3. CASE En!SaveConfig(h)
    <3>1. /\ commandOf[h].phase = "saved" /\ commandOf'[h] = En!Idle
          /\ homeOf'[h] = [homeOf[h] EXCEPT !.agentId = commandOf[h].got,
                                        !.installationId = commandOf[h].install]
          /\ nobodys' = nobodys
      BY <2>3 DEF En!SaveConfig, EnrollInv, EnrollTyped
    <3>2. /\ homeOf'[h] \in HomeRow /\ homeOf'[h].credential = homeOf[h].credential
          /\ homeOf'[h].agentId = commandOf[h].got /\ homeOf'[h].installationId = commandOf[h].install
      BY <1>1, <3>1 DEF Command, HomeRow
    <3>3. commandOf'[h] \in Command /\ CommandOK(h)'
      BY <3>1 DEF Command, Moments, En!Idle, CommandOK
    <3>4. HomeOK(h)'
      BY <1>1, <3>1, <3>2 DEF En!Idle, CommandOK, HomeOK
    <3> QED
      BY <3>1, <3>2, <3>3, <3>4 DEF EnrollInv, EnrollTyped
  <2> QED
    BY <2>1, <2>2, <2>3
<1>5. EnrollTyped'
  BY <1>1, <1>2, <1>4 DEF EnrollInv, EnrollTyped
<1>6. \A g \in Homes \ {h} : CommandOK(g)' /\ HomeOK(g)'
  BY <1>1, <1>2, OtherHomes
<1> QED
  BY <1>4, <1>5, <1>6 DEF EnrollInv

(* A row that is revoked stays what it was otherwise.                      *)
LEMMA RevokeRow ==
  ASSUME EnrollInv, NEW a, En!Revoke(a)
  PROVE  /\ agent' \in Seq(AgentRow) /\ Len(agent') = Len(agent) /\ En!Rows' = En!Rows
         /\ \A b \in En!Rows : /\ agent'[b].token = agent[b].token
                               /\ agent'[b].install = agent[b].install
                               /\ agent[b].revoked => agent'[b].revoked
<1> DEFINE row == [agent[a] EXCEPT !.revoked = TRUE]
<1>1. a \in DOMAIN agent /\ agent' = [agent EXCEPT ![a] = row] /\ agent \in Seq(AgentRow)
  BY DEF En!Revoke, En!Acting, En!Rows, EnrollInv, EnrollTyped
<1>2. \A b \in DOMAIN agent : agent[b] \in AgentRow
  BY <1>1
<1>3. row \in AgentRow /\ row.token = agent[a].token /\ row.install = agent[a].install
      /\ row.revoked = TRUE
  BY <1>1, <1>2 DEF AgentRow
<1> HIDE DEF row
<1>4. agent' \in Seq(AgentRow) /\ Len(agent') = Len(agent) /\ DOMAIN agent' = DOMAIN agent
      /\ agent'[a] = row /\ \A b \in DOMAIN agent : b # a => agent'[b] = agent[b]
  BY <1>1, <1>3
<1>5. ASSUME NEW b \in DOMAIN agent
      PROVE  /\ agent'[b].token = agent[b].token /\ agent'[b].install = agent[b].install
             /\ agent[b].revoked => agent'[b].revoked
  <2>1. CASE b = a
    BY <1>3, <1>4, <2>1
  <2>2. CASE b # a
    BY <1>4, <2>2
  <2> QED
    BY <2>1, <2>2
<1> QED
  BY <1>4, <1>5 DEF En!Rows

LEMMA EnrollRevoke ==
  ASSUME EnrollInv, NEW a, En!Revoke(a) PROVE EnrollInv'
<1>1. UNCHANGED <<token, commandOf, homeOf, nobodys>>
  BY DEF En!Revoke
<1>2. /\ agent' \in Seq(AgentRow) /\ Len(agent') = Len(agent) /\ En!Rows' = En!Rows
      /\ \A b \in En!Rows : agent'[b].install = agent[b].install
  BY RevokeRow
<1>3. EnrollTyped'
  BY <1>1, <1>2 DEF EnrollInv, EnrollTyped
<1> QED
  BY <1>1, <1>2, <1>3, OtherHomes DEF EnrollInv

LEMMA EnrollsStep ==
  ASSUME En!EnrollmentAssumption, EnrollInv, [En!Next]_(En!enrollVars)
  PROVE  EnrollInv'
<1>1. CASE UNCHANGED En!enrollVars
  <2>1. UNCHANGED <<token, agent, commandOf, homeOf, nobodys>> /\ En!Rows' = En!Rows
    BY <1>1 DEF En!enrollVars, En!Rows
  <2>2. EnrollTyped'
    BY <2>1 DEF EnrollInv, EnrollTyped
  <2> QED
    BY <2>1, <2>2, OtherHomes DEF EnrollInv
<1>2. CASE En!Next
  BY <1>2, TokensMove, EnrollSend, EnrollPhases, EnrollEnroll, EnrollEnds, EnrollRevoke
     DEF En!Next
<1> QED
  BY <1>1, <1>2

(* A token makes one agent, and an installation has one.                   *)
Made(t) == {a \in En!Rows : agent[a].token = t}
MadeInv ==
  /\ \A t \in EnrollTokens : IF token[t] = "used" THEN \E a \in En!Rows : Made(t) = {a} ELSE Made(t) = {}
  /\ \A a, b \in En!Rows : agent[a].install = agent[b].install => a = b

LEMMA MadeStep ==
  ASSUME EnrollInv, MadeInv, [En!Next]_(En!enrollVars)
  PROVE  MadeInv'
<1>1. ASSUME UNCHANGED agent, \A t \in EnrollTokens : token'[t] = "used" <=> token[t] = "used"
      PROVE  MadeInv'
  <2>1. En!Rows' = En!Rows /\ \A t : Made(t)' = Made(t)
    BY <1>1 DEF En!Rows, Made
  <2> QED
    BY <1>1, <2>1 DEF MadeInv
<1>2. ASSUME NEW t \in EnrollTokens, En!Mint(t) \/ En!Expire(t) PROVE MadeInv'
  <2>1. \A u \in EnrollTokens : token'[u] = "used" <=> token[u] = "used"
    BY <1>2 DEF En!Mint, En!Expire, En!Live, EnrollInv, EnrollTyped
  <2> QED
    BY <1>1, <1>2, <2>1 DEF En!Mint, En!Expire
<1>3. ASSUME NEW h \in Homes, En!Enroll(h) PROVE MadeInv'
  <2>1. PICK a, t : a = Len(agent) + 1 /\ t = commandOf[h].token
    OBVIOUS
  <2>2. /\ En!Rows' = En!Rows \cup {a} /\ a \notin En!Rows /\ t \in EnrollTokens
        /\ \A b \in En!Rows : agent'[b] = agent[b] /\ agent[b].install # commandOf[h].install
        /\ agent'[a].token = t /\ agent'[a].install = commandOf[h].install
    BY <1>3, <2>1, EnrollRow
  <2>3. token[t] = "live" /\ token' = [token EXCEPT ![t] = "used"]
    BY <1>3, <2>1 DEF En!Enroll, En!Consumes, En!Live
  <2>4. \A u \in EnrollTokens : Made(u)' = IF u = t THEN Made(u) \cup {a} ELSE Made(u)
    BY <2>2 DEF Made
  <2>5. Made(t) = {} /\ Made(t)' = {a}
    BY <2>2, <2>3, <2>4 DEF MadeInv
  <2>6. \A u \in EnrollTokens :
          IF token'[u] = "used" THEN \E b \in En!Rows' : Made(u)' = {b} ELSE Made(u)' = {}
    BY <2>2, <2>3, <2>4, <2>5 DEF MadeInv, EnrollInv, EnrollTyped
  <2>7. \A b, c \in En!Rows' : agent'[b].install = agent'[c].install => b = c
    BY <2>2 DEF MadeInv
  <2> QED
    BY <2>6, <2>7 DEF MadeInv
<1>4. ASSUME NEW a, En!Revoke(a) PROVE MadeInv'
  <2>1. token' = token /\ En!Rows' = En!Rows
        /\ \A b \in En!Rows : agent'[b].token = agent[b].token /\ agent'[b].install = agent[b].install
    BY <1>4, RevokeRow DEF En!Revoke
  <2>2. \A u : Made(u)' = Made(u)
    BY <2>1 DEF Made
  <2> QED
    BY <2>1, <2>2 DEF MadeInv
<1> QED
  BY <1>1, <1>2, <1>3, <1>4 DEF En!Next, En!enrollVars, En!Send, En!Admit, En!Refuse, En!Miss,
     En!Die, En!SaveCredential, En!SaveConfig

(* Somebody holds every agent that is not lost.                            *)
Kept == \A a \in En!Rows \ nobodys : En!Held(a)

LEMMA KeptStep ==
  ASSUME EnrollInv, Kept, [En!Next]_(En!enrollVars)
  PROVE  Kept'
<1>0. 0 \notin En!Rows
  BY RowsAreNumbers DEF EnrollInv
<1>1. ASSUME En!Rows' = En!Rows, UNCHANGED <<homeOf, nobodys>>,
             \A h \in Homes : commandOf'[h].got = commandOf[h].got
      PROVE  Kept'
  BY <1>1 DEF Kept, En!Held
<1>2. ASSUME NEW h \in Homes, NEW t \in EnrollTokens, En!Send(h, t) PROVE Kept'
  <2>1. commandOf[h].got = 0
    BY <1>2 DEF En!Send, EnrollInv, CommandOK
  <2>2. \A g \in Homes : commandOf'[g].got = commandOf[g].got
    BY <1>2, <2>1 DEF En!Send, EnrollInv, EnrollTyped
  <2>3. En!Rows' = En!Rows
    BY <1>2 DEF En!Send, En!Rows
  <2> QED
    BY <1>1, <1>2, <2>2, <2>3 DEF En!Send
<1>3. ASSUME NEW h \in Homes, En!Admit(h) \/ En!Refuse(h) \/ En!Miss(h) PROVE Kept'
  <2>1. \A g \in Homes : commandOf'[g].got = commandOf[g].got
    <3>1. CASE En!Admit(h)
      BY <3>1 DEF En!Admit, EnrollInv, EnrollTyped, Command
    <3>2. CASE En!Miss(h)
      BY <3>2 DEF En!Miss, EnrollInv, EnrollTyped, Command
    <3>3. CASE En!Refuse(h)
      <4>1. commandOf[h].got = 0
        BY <3>3 DEF En!Refuse, EnrollInv, CommandOK
      <4> QED
        BY <3>3, <4>1 DEF En!Refuse, En!Idle, EnrollInv, EnrollTyped
    <3> QED
      BY <1>3, <3>1, <3>2, <3>3
  <2>2. En!Rows' = En!Rows /\ UNCHANGED <<homeOf, nobodys>>
    BY <1>3 DEF En!Admit, En!Refuse, En!Miss, En!Rows
  <2> QED
    BY <1>1, <2>1, <2>2
<1>4. ASSUME NEW h \in Homes, En!Enroll(h) PROVE Kept'
  <2>1. PICK a : a = Len(agent) + 1
    OBVIOUS
  <2>2. En!Rows' = En!Rows \cup {a} /\ commandOf[h].got = 0 /\ commandOf[h] \in Command
    BY <1>4, <2>1, EnrollRow DEF En!Enroll, EnrollInv, EnrollTyped, CommandOK
  <2>3. \A g \in Homes \ {h} : commandOf'[g] = commandOf[g]
    BY <1>4 DEF En!Enroll, EnrollInv, EnrollTyped
  <2>4. a \in nobodys' \/ commandOf'[h].got = a
    BY <1>4, <2>1, <2>2 DEF En!Enroll, EnrollInv, EnrollTyped, Command
  <2>5. nobodys \subseteq nobodys' /\ homeOf' = homeOf
    BY <1>4 DEF En!Enroll
  <2> QED
    BY <1>0, <2>2, <2>3, <2>4, <2>5 DEF Kept, En!Held
<1>5. ASSUME NEW h \in Homes, En!Die(h) \/ En!SaveCredential(h) \/ En!SaveConfig(h) PROVE Kept'
  <2>1. /\ En!Rows' = En!Rows /\ commandOf[h] \in Command /\ homeOf[h] \in HomeRow
        /\ \A g \in Homes \ {h} : commandOf'[g] = commandOf[g] /\ homeOf'[g] = homeOf[g]
        /\ nobodys \subseteq nobodys'
    BY <1>5 DEF En!Die, En!SaveCredential, En!SaveConfig, En!Rows, EnrollInv, EnrollTyped
  <2>2. \A a \in En!Rows : commandOf[h].got = a \/ homeOf[h].credential = a =>
          a \in nobodys' \/ commandOf'[h].got = a \/ homeOf'[h].credential = a
    <3>1. CASE En!Die(h)
      <4>1. commandOf[h].phase = "saved" => commandOf[h].got = homeOf[h].credential
        BY DEF EnrollInv, CommandOK
      <4> QED
        BY <3>1, <4>1 DEF En!Die
    <3>2. CASE En!SaveCredential(h)
      <4>1. commandOf'[h].got = commandOf[h].got /\ homeOf'[h].credential = commandOf[h].got
            /\ nobodys' = nobodys \cup ({homeOf[h].credential} \ {0})
        BY <2>1, <3>2 DEF En!SaveCredential, EnrollInv, EnrollTyped, Command, HomeRow
      <4> QED
        BY <1>0, <4>1
    <3>3. CASE En!SaveConfig(h)
      <4>1. commandOf[h].got = homeOf[h].credential
        BY <3>3 DEF En!SaveConfig, EnrollInv, CommandOK
      <4>2. homeOf'[h].credential = homeOf[h].credential
        BY <2>1, <3>3 DEF En!SaveConfig, EnrollInv, EnrollTyped, HomeRow
      <4> QED
        BY <4>1, <4>2
    <3> QED
      BY <1>5, <3>1, <3>2, <3>3
  <2> QED
    BY <2>1, <2>2 DEF Kept, En!Held
<1>6. ASSUME NEW a, En!Revoke(a) PROVE Kept'
  BY <1>1, <1>6, RevokeRow DEF En!Revoke
<1>7. ASSUME UNCHANGED <<agent, commandOf, homeOf, nobodys>> PROVE Kept'
  BY <1>1, <1>7 DEF En!Rows
<1> QED
  BY <1>2, <1>3, <1>4, <1>5, <1>6, <1>7 DEF En!Next, En!enrollVars, En!Mint, En!Expire

(* A used enrollment token made one agent and any other none, an           *)
(* installation has one agent, and every agent is held by a home or a      *)
(* command but for those that a lost answer or a death left to nobody: for *)
(* any number of homes and tokens and any caps (app.ts:780-791).           *)
THEOREM EnrolledCorrect == ASSUME En!EnrollmentAssumption PROVE En!Spec => []En!EnrolledOnce
<1>1. En!Init => EnrollInv /\ MadeInv /\ Kept
  <2> SUFFICES ASSUME En!Init PROVE MadeInv /\ Kept
    BY EnrollInit
  <2>1. En!Rows = {} /\ \A t \in EnrollTokens : token[t] = "none"
    BY DEF En!Init, En!Rows
  <2> QED
    BY <2>1 DEF MadeInv, Made, Kept
<1>2. EnrollInv /\ MadeInv /\ Kept /\ [En!Next]_(En!enrollVars) => EnrollInv' /\ MadeInv' /\ Kept'
  BY EnrollsStep, MadeStep, KeptStep
<1>3. EnrollInv /\ MadeInv /\ Kept => En!EnrolledOnce
  <2> SUFFICES ASSUME EnrollInv, MadeInv, Kept PROVE En!EnrolledOnce
    OBVIOUS
  <2>1. Cardinality({}) = 0 /\ \A a : Cardinality({a}) = 1
    BY FS_EmptySet, FS_Singleton
  <2>2. \A t \in EnrollTokens : Cardinality(Made(t)) = IF token[t] = "used" THEN 1 ELSE 0
    BY <2>1 DEF MadeInv
  <2>3. En!TokenMakesOne
    BY <2>2, EnrollCounts DEF En!TokenMakesOne, Made, MadeInv
  <2>4. En!EveryAgentIsHeld
    BY DEF En!EveryAgentIsHeld, Kept, EnrollInv, HomeOK
  <2> QED
    BY <2>3, <2>4 DEF En!EnrolledOnce
<1> QED
  BY <1>1, <1>2, <1>3, PTL DEF En!Spec

(* The capacities: a token or an agent is added below its cap.             *)
CapsInv == Cardinality(En!Acting) <= AgentCap /\ Cardinality(En!Live) <= TokenCap

LEMMA EnrollFinite ==
  ASSUME En!EnrollmentAssumption, EnrollInv
  PROVE  /\ IsFiniteSet(En!Rows) /\ IsFiniteSet(En!Acting) /\ IsFiniteSet(En!Live)
         /\ Cardinality(En!Acting) \in Nat /\ Cardinality(En!Live) \in Nat
<1>1. IsFiniteSet(En!Rows)
  BY RowsAreNumbers, UpTo DEF EnrollInv
<1>2. IsFiniteSet(EnrollTokens)
  BY EnrollCounts DEF En!EnrollmentAssumption
<1>3. En!Acting \subseteq En!Rows /\ En!Live \subseteq EnrollTokens
  BY DEF En!Acting, En!Live
<1>4. IsFiniteSet(En!Acting) /\ IsFiniteSet(En!Live)
  BY <1>1, <1>2, <1>3, FS_Subset
<1> QED
  BY <1>1, <1>4, FS_CardinalityType

LEMMA CapsStep ==
  ASSUME En!EnrollmentAssumption, EnrollInv, CapsInv, [En!Next]_(En!enrollVars)
  PROVE  CapsInv'
<1>0. /\ IsFiniteSet(En!Acting) /\ IsFiniteSet(En!Live)
      /\ Cardinality(En!Acting) \in Nat /\ Cardinality(En!Live) \in Nat
      /\ AgentCap \in Nat /\ TokenCap \in Nat
  BY EnrollFinite DEF En!EnrollmentAssumption
<1>1. ASSUME En!Acting' \subseteq En!Acting, En!Live' \subseteq En!Live PROVE CapsInv'
  <2>1. /\ Cardinality(En!Acting') <= Cardinality(En!Acting)
        /\ Cardinality(En!Live') <= Cardinality(En!Live)
        /\ Cardinality(En!Acting') \in Nat /\ Cardinality(En!Live') \in Nat
    BY <1>0, <1>1, FS_Subset, FS_CardinalityType
  <2> QED
    BY <1>0, <2>1 DEF CapsInv
<1>2. ASSUME UNCHANGED <<token, agent>> PROVE CapsInv'
  BY <1>2 DEF CapsInv, En!Acting, En!Live, En!Rows
<1>3. ASSUME NEW t \in EnrollTokens, En!Mint(t) PROVE CapsInv'
  <2>1. En!Acting' = En!Acting
    BY <1>3 DEF En!Mint, En!Acting, En!Rows
  <2>2. En!Live' = En!Live \cup {t} /\ t \notin En!Live
    BY <1>3 DEF En!Mint, En!Live, EnrollInv, EnrollTyped
  <2>3. Cardinality(En!Live) < TokenCap
    BY <1>3, EnrollCounts DEF En!Mint
  <2>4. Cardinality(En!Live') = Cardinality(En!Live) + 1
    BY <1>0, <2>2, FS_AddElement
  <2> QED
    BY <1>0, <2>1, <2>3, <2>4 DEF CapsInv
<1>4. ASSUME NEW t \in EnrollTokens, En!Expire(t) PROVE CapsInv'
  <2>1. En!Acting' = En!Acting /\ En!Live' \subseteq En!Live
    BY <1>4 DEF En!Expire, En!Acting, En!Rows, En!Live, EnrollInv, EnrollTyped
  <2> QED
    BY <1>1, <2>1
<1>5. ASSUME NEW h \in Homes, En!Enroll(h) PROVE CapsInv'
  <2>1. PICK a : a = Len(agent) + 1
    OBVIOUS
  <2>2. /\ En!Rows' = En!Rows \cup {a} /\ a \notin En!Rows
        /\ \A b \in En!Rows : agent'[b] = agent[b]
    BY <1>5, <2>1, EnrollRow
  <2>3. En!Acting' \subseteq En!Acting \cup {a} /\ a \notin En!Acting
    BY <2>2 DEF En!Acting
  <2>4. Cardinality(En!Acting) < AgentCap
    BY <1>5, EnrollCounts DEF En!Enroll
  <2>5. /\ IsFiniteSet(En!Acting \cup {a})
        /\ Cardinality(En!Acting \cup {a}) = Cardinality(En!Acting) + 1
    BY <1>0, <2>3, FS_AddElement
  <2>6. Cardinality(En!Acting') <= Cardinality(En!Acting) + 1
        /\ Cardinality(En!Acting') \in Nat
    BY <2>3, <2>5, FS_Subset, FS_CardinalityType
  <2>7. En!Live' \subseteq En!Live
    BY <1>5 DEF En!Enroll, En!Live, EnrollInv, EnrollTyped
  <2>8. Cardinality(En!Live') <= Cardinality(En!Live) /\ Cardinality(En!Live') \in Nat
    BY <1>0, <2>7, FS_Subset, FS_CardinalityType
  <2> QED
    BY <1>0, <2>4, <2>6, <2>8 DEF CapsInv
<1>6. ASSUME NEW a, En!Revoke(a) PROVE CapsInv'
  <2>1. token' = token /\ En!Rows' = En!Rows
        /\ \A b \in En!Rows : agent[b].revoked => agent'[b].revoked
    BY <1>6, RevokeRow DEF En!Revoke
  <2>2. En!Acting' \subseteq En!Acting /\ En!Live' = En!Live
    BY <2>1 DEF En!Acting, En!Live
  <2> QED
    BY <1>1, <2>2
<1> QED
  BY <1>2, <1>3, <1>4, <1>5, <1>6 DEF En!Next, En!enrollVars, En!Send, En!Admit, En!Refuse,
     En!Miss, En!Die, En!SaveCredential, En!SaveConfig

(* An owner never has more agents that act, nor more tokens that are live, *)
(* than the caps allow, whatever enrollments overlap.                      *)
THEOREM EnrollTypeCorrect == ASSUME En!EnrollmentAssumption PROVE En!Spec => []En!TypeOK
<1>1. En!Init => EnrollInv /\ CapsInv
  <2> SUFFICES ASSUME En!Init PROVE CapsInv
    BY EnrollInit
  <2>1. En!Acting = {} /\ En!Live = {}
    BY DEF En!Init, En!Acting, En!Rows, En!Live
  <2> QED
    BY <2>1, FS_EmptySet DEF CapsInv, En!EnrollmentAssumption
<1>2. EnrollInv /\ CapsInv /\ [En!Next]_(En!enrollVars) => EnrollInv' /\ CapsInv'
  BY EnrollsStep, CapsStep
<1>3. EnrollInv /\ CapsInv => En!TypeOK
  BY EnrollCounts DEF En!TypeOK, EnrollInv, EnrollTyped, HomeOK, CapsInv
<1> QED
  BY <1>1, <1>2, <1>3, PTL DEF En!Spec

(****************************************************************************)
(* Showcase                                                                 *)
(****************************************************************************)
(* The variables of Showcase.                                               *)
flag == s1
response == s2
banned == s3
USE DEF flag, response, banned

(* Those banned are restricted still, and each list of a response was made *)
(* of parties that were not when it was read.                              *)
Queries == {"idle", "agents", "ids", "forum", "rooms", "cards", "messages", "links", "done"}
View == [phase : Queries, agents : SUBSET Sh!Parties, ids : SUBSET Sh!Parties,
         rooms : SUBSET Sh!Rooms, cards : SUBSET Sh!Parties,
         messages : SUBSET Messages, links : SUBSET Messages]
ShownTyped ==
  /\ flag \in [Sh!Parties -> {"free", "held", "lapsed"}]
  /\ response \in [Responses -> View]
  /\ banned \in [Responses -> SUBSET Sh!Parties]
  /\ \A r \in Responses : \A m \in response[r].links : m.to \in Sh!Parties
Clear(view, out) ==
  /\ \A a \in view.agents \cup view.ids \cup view.cards : a \notin out
  /\ \A x \in view.rooms : CreatorOf[x] \notin out
  /\ \A m \in view.messages \cup view.links : m.from \notin out
  /\ \A m \in view.links : m.to \notin out
ShownInv ==
  /\ ShownTyped
  /\ \A r \in Responses : banned[r] \subseteq Sh!Restricted /\ Clear(response[r], banned[r])

(* A query that leaves out the restricted leaves out those banned.         *)
LEMMA UnflaggedIsFree ==
  \A p : /\ Sh!NotRestricted(p) => p \notin Sh!Restricted
         /\ Sh!Unflagged(p) => p \notin Sh!Restricted
BY DEF Sh!NotRestricted, Sh!Unflagged, Sh!Restricted

LEMMA FlagSet ==
  ASSUME ShownInv, NEW p \in Sh!Parties, NEW from, NEW to \in {"free", "held", "lapsed"},
         Sh!SetFlag(p, from, to)
  PROVE  ShownInv'
<1>1. flag' = [flag EXCEPT ![p] = to] /\ response' = response
      /\ banned' = [r \in Responses |->
                      banned[r] \ {q \in Sh!Parties : to # "held" /\ p \in Sh!Both(q)}]
  BY DEF Sh!SetFlag
<1>2. ShownTyped'
  BY <1>1 DEF ShownInv, ShownTyped
<1>3. ASSUME NEW r \in Responses PROVE (banned[r] \subseteq Sh!Restricted)'
  <2> SUFFICES ASSUME NEW q \in banned'[r] PROVE q \in Sh!Restricted'
    OBVIOUS
  <2>1. q \in banned[r] /\ q \in Sh!Parties /\ (to # "held" => p \notin Sh!Both(q))
    BY <1>1 DEF ShownInv, ShownTyped
  <2>2. PICK x \in Sh!Both(q) : flag[x] = "held"
    BY <2>1 DEF ShownInv, Sh!Restricted
  <2>3. x \in Sh!Parties \/ flag' = flag \/ x # p
    OBVIOUS
  <2>4. flag'[x] = "held"
    <3>1. CASE x = p
      BY <1>1, <2>1, <2>2, <3>1 DEF ShownInv, ShownTyped
    <3>2. CASE x # p
      BY <1>1, <2>2, <3>2 DEF ShownInv, ShownTyped
    <3> QED
      BY <3>1, <3>2
  <2> QED
    BY <2>1, <2>2, <2>4 DEF Sh!Restricted, Sh!Both
<1>4. ASSUME NEW r \in Responses PROVE Clear(response[r], banned[r])'
  <2>1. Clear(response[r], banned[r]) /\ banned'[r] \subseteq banned[r]
    BY <1>1 DEF ShownInv
  <2> QED
    BY <1>1, <2>1 DEF Clear
<1> QED
  BY <1>2, <1>3, <1>4 DEF ShownInv

(* One response moves; the others and the flags do not.                    *)
LEMMA ResponseMoves ==
  ASSUME ShownInv, NEW r \in Responses, NEW view \in View, NEW out \in SUBSET Sh!Parties,
         response' = [response EXCEPT ![r] = view], banned' = [banned EXCEPT ![r] = out],
         flag' = flag, out \subseteq Sh!Restricted, Clear(view, out),
         \A m \in view.links : m.to \in Sh!Parties
  PROVE  ShownInv'
<1>1. \A q \in Responses : /\ response'[q] = IF q = r THEN view ELSE response[q]
                           /\ banned'[q] = IF q = r THEN out ELSE banned[q]
  BY DEF ShownInv, ShownTyped
<1>2. ShownTyped'
  BY <1>1 DEF ShownInv, ShownTyped
<1>3. Sh!Restricted' = Sh!Restricted
  BY DEF Sh!Restricted
<1>4. \A q \in Responses : banned'[q] \subseteq Sh!Restricted /\ Clear(response'[q], banned'[q])
  BY <1>1 DEF ShownInv
<1>5. \A q \in Responses : (banned[q] \subseteq Sh!Restricted /\ Clear(response[q], banned[q]))'
  BY <1>3, <1>4 DEF Clear
<1> QED
  BY <1>2, <1>5 DEF ShownInv

LEMMA EmptyView ==
  ASSUME NEW view, \E stage \in Queries : view = [Sh!Nothing EXCEPT !.phase = stage]
  PROVE  view \in View /\ view.links = {} /\ \A out : Clear(view, out)
<1>1. PICK stage \in Queries :
        view = [phase |-> stage, agents |-> {}, ids |-> {}, rooms |-> {}, cards |-> {},
                messages |-> {}, links |-> {}]
  BY DEF Sh!Nothing
<1>2. view \in View /\ view.links = {}
  BY <1>1 DEF View
<1>3. \A out : Clear(view, out)
  BY <1>1 DEF Clear
<1> QED
  BY <1>2, <1>3

LEMMA NothingIsEmpty == Sh!Nothing = [Sh!Nothing EXCEPT !.phase = "idle"]
BY DEF Sh!Nothing

LEMMA HiddenInvariant ==
  ASSUME Sh!ShowcaseAssumption
  PROVE  Sh!Spec => []ShownInv
<1>1. Sh!Init => ShownInv
  <2> SUFFICES ASSUME Sh!Init PROVE ShownInv
    OBVIOUS
  <2>1. Sh!Nothing \in View /\ Sh!Nothing.links = {} /\ \A out : Clear(Sh!Nothing, out)
    BY EmptyView, NothingIsEmpty DEF Queries
  <2>2. \A r \in Responses : response[r] = Sh!Nothing /\ banned[r] = {}
    BY DEF Sh!Init
  <2>3. ShownTyped
    BY <2>1, <2>2 DEF Sh!Init, ShownTyped
  <2> QED
    BY <2>1, <2>2, <2>3 DEF ShownInv
<1>2. ShownInv /\ [Sh!Next]_(Sh!showVars) => ShownInv'
  <2> SUFFICES ASSUME ShownInv, [Sh!Next]_(Sh!showVars)
               PROVE  ShownInv'
    OBVIOUS
  <2>0. CASE UNCHANGED Sh!showVars
    <3>1. UNCHANGED <<flag, response, banned>>
      BY <2>0 DEF Sh!showVars
    <3> QED
      BY <3>1 DEF ShownInv, ShownTyped, Sh!Restricted, Clear
  <2>1. ASSUME NEW p \in Sh!Parties, Sh!Restrict(p) \/ Sh!Lapse(p) \/ Sh!Lift(p)
        PROVE  ShownInv'
    BY <2>1, FlagSet DEF Sh!Restrict, Sh!Lapse, Sh!Lift
  <2> DEFINE now(r) == response[r]
  <2>2. ASSUME NEW r \in Responses, Sh!Start(r) PROVE ShownInv'
    <3>1. PICK stage \in {"agents", "ids", "forum"} :
            response' = [response EXCEPT ![r] = [Sh!Nothing EXCEPT !.phase = stage]]
      BY <2>2 DEF Sh!Start, Sh!Answer
    <3> DEFINE view == [Sh!Nothing EXCEPT !.phase = stage]
    <3>3. view \in View /\ view.links = {} /\ \A out : Clear(view, out)
      <4>1. stage \in Queries
        BY DEF Queries
      <4> QED
        BY <4>1, EmptyView
    <3>2. flag' = flag /\ banned' = [banned EXCEPT ![r] = Sh!Restricted]
          /\ Sh!Restricted \in SUBSET Sh!Parties
      BY <2>2 DEF Sh!Start, Sh!Answer, Sh!Restricted
    <3> HIDE DEF view
    <3> QED
      BY <3>1, <3>2, <3>3, ResponseMoves DEF view
  <2>3. ASSUME NEW r \in Responses, Sh!Finish(r) PROVE ShownInv'
    <3>1. /\ response' = [response EXCEPT ![r] = Sh!Nothing] /\ flag' = flag
          /\ banned' = [banned EXCEPT ![r] = {}]
      BY <2>3 DEF Sh!Finish, Sh!Answer
    <3>2. Sh!Nothing \in View /\ Sh!Nothing.links = {} /\ \A out : Clear(Sh!Nothing, out)
      BY EmptyView, NothingIsEmpty DEF Queries
    <3> QED
      BY <3>1, <3>2, ResponseMoves
  (* Every other step fills one list of one response.                      *)
  <2>4. ASSUME NEW r \in Responses, NEW from, NEW to \in Queries, NEW view \in View,
               Sh!Step(r, from, to, view), Clear(view, banned[r]),
               \A m \in view.links : m.to \in Sh!Parties
        PROVE  ShownInv'
    <3> DEFINE moved == [view EXCEPT !.phase = to]
    <3>1. response' = [response EXCEPT ![r] = moved] /\ flag' = flag
          /\ banned' = [banned EXCEPT ![r] = banned[r]]
      BY <2>4 DEF Sh!Step, Sh!Answer, ShownInv, ShownTyped
    <3>2. moved \in View /\ moved.links = view.links
      BY DEF View
    <3>3. Clear(moved, banned[r])
      BY <2>4 DEF Clear, View
    <3>4. banned[r] \in SUBSET Sh!Parties /\ banned[r] \subseteq Sh!Restricted
      BY DEF ShownInv, ShownTyped
    <3>5. \A m \in moved.links : m.to \in Sh!Parties
      BY <2>4, <3>2
    <3> HIDE DEF moved
    <3> QED
      BY <3>1, <3>2, <3>3, <3>4, <3>5, ResponseMoves
  <2>5. ASSUME NEW r \in Responses
        PROVE  /\ now(r) \in View /\ Clear(now(r), banned[r])
               /\ banned[r] \subseteq Sh!Restricted /\ \A m \in now(r).links : m.to \in Sh!Parties
    BY DEF ShownInv, ShownTyped
  <2>6. ASSUME NEW r \in Responses, Sh!ListAgents(r) PROVE ShownInv'
    <3> DEFINE view == [now(r) EXCEPT !.agents = {a \in Sh!AgentParties : Sh!NotRestricted(a)}]
    <3>1. view \in View /\ view.links = now(r).links
      BY <2>5 DEF View, Sh!AgentParties
    <3>2. Clear(view, banned[r])
      BY <2>5, UnflaggedIsFree DEF Clear, View
    <3>3. Sh!Step(r, "agents", "rooms", view)
      BY <2>6 DEF Sh!ListAgents
    <3> HIDE DEF view
    <3> QED
      BY <2>4, <2>5, <3>1, <3>2, <3>3 DEF Queries
  <2>7. ASSUME NEW r \in Responses, Sh!ListRooms(r) PROVE ShownInv'
    <3> DEFINE view == [now(r) EXCEPT !.rooms = {x \in Sh!Rooms : Sh!Unflagged(CreatorOf[x])}]
    <3>1. view \in View /\ view.links = now(r).links
      BY <2>5 DEF View
    <3>2. Clear(view, banned[r])
      BY <2>5, UnflaggedIsFree DEF Clear, View
    <3>3. Sh!Step(r, "rooms", "ids", view)
      BY <2>7 DEF Sh!ListRooms
    <3> HIDE DEF view
    <3> QED
      BY <2>4, <2>5, <3>1, <3>2, <3>3 DEF Queries
  <2>8. ASSUME NEW r \in Responses, Sh!ListIds(r) PROVE ShownInv'
    <3> DEFINE view == [now(r) EXCEPT !.ids = {a \in Sh!AgentParties : Sh!NotRestricted(a)}]
    <3>1. view \in View /\ view.links = now(r).links
      BY <2>5 DEF View, Sh!AgentParties
    <3>2. Clear(view, banned[r])
      BY <2>5, UnflaggedIsFree DEF Clear, View
    <3>3. Sh!Step(r, "ids", "cards", view)
      BY <2>8 DEF Sh!ListIds
    <3> HIDE DEF view
    <3> QED
      BY <2>4, <2>5, <3>1, <3>2, <3>3 DEF Queries
  <2>9. ASSUME NEW r \in Responses, Sh!ListCards(r) PROVE ShownInv'
    <3> DEFINE view == [now(r) EXCEPT !.cards = {a \in Authors : Sh!Unflagged(a)}]
    <3>1. view \in View /\ view.links = now(r).links
      BY <2>5 DEF View, Sh!AgentParties, Sh!ShowcaseAssumption
    <3>2. Clear(view, banned[r])
      BY <2>5, UnflaggedIsFree DEF Clear, View
    <3>3. Sh!Step(r, "cards", "messages", view)
      BY <2>9 DEF Sh!ListCards
    <3> HIDE DEF view
    <3> QED
      BY <2>4, <2>5, <3>1, <3>2, <3>3 DEF Queries
  <2>10. ASSUME NEW r \in Responses, Sh!ListMessages(r) PROVE ShownInv'
    <3> DEFINE view == [now(r) EXCEPT !.messages =
                 {m \in Messages : m.room \in now(r).rooms /\ Sh!Unflagged(m.from)}]
    <3>1. view \in View /\ view.links = now(r).links
      BY <2>5 DEF View
    <3>2. Clear(view, banned[r])
      BY <2>5, UnflaggedIsFree DEF Clear, View
    <3>3. Sh!Step(r, "messages", "links", view)
      BY <2>10 DEF Sh!ListMessages
    <3> HIDE DEF view
    <3> QED
      BY <2>4, <2>5, <3>1, <3>2, <3>3 DEF Queries
  <2>11. ASSUME NEW r \in Responses, Sh!ListLinks(r) PROVE ShownInv'
    <3> DEFINE L == {m \in Messages : /\ m.room \in now(r).rooms
                                      /\ {m.from, m.to} \subseteq now(r).agents
                                      /\ Sh!Unflagged(m.from) /\ Sh!Unflagged(m.to)}
               view == [now(r) EXCEPT !.links = L]
    <3>1. view \in View /\ view.links = L /\ \A m \in L : m.to \in Sh!Parties
      BY <2>5 DEF View
    <3>2. Clear(view, banned[r])
      BY <2>5, UnflaggedIsFree DEF Clear, View
    <3>3. Sh!Step(r, "links", "done", view)
      BY <2>11 DEF Sh!ListLinks
    <3> HIDE DEF view
    <3> QED
      BY <2>4, <3>1, <3>2, <3>3 DEF Queries
  <2>12. ASSUME NEW r \in Responses, Sh!ListThreads(r) PROVE ShownInv'
    <3> DEFINE view == [now(r) EXCEPT !.messages =
                 {m \in Messages : Sh!NotRestricted(CreatorOf[m.room]) /\ Sh!NotRestricted(m.from)}]
    <3>1. view \in View /\ view.links = now(r).links
      BY <2>5 DEF View
    <3>2. Clear(view, banned[r])
      BY <2>5, UnflaggedIsFree DEF Clear, View
    <3>3. Sh!Step(r, "forum", "done", view)
      BY <2>12 DEF Sh!ListThreads
    <3> HIDE DEF view
    <3> QED
      BY <2>4, <2>5, <3>1, <3>2, <3>3 DEF Queries
  <2> QED
    BY <2>0, <2>1, <2>2, <2>3, <2>6, <2>7, <2>8, <2>9, <2>10, <2>11, <2>12 DEF Sh!Next
<1> QED
  BY <1>1, <1>2, PTL DEF Sh!Spec

(* However restrictions, their lapses and their lifting fall between the   *)
(* queries of a response, it shows nothing of a party restricted from the  *)
(* first of them to the last (app.ts:575-617).                             *)
THEOREM HiddenCorrect ==
  ASSUME Sh!ShowcaseAssumption
  PROVE  Sh!Spec => []Sh!RestrictedIsHidden
<1>1. ShownInv => Sh!RestrictedIsHidden
  BY DEF ShownInv, Clear, Sh!RestrictedIsHidden, Sh!Shown
<1> QED
  BY <1>1, HiddenInvariant, PTL

(* A response names parties only, and those banned are restricted.         *)
THEOREM ShownTypeCorrect ==
  ASSUME Sh!ShowcaseAssumption
  PROVE  Sh!Spec => []Sh!TypeOK
<1>1. ShownInv => Sh!TypeOK
  <2> SUFFICES ASSUME ShownInv PROVE Sh!TypeOK
    OBVIOUS
  <2>1. ASSUME NEW r \in Responses PROVE Sh!Shown(r) \subseteq Sh!Parties
    <3>1. /\ response[r] \in View /\ \A m \in response[r].links : m.to \in Sh!Parties
      BY DEF ShownInv, ShownTyped
    <3>2. \A x \in response[r].rooms : CreatorOf[x] \in Sh!Parties
      BY <3>1 DEF View, Sh!ShowcaseAssumption
    <3>3. \A m \in response[r].messages \cup response[r].links : m.from \in Sh!Parties
      BY <3>1 DEF View, Sh!ShowcaseAssumption, Sh!AgentParties
    <3> QED
      BY <3>1, <3>2, <3>3 DEF View, Sh!Shown
  <2> QED
    BY <2>1 DEF ShownInv, ShownTyped, Sh!TypeOK
<1> QED
  BY <1>1, HiddenInvariant, PTL

(****************************************************************************)
(* Boards                                                                   *)
(****************************************************************************)
(* The variables of Boards.                                                 *)
room == s1
status == s2
card == s3
request == s4
told == s5
asked == s6
stale == s7
USE DEF room, status, card, request, told, asked, stale

(* A request about a thread asks for a step that the status it read allows. *)
CardsTyped == card \in [Cards -> [public : BOOLEAN, notices : Nat]]
WishesChecked ==
  /\ DOMAIN request = Patches
  /\ \A r \in Patches : request[r].phase = "read" =>
       /\ request[r].what \in Threads => Bd!MayTurn(request[r].saw, request[r].wish)
       /\ request[r].what \in Cards => {request[r].saw, request[r].wish} \subseteq BOOLEAN
BoardInv ==
  /\ CardsTyped /\ WishesChecked
  /\ DOMAIN status = Threads
  /\ Bd!GoalAsAsked /\ Bd!ToldOnce

LEMMA BoardStarts == Bd!Init => BoardInv
<1> SUFFICES ASSUME Bd!Init PROVE BoardInv
  OBVIOUS
<1>1. CardsTyped /\ Bd!ToldOnce
  BY DEF Bd!Init, CardsTyped, Bd!ToldOnce
<1>2. WishesChecked
  BY DEF Bd!Init, Bd!Idle, WishesChecked
<1>3. DOMAIN status = Threads /\ Bd!GoalAsAsked
  BY DEF Bd!Init, Bd!GoalAsAsked
<1> QED
  BY <1>1, <1>2, <1>3 DEF BoardInv

(* A request that starts with a checked wish, or is given up, leaves what  *)
(* the others wish for as it was.                                          *)
LEMMA RequestMoves ==
  ASSUME BoardInv, NEW r \in Patches, NEW wished, request' = [request EXCEPT ![r] = wished],
         wished.phase = "read" =>
           /\ wished.what \in Threads => Bd!MayTurn(wished.saw, wished.wish)
           /\ wished.what \in Cards => {wished.saw, wished.wish} \subseteq BOOLEAN
  PROVE  WishesChecked'
<1>1. DOMAIN request' = Patches
      /\ \A q \in Patches : request'[q] = IF q = r THEN wished ELSE request[q]
  BY DEF BoardInv, WishesChecked
<1> QED
  BY <1>1 DEF BoardInv, WishesChecked, Bd!MayTurn

LEMMA IdleWishes == Bd!Idle.phase = "idle"
BY DEF Bd!Idle

LEMMA ReadStep ==
  ASSUME BoardInv, NEW r \in Patches, NEW what, NEW wish, NEW saw, Bd!Read(r, what, wish, saw),
         what \in Threads => Bd!MayTurn(saw, wish),
         what \in Cards => {saw, wish} \subseteq BOOLEAN
  PROVE  BoardInv' /\ status' = status
<1> DEFINE wished == [phase |-> "read", what |-> what, wish |-> wish, saw |-> saw]
<1>1. request' = [request EXCEPT ![r] = wished]
      /\ UNCHANGED <<room, status, card, told, asked, stale>>
  BY DEF Bd!Read
<1>2. wished.what = what /\ wished.saw = saw /\ wished.wish = wish
  OBVIOUS
<1> HIDE DEF wished
<1>3. WishesChecked'
  BY <1>1, <1>2, RequestMoves
<1> QED
  BY <1>1, <1>3 DEF BoardInv, CardsTyped, Bd!GoalAsAsked, Bd!ToldOnce

LEMMA BoardStep ==
  ASSUME Bd!BoardsAssumption, BoardInv, [Bd!Next]_(Bd!boardVars)
  PROVE  BoardInv' /\ [Bd!ThreadEdge]_(Bd!boardVars)
<1>0. CASE UNCHANGED Bd!boardVars
  BY <1>0 DEF BoardInv, CardsTyped, WishesChecked, Bd!MayTurn, Bd!GoalAsAsked, Bd!ToldOnce,
              Bd!boardVars
<1>1. ASSUME NEW r \in Patches, NEW who, NEW body, Bd!ReadRoom(r, who, body)
      PROVE  BoardInv' /\ status' = status
  <2>1. Bd!Read(r, "room", body, room) /\ "room" \notin Threads \cup Cards
    BY <1>1 DEF Bd!ReadRoom, Bd!BoardsAssumption
  <2> QED
    BY <2>1, ReadStep
<1>2. ASSUME NEW r \in Patches, NEW who, NEW t \in Threads, NEW to,
             Bd!ReadThread(r, who, t, to)
      PROVE  BoardInv' /\ status' = status
  <2>1. Bd!Read(r, t, to, status[t]) /\ t \notin Cards /\ Bd!MayTurn(status[t], to)
    BY <1>2 DEF Bd!ReadThread, Bd!BoardsAssumption
  <2> QED
    BY <2>1, ReadStep
<1>3. ASSUME NEW r \in Patches, NEW who, NEW k \in Cards, NEW public \in BOOLEAN,
             Bd!ReadCard(r, who, k, public)
      PROVE  BoardInv' /\ status' = status
  <2>1. Bd!Read(r, k, public, card[k].public) /\ k \notin Threads /\ card[k].public \in BOOLEAN
    BY <1>3 DEF Bd!ReadCard, Bd!BoardsAssumption, BoardInv, CardsTyped
  <2> QED
    BY <2>1, ReadStep
<1>4. ASSUME NEW r \in Patches, request' = [request EXCEPT ![r] = Bd!Idle]
      PROVE  WishesChecked'
  BY <1>4, IdleWishes, RequestMoves
<1>5. ASSUME NEW r \in Patches, Bd!Drop(r)
      PROVE  BoardInv' /\ status' = status
  BY <1>4, <1>5 DEF Bd!Drop, BoardInv, CardsTyped, Bd!GoalAsAsked, Bd!ToldOnce
<1>6. ASSUME NEW r \in Patches, Bd!WriteRoom(r)
      PROVE  BoardInv' /\ status' = status
  <2> DEFINE body == request[r].wish  saw == request[r].saw
  <2>1. /\ room' = Bd!NextOf(body, saw) /\ asked' = Bd!NextOf(body, asked)
        /\ told' = IF Bd!Announced(body, saw) THEN body.status ELSE told
        /\ stale' = IF saw = room THEN stale ELSE stale \cup {"room"}
        /\ UNCHANGED <<status, card>> /\ request' = [request EXCEPT ![r] = Bd!Idle]
    BY <1>6 DEF Bd!WriteRoom
  <2>2. ASSUME "room" \notin stale' PROVE room' = asked' /\ told' = room'.status
    <3>1. saw = room /\ room = asked /\ told = room.status
      BY <2>1, <2>2 DEF BoardInv, Bd!GoalAsAsked
    <3>2. room'.status = IF body["status"] = Keep THEN room.status ELSE body.status
      BY <2>1, <3>1 DEF Bd!NextOf
    <3> QED
      BY <2>1, <3>1, <3>2 DEF Bd!Announced
  <2>3. Bd!ToldOnce'
    BY <2>1 DEF BoardInv, Bd!ToldOnce
  <2> QED
    BY <1>4, <2>1, <2>2, <2>3 DEF BoardInv, CardsTyped, Bd!GoalAsAsked
<1>7. ASSUME NEW r \in Patches, Bd!WriteThread(r)
      PROVE  BoardInv' /\ Bd!ThreadEdge
  <2> DEFINE t == request[r].what
  <2>1. /\ request[r].phase = "read" /\ t \in Threads
        /\ status' = [status EXCEPT ![t] = request[r].wish]
        /\ stale' = IF request[r].saw = status[t] THEN stale ELSE stale \cup {t}
        /\ UNCHANGED <<room, card, told, asked>> /\ request' = [request EXCEPT ![r] = Bd!Idle]
    BY <1>7 DEF Bd!WriteThread
  <2>2. Bd!MayTurn(request[r].saw, request[r].wish)
    BY <2>1 DEF BoardInv, WishesChecked
  <2>3. \A s \in Threads : status'[s] # status[s] => s = t /\ status'[s] = request[r].wish
    BY <2>1 DEF BoardInv
  <2>4. Bd!ThreadEdge
    BY <2>1, <2>2, <2>3 DEF Bd!ThreadEdge, Bd!MayTurn
  <2>5. Bd!GoalAsAsked' /\ Bd!ToldOnce'
    BY <2>1 DEF BoardInv, Bd!GoalAsAsked, Bd!ToldOnce
  <2> QED
    BY <1>4, <2>1, <2>4, <2>5 DEF BoardInv, CardsTyped
<1>8. ASSUME NEW r \in Patches, Bd!WriteCard(r)
      PROVE  BoardInv' /\ status' = status
  <2> DEFINE k == request[r].what  public == request[r].wish  saw == request[r].saw
             n == IF public THEN card[k].notices + (IF Bd!Tells(public, saw) THEN 1 ELSE 0) ELSE 0
  <2>1. /\ request[r].phase = "read" /\ k \in Cards
        /\ card' = [card EXCEPT ![k].public = public, ![k].notices = n]
        /\ stale' = IF saw = card[k].public THEN stale ELSE stale \cup {k}
        /\ UNCHANGED <<room, status, told, asked>> /\ request' = [request EXCEPT ![r] = Bd!Idle]
    BY <1>8 DEF Bd!WriteCard
  <2>2. saw \in BOOLEAN /\ public \in BOOLEAN
    BY <2>1 DEF BoardInv, WishesChecked
  <2>3. card \in [Cards -> [public : BOOLEAN, notices : Nat]]
    BY DEF BoardInv, CardsTyped
  <2>4. n \in Nat
    BY <2>1, <2>2, <2>3
  <2>5. /\ card' \in [Cards -> [public : BOOLEAN, notices : Nat]]
        /\ card'[k].public = public /\ card'[k].notices = n
        /\ \A j \in Cards : j # k => card'[j] = card[j]
    <3> HIDE DEF n
    <3> QED
      BY <2>1, <2>2, <2>3, <2>4
  <2>6. Bd!ToldOnce'
    <3>1. ASSUME k \notin stale' PROVE card'[k].notices = IF card'[k].public THEN 1 ELSE 0
      <4>1. saw = card[k].public /\ k \notin stale
        BY <2>1, <3>1
      <4>2. card[k].notices = IF card[k].public THEN 1 ELSE 0
        BY <2>1, <4>1 DEF BoardInv, Bd!ToldOnce
      <4>3. n = IF public THEN 1 ELSE 0
        BY <2>2, <4>1, <4>2 DEF Bd!Tells
      <4> QED
        BY <2>5, <4>3
    <3>2. ASSUME NEW j \in Cards \ stale', j # k
          PROVE  card'[j].notices = IF card'[j].public THEN 1 ELSE 0
      BY <2>1, <2>5, <3>2 DEF BoardInv, Bd!ToldOnce
    <3> QED
      BY <3>1, <3>2 DEF Bd!ToldOnce
  <2>7. Bd!GoalAsAsked'
    BY <2>1 DEF BoardInv, Bd!GoalAsAsked
  <2> QED
    BY <1>4, <2>1, <2>5, <2>6, <2>7 DEF BoardInv, CardsTyped
<1>9. ASSUME status' = status PROVE Bd!ThreadEdge
  BY <1>9 DEF Bd!ThreadEdge
<1> QED
  BY <1>0, <1>1, <1>2, <1>3, <1>5, <1>6, <1>7, <1>8, <1>9 DEF Bd!Next

(* However PATCHes of a room and its threads overlap, the room is as it was *)
(* last asked to be and its members were told so, and a thread leaves       *)
(* closed only to open, but for rows that changed between a request's check *)
(* and its UPDATE (app.ts:879-951, 1397-1470).                              *)
THEOREM BoardsCorrect ==
  ASSUME Bd!BoardsAssumption
  PROVE  Bd!Spec => Bd!BoardsAsAsked
<1>1. BoardInv /\ [Bd!Next]_(Bd!boardVars) => BoardInv'
  BY BoardStep
<1>2. BoardInv /\ BoardInv' /\ [Bd!Next]_(Bd!boardVars)
        => [Bd!GoalAsAsked' /\ Bd!ThreadEdge]_(Bd!boardVars)
  BY BoardStep DEF BoardInv
<1> QED
  BY <1>1, <1>2, BoardStarts, PTL DEF Bd!Spec, Bd!BoardsAsAsked

(* A card that goes public is told of once, unless the PATCH that made it   *)
(* public read it before another one's write (app.ts:1822-1858).            *)
THEOREM PublishedCorrect ==
  ASSUME Bd!BoardsAssumption
  PROVE  Bd!Spec => []Bd!ToldOnce
<1>1. BoardInv /\ [Bd!Next]_(Bd!boardVars) => BoardInv'
  BY BoardStep
<1>2. BoardInv => Bd!ToldOnce
  BY DEF BoardInv
<1> QED
  BY <1>1, <1>2, BoardStarts, PTL DEF Bd!Spec

(* Rows and wishes are of their kinds, and a card is told of at most as often  *)
(* as there are requests, each of which read it private: while it is private  *)
(* it is told of by nobody, and once it is public nobody reads it private.    *)
RoomRow == [goal : Goals, status : Stages]
WishTyped(q) ==
  \/ q = Bd!Idle
  \/ /\ q.phase = "read"
     /\ \/ q.what = "room" /\ q.wish \in Bd!Bodies /\ q.saw \in RoomRow
        \/ q.what \in Threads /\ q.wish \in Bd!Statuses
        \/ q.what \in Cards /\ q.wish \in BOOLEAN /\ q.saw \in BOOLEAN
Publishes(q, k) == q.phase = "read" /\ q.what = k /\ q.saw = FALSE /\ q.wish = TRUE
Publishing(k) == {r \in Patches : Publishes(request[r], k)}
NoticesBound ==
  \A k \in Cards : /\ ~card[k].public => card[k].notices = 0
                   /\ card[k].notices + Cardinality(Publishing(k)) <= Cardinality(Patches)
BoardTyped ==
  /\ CardsTyped /\ room \in RoomRow /\ told \in Stages
  /\ status \in [Threads -> Bd!Statuses] /\ stale \subseteq Threads \cup Cards \cup {"room"}
  /\ DOMAIN request = Patches /\ \A r \in Patches : WishTyped(request[r])
  /\ NoticesBound

LEMMA BoardCounts == ASSUME Bd!BoardsAssumption PROVE IsFiniteSet(Patches) /\ Cardinality(Patches) \in Nat
<1>1. IsFiniteSet(Patches)
  BY DEF Bd!BoardsAssumption, Bd!IsFiniteSet, IsFiniteSet
<1> QED
  BY <1>1, FS_CardinalityType

LEMMA PublishingFew ==
  ASSUME Bd!BoardsAssumption, NEW k
  PROVE  /\ IsFiniteSet(Publishing(k)) /\ Cardinality(Publishing(k)) \in Nat
         /\ Cardinality(Publishing(k)) <= Cardinality(Patches)
<1>1. Publishing(k) \in SUBSET Patches
  BY DEF Publishing
<1> HIDE DEF Publishing
<1> QED
  BY <1>1, BoardCounts, Fewer

(* A request that starts or ends: cards stay as they are.                    *)
LEMMA WishMoves ==
  ASSUME Bd!BoardsAssumption, BoardTyped, NEW r \in Patches, NEW wished,
         request' = [request EXCEPT ![r] = wished], WishTyped(wished)
  PROVE  /\ DOMAIN request' = Patches /\ \A q \in Patches : WishTyped(request[q])'
         /\ \A k \in Cards : /\ Publishing(k)' = IF Publishes(wished, k) THEN Publishing(k) \cup {r}
                                                 ELSE Publishing(k) \ {r}
                             /\ Cardinality(Publishing(k)') \in Nat
                             /\ Cardinality(Publishing(k)') <= Cardinality(Patches)
                             /\ ~Publishes(wished, k) =>
                                  Cardinality(Publishing(k)') <= Cardinality(Publishing(k))
                             /\ ~Publishes(wished, k) /\ r \in Publishing(k) =>
                                  Cardinality(Publishing(k)') + 1 = Cardinality(Publishing(k))
<1>1. DOMAIN request' = Patches
      /\ \A q \in Patches : request'[q] = IF q = r THEN wished ELSE request[q]
  BY DEF BoardTyped
<1>2. \A q \in Patches : WishTyped(request[q])'
  BY <1>1 DEF BoardTyped, WishTyped
<1>3. ASSUME NEW k \in Cards
      PROVE  /\ Publishing(k)' = IF Publishes(wished, k) THEN Publishing(k) \cup {r} ELSE Publishing(k) \ {r}
             /\ Publishing(k)' \in SUBSET Patches
  <2>1. Publishing(k)' = {q \in Patches : Publishes(request'[q], k)}
    BY DEF Publishing, Publishes
  <2>2. Publishing(k) = {q \in Patches : Publishes(request[q], k)}
    BY DEF Publishing
  <2> QED
    BY <1>1, <2>1, <2>2
<1>4. ASSUME NEW k \in Cards
      PROVE  /\ Cardinality(Publishing(k)') \in Nat /\ Cardinality(Publishing(k)') <= Cardinality(Patches)
             /\ ~Publishes(wished, k) => Cardinality(Publishing(k)') <= Cardinality(Publishing(k))
             /\ ~Publishes(wished, k) /\ r \in Publishing(k) =>
                  Cardinality(Publishing(k)') + 1 = Cardinality(Publishing(k))
  <2> DEFINE old == Publishing(k)
             new == Publishing(k)'
  <2>1. IsFiniteSet(old) /\ Cardinality(old) \in Nat
    BY PublishingFew
  <2>2. new \in SUBSET Patches /\ (~Publishes(wished, k) => new = old \ {r})
    BY <1>3
  <2> HIDE DEF old, new
  <2>3. Cardinality(new) \in Nat /\ Cardinality(new) <= Cardinality(Patches)
    BY <2>2, BoardCounts, Fewer
  <2>4. ASSUME ~Publishes(wished, k)
        PROVE  Cardinality(new) = IF r \in old THEN Cardinality(old) - 1 ELSE Cardinality(old)
    BY <2>1, <2>2, <2>4, FS_RemoveElement
  <2> QED
    BY <2>1, <2>3, <2>4 DEF old, new
<1> QED
  BY <1>1, <1>2, <1>3, <1>4

LEMMA IdleTyped == WishTyped(Bd!Idle) /\ \A k : ~Publishes(Bd!Idle, k)
BY DEF WishTyped, Publishes, Bd!Idle

LEMMA ReadTyped ==
  ASSUME Bd!BoardsAssumption, BoardTyped, NEW r \in Patches, NEW what, NEW wish, NEW saw,
         Bd!Read(r, what, wish, saw),
         \/ what = "room" /\ wish \in Bd!Bodies /\ saw = room
         \/ what \in Threads /\ wish \in Bd!Statuses
         \/ what \in Cards /\ wish \in BOOLEAN /\ saw = card[what].public
  PROVE  BoardTyped'
<1> DEFINE wished == [phase |-> "read", what |-> what, wish |-> wish, saw |-> saw]
<1>1. request' = [request EXCEPT ![r] = wished] /\ UNCHANGED <<room, status, card, told, asked, stale>>
  BY DEF Bd!Read
<1>2. wished.phase = "read" /\ wished.what = what /\ wished.saw = saw /\ wished.wish = wish
  OBVIOUS
<1> HIDE DEF wished
<1>3. what \notin Cards \/ saw = card[what].public
  BY DEF Bd!BoardsAssumption
<1>4. \A k \in Cards : card[k].public \in BOOLEAN /\ card[k].notices \in Nat
  BY DEF BoardTyped, CardsTyped
<1>5. WishTyped(wished)
  BY <1>2, <1>4 DEF WishTyped, BoardTyped
<1>6. ASSUME NEW k \in Cards
      PROVE  card[k].notices + Cardinality(Publishing(k)') <= Cardinality(Patches)
  <2>1. CASE Publishes(wished, k)
    <3>1. ~card[k].public
      BY <1>2, <1>3, <2>1 DEF Publishes
    <3>2. card[k].notices = 0
      BY <3>1 DEF BoardTyped, NoticesBound
    <3>3. Cardinality(Publishing(k)') \in Nat /\ Cardinality(Publishing(k)') <= Cardinality(Patches)
      BY <1>1, <1>5, WishMoves
    <3> QED
      BY <3>2, <3>3, BoardCounts
  <2>2. CASE ~Publishes(wished, k)
    <3>1. Cardinality(Publishing(k)') \in Nat /\ Cardinality(Publishing(k)') <= Cardinality(Publishing(k))
      BY <1>1, <1>5, <2>2, WishMoves
    <3>2. card[k].notices + Cardinality(Publishing(k)) <= Cardinality(Patches)
      BY DEF BoardTyped, NoticesBound
    <3> QED
      BY <1>4, <3>1, <3>2, BoardCounts, PublishingFew
  <2> QED
    BY <2>1, <2>2
<1>7. NoticesBound'
  BY <1>1, <1>6 DEF BoardTyped, NoticesBound
<1>8. DOMAIN request' = Patches /\ \A q \in Patches : WishTyped(request[q])'
  BY <1>1, <1>5, WishMoves
<1> QED
  BY <1>1, <1>7, <1>8 DEF BoardTyped, CardsTyped

(* A request ends without a word to anybody.                                 *)
LEMMA EndsTyped ==
  ASSUME Bd!BoardsAssumption, BoardTyped, NEW r \in Patches, request' = [request EXCEPT ![r] = Bd!Idle],
         card' = card
  PROVE  /\ NoticesBound' /\ DOMAIN request' = Patches /\ \A q \in Patches : WishTyped(request[q])'
<1>1. ASSUME NEW k \in Cards
      PROVE  card[k].notices + Cardinality(Publishing(k)') <= Cardinality(Patches)
  <2>1. Cardinality(Publishing(k)') \in Nat /\ Cardinality(Publishing(k)') <= Cardinality(Publishing(k))
    BY IdleTyped, WishMoves
  <2>2. card[k].notices + Cardinality(Publishing(k)) <= Cardinality(Patches) /\ card[k].notices \in Nat
    BY DEF BoardTyped, NoticesBound, CardsTyped
  <2> QED
    BY <2>1, <2>2, BoardCounts, PublishingFew
<1>2. NoticesBound'
  BY <1>1 DEF BoardTyped, NoticesBound
<1> QED
  BY <1>2, IdleTyped, WishMoves

LEMMA WriteRoomTyped ==
  ASSUME Bd!BoardsAssumption, BoardTyped, NEW r \in Patches, Bd!WriteRoom(r)
  PROVE  BoardTyped'
<1> DEFINE body == request[r].wish  saw == request[r].saw
<1>1. /\ room' = Bd!NextOf(body, saw) /\ told' = IF Bd!Announced(body, saw) THEN body.status ELSE told
      /\ stale' \subseteq stale \cup {"room"} /\ request[r].phase = "read" /\ request[r].what = "room"
      /\ UNCHANGED <<status, card>> /\ request' = [request EXCEPT ![r] = Bd!Idle]
  BY DEF Bd!WriteRoom
<1>2. body \in Bd!Bodies /\ saw \in RoomRow
  <2>1. WishTyped(request[r]) /\ request[r] # Bd!Idle
    BY <1>1 DEF BoardTyped, Bd!Idle
  <2> QED
    BY <1>1, <2>1 DEF WishTyped, Bd!BoardsAssumption
<1> HIDE DEF body, saw
<1>3. body.goal \in Goals \cup {Keep} /\ body.status \in Stages \cup {Keep}
  BY <1>2 DEF Bd!Bodies
<1>4. saw.goal \in Goals /\ saw.status \in Stages
  BY <1>2 DEF RoomRow
<1>5. room' = [goal |-> IF body.goal = Keep THEN saw.goal ELSE body.goal,
               status |-> IF body.status = Keep THEN saw.status ELSE body.status]
  BY <1>1 DEF Bd!NextOf
<1>6. room' \in RoomRow
  BY <1>3, <1>4, <1>5 DEF RoomRow
<1>7. told' \in Stages
  BY <1>1, <1>3 DEF Bd!Announced, BoardTyped
<1> QED
  BY <1>1, <1>6, <1>7, EndsTyped DEF BoardTyped, CardsTyped

LEMMA WriteThreadTyped ==
  ASSUME Bd!BoardsAssumption, BoardTyped, NEW r \in Patches, Bd!WriteThread(r)
  PROVE  BoardTyped'
<1> DEFINE t == request[r].what
<1>1. /\ request[r].phase = "read" /\ t \in Threads /\ status' = [status EXCEPT ![t] = request[r].wish]
      /\ stale' \subseteq stale \cup {t}
      /\ UNCHANGED <<room, card, told>> /\ request' = [request EXCEPT ![r] = Bd!Idle]
  BY DEF Bd!WriteThread
<1>2. request[r].wish \in Bd!Statuses
  <2>1. WishTyped(request[r]) /\ request[r] # Bd!Idle
    BY <1>1 DEF BoardTyped, Bd!Idle
  <2> QED
    BY <1>1, <2>1 DEF WishTyped, Bd!BoardsAssumption
<1>3. status' \in [Threads -> Bd!Statuses] /\ stale' \subseteq Threads \cup Cards \cup {"room"}
  BY <1>1, <1>2 DEF BoardTyped
<1> QED
  BY <1>1, <1>3, EndsTyped DEF BoardTyped, CardsTyped

LEMMA WriteCardTyped ==
  ASSUME Bd!BoardsAssumption, BoardTyped, NEW r \in Patches, Bd!WriteCard(r)
  PROVE  BoardTyped'
<1>0. PICK c \in Cards : c = request[r].what
  BY DEF Bd!WriteCard
<1> DEFINE public == request[r].wish  saw == request[r].saw
       n == IF public THEN card[c].notices + (IF Bd!Tells(public, saw) THEN 1 ELSE 0) ELSE 0
<1>1. /\ request[r].phase = "read" /\ c \in Cards
      /\ card' = [card EXCEPT ![c].public = public, ![c].notices = n]
      /\ stale' \subseteq stale \cup {c}
      /\ UNCHANGED <<room, status, told>> /\ request' = [request EXCEPT ![r] = Bd!Idle]
  BY <1>0 DEF Bd!WriteCard
<1>2. saw \in BOOLEAN /\ public \in BOOLEAN
  <2>1. WishTyped(request[r]) /\ request[r] # Bd!Idle
    BY <1>1 DEF BoardTyped, Bd!Idle
  <2> QED
    BY <1>0, <1>1, <2>1 DEF WishTyped, Bd!BoardsAssumption
<1>3. card \in [Cards -> [public : BOOLEAN, notices : Nat]] /\ n \in Nat
  <2>1. card \in [Cards -> [public : BOOLEAN, notices : Nat]]
    BY DEF BoardTyped, CardsTyped
  <2>2. card[c].notices \in Nat
    BY <1>1, <2>1
  <2>3. n \in Nat
    BY <2>2
  <2> QED
    BY <2>1, <2>3
<1>4. /\ card' \in [Cards -> [public : BOOLEAN, notices : Nat]]
      /\ card'[c].public = public /\ card'[c].notices = n
      /\ \A j \in Cards : j # c => card'[j] = card[j]
  <2> HIDE DEF n
  <2> QED
    BY <1>1, <1>2, <1>3
<1>5. /\ DOMAIN request' = Patches /\ \A q \in Patches : WishTyped(request[q])'
      /\ \A k \in Cards : /\ Cardinality(Publishing(k)') \in Nat /\ Cardinality(Publishing(k)') <= Cardinality(Patches)
                          /\ Cardinality(Publishing(k)') <= Cardinality(Publishing(k))
                          /\ r \in Publishing(k) => Cardinality(Publishing(k)') + 1 = Cardinality(Publishing(k))
  BY <1>1, IdleTyped, WishMoves
<1>6. \A k \in Cards : /\ card[k].notices \in Nat /\ Cardinality(Publishing(k)) \in Nat
                       /\ card[k].notices + Cardinality(Publishing(k)) <= Cardinality(Patches)
  BY <1>3, PublishingFew DEF BoardTyped, NoticesBound
<1>7. n + Cardinality(Publishing(c)') <= Cardinality(Patches)
  <2> DEFINE m == card[c].notices  before == Cardinality(Publishing(c))
             after == Cardinality(Publishing(c)')  top == Cardinality(Patches)
  <2>1. /\ m \in Nat /\ before \in Nat /\ after \in Nat /\ top \in Nat
        /\ m + before <= top /\ after <= top /\ after <= before
        /\ r \in Publishing(c) => after + 1 = before
    BY <1>5, <1>6, BoardCounts
  <2>2. public /\ Bd!Tells(public, saw) => r \in Publishing(c)
    BY <1>0, <1>1, <1>2 DEF Publishing, Publishes, Bd!Tells
  <2>3. n = IF public THEN m + (IF Bd!Tells(public, saw) THEN 1 ELSE 0) ELSE 0
    OBVIOUS
  <2> HIDE DEF n, m, before, after, top, public, saw
  <2>4. CASE public /\ Bd!Tells(public, saw)
    <3>1. n = m + 1 /\ after + 1 = before
      BY <2>1, <2>2, <2>3, <2>4
    <3>2. n + after <= top
      BY <2>1, <3>1
    <3> QED
      BY <3>2 DEF after, top
  <2>5. CASE public /\ ~Bd!Tells(public, saw)
    <3>1. n = m
      BY <2>1, <2>3, <2>5
    <3>2. n + after <= top
      BY <2>1, <3>1
    <3> QED
      BY <3>2 DEF after, top
  <2>6. CASE ~public
    <3>1. n = 0
      BY <2>3, <2>6
    <3>2. n + after <= top
      BY <2>1, <3>1
    <3> QED
      BY <3>2 DEF after, top
  <2> QED
    BY <2>4, <2>5, <2>6
<1>8. NoticesBound'
  <2> SUFFICES ASSUME NEW k \in Cards
               PROVE  /\ ~card'[k].public => card'[k].notices = 0
                      /\ card'[k].notices + Cardinality(Publishing(k)') <= Cardinality(Patches)
    BY DEF NoticesBound
  <2>1. CASE k = c
    <3>1. ~public => n = 0
      OBVIOUS
    <3> HIDE DEF n, public
    <3>2. card'[k].public = public /\ card'[k].notices = n
      BY <1>4, <2>1
    <3>3. n + Cardinality(Publishing(k)') <= Cardinality(Patches)
      BY <1>7, <2>1
    <3> QED
      BY <3>1, <3>2, <3>3
  <2>2. CASE k # c
    <3>1. card'[k] = card[k]
      BY <1>4, <2>2
    <3>2. card[k].notices + Cardinality(Publishing(k)') <= Cardinality(Patches)
      BY <1>5, <1>6, BoardCounts
    <3> QED
      BY <3>1, <3>2 DEF BoardTyped, NoticesBound
  <2> QED
    BY <2>1, <2>2
<1> HIDE DEF n
<1> QED
  BY <1>1, <1>4, <1>5, <1>8 DEF BoardTyped, CardsTyped

(* Rows keep their types, and of a card no more notices go out than there    *)
(* are requests (app.ts:1822-1858).                                         *)
THEOREM BoardsTypeCorrect == ASSUME Bd!BoardsAssumption PROVE Bd!Spec => []Bd!TypeOK
<1>1. Bd!Init => BoardTyped
  <2> SUFFICES ASSUME Bd!Init PROVE BoardTyped
    OBVIOUS
  <2>1. room \in RoomRow /\ told \in Stages
    <3>1. PICK g \in Goals, s \in Stages : room = [goal |-> g, status |-> s] /\ told = room.status
      BY DEF Bd!Init
    <3> QED
      BY <3>1 DEF RoomRow
  <2>2. status \in [Threads -> Bd!Statuses] /\ stale = {}
    BY DEF Bd!Init, Bd!Statuses
  <2>3. CardsTyped /\ \A k \in Cards : ~card[k].public /\ card[k].notices = 0
    BY DEF Bd!Init, CardsTyped
  <2>4. DOMAIN request = Patches /\ \A r \in Patches : request[r] = Bd!Idle
    BY DEF Bd!Init
  <2>5. NoticesBound
    BY <2>3, PublishingFew, BoardCounts DEF NoticesBound
  <2> QED
    BY <2>1, <2>2, <2>3, <2>4, <2>5, IdleTyped DEF BoardTyped
<1>2. BoardTyped /\ [Bd!Next]_(Bd!boardVars) => BoardTyped'
  <2> SUFFICES ASSUME BoardTyped, [Bd!Next]_(Bd!boardVars) PROVE BoardTyped'
    OBVIOUS
  <2>1. CASE UNCHANGED Bd!boardVars
    BY <2>1 DEF Bd!boardVars, BoardTyped, CardsTyped, WishTyped, NoticesBound, Publishing, Publishes
  <2>2. ASSUME NEW r \in Patches, NEW who, NEW body \in Bd!Bodies, Bd!ReadRoom(r, who, body)
        PROVE  BoardTyped'
    BY <2>2, ReadTyped DEF Bd!ReadRoom
  <2>3. ASSUME NEW r \in Patches, NEW who, NEW t \in Threads, NEW to \in Bd!Statuses, Bd!ReadThread(r, who, t, to)
        PROVE  BoardTyped'
    BY <2>3, ReadTyped DEF Bd!ReadThread
  <2>4. ASSUME NEW r \in Patches, NEW who, NEW k \in Cards, NEW public \in BOOLEAN, Bd!ReadCard(r, who, k, public)
        PROVE  BoardTyped'
    BY <2>4, ReadTyped DEF Bd!ReadCard
  <2>5. ASSUME NEW r \in Patches, Bd!Drop(r)
        PROVE  BoardTyped'
    BY <2>5, EndsTyped DEF Bd!Drop, BoardTyped, CardsTyped
  <2> QED
    BY <2>1, <2>2, <2>3, <2>4, <2>5, WriteRoomTyped, WriteThreadTyped, WriteCardTyped DEF Bd!Next
<1>3. BoardTyped => Bd!TypeOK
  <2> SUFFICES ASSUME BoardTyped PROVE Bd!TypeOK
    OBVIOUS
  <2>1. \A S : Bd!Cardinality(S) = Cardinality(S)
    BY DEF Bd!Cardinality, Cardinality
  <2>2. ASSUME NEW k \in Cards
        PROVE  card[k].public \in BOOLEAN /\ card[k].notices \in 0..Cardinality(Patches)
    <3>1. card[k].public \in BOOLEAN /\ card[k].notices \in Nat
      BY DEF BoardTyped, CardsTyped
    <3>2. card[k].notices + Cardinality(Publishing(k)) <= Cardinality(Patches)
      BY DEF BoardTyped, NoticesBound
    <3> QED
      BY <3>1, <3>2, PublishingFew, BoardCounts
  <2>3. \A r \in Patches : request[r] = Bd!Idle \/ request[r].what \in Threads \cup Cards \cup {"room"}
    BY DEF BoardTyped, WishTyped
  <2> QED
    BY <2>1, <2>2, <2>3 DEF BoardTyped, Bd!TypeOK, RoomRow
<1> QED
  BY <1>1, <1>2, <1>3, PTL DEF Bd!Spec

(****************************************************************************)
(* Quotas: counting under the lock, at the clock of the lock                  *)
(****************************************************************************)
clock == s1
rows == s2
act == s3
usage == s4
understated == s5
USE DEF clock, rows, act, usage, understated

(* Counted means the same there as here.                                   *)
LEMMA QuotaCounts == \A S : Qt!Cardinality(S) = Cardinality(S)
BY DEF Qt!Cardinality, Cardinality

(* The rows of a span of the window's length that ends at t.               *)
Span(S, t) == {x \in S : t - Window < x.at /\ x.at <= t}
Keeps(limit, S) == limit = 0 \/ \A t \in 1..clock : Cardinality(Span(S, t)) <= limit
(* What an agent, the owner and a pair have done.                          *)
OfAgent(a, kind) == {x \in rows : x.who = a /\ x.kind = kind}
OfOwner(kind) == {x \in rows : x.kind = kind}
OfPair(a, to) == {x \in rows : x.who = a /\ x.to = to}

Wish == [phase : {"idle", "begun", "checked"}, who : Qt!Actors, kind : SendKinds \cup {""},
         to : Recipients \cup {Owner}, began : Nat]
RowsOK ==
  /\ clock \in Nat \ {0} /\ IsFiniteSet(rows)
  /\ \A x \in rows : x.at \in 1..clock /\ x.who \in Qt!Actors /\ x.kind \in SendKinds
ActsOK ==
  /\ act \in [Requests -> Wish]
  /\ \A r \in Requests : act[r].phase # "idle" =>
       act[r].kind \in SendKinds /\ (act[r].to # Owner <=> act[r].kind = "direct")
  /\ \A r, q \in Requests : act[r].phase = "checked" /\ act[q].phase = "checked" => r = q
UsageOK == usage \in 0..clock /\ ~understated
(* A request that was let pass has left room for its row, whatever the clock *)
(* says by then.                                                           *)
Spares(limit, S) == limit = 0 \/ Cardinality(Span(S, clock)) < limit
LeavesAll(who, kind, to) ==
  /\ who # Owner => Spares(AgentLimit, OfAgent(who, kind))
  /\ Spares(OwnerLimit, OfOwner(kind))
  /\ kind = "direct" => Spares(PairLimit, OfPair(who, to))
RoomLeft ==
  \A r \in Requests : \A who, kind, to :
    act[r].phase = "checked" /\ act[r].who = who /\ act[r].kind = kind /\ act[r].to = to =>
      LeavesAll(who, kind, to)
Held ==
  /\ \A a \in Senders, kind \in SendKinds : Keeps(AgentLimit, OfAgent(a, kind))
  /\ \A kind \in SendKinds : Keeps(OwnerLimit, OfOwner(kind))
  /\ \A a \in Qt!Actors, to \in Recipients : Keeps(PairLimit, OfPair(a, to))
QuotaInv == RowsOK /\ ActsOK /\ UsageOK /\ RoomLeft /\ Held

LEMMA SpanFinite ==
  ASSUME RowsOK, NEW S \in SUBSET rows, NEW t
  PROVE  IsFiniteSet(Span(S, t)) /\ Cardinality(Span(S, t)) \in Nat
<1>1. Span(S, t) \in SUBSET rows
  BY DEF Span
<1> QED
  BY <1>1, Fewer DEF RowsOK

(* Time makes room: a window that ends later has no row that it did not have.*)
LEMMA TimePasses ==
  ASSUME RowsOK, Qt!QuotasAssumption, NEW S \in SUBSET rows, NEW limit \in Nat, clock' = clock + 1
  PROVE  /\ Spares(limit, S) => limit = 0 \/ Cardinality(Span(S, clock')) < limit
         /\ Keeps(limit, S) => limit = 0 \/ \A t \in 1..clock' : Cardinality(Span(S, t)) <= limit
<1>1. Span(S, clock') \in SUBSET Span(S, clock)
  BY DEF Span, RowsOK, Qt!QuotasAssumption
<1>2. IsFiniteSet(Span(S, clock))
  BY SpanFinite
<1>3. /\ Cardinality(Span(S, clock')) <= Cardinality(Span(S, clock))
      /\ Cardinality(Span(S, clock')) \in Nat /\ Cardinality(Span(S, clock)) \in Nat
  BY <1>1, <1>2, Fewer
<1>4. clock \in 1..clock /\ \A t \in 1..clock' : t \in 1..clock \/ t = clock'
  BY DEF RowsOK
<1> QED
  BY <1>3, <1>4 DEF Spares, Keeps

(* A row that comes now counts in the window that ends now and in no other.  *)
LEMMA OneRowMore ==
  ASSUME RowsOK, Qt!QuotasAssumption, NEW S \in SUBSET rows, NEW limit \in Nat, NEW x, x.at = clock,
         Spares(limit, S), Keeps(limit, S)
  PROVE  Keeps(limit, S \cup {x})
<1> SUFFICES ASSUME limit # 0, NEW t \in 1..clock
             PROVE  Cardinality(Span(S \cup {x}, t)) <= limit
  BY DEF Keeps
<1>1. CASE t # clock
  <2>1. Span(S \cup {x}, t) = Span(S, t)
    BY <1>1 DEF Span, RowsOK
  <2> QED
    BY <2>1 DEF Keeps
<1>2. CASE t = clock
  <2>1. Span(S \cup {x}, t) \in SUBSET (Span(S, clock) \cup {x})
    BY <1>2 DEF Span
  <2>2. IsFiniteSet(Span(S, clock)) /\ Cardinality(Span(S, clock)) \in Nat
    BY SpanFinite
  <2>3. /\ IsFiniteSet(Span(S, clock) \cup {x})
        /\ Cardinality(Span(S, clock) \cup {x}) <= Cardinality(Span(S, clock)) + 1
    BY <2>2, OneMore
  <2>4. /\ Cardinality(Span(S \cup {x}, t)) <= Cardinality(Span(S, clock) \cup {x})
        /\ Cardinality(Span(S \cup {x}, t)) \in Nat /\ Cardinality(Span(S, clock) \cup {x}) \in Nat
    BY <2>1, <2>3, Fewer
  <2> QED
    BY <2>2, <2>3, <2>4 DEF Spares
<1> QED
  BY <1>1, <1>2

LEMMA QuotaStarts == Qt!QuotasAssumption /\ Qt!Init => QuotaInv
<1> SUFFICES ASSUME Qt!QuotasAssumption, Qt!Init PROVE QuotaInv
  OBVIOUS
<1>1. clock = 1 /\ rows = {} /\ usage = 0 /\ understated = FALSE /\ act = [r \in Requests |-> Qt!Nil]
  BY DEF Qt!Init
<1>2. Qt!Nil \in Wish /\ Qt!Nil.phase = "idle"
  BY DEF Qt!Nil, Wish, Qt!Actors
<1>3. \A S : Span({}, S) = {}
  BY DEF Span
<1>4. Cardinality({}) = 0 /\ IsFiniteSet({})
  BY FS_EmptySet
<1>5. RowsOK /\ ActsOK /\ UsageOK /\ RoomLeft
  BY <1>1, <1>2, <1>4 DEF RowsOK, ActsOK, UsageOK, RoomLeft
<1>6. \A limit \in Nat : Keeps(limit, {})
  BY <1>3, <1>4 DEF Keeps
<1>7. Held
  BY <1>1, <1>6 DEF Held, OfAgent, OfOwner, OfPair, Qt!QuotasAssumption
<1> QED
  BY <1>5, <1>7 DEF QuotaInv

LEMMA QuotaTick == ASSUME Qt!QuotasAssumption, QuotaInv, Qt!Tick PROVE QuotaInv'
<1>1. clock' = clock + 1 /\ rows' = rows /\ act' = act /\ usage' = usage /\ understated' = understated
  BY DEF Qt!Tick
<1>2. RowsOK' /\ ActsOK' /\ UsageOK'
  BY <1>1 DEF QuotaInv, RowsOK, ActsOK, UsageOK
<1>3. \A S \in SUBSET rows : \A limit \in Nat :
        /\ Spares(limit, S) => limit = 0 \/ Cardinality(Span(S, clock')) < limit
        /\ Keeps(limit, S) => limit = 0 \/ \A t \in 1..clock' : Cardinality(Span(S, t)) <= limit
  BY <1>1, TimePasses DEF QuotaInv
<1>4. /\ \A a, kind : OfAgent(a, kind)' = OfAgent(a, kind) /\ OfAgent(a, kind) \in SUBSET rows
      /\ \A kind : OfOwner(kind)' = OfOwner(kind) /\ OfOwner(kind) \in SUBSET rows
      /\ \A a, to : OfPair(a, to)' = OfPair(a, to) /\ OfPair(a, to) \in SUBSET rows
  BY <1>1 DEF OfAgent, OfOwner, OfPair
<1>5. RoomLeft'
  <2>1. \A S \in SUBSET rows : \A limit \in Nat : Spares(limit, S) => Spares(limit, S)'
    BY <1>1, <1>3 DEF Spares, Span
  <2>2. \A who, kind, to : LeavesAll(who, kind, to) => LeavesAll(who, kind, to)'
    BY <1>4, <2>1 DEF LeavesAll, Spares, Span, Qt!QuotasAssumption
  <2> QED
    BY <1>1, <2>2 DEF QuotaInv, RoomLeft
<1>6. Held'
  BY <1>1, <1>3, <1>4 DEF QuotaInv, Held, Keeps, Qt!QuotasAssumption, Span
<1> QED
  BY <1>2, <1>5, <1>6 DEF QuotaInv

(* What is left does not change while the rows and the clock stay.         *)
LEMMA SameRoom ==
  ASSUME UNCHANGED <<clock, rows>>
  PROVE  /\ \A limit, S : Spares(limit, S)' = Spares(limit, S) /\ Keeps(limit, S)' = Keeps(limit, S)
         /\ \A who, kind, to : LeavesAll(who, kind, to)' = LeavesAll(who, kind, to)
<1>1. \A a, kind, to : /\ OfAgent(a, kind)' = OfAgent(a, kind)
                       /\ OfOwner(kind)' = OfOwner(kind)
                       /\ OfPair(a, to)' = OfPair(a, to)
  BY DEF OfAgent, OfOwner, OfPair
<1>2. \A limit, S : Spares(limit, S)' = Spares(limit, S) /\ Keeps(limit, S)' = Keeps(limit, S)
  BY DEF Spares, Keeps, Span
<1> QED
  BY <1>1, <1>2 DEF LeavesAll, Spares, Span

(* Requests that begin, end or read the rows write none.                   *)
LEMMA QuotaQuiet ==
  ASSUME QuotaInv, UNCHANGED <<clock, rows>>, ActsOK', UsageOK', RoomLeft'
  PROVE  QuotaInv'
<1>1. RowsOK'
  BY DEF QuotaInv, RowsOK
<1>2. Held'
  BY DEF QuotaInv, Held, Keeps, OfAgent, OfOwner, OfPair, Span
<1> QED
  BY <1>1, <1>2 DEF QuotaInv

LEMMA QuotaBegin ==
  ASSUME QuotaInv, NEW r \in Requests, NEW who \in Qt!Actors, NEW kind \in SendKinds,
         NEW to \in Recipients \cup {Owner}, Qt!Begin(r, who, kind, to)
  PROVE  QuotaInv'
<1> DEFINE new == [phase |-> "begun", who |-> who, kind |-> kind, to |-> to, began |-> clock]
<1>1. /\ act' = [act EXCEPT ![r] = new] /\ (to # Owner <=> kind = "direct")
      /\ UNCHANGED <<clock, rows, usage, understated>>
  BY DEF Qt!Begin
<1>2. new \in Wish
  BY DEF Wish, QuotaInv, RowsOK
<1>3. \A q \in Requests : act'[q] = IF q = r THEN new ELSE act[q]
  BY <1>1 DEF QuotaInv, ActsOK
<1>4. ActsOK'
  BY <1>1, <1>2, <1>3 DEF QuotaInv, ActsOK
<1>5. UsageOK'
  BY <1>1 DEF QuotaInv, UsageOK
<1>6. RoomLeft'
  BY <1>1, <1>3, SameRoom DEF QuotaInv, RoomLeft
<1> QED
  BY <1>1, <1>4, <1>5, <1>6, QuotaQuiet

(* A rolled back request holds nothing.                                    *)
LEMMA SendEnded ==
  ASSUME QuotaInv, NEW r \in Requests, act' = [act EXCEPT ![r] = Qt!Nil]
  PROVE  /\ ActsOK'
         /\ \A q \in Requests : act'[q].phase # "idle" => act'[q] = act[q] /\ q # r
<1>1. Qt!Nil \in Wish /\ Qt!Nil.phase = "idle"
  BY DEF Qt!Nil, Wish, Qt!Actors
<1>2. \A q \in Requests : act'[q] = IF q = r THEN Qt!Nil ELSE act[q]
  BY DEF QuotaInv, ActsOK
<1> QED
  BY <1>1, <1>2 DEF QuotaInv, ActsOK

LEMMA QuotaRollback == ASSUME QuotaInv, NEW r \in Requests, Qt!Rollback(r) PROVE QuotaInv'
<1>1. act' = [act EXCEPT ![r] = Qt!Nil] /\ UNCHANGED <<clock, rows, usage, understated>>
  BY DEF Qt!Rollback
<1>2. ActsOK' /\ \A q \in Requests : act'[q].phase # "idle" => act'[q] = act[q] /\ q # r
  BY <1>1, SendEnded
<1>3. UsageOK'
  BY <1>1 DEF QuotaInv, UsageOK
<1>4. RoomLeft'
  BY <1>1, <1>2, SameRoom DEF QuotaInv, RoomLeft
<1> QED
  BY <1>1, <1>2, <1>3, <1>4, QuotaQuiet

(* The count under the lock is that of the window which ends now.          *)
LEMMA CountedIs ==
  ASSUME RowsOK, Qt!QuotasAssumption
  PROVE  /\ \A a \in Senders : \A kind : Qt!Counted(a, kind, clock) = Span(OfAgent(a, kind), clock)
         /\ \A kind : Qt!Counted(Owner, kind, clock) = Span(OfOwner(kind), clock)
         /\ \A a, to : Qt!Pair(a, to, clock) = Span(OfPair(a, to), clock)
BY DEF RowsOK, Qt!QuotasAssumption, Qt!Counted, Qt!Pair, Qt!Since, Span, OfAgent, OfOwner, OfPair

LEMMA QuotaCheck ==
  ASSUME Qt!QuotasAssumption, QuotaInv, NEW r \in Requests, Qt!Check(r) PROVE QuotaInv'
<1>1. /\ act' = [act EXCEPT ![r].phase = "checked"] /\ UNCHANGED <<clock, rows, usage, understated>>
      /\ act[r].phase = "begun" /\ Qt!LockFree
      /\ act[r].who # Owner => Qt!Fits(AgentLimit, Qt!Counted(act[r].who, act[r].kind, clock))
      /\ Qt!Fits(OwnerLimit, Qt!Counted(Owner, act[r].kind, clock))
      /\ act[r].kind = "direct" => Qt!Fits(PairLimit, Qt!Pair(act[r].who, act[r].to, clock))
  BY DEF Qt!Check
<1>2. act[r] \in Wish /\ \A q \in Requests : act'[q] = IF q = r THEN [act[r] EXCEPT !.phase = "checked"] ELSE act[q]
  BY <1>1 DEF QuotaInv, ActsOK
<1>3. /\ act'[r] \in Wish /\ act'[r].phase = "checked" /\ act'[r].who = act[r].who
      /\ act'[r].kind = act[r].kind /\ act'[r].to = act[r].to
  BY <1>2 DEF Wish
<1>4. ActsOK'
  <2>1. act' \in [Requests -> Wish]
    BY <1>1, <1>2, <1>3 DEF QuotaInv, ActsOK
  <2> QED
    BY <2>1, <1>1, <1>2, <1>3 DEF QuotaInv, ActsOK, Qt!LockFree
<1>5. UsageOK'
  BY <1>1 DEF QuotaInv, UsageOK
<1>6. /\ act[r].who # Owner => Spares(AgentLimit, OfAgent(act[r].who, act[r].kind))
      /\ Spares(OwnerLimit, OfOwner(act[r].kind))
      /\ act[r].kind = "direct" => Spares(PairLimit, OfPair(act[r].who, act[r].to))
  <2>1. act[r].who # Owner => act[r].who \in Senders
    BY <1>2 DEF Wish, Qt!Actors
  <2> QED
    BY <1>1, <2>1, CountedIs, QuotaCounts DEF QuotaInv, Qt!Fits, Spares
<1>7. RoomLeft'
  <2>1. LeavesAll(act[r].who, act[r].kind, act[r].to)
    BY <1>6 DEF LeavesAll
  <2> QED
    BY <1>1, <1>2, <1>3, <2>1, SameRoom DEF RoomLeft, Qt!LockFree
<1> QED
  BY <1>1, <1>4, <1>5, <1>7, QuotaQuiet

(* The row that is written is that of the one request which was let pass.   *)
LEMMA QuotaCommit ==
  ASSUME Qt!QuotasAssumption, QuotaInv, NEW r \in Requests, Qt!Commit(r) PROVE QuotaInv'
<1>0. PICK i : rows' = rows \cup {[id |-> i, who |-> act[r].who, kind |-> act[r].kind,
                                   to |-> act[r].to, at |-> clock]}
  BY DEF Qt!Commit, Qt!StampClock
<1> DEFINE x == [id |-> i, who |-> act[r].who, kind |-> act[r].kind, to |-> act[r].to, at |-> clock]
<1>1. /\ rows' = rows \cup {x} /\ x.who = act[r].who /\ x.kind = act[r].kind
      /\ x.to = act[r].to /\ x.at = clock
  BY <1>0
<1> HIDE DEF x
<1>2. act[r].phase = "checked" /\ act' = [act EXCEPT ![r] = Qt!Nil] /\ UNCHANGED <<clock, usage, understated>>
  BY DEF Qt!Commit
<1>3. ActsOK' /\ \A q \in Requests : act'[q].phase # "idle" => act'[q] = act[q] /\ q # r
  BY <1>2, SendEnded
<1>4. \A q \in Requests : act'[q].phase # "checked"
  BY <1>2, <1>3 DEF QuotaInv, ActsOK
<1>5. RoomLeft' /\ UsageOK'
  BY <1>2, <1>4 DEF RoomLeft, QuotaInv, UsageOK
<1>6. /\ act[r] \in Wish /\ act[r].kind \in SendKinds
      /\ (act[r].to # Owner <=> act[r].kind = "direct")
  BY <1>2 DEF QuotaInv, ActsOK
<1>7. RowsOK'
  <2>1. IsFiniteSet(rows \cup {x})
    BY OneMore DEF QuotaInv, RowsOK
  <2>2. x.who \in Qt!Actors /\ x.kind \in SendKinds
    BY <1>1, <1>6 DEF Wish
  <2>3. x.at \in 1..clock
    BY <1>1 DEF QuotaInv, RowsOK
  <2>4. \A y \in rows' : y \in rows \/ y = x
    BY <1>1
  <2> QED
    BY <1>1, <1>2, <2>1, <2>2, <2>3, <2>4 DEF QuotaInv, RowsOK
<1>8. \A S \in SUBSET rows : \A limit \in Nat :
        Spares(limit, S) /\ Keeps(limit, S) => Keeps(limit, S \cup {x})
  BY <1>1, OneRowMore DEF QuotaInv
<1>9. \A limit, S : Keeps(limit, S)' = (limit = 0 \/ \A t \in 1..clock : Cardinality(Span(S', t)) <= limit)
  BY <1>2 DEF Keeps, Span
<1>10. ASSUME NEW a \in Senders, NEW kind \in SendKinds
       PROVE  Keeps(AgentLimit, OfAgent(a, kind))'
  <2>1. CASE a = x.who /\ kind = x.kind
    <3>1. OfAgent(a, kind)' = OfAgent(a, kind) \cup {x} /\ OfAgent(a, kind) \in SUBSET rows
      BY <1>1, <2>1 DEF OfAgent
    <3>2. a # Owner
      BY DEF Qt!QuotasAssumption
    <3>3. Spares(AgentLimit, OfAgent(a, kind)) /\ Keeps(AgentLimit, OfAgent(a, kind))
      BY <1>1, <1>2, <2>1, <3>2 DEF QuotaInv, RoomLeft, LeavesAll, Held
    <3> QED
      BY <1>2, <1>8, <3>1, <3>3 DEF Keeps, Span, Qt!QuotasAssumption
  <2>2. CASE ~(a = x.who /\ kind = x.kind)
    <3>1. OfAgent(a, kind)' = OfAgent(a, kind)
      BY <1>1, <2>2 DEF OfAgent
    <3> QED
      BY <1>2, <3>1 DEF QuotaInv, Held, Keeps, Span
  <2> QED
    BY <2>1, <2>2
<1>11. ASSUME NEW kind \in SendKinds
       PROVE  Keeps(OwnerLimit, OfOwner(kind))'
  <2>1. CASE kind = x.kind
    <3>1. OfOwner(kind)' = OfOwner(kind) \cup {x} /\ OfOwner(kind) \in SUBSET rows
      BY <1>1, <2>1 DEF OfOwner
    <3>2. Spares(OwnerLimit, OfOwner(kind)) /\ Keeps(OwnerLimit, OfOwner(kind))
      BY <1>1, <1>2, <2>1 DEF QuotaInv, RoomLeft, LeavesAll, Held
    <3> QED
      BY <1>2, <1>8, <3>1, <3>2 DEF Keeps, Span, Qt!QuotasAssumption
  <2>2. CASE kind # x.kind
    <3>1. OfOwner(kind)' = OfOwner(kind)
      BY <1>1, <2>2 DEF OfOwner
    <3> QED
      BY <1>2, <3>1 DEF QuotaInv, Held, Keeps, Span
  <2> QED
    BY <2>1, <2>2
<1>12. ASSUME NEW a \in Qt!Actors, NEW to \in Recipients
       PROVE  Keeps(PairLimit, OfPair(a, to))'
  <2>1. CASE a = x.who /\ to = x.to
    <3>1. OfPair(a, to)' = OfPair(a, to) \cup {x} /\ OfPair(a, to) \in SUBSET rows
      BY <1>1, <2>1 DEF OfPair
    <3>2. to # Owner
      BY DEF Qt!QuotasAssumption
    <3>3. Spares(PairLimit, OfPair(a, to)) /\ Keeps(PairLimit, OfPair(a, to))
      BY <1>1, <1>2, <1>6, <2>1, <3>2 DEF QuotaInv, RoomLeft, LeavesAll, Held
    <3> QED
      BY <1>2, <1>8, <3>1, <3>3 DEF Keeps, Span, Qt!QuotasAssumption
  <2>2. CASE ~(a = x.who /\ to = x.to)
    <3>1. OfPair(a, to)' = OfPair(a, to)
      BY <1>1, <2>2 DEF OfPair
    <3> QED
      BY <1>2, <3>1 DEF QuotaInv, Held, Keeps, Span
  <2> QED
    BY <2>1, <2>2
<1>13. Held'
  BY <1>10, <1>11, <1>12 DEF Held
<1> QED
  BY <1>3, <1>5, <1>7, <1>13 DEF QuotaInv

(* An earlier clock counts from an earlier time: what is shown is not less.  *)
LEMMA QuotaUsage ==
  ASSUME Qt!QuotasAssumption, QuotaInv,
         Qt!ReadClock \/ \E who \in Qt!Actors, kind \in SendKinds : Qt!ReadRows(who, kind)
  PROVE  QuotaInv'
<1>1. UNCHANGED <<clock, rows, act>>
  BY DEF Qt!ReadClock, Qt!ReadRows
<1>2. ActsOK' /\ RoomLeft'
  BY <1>1, SameRoom DEF QuotaInv, ActsOK, RoomLeft
<1>3. CASE Qt!ReadClock
  <2>1. UsageOK'
    BY <1>1, <1>3 DEF Qt!ReadClock, QuotaInv, UsageOK, RowsOK
  <2> QED
    BY <1>1, <1>2, <2>1, QuotaQuiet
<1>4. ASSUME NEW who \in Qt!Actors, NEW kind \in SendKinds, Qt!ReadRows(who, kind)
      PROVE  UsageOK'
  <2>1. /\ usage # 0 /\ usage' = 0
        /\ understated' = (understated \/ Cardinality(Qt!Counted(who, kind, usage))
                                            < Cardinality(Qt!Counted(who, kind, clock)))
    BY <1>4, QuotaCounts DEF Qt!ReadRows
  <2>2. Qt!Counted(who, kind, clock) \in SUBSET Qt!Counted(who, kind, usage)
    BY DEF Qt!Counted, Qt!Since, QuotaInv, RowsOK, UsageOK, Qt!QuotasAssumption
  <2>3. Qt!Counted(who, kind, usage) \in SUBSET rows
    BY DEF Qt!Counted, Qt!Since
  <2>4. IsFiniteSet(Qt!Counted(who, kind, usage))
    BY <2>3, Fewer DEF QuotaInv, RowsOK
  <2>5. ~(Cardinality(Qt!Counted(who, kind, usage)) < Cardinality(Qt!Counted(who, kind, clock)))
    <3> HIDE DEF usage, clock
    <3> QED
      BY <2>2, <2>4, Fewer
  <2>6. ~understated'
    BY <2>1, <2>5, Zenon DEF QuotaInv, UsageOK
  <2>7. usage' \in 0..clock'
    BY <1>1, <2>1 DEF QuotaInv, RowsOK
  <2> QED
    BY <2>6, <2>7 DEF UsageOK
<1> QED
  BY <1>1, <1>2, <1>3, <1>4, QuotaQuiet

LEMMA QuotaStep == ASSUME Qt!QuotasAssumption, QuotaInv, [Qt!Next]_(Qt!quotaVars) PROVE QuotaInv'
<1>1. CASE Qt!Next
  BY <1>1, QuotaTick, QuotaBegin, QuotaCheck, QuotaCommit, QuotaRollback, QuotaUsage DEF Qt!Next
<1>2. CASE UNCHANGED Qt!quotaVars
  <2>1. UNCHANGED <<clock, rows, act, usage, understated>>
    BY <1>2 DEF Qt!quotaVars
  <2>2. ActsOK' /\ RoomLeft' /\ UsageOK'
    BY <2>1, SameRoom DEF QuotaInv, ActsOK, RoomLeft, UsageOK
  <2> QED
    BY <2>1, <2>2, QuotaQuiet
<1> QED
  BY <1>1, <1>2

LEMMA QuotaInvariant == ASSUME Qt!QuotasAssumption PROVE Qt!Spec => []QuotaInv
<1>1. Qt!Init => QuotaInv
  BY QuotaStarts
<1>2. QuotaInv /\ [Qt!Next]_(Qt!quotaVars) => QuotaInv'
  BY QuotaStep
<1> QED
  BY <1>1, <1>2, PTL DEF Qt!Spec

(* No window of a quota holds more rows than its limit, and no usage is     *)
(* reported too low (limits.ts:149-190).                                   *)
THEOREM WindowCorrect == ASSUME Qt!QuotasAssumption PROVE Qt!Spec => []Qt!WindowHolds
<1>1. QuotaInv => Qt!WindowHolds
  <2> SUFFICES ASSUME QuotaInv PROVE Qt!WindowHolds
    OBVIOUS
  <2>1. \A limit, S : Qt!Within(limit, S) = Keeps(limit, S)
    BY QuotaCounts DEF Qt!Within, Keeps, Span
  <2> QED
    BY <2>1 DEF Qt!WindowHolds, QuotaInv, UsageOK, Held, OfAgent, OfOwner, OfPair
<1> QED
  BY <1>1, QuotaInvariant, PTL

(* Rows, requests and the clock of a usage keep their types, and one request *)
(* at a time is between its count and its commit.                          *)
THEOREM QuotaTypeCorrect == ASSUME Qt!QuotasAssumption PROVE Qt!Spec => []Qt!TypeOK
<1>1. QuotaInv => Qt!TypeOK
  <2> SUFFICES ASSUME QuotaInv PROVE Qt!TypeOK
    OBVIOUS
  <2> DEFINE C == {r \in Requests : act[r].phase = "checked"}
  <2>1. Cardinality(C) <= 1
    <3>1. CASE C = {}
      BY <3>1, FS_EmptySet
    <3>2. CASE C # {}
      <4>1. PICK r \in C : C = {r}
        BY <3>2 DEF QuotaInv, ActsOK
      <4>2. Cardinality({r}) = 1
        BY FS_Singleton
      <4> QED
        BY <4>1, <4>2
    <3> QED
      BY <3>1, <3>2
  <2> QED
    BY <2>1, QuotaCounts DEF Qt!TypeOK, QuotaInv, RowsOK, UsageOK
<1> QED
  BY <1>1, QuotaInvariant, PTL

(****************************************************************************)
(* Retention: what several servers' passes leave                              *)
(****************************************************************************)
sessions == s2
used == s3
quota == s4
lock == s5
pass == s6
heard == s7
counted == s8
USE DEF sessions, used, quota, lock, pass, heard, counted

Session == [beat : Nat, expires : Nat, ended : Nat]
RetainedOK ==
  /\ clock \in Nat \ {0} /\ used \subseteq SessionIds
  /\ IsFiniteSet(Rt!Rows) /\ Rt!Rows \subseteq used /\ sessions \in [Rt!Rows -> Session]
  /\ heard \in 0..clock /\ quota \subseteq 1..clock /\ counted \subseteq 1..clock
  /\ \A s \in Rt!Rows : sessions[s].beat \in 1..heard /\ sessions[s].ended <= clock
OnePass ==
  /\ pass \in [Servers -> {"idle", "sessions", "quota", "done"}]
  /\ \A v \in Servers : pass[v] # "idle" <=> lock = v
RetentionInv == RetainedOK /\ OnePass /\ Rt!LastSeenStays

LEMMA RetentionStarts == Rt!RetentionAssumption /\ Rt!Init => RetentionInv
<1> SUFFICES ASSUME Rt!RetentionAssumption, Rt!Init PROVE RetentionInv
  OBVIOUS
<1>1. IsFiniteSet({})
  BY FS_EmptySet
<1>2. RetainedOK
  BY <1>1 DEF Rt!Init, RetainedOK, Rt!Rows
<1>3. OnePass
  BY DEF Rt!Init, OnePass, Rt!RetentionAssumption
<1>4. Rt!LastSeenStays
  BY DEF Rt!Init, Rt!LastSeenStays
<1> QED
  BY <1>2, <1>3, <1>4 DEF RetentionInv

(* A session that is heard of is the one heard of last.                    *)
LEMMA Beats ==
  ASSUME Rt!RetentionAssumption, RetentionInv, NEW s \in SessionIds,
         (s \notin used /\ Rt!SessionBegin(s)) \/ (s \in Rt!Rows /\ Rt!Heartbeat(s))
  PROVE  RetentionInv'
<1>1. /\ used' = used \cup {s} /\ heard' = clock /\ UNCHANGED <<clock, quota, lock, pass, counted>>
  BY DEF Rt!SessionBegin, Rt!Heartbeat, Rt!Beat
<1>2. /\ DOMAIN sessions' = Rt!Rows \cup {s}
      /\ sessions'[s] \in Session /\ sessions'[s].beat = clock /\ sessions'[s].ended <= clock
      /\ sessions' \in [Rt!Rows \cup {s} -> Session]
      /\ \A x \in Rt!Rows \ {s} : /\ sessions'[x].beat = sessions[x].beat
                                  /\ sessions'[x].ended <= clock
  <2>1. CASE s \notin used /\ Rt!SessionBegin(s)
    <3> DEFINE row == [beat |-> clock, expires |-> clock + Lifetime, ended |-> 0]
               ended(x) == [sessions[x] EXCEPT !.ended = clock]
    <3>1. sessions' = [x \in Rt!Rows \cup {s} |->
             IF x = s THEN row ELSE IF x \in Rt!Excess THEN ended(x) ELSE sessions[x]]
      BY <2>1 DEF Rt!SessionBegin
    <3>2. row \in Session /\ row.beat = clock /\ row.ended = 0
      BY DEF RetentionInv, RetainedOK, Session, Rt!RetentionAssumption
    <3>3. \A x \in Rt!Rows : ended(x) \in Session /\ ended(x).beat = sessions[x].beat /\ ended(x).ended = clock
      BY DEF RetentionInv, RetainedOK, Session
    <3> HIDE DEF row, ended
    <3> QED
      BY <3>1, <3>2, <3>3 DEF RetentionInv, RetainedOK
  <2>2. CASE s \in Rt!Rows /\ Rt!Heartbeat(s)
    <3> DEFINE row == [sessions[s] EXCEPT !.beat = clock]
    <3>1. sessions' = [sessions EXCEPT ![s] = row]
      BY <2>2 DEF Rt!Heartbeat
    <3>2. row \in Session /\ row.beat = clock /\ row.ended = sessions[s].ended
      BY <2>2 DEF RetentionInv, RetainedOK, Session
    <3> HIDE DEF row
    <3> QED
      BY <2>2, <3>1, <3>2 DEF RetentionInv, RetainedOK
  <2> QED
    BY <2>1, <2>2
<1>3. Rt!Rows' = Rt!Rows \cup {s}
  BY <1>2 DEF Rt!Rows
<1>4. RetainedOK'
  <2>1. IsFiniteSet(Rt!Rows')
    BY <1>3, OneMore DEF RetentionInv, RetainedOK
  <2>2. \A x \in Rt!Rows' : sessions'[x].beat \in 1..clock /\ sessions'[x].ended <= clock
    BY <1>2, <1>3 DEF RetentionInv, RetainedOK
  <2> QED
    BY <1>1, <1>2, <1>3, <2>1, <2>2 DEF RetentionInv, RetainedOK
<1>5. OnePass'
  BY <1>1 DEF RetentionInv, OnePass
<1>6. Rt!LastSeenStays'
  BY <1>1, <1>2, <1>3 DEF RetentionInv, Rt!LastSeenStays
<1> QED
  BY <1>4, <1>5, <1>6 DEF RetentionInv

(* The latest of the rows with the last heartbeat is never stale.          *)
LEMMA LatestStays ==
  ASSUME Rt!RetentionAssumption, RetentionInv, heard # 0
  PROVE  \E s \in Rt!Rows : sessions[s].beat = heard /\ s \notin Rt!Stale
<1> DEFINE last == {s \in Rt!Rows : sessions[s].beat = heard}
<1>1. last # {} /\ last \in SUBSET Int /\ IsFiniteSet(last)
  BY Fewer DEF RetentionInv, RetainedOK, Rt!LastSeenStays, Rt!RetentionAssumption
<1>2. PICK m \in last : \A x \in last : x <= m
  <2> HIDE DEF last
  <2> QED
    BY <1>1, Greatest
<1>3. ~Rt!Superseded(m)
  <2> SUFFICES ASSUME NEW x \in Rt!Rows \ {m},
                      sessions[x].beat > sessions[m].beat
                        \/ (sessions[x].beat = sessions[m].beat /\ x > m)
               PROVE  FALSE
    BY DEF Rt!Superseded
  <2>1. sessions[x].beat \in Nat /\ sessions[x].beat <= heard /\ heard \in Nat /\ sessions[m].beat = heard
    BY DEF RetentionInv, RetainedOK
  <2>2. x \in last /\ x > m
    BY <2>1
  <2> QED
    BY <1>1, <1>2, <2>2
<1> QED
  BY <1>3 DEF Rt!Stale

LEMMA Prunes ==
  ASSUME Rt!RetentionAssumption, RetentionInv, NEW v \in Servers, Rt!PruneSessions(v)
  PROVE  RetentionInv'
<1>1. PICK b \in SUBSET Rt!Stale : /\ sessions' = [s \in Rt!Rows \ b |-> sessions[s]]
                                   /\ pass[v] = "sessions"
                                   /\ pass' = [pass EXCEPT ![v] = "quota"] \/ pass' = pass
  BY DEF Rt!PruneSessions, Rt!Batches, Rt!After, RetentionInv, OnePass
<1>2. UNCHANGED <<clock, used, quota, lock, heard, counted>>
  BY DEF Rt!PruneSessions
<1>3. Rt!Rows' = Rt!Rows \ b /\ \A s \in Rt!Rows' : sessions'[s] = sessions[s]
  BY <1>1 DEF Rt!Rows
<1>4. RetainedOK'
  <2>1. IsFiniteSet(Rt!Rows') /\ Rt!Rows' \subseteq used
    BY <1>3, Fewer DEF RetentionInv, RetainedOK
  <2>2. sessions' \in [Rt!Rows' -> Session]
    BY <1>1, <1>3 DEF RetentionInv, RetainedOK
  <2> QED
    BY <1>2, <1>3, <2>1, <2>2 DEF RetentionInv, RetainedOK
<1>5. OnePass'
  BY <1>1, <1>2 DEF RetentionInv, OnePass
<1>6. Rt!LastSeenStays'
  <2>1. heard # 0 => \E s \in Rt!Rows' : sessions'[s].beat = heard
    BY <1>1, <1>3, LatestStays
  <2> QED
    BY <1>2, <2>1 DEF RetentionInv, Rt!LastSeenStays
<1> QED
  BY <1>4, <1>5, <1>6 DEF RetentionInv

(* The other steps leave the sessions, or end one.                         *)
LEMMA Retains ==
  ASSUME Rt!RetentionAssumption, RetentionInv,
         \/ Rt!Tick \/ Rt!SubscriptionChange \/ UNCHANGED Rt!retentionVars
         \/ \E s \in Rt!Rows : Rt!SessionEnd(s)
         \/ \E v \in Servers : Rt!Begin(v) \/ Rt!PruneQuota(v) \/ Rt!Finish(v)
  PROVE  RetentionInv'
<1>1. /\ used' = used /\ heard' = heard /\ clock' \in {clock, clock + 1}
      /\ Rt!Rows' = Rt!Rows /\ sessions' \in [Rt!Rows -> Session]
      /\ \A s \in Rt!Rows : sessions'[s].beat = sessions[s].beat /\ sessions'[s].ended <= clock
  <2>1. CASE \E s \in Rt!Rows : Rt!SessionEnd(s)
    <3>1. PICK s \in Rt!Rows : Rt!SessionEnd(s)
      BY <2>1
    <3> DEFINE row == [sessions[s] EXCEPT !.ended = clock]
    <3>2. row \in Session /\ row.beat = sessions[s].beat /\ row.ended = clock
      BY DEF RetentionInv, RetainedOK, Session
    <3>3. sessions' = [sessions EXCEPT ![s] = row] /\ UNCHANGED <<clock, used, heard>>
      BY <3>1 DEF Rt!SessionEnd
    <3> HIDE DEF row
    <3> QED
      BY <3>2, <3>3 DEF RetentionInv, RetainedOK, Rt!Rows
  <2>2. CASE ~\E s \in Rt!Rows : Rt!SessionEnd(s)
    BY <2>2 DEF Rt!Tick, Rt!SubscriptionChange, Rt!retentionVars, Rt!Begin, Rt!PruneQuota, Rt!Finish,
         RetentionInv, RetainedOK, Rt!Rows
  <2> QED
    BY <2>1, <2>2
<1>2. /\ quota' \subseteq 1..clock' /\ counted' \subseteq 1..clock'
      /\ \A t \in counted' \ quota' : t < clock' - SweepWindow
  <2>1. CASE \E v \in Servers : Rt!PruneQuota(v)
    <3>1. UNCHANGED <<clock, counted>> /\ \E b \in SUBSET Rt!Uncounted : quota' = quota \ b
      BY <2>1 DEF Rt!PruneQuota, Rt!Batches
    <3> QED
      BY <3>1 DEF Rt!Uncounted, RetentionInv, RetainedOK, Rt!LastSeenStays
  <2>2. CASE Rt!SubscriptionChange
    BY <2>2 DEF Rt!SubscriptionChange, RetentionInv, RetainedOK, Rt!LastSeenStays
  <2>3. CASE clock' \in {clock, clock + 1} /\ UNCHANGED <<quota, counted>>
    <3>1. clock \in Nat /\ SweepWindow \in Nat /\ quota \subseteq 1..clock /\ counted \subseteq 1..clock
      BY DEF RetentionInv, RetainedOK, Rt!RetentionAssumption
    <3>2. \A t \in counted \ quota : t \in Int /\ t < clock - SweepWindow
      BY <3>1 DEF RetentionInv, Rt!LastSeenStays
    <3>3. \A t \in counted \ quota : t < clock' - SweepWindow
      <4> TAKE t \in counted \ quota
      <4>1. clock \in Int /\ clock' \in Int /\ clock <= clock' /\ SweepWindow \in Int
        BY <2>3, <3>1
      <4>2. t \in Int /\ t < clock - SweepWindow
        BY <3>2
      <4>3. \A c, d, w, i \in Int : c <= d /\ i < c - w => i < d - w
        OBVIOUS
      <4> QED
        BY <4>1, <4>2, <4>3
    <3>4. quota' \subseteq 1..clock' /\ counted' \subseteq 1..clock'
      BY <2>3, <3>1
    <3> QED
      BY <2>3, <3>3, <3>4
  <2> QED
    BY <1>1, <2>1, <2>2, <2>3 DEF Rt!Tick, Rt!retentionVars, Rt!Begin, Rt!Finish, Rt!SessionEnd
<1>3. OnePass'
  <2>1. ASSUME NEW v \in Servers, Rt!Begin(v)
        PROVE  OnePass'
    BY <2>1 DEF Rt!Begin, RetentionInv, OnePass, Rt!RetentionAssumption
  <2>2. ASSUME NEW v \in Servers, Rt!PruneQuota(v)
        PROVE  OnePass'
    BY <2>2 DEF Rt!PruneQuota, Rt!After, RetentionInv, OnePass
  <2>3. ASSUME NEW v \in Servers, Rt!Finish(v)
        PROVE  OnePass'
    BY <2>3 DEF Rt!Finish, RetentionInv, OnePass, Rt!RetentionAssumption
  <2>4. CASE UNCHANGED <<lock, pass>>
    BY <2>4 DEF RetentionInv, OnePass
  <2> QED
    BY <2>1, <2>2, <2>3, <2>4 DEF Rt!Tick, Rt!SubscriptionChange, Rt!retentionVars, Rt!SessionEnd
<1>4. RetainedOK'
  <2>1. clock' \in Nat \ {0} /\ clock <= clock' /\ heard' \in 0..clock'
    BY <1>1 DEF RetentionInv, RetainedOK
  <2>2. \A s \in Rt!Rows' : sessions'[s].beat \in 1..heard' /\ sessions'[s].ended <= clock'
    <3> SUFFICES ASSUME NEW s \in Rt!Rows
                 PROVE  sessions'[s].beat \in 1..heard' /\ sessions'[s].ended <= clock'
      BY <1>1
    <3>1. sessions'[s] \in Session /\ sessions'[s].ended \in Nat
      BY <1>1 DEF Session
    <3> QED
      BY <1>1, <2>1, <3>1 DEF RetentionInv, RetainedOK
  <2> QED
    BY <1>1, <1>2, <2>1, <2>2 DEF RetentionInv, RetainedOK
<1>5. Rt!LastSeenStays'
  <2>1. heard' # 0 => \E s \in Rt!Rows' : sessions'[s].beat = heard'
    BY <1>1 DEF RetentionInv, Rt!LastSeenStays
  <2> QED
    BY <1>2, <2>1 DEF Rt!LastSeenStays
<1> QED
  BY <1>3, <1>4, <1>5 DEF RetentionInv

LEMMA RetentionInvariant == ASSUME Rt!RetentionAssumption PROVE Rt!Spec => []RetentionInv
<1>1. Rt!Init => RetentionInv
  BY RetentionStarts
<1>2. RetentionInv /\ [Rt!Next]_(Rt!retentionVars) => RetentionInv'
  <2> SUFFICES ASSUME RetentionInv, [Rt!Next]_(Rt!retentionVars) PROVE RetentionInv'
    OBVIOUS
  <2>1. ASSUME NEW s \in SessionIds, Rt!SessionBegin(s)
        PROVE  RetentionInv'
    BY <2>1, Beats DEF Rt!SessionBegin
  <2>2. ASSUME NEW s \in Rt!Rows, Rt!Heartbeat(s)
        PROVE  RetentionInv'
    BY <2>2, Beats DEF RetentionInv, RetainedOK
  <2> QED
    BY <2>1, <2>2, Prunes, Retains DEF Rt!Next
<1> QED
  BY <1>1, <1>2, PTL DEF Rt!Spec

(* Whatever passes of several servers delete, an agent's last heartbeat and  *)
(* what a quota counts stay (retention.ts).                                *)
THEOREM LastSeenCorrect == ASSUME Rt!RetentionAssumption PROVE Rt!Spec => []Rt!LastSeenStays
<1>1. RetentionInv => Rt!LastSeenStays
  BY DEF RetentionInv
<1> QED
  BY <1>1, RetentionInvariant, PTL

(* Sessions and the rows of quotas keep their types, and one server at most *)
(* prunes.                                                                 *)
THEOREM RetentionTypeCorrect == ASSUME Rt!RetentionAssumption PROVE Rt!Spec => []Rt!TypeOK
<1>1. RetentionInv => Rt!TypeOK
  BY DEF RetentionInv, RetainedOK, OnePass, Rt!TypeOK, Session
<1> QED
  BY <1>1, RetentionInvariant, PTL

(****************************************************************************)
(* Private memory: summaries, and rollbacks of a persona on two machines      *)
(****************************************************************************)
mem == s1
covered == s2
time == s3
persona == s4
file == s5
revived == s6
USE DEF mem, covered, time, persona, file, revived

(* Counted means the same there as here.                                   *)
LEMMA MemoryCounts == \A S : Mm!Cardinality(S) = Cardinality(S) /\ Mm!IsFiniteSet(S) = IsFiniteSet(S)
BY DEF Mm!Cardinality, Mm!IsFiniteSet, Cardinality, IsFiniteSet

Memory == [state : Mm!States \cup {"none"}, kind : Mm!Kinds, text : Texts \cup {""}, rev : Nat, born : Nat]
Revision == [born : Nat, reverted : SUBSET Nat, since : Nat,
             sync : {"none", "local", "pending", "lost", "done"}, applied : Nat,
             spared : SUBSET Memories]
MemTyped ==
  /\ time \in Nat \ {0} /\ covered \in 0..time /\ mem \in [Memories -> Memory]
  /\ \A m \in Memories : IF mem[m].state = "none" THEN mem[m] = Mm!None ELSE mem[m].born \in 1..time
FileTyped ==
  /\ file \in [Mm!Revisions -> Revision]
  /\ \A r \in Mm!Revisions :
       /\ file[r].applied <= time
       /\ file[r].sync = "none" => file[r].reverted = {}
       /\ file[r].sync = "done" => file[r].applied # 0
(* Revisions are saved one after the other.                                *)
Saved(n) == n \in Mm!Revisions /\ \A q \in Mm!Revisions : file[q].born > 0 <=> q <= n
InOrder == \E n \in Mm!Revisions : Saved(n) /\ persona \in 1..n
(* What a rollback that was applied took back stays so until the owner        *)
(* reactivates it.                                                         *)
Owes(r, m) ==
  file[r].applied # 0 /\ mem[m].state # "none" /\ mem[m].kind = "influence"
    /\ mem[m].rev \in file[r].reverted
Paid(r, m) ==
  \/ mem[m].born > file[r].applied \/ m \in file[r].spared
  \/ mem[m].state = "rollback" \/ <<m, "owner">> \in revived
Repaid == \A r \in Mm!Revisions, m \in Memories : Owes(r, m) => Paid(r, m)
WithinLimits == /\ Cardinality(Mm!ActiveOf("knowledge")) <= KnowledgeLimit
                /\ Cardinality(Mm!ActiveOf("influence")) <= InfluenceLimit
MemInv == MemTyped /\ FileTyped /\ InOrder /\ Mm!NoneForgotten /\ Repaid /\ WithinLimits

LEMMA LimitsAre ==
  ASSUME Mm!MemoryAssumption, NEW kind \in Mm!Kinds
  PROVE  Mm!LimitOf(kind) \in Nat /\ IsFiniteSet(Mm!ActiveOf(kind)) /\ Cardinality(Mm!ActiveOf(kind)) \in Nat
<1>1. Mm!ActiveOf(kind) \in SUBSET Memories /\ IsFiniteSet(Memories)
  BY MemoryCounts DEF Mm!ActiveOf, Mm!MemoryAssumption
<1> QED
  BY <1>1, Fewer DEF Mm!LimitOf, Mm!MemoryAssumption

LEMMA LimitsBoth == WithinLimits <=> \A kind \in Mm!Kinds : Cardinality(Mm!ActiveOf(kind)) <= Mm!LimitOf(kind)
BY DEF WithinLimits, Mm!Kinds, Mm!LimitOf

(* A row read, a row made, and a row whose state changes.                  *)
LEMMA RowsHold ==
  ASSUME MemInv, NEW m \in Memories
  PROVE  /\ mem[m] \in Memory /\ mem[m].state \in Mm!States \cup {"none"} /\ mem[m].kind \in Mm!Kinds
         /\ mem[m].rev \in Nat /\ mem[m].born \in Nat
<1>1. mem[m] \in Memory
  BY DEF MemInv, MemTyped
<1> QED
  BY <1>1 DEF Memory

LEMMA RowMade ==
  ASSUME NEW state \in Mm!States \cup {"none"}, NEW kind \in Mm!Kinds, NEW text \in Texts,
         NEW rev \in Nat, NEW born \in Nat
  PROVE  [state |-> state, kind |-> kind, text |-> text, rev |-> rev, born |-> born] \in Memory
BY DEF Memory

LEMMA WithState ==
  ASSUME NEW row \in Memory, NEW state \in Mm!States \cup {"none"}, NEW new,
         new = [row EXCEPT !.state = state]
  PROVE  /\ new \in Memory /\ new.state = state /\ new.kind = row.kind /\ new.rev = row.rev
         /\ new.born = row.born /\ new.text = row.text /\ (state = row.state => new = row)
BY DEF Memory

LEMMA MemoryStarts == Mm!MemoryAssumption /\ Mm!Init => MemInv
<1> SUFFICES ASSUME Mm!MemoryAssumption, Mm!Init PROVE MemInv
  OBVIOUS
<1>1. /\ mem = [m \in Memories |-> Mm!None] /\ revived = {} /\ covered = 0 /\ time = 1 /\ persona = 1
      /\ file = [r \in Mm!Revisions |-> IF r = 1 THEN [Mm!NoFile EXCEPT !.born = 1] ELSE Mm!NoFile]
  BY DEF Mm!Init
<1>2. Mm!None \in Memory /\ Mm!None.state = "none"
  BY DEF Mm!None, Memory, Mm!Kinds
<1>3. MemTyped
  BY <1>1, <1>2 DEF MemTyped
<1>4. /\ Mm!NoFile \in Revision /\ [Mm!NoFile EXCEPT !.born = 1] \in Revision
      /\ Mm!NoFile.applied = 0 /\ Mm!NoFile.reverted = {} /\ Mm!NoFile.sync = "none" /\ Mm!NoFile.born = 0
      /\ [Mm!NoFile EXCEPT !.born = 1].applied = 0 /\ [Mm!NoFile EXCEPT !.born = 1].reverted = {}
      /\ [Mm!NoFile EXCEPT !.born = 1].sync = "none" /\ [Mm!NoFile EXCEPT !.born = 1].born = 1
  BY DEF Mm!NoFile, Revision
<1>5. FileTyped
  BY <1>1, <1>4 DEF FileTyped
<1>6. InOrder
  <2>1. 1 \in Mm!Revisions /\ \A q \in Mm!Revisions : q <= 1 <=> q = 1
    BY DEF Mm!Revisions, Mm!MemoryAssumption
  <2>2. Saved(1)
    BY <1>1, <1>4, <2>1 DEF Saved
  <2> QED
    BY <1>1, <2>1, <2>2 DEF InOrder
<1>7. \A kind : Mm!ActiveOf(kind) = {}
  BY <1>1, <1>2 DEF Mm!ActiveOf, Mm!Active
<1>8. Mm!NoneForgotten /\ Repaid
  BY <1>1, <1>2, <1>7 DEF Mm!NoneForgotten, Repaid, Owes
<1>9. WithinLimits
  BY <1>7, FS_EmptySet DEF WithinLimits, Mm!MemoryAssumption
<1> QED
  BY <1>3, <1>5, <1>6, <1>8, <1>9 DEF MemInv

(* Rows are written by most steps, and files by the others.                *)
LEMMA FilesStay ==
  ASSUME FileTyped, InOrder, UNCHANGED <<file, persona>>, time' \in Nat, time \in Nat, time <= time'
  PROVE  FileTyped' /\ InOrder'
<1>1. FileTyped'
  <2>1. \A r \in Mm!Revisions : file[r].applied \in Nat
    BY DEF FileTyped, Revision
  <2> QED
    BY <2>1 DEF FileTyped
<1>2. InOrder'
  BY DEF InOrder, Saved
<1> QED
  BY <1>1, <1>2

(* A row that is written now.                                              *)
LEMMA Writes ==
  ASSUME Mm!MemoryAssumption, MemInv, NEW m \in Memories, NEW row \in Memory, mem[m].state = "none",
         row.state \in {"active", "manual"}, row.born = time + 1, time' = time + 1,
         NEW old, old = m \/ (old \in Memories /\ Mm!Active(old) /\ mem[old].kind = row.kind),
         \A x \in Memories : mem'[x] = IF x = m THEN row
                                       ELSE IF x = old THEN [mem[old] EXCEPT !.state = "superseded"] ELSE mem[x],
         mem' \in [Memories -> Memory],
         old = m /\ row.state = "active" => Mm!HasRoom(row.kind),
         UNCHANGED <<covered, persona, file, revived>>
  PROVE  MemInv'
<1>1. /\ time \in Nat \ {0} /\ time' \in Nat \ {0} /\ covered \in 0..time /\ mem \in [Memories -> Memory]
      /\ \A x \in Memories : mem[x] \in Memory /\ mem[x].born \in Nat
  BY RowsHold DEF MemInv, MemTyped
<1>2. \A x \in Memories \ {m} : /\ mem'[x].kind = mem[x].kind /\ mem'[x].rev = mem[x].rev /\ mem'[x].born = mem[x].born
                                /\ mem'[x].text = mem[x].text
                                /\ IF x = old THEN mem'[x].state = "superseded" /\ mem[x].state = "active"
                                   ELSE mem'[x] = mem[x]
  <2> SUFFICES ASSUME NEW x \in Memories \ {m}
               PROVE  /\ mem'[x].kind = mem[x].kind /\ mem'[x].rev = mem[x].rev /\ mem'[x].born = mem[x].born
                      /\ mem'[x].text = mem[x].text
                      /\ IF x = old THEN mem'[x].state = "superseded" /\ mem[x].state = "active"
                         ELSE mem'[x] = mem[x]
    OBVIOUS
  <2>1. CASE x # old
    BY <2>1
  <2>2. CASE x = old
    <3>1. mem'[x] = [mem[x] EXCEPT !.state = "superseded"] /\ mem[x].state = "active"
      BY <2>2 DEF Mm!Active
    <3> QED
      BY <1>1, <2>2, <3>1 DEF Memory
  <2> QED
    BY <2>1, <2>2
<1>3. mem'[m] = row
  OBVIOUS
<1>4. MemTyped'
  <2>1. \A x \in Memories : IF mem'[x].state = "none" THEN mem'[x] = Mm!None ELSE mem'[x].born \in 1..time'
    <3> SUFFICES ASSUME NEW x \in Memories
                 PROVE  IF mem'[x].state = "none" THEN mem'[x] = Mm!None ELSE mem'[x].born \in 1..time'
      OBVIOUS
    <3>1. CASE x = m
      BY <1>1, <1>3, <3>1
    <3>2. CASE x # m
      <4>1. IF mem[x].state = "none" THEN mem[x] = Mm!None ELSE mem[x].born \in 1..time
        BY DEF MemInv, MemTyped
      <4> QED
        BY <1>1, <1>2, <3>2, <4>1
    <3> QED
      BY <3>1, <3>2
  <2> QED
    BY <1>1, <2>1 DEF MemTyped
<1>5. FileTyped' /\ InOrder'
  BY <1>1, FilesStay DEF MemInv
<1>6. \A kind : Mm!ActiveOf(kind)' =
        IF row.kind = kind /\ row.state = "active" THEN (Mm!ActiveOf(kind) \ {old}) \cup {m}
        ELSE Mm!ActiveOf(kind) \ {old}
  BY <1>2, <1>3 DEF Mm!ActiveOf, Mm!Active
<1>7. Mm!NoneForgotten'
  <2> SUFFICES ASSUME NEW x \in Mm!ActiveOf("knowledge")'
               PROVE  mem'[x].born > covered \/ \E pair \in revived : pair[1] = x
    BY DEF Mm!NoneForgotten
  <2>1. CASE x = m
    BY <1>1, <1>3, <2>1
  <2>2. CASE x # m
    <3>1. x \in Mm!ActiveOf("knowledge") /\ x \in Memories \ {m}
      BY <1>6, <2>2 DEF Mm!ActiveOf
    <3> QED
      BY <1>2, <3>1 DEF MemInv, Mm!NoneForgotten
  <2> QED
    BY <2>1, <2>2
<1>8. Repaid'
  <2> SUFFICES ASSUME NEW r \in Mm!Revisions, NEW x \in Memories, Owes(r, x)'
               PROVE  Paid(r, x)'
    BY DEF Repaid
  <2>1. CASE x = m
    <3>1. file[r].applied \in Nat /\ file[r].applied <= time
      BY DEF MemInv, FileTyped, Revision
    <3> QED
      BY <1>1, <1>3, <2>1, <3>1 DEF Paid
  <2>2. CASE x # m
    <3>1. Owes(r, x)
      BY <1>2, <2>2 DEF Owes
    <3>2. Paid(r, x)
      BY <3>1 DEF MemInv, Repaid
    <3> QED
      BY <1>2, <2>2, <3>2 DEF Paid
  <2> QED
    BY <2>1, <2>2
<1>9. WithinLimits'
  <2> SUFFICES ASSUME NEW kind \in Mm!Kinds
               PROVE  Cardinality(Mm!ActiveOf(kind)') <= Mm!LimitOf(kind)
    BY LimitsBoth DEF WithinLimits, Mm!Kinds, Mm!LimitOf
  <2> DEFINE A == Mm!ActiveOf(kind)
  <2>1. IsFiniteSet(A) /\ Cardinality(A) \in Nat /\ Mm!LimitOf(kind) \in Nat /\ Cardinality(A) <= Mm!LimitOf(kind)
    BY LimitsAre, LimitsBoth DEF MemInv
  <2>2. CASE ~(row.kind = kind /\ row.state = "active")
    <3>1. A' = A \ {old} /\ A \ {old} \in SUBSET A
      BY <1>6, <2>2
    <3>2. Cardinality(A \ {old}) <= Cardinality(A) /\ Cardinality(A \ {old}) \in Nat
      BY <2>1, <3>1, Fewer
    <3> QED
      BY <2>1, <3>1, <3>2
  <2>3. CASE row.kind = kind /\ row.state = "active" /\ old = m
    <3>1. A' = A \cup {m}
      BY <1>6, <2>3
    <3>2. Cardinality(A) < Mm!LimitOf(kind)
      BY <2>3, MemoryCounts DEF Mm!HasRoom
    <3>3. Cardinality(A \cup {m}) <= Cardinality(A) + 1 /\ Cardinality(A \cup {m}) \in Nat
      BY <2>1, OneMore, FS_CardinalityType
    <3> QED
      BY <2>1, <3>1, <3>2, <3>3
  <2>4. CASE row.kind = kind /\ row.state = "active" /\ old # m
    <3>1. A' = (A \ {old}) \cup {m} /\ old \in A
      BY <1>6, <2>4 DEF Mm!ActiveOf
    <3>2. IsFiniteSet(A \ {old}) /\ Cardinality(A \ {old}) = Cardinality(A) - 1
      BY <2>1, <3>1, FS_RemoveElement
    <3>3. /\ Cardinality((A \ {old}) \cup {m}) <= Cardinality(A \ {old}) + 1
          /\ Cardinality((A \ {old}) \cup {m}) \in Nat
      BY <3>2, OneMore, FS_CardinalityType
    <3> QED
      BY <2>1, <3>1, <3>2, <3>3
  <2> QED
    BY <2>2, <2>3, <2>4
<1> QED
  BY <1>4, <1>5, <1>7, <1>8, <1>9 DEF MemInv

LEMMA WriteStep ==
  ASSUME Mm!MemoryAssumption, MemInv, NEW m \in Memories, NEW kind \in Mm!Kinds, NEW text \in Texts,
         NEW rev \in Nat, NEW state \in {"active", "manual"},
         Mm!Write(m, kind, text, rev, state)
  PROVE  MemInv'
<1> DEFINE row == [state |-> state, kind |-> kind, text |-> text, rev |-> rev, born |-> time + 1]
<1>1. /\ mem[m].state = "none" /\ time' = time + 1 /\ mem' = [mem EXCEPT ![m] = row]
      /\ UNCHANGED <<covered, persona, file, revived>> /\ (state = "active" => Mm!HasRoom(kind))
  BY DEF Mm!Write, Mm!Stamp
<1>2. row \in Memory /\ row.state = state /\ row.kind = kind /\ row.born = time + 1
  <2>1. time + 1 \in Nat /\ state \in Mm!States \cup {"none"}
    BY DEF MemInv, MemTyped, Mm!States
  <2> QED
    BY <2>1, RowMade
<1>3. mem \in [Memories -> Memory]
  BY DEF MemInv, MemTyped
<1> HIDE DEF row
<1>4. mem' \in [Memories -> Memory] /\ \A x \in Memories : mem'[x] = IF x = m THEN row ELSE mem[x]
  BY <1>1, <1>2, <1>3
<1> QED
  BY <1>1, <1>2, <1>4, Writes

LEMMA SupersedeStep ==
  ASSUME Mm!MemoryAssumption, MemInv, NEW m \in Memories, NEW old \in Memories, NEW text \in Texts,
         NEW rev \in Nat, Mm!Supersede(m, old, text, rev)
  PROVE  MemInv'
<1> DEFINE row == [state |-> "active", kind |-> mem[old].kind, text |-> text, rev |-> rev, born |-> time + 1]
           superseded == [mem[old] EXCEPT !.state = "superseded"]
<1>1. /\ mem[m].state = "none" /\ time' = time + 1 /\ Mm!Active(old)
      /\ mem' = [mem EXCEPT ![old].state = "superseded", ![m] = row]
      /\ UNCHANGED <<covered, persona, file, revived>>
  BY DEF Mm!Supersede, Mm!Stamp
<1>2. m # old
  BY <1>1 DEF Mm!Active
<1>3. mem \in [Memories -> Memory] /\ mem[old] \in Memory
  BY DEF MemInv, MemTyped
<1>4. row \in Memory /\ row.state = "active" /\ row.kind = mem[old].kind /\ row.born = time + 1
  <2>1. time + 1 \in Nat /\ mem[old].kind \in Mm!Kinds /\ "active" \in Mm!States \cup {"none"}
    BY RowsHold DEF MemInv, MemTyped, Mm!States
  <2> QED
    BY <2>1, RowMade
<1>5. superseded \in Memory
  <2>1. "superseded" \in Mm!States \cup {"none"}
    BY DEF Mm!States
  <2> QED
    BY <1>3, <2>1, WithState
<1>6. \A x \in Memories : mem'[x] = IF x = m THEN row ELSE IF x = old THEN superseded ELSE mem[x]
  BY <1>1, <1>2, <1>3
<1>7. mem' \in [Memories -> Memory]
  <2> HIDE DEF row, superseded
  <2>1. mem' = [x \in Memories |-> IF x = m THEN row ELSE IF x = old THEN superseded ELSE mem[x]]
    <3>1. DOMAIN mem' = Memories /\ mem' = [x \in DOMAIN mem' |-> mem'[x]]
      BY <1>1, <1>3
    <3> QED
      BY <1>6, <3>1
  <2> QED
    BY <1>3, <1>4, <1>5, <2>1
<1> HIDE DEF row
<1> QED
  BY <1>1, <1>2, <1>4, <1>6, <1>7, Writes

(* Steps that change states of rows: none becomes active but one that there   *)
(* is room for and that may be reactivated.                                *)
LEMMA States ==
  ASSUME Mm!MemoryAssumption, MemInv, UNCHANGED <<persona, file>>, time' \in {time, time + 1},
         NEW to, mem' = [m \in Memories |-> [mem[m] EXCEPT !.state = to[m]]],
         \A m \in Memories : to[m] \in Mm!States \cup {"none"} /\ (to[m] = "none" <=> mem[m].state = "none"),
         revived \subseteq revived', covered' \in covered..time',
         \A m \in Memories :
           /\ to[m] = "active" /\ mem[m].kind = "knowledge" =>
                mem[m].born > covered' \/ \E pair \in revived' : pair[1] = m
           /\ mem[m].state = "rollback" => to[m] = "rollback" \/ <<m, "owner">> \in revived',
         \/ \A m \in Memories : to[m] = "active" => Mm!Active(m)
         \/ \E k \in Memories : /\ Mm!HasRoom(mem[k].kind)
                                /\ \A m \in Memories \ {k} : to[m] = "active" => Mm!Active(m)
  PROVE  MemInv'
<1>1. /\ time \in Nat \ {0} /\ time' \in Nat \ {0} /\ time <= time' /\ covered \in 0..time
      /\ mem \in [Memories -> Memory] /\ \A x \in Memories : mem[x] \in Memory
  BY DEF MemInv, MemTyped
<1>2. \A x \in Memories : /\ mem'[x].kind = mem[x].kind /\ mem'[x].rev = mem[x].rev /\ mem'[x].born = mem[x].born
                          /\ mem'[x].state = to[x] /\ mem'[x] \in Memory
                          /\ (to[x] = mem[x].state => mem'[x] = mem[x])
  <2> SUFFICES ASSUME NEW x \in Memories
               PROVE  /\ mem'[x].kind = mem[x].kind /\ mem'[x].rev = mem[x].rev /\ mem'[x].born = mem[x].born
                      /\ mem'[x].state = to[x] /\ mem'[x] \in Memory
                      /\ (to[x] = mem[x].state => mem'[x] = mem[x])
    OBVIOUS
  <2>1. mem'[x] = [mem[x] EXCEPT !.state = to[x]] /\ mem[x] \in Memory /\ to[x] \in Mm!States \cup {"none"}
    BY <1>1
  <2> QED
    BY <2>1, WithState
<1>3. MemTyped'
  <2>1. mem' \in [Memories -> Memory]
    BY <1>2
  <2>2. \A x \in Memories : IF mem'[x].state = "none" THEN mem'[x] = Mm!None ELSE mem'[x].born \in 1..time'
    BY <1>1, <1>2 DEF MemInv, MemTyped
  <2> QED
    BY <1>1, <2>1, <2>2 DEF MemTyped
<1>4. FileTyped' /\ InOrder'
  BY <1>1, FilesStay DEF MemInv
<1>5. Mm!NoneForgotten'
  <2> SUFFICES ASSUME NEW x \in Mm!ActiveOf("knowledge")'
               PROVE  mem'[x].born > covered' \/ \E pair \in revived' : pair[1] = x
    BY DEF Mm!NoneForgotten
  <2>1. x \in Memories /\ to[x] = "active" /\ mem[x].kind = "knowledge"
    BY <1>2 DEF Mm!ActiveOf, Mm!Active
  <2> QED
    BY <1>2, <2>1
<1>6. Repaid'
  <2> SUFFICES ASSUME NEW r \in Mm!Revisions, NEW x \in Memories, Owes(r, x)'
               PROVE  Paid(r, x)'
    BY DEF Repaid
  <2>1. Owes(r, x)
    BY <1>2 DEF Owes
  <2>2. Paid(r, x)
    BY <2>1 DEF MemInv, Repaid
  <2> QED
    BY <1>2, <2>2 DEF Paid
<1>7. WithinLimits'
  <2> SUFFICES ASSUME NEW kind \in Mm!Kinds
               PROVE  Cardinality(Mm!ActiveOf(kind)') <= Mm!LimitOf(kind)
    BY LimitsBoth DEF WithinLimits, Mm!Kinds, Mm!LimitOf
  <2> DEFINE A == Mm!ActiveOf(kind)
  <2>1. IsFiniteSet(A) /\ Cardinality(A) \in Nat /\ Mm!LimitOf(kind) \in Nat /\ Cardinality(A) <= Mm!LimitOf(kind)
    BY LimitsAre, LimitsBoth DEF MemInv
  <2>2. CASE A' \in SUBSET A
    <3>1. Cardinality(A') <= Cardinality(A) /\ Cardinality(A') \in Nat
      BY <2>1, <2>2, Fewer
    <3> QED
      BY <2>1, <3>1
  <2>3. CASE ~(A' \in SUBSET A)
    <3>1. PICK k \in Memories : /\ Mm!HasRoom(mem[k].kind)
                                /\ \A m \in Memories \ {k} : to[m] = "active" => Mm!Active(m)
      <4>1. (\A m \in Memories : to[m] = "active" => Mm!Active(m)) => A' \in SUBSET A
        BY <1>2 DEF Mm!ActiveOf, Mm!Active
      <4> QED
        BY <2>3, <4>1
    <3>2. A' \in SUBSET (A \cup {k}) /\ mem[k].kind = kind
      BY <1>2, <2>3, <3>1 DEF Mm!ActiveOf, Mm!Active
    <3>3. Cardinality(A) < Mm!LimitOf(kind)
      BY <3>1, <3>2, MemoryCounts DEF Mm!HasRoom
    <3>4. IsFiniteSet(A \cup {k}) /\ Cardinality(A \cup {k}) <= Cardinality(A) + 1
      BY <2>1, OneMore
    <3>5. Cardinality(A') <= Cardinality(A \cup {k}) /\ Cardinality(A') \in Nat /\ Cardinality(A \cup {k}) \in Nat
      BY <3>2, <3>4, Fewer
    <3> QED
      BY <2>1, <3>3, <3>4, <3>5
  <2> QED
    BY <2>2, <2>3
<1> QED
  BY <1>3, <1>4, <1>5, <1>6, <1>7 DEF MemInv

LEMMA SameState ==
  ASSUME MemInv, NEW m \in Memories
  PROVE  /\ mem[m].state \in Mm!States \cup {"none"}
         /\ [mem[m] EXCEPT !.state = mem[m].state] = mem[m]
BY RowsHold, WithState

LEMMA ArchiveStep ==
  ASSUME Mm!MemoryAssumption, MemInv, NEW m \in Memories,
         Mm!Archive(m) \/ \E who \in {"agent", "owner"} : Mm!Reactivate(m, who)
  PROVE  MemInv'
<1> DEFINE new == IF Mm!Archive(m) THEN "manual" ELSE "active"
           to == [x \in Memories |-> IF x = m THEN new ELSE mem[x].state]
<1>1. mem \in [Memories -> Memory] /\ time \in Nat /\ covered \in 0..time
  BY DEF MemInv, MemTyped
<1>2. mem' = [x \in Memories |-> [mem[x] EXCEPT !.state = to[x]]]
  <2>1. mem' = [mem EXCEPT ![m] = [mem[m] EXCEPT !.state = new]]
    BY <1>1 DEF Mm!Archive, Mm!Reactivate
  <2>2. \A x \in Memories : mem'[x] = [mem[x] EXCEPT !.state = to[x]]
    BY <1>1, <2>1, SameState
  <2> QED
    BY <1>1, <2>1, <2>2
<1>3. UNCHANGED <<covered, time, persona, file>> /\ revived \subseteq revived'
  BY DEF Mm!Archive, Mm!Reactivate
<1>4. CASE Mm!Archive(m)
  <2>1. new = "manual" /\ mem[m].state = "active"
    BY <1>4 DEF Mm!Archive, Mm!Active
  <2>2. \A x \in Memories : to[x] \in Mm!States \cup {"none"} /\ (to[x] = "none" <=> mem[x].state = "none")
    BY <2>1, SameState DEF Mm!States
  <2>3. \A x \in Memories : to[x] = "active" => Mm!Active(x)
    BY <2>1 DEF Mm!Active
  <2>4. \A x \in Memories :
           /\ to[x] = "active" /\ mem[x].kind = "knowledge" =>
                mem[x].born > covered' \/ \E pair \in revived' : pair[1] = x
           /\ mem[x].state = "rollback" => to[x] = "rollback"
    BY <1>3, <2>1, <2>3 DEF MemInv, Mm!NoneForgotten, Mm!ActiveOf
  <2> HIDE DEF to, new
  <2>5. UNCHANGED <<persona, file>> /\ time' \in {time, time + 1} /\ covered' \in covered..time'
    BY <1>1, <1>3
  <2> QED
    BY <1>2, <1>3, <2>2, <2>3, <2>4, <2>5, States, ZenonT(30)
<1>5. ASSUME NEW who \in {"agent", "owner"}, ~Mm!Archive(m), Mm!Reactivate(m, who)
      PROVE  MemInv'
  <2>1. new = "active" /\ mem[m].state \in {"manual", "rollback"} /\ Mm!HasRoom(mem[m].kind)
        /\ revived' = revived \cup {<<m, who>>} /\ (mem[m].state = "rollback" => who = "owner")
    BY <1>5 DEF Mm!Reactivate, Mm!MayReactivate
  <2>2. \A x \in Memories : to[x] \in Mm!States \cup {"none"} /\ (to[x] = "none" <=> mem[x].state = "none")
    BY <2>1, SameState DEF Mm!States
  <2>3. \A x \in Memories \ {m} : to[x] = "active" => Mm!Active(x)
    BY DEF Mm!Active
  <2>4. \A x \in Memories :
           /\ to[x] = "active" /\ mem[x].kind = "knowledge" =>
                mem[x].born > covered' \/ \E pair \in revived' : pair[1] = x
           /\ mem[x].state = "rollback" => to[x] = "rollback" \/ <<x, "owner">> \in revived'
    <3> SUFFICES ASSUME NEW x \in Memories
                 PROVE  /\ to[x] = "active" /\ mem[x].kind = "knowledge" =>
                             mem[x].born > covered' \/ \E pair \in revived' : pair[1] = x
                        /\ mem[x].state = "rollback" => to[x] = "rollback" \/ <<x, "owner">> \in revived'
      OBVIOUS
    <3>1. CASE x = m
      <4>1. <<m, who>>[1] = m /\ <<m, who>> \in revived'
        BY <2>1
      <4> QED
        BY <2>1, <3>1, <4>1
    <3>2. CASE x # m
      <4>1. to[x] = mem[x].state
        BY <3>2
      <4> HIDE DEF to, new
      <4> QED
        BY <1>3, <4>1 DEF MemInv, Mm!NoneForgotten, Mm!ActiveOf, Mm!Active
    <3> QED
      BY <3>1, <3>2
  <2>5. UNCHANGED <<persona, file>> /\ time' \in {time, time + 1} /\ covered' \in covered..time'
    BY <1>1, <1>3
  <2>6. \E k \in Memories : /\ Mm!HasRoom(mem[k].kind)
                             /\ \A x \in Memories \ {k} : to[x] = "active" => Mm!Active(x)
    BY <2>1, <2>3
  <2> HIDE DEF to, new
  <2> QED
    BY <1>2, <1>3, <2>2, <2>4, <2>5, <2>6, States
<1> QED
  BY <1>4, <1>5

LEMMA ConsolidateStep ==
  ASSUME Mm!MemoryAssumption, MemInv, NEW until, Mm!Consolidate(until)
  PROVE  MemInv'
<1> DEFINE over(x) == x \in Mm!ActiveOf("knowledge") /\ mem[x].born <= until
           to == [x \in Memories |-> IF over(x) THEN "consolidated" ELSE mem[x].state]
<1>1. mem \in [Memories -> Memory] /\ time \in Nat /\ covered \in 0..time
  BY DEF MemInv, MemTyped
<1>2. /\ time' = time + 1 /\ covered' = until /\ until \in covered..(time + 1)
      /\ UNCHANGED <<persona, file, revived>>
      /\ mem' = [m \in Memories |-> IF over(m) THEN [mem[m] EXCEPT !.state = "consolidated"] ELSE mem[m]]
  BY DEF Mm!Consolidate
<1>3. mem' = [x \in Memories |-> [mem[x] EXCEPT !.state = to[x]]]
  <2>1. \A x \in Memories : mem'[x] = [mem[x] EXCEPT !.state = to[x]]
    BY <1>2, SameState
  <2> QED
    BY <1>2, <2>1
<1>4. \A x \in Memories : to[x] \in Mm!States \cup {"none"} /\ (to[x] = "none" <=> mem[x].state = "none")
  BY SameState DEF Mm!States, Mm!ActiveOf, Mm!Active
<1>5. \A x \in Memories : to[x] = "active" => Mm!Active(x)
  BY DEF Mm!Active
<1>6. \A x \in Memories :
        /\ to[x] = "active" /\ mem[x].kind = "knowledge" => mem[x].born > covered'
        /\ mem[x].state = "rollback" => to[x] = "rollback"
  <2>1. \A x \in Memories : mem[x].born \in Nat
    BY <1>1 DEF Memory
  <2> QED
    BY <1>1, <1>2, <1>5, <2>1 DEF Mm!ActiveOf, Mm!Active
<1> HIDE DEF to
<1> QED
  BY <1>1, <1>2, <1>3, <1>4, <1>5, <1>6, States
(* A revision is saved after the last one.                                 *)
LEMMA LatestIs ==
  ASSUME NEW n, Saved(n), \A q \in Mm!Revisions : file[q].born \in Nat
  PROVE  Mm!Latest = n
<1>1. n \in 0..MaxRevision /\ n # 0 /\ n \in Mm!Revisions
  BY DEF Saved, Mm!Revisions
<1>2. \A r \in 0..MaxRevision :
        (r = 0 \/ file[r].born > 0) /\ (\A q \in Mm!Revisions : file[q].born > 0 => q <= r) <=> r = n
  <2> SUFFICES ASSUME NEW r \in 0..MaxRevision
               PROVE  (r = 0 \/ file[r].born > 0) /\ (\A q \in Mm!Revisions : file[q].born > 0 => q <= r) <=> r = n
    OBVIOUS
  <2>1. n \in Nat /\ r \in Nat /\ (r # 0 => r \in Mm!Revisions)
    BY <1>1 DEF Mm!Revisions
  <2>2. ASSUME r = 0 \/ file[r].born > 0, \A q \in Mm!Revisions : file[q].born > 0 => q <= r
        PROVE  r = n
    <3>1. n <= r
      BY <1>1, <2>1, <2>2 DEF Saved
    <3>2. r <= n
      <4>1. CASE r = 0
        BY <2>1, <4>1
      <4>2. CASE r # 0
        BY <2>1, <2>2, <4>2 DEF Saved
      <4> QED
        BY <4>1, <4>2
    <3> QED
      BY <2>1, <3>1, <3>2
  <2>3. ASSUME r = n
        PROVE  (r = 0 \/ file[r].born > 0) /\ (\A q \in Mm!Revisions : file[q].born > 0 => q <= r)
    BY <1>1, <2>1, <2>3 DEF Saved
  <2> QED
    BY <2>2, <2>3
<1> QED
  BY <1>1, <1>2 DEF Mm!Latest

LEMMA SaveStep ==
  ASSUME Mm!MemoryAssumption, MemInv, NEW record \in Revision, NEW dies \in BOOLEAN,
         record.applied = 0, record.sync = "none" => record.reverted = {}, record.sync # "done",
         Mm!Save(record, dies)
  PROVE  MemInv'
<1> DEFINE new == [record EXCEPT !.born = time + 1]
<1>1. PICK n \in Mm!Revisions : Saved(n) /\ persona \in 1..n
  BY DEF MemInv, InOrder
<1>2. /\ time \in Nat \ {0} /\ file \in [Mm!Revisions -> Revision]
      /\ \A q \in Mm!Revisions : file[q] \in Revision /\ file[q].born \in Nat /\ file[q].applied \in Nat
  BY DEF MemInv, MemTyped, FileTyped, Revision
<1>3. Mm!Latest = n
  BY <1>1, <1>2, LatestIs
<1>4. /\ n < MaxRevision /\ time' = time + 1 /\ file' = [file EXCEPT ![n + 1] = new]
      /\ persona' = IF dies THEN persona ELSE n + 1
      /\ UNCHANGED <<mem, covered, revived>>
  BY <1>3 DEF Mm!Save
<1>5. n \in Nat /\ n + 1 \in Mm!Revisions /\ 1 \in 1..(n + 1)
  BY <1>1, <1>4 DEF Mm!Revisions, Mm!MemoryAssumption
<1>6. /\ new \in Revision /\ new.born = time + 1 /\ new.applied = 0
      /\ new.reverted = record.reverted /\ new.sync = record.sync
  <2>1. time + 1 \in Nat
    BY <1>2
  <2> QED
    BY <2>1 DEF Revision
<1> HIDE DEF new
<1>7. file' \in [Mm!Revisions -> Revision] /\ \A q \in Mm!Revisions : file'[q] = IF q = n + 1 THEN new ELSE file[q]
  BY <1>2, <1>4, <1>5, <1>6
<1>8. MemTyped'
  <2>1. time' \in Nat \ {0} /\ time <= time'
    BY <1>2, <1>4
  <2> QED
    BY <1>2, <1>4, <2>1 DEF MemInv, MemTyped
<1>9. FileTyped'
  <2> SUFFICES ASSUME NEW q \in Mm!Revisions
               PROVE  /\ file'[q].applied <= time'
                      /\ file'[q].sync = "none" => file'[q].reverted = {}
                      /\ file'[q].sync = "done" => file'[q].applied # 0
    BY <1>7 DEF FileTyped
  <2>1. CASE q = n + 1
    BY <1>2, <1>4, <1>6, <1>7, <2>1
  <2>2. CASE q # n + 1
    <3>1. file'[q] = file[q]
      BY <1>7, <2>2
    <3>2. file[q].applied \in Nat /\ file[q].applied <= time
      BY <1>2 DEF MemInv, FileTyped
    <3> QED
      BY <1>2, <1>4, <3>1, <3>2 DEF MemInv, FileTyped
  <2> QED
    BY <2>1, <2>2
<1>10. InOrder'
  <2>1. Saved(n + 1)'
    <3> SUFFICES ASSUME NEW q \in Mm!Revisions
                 PROVE  file'[q].born > 0 <=> q <= n + 1
      BY <1>5 DEF Saved
    <3>1. CASE q = n + 1
      BY <1>2, <1>5, <1>6, <1>7, <3>1
    <3>2. CASE q # n + 1
      <4>1. file'[q] = file[q] /\ q \in Nat
        BY <1>7, <3>2 DEF Mm!Revisions
      <4>2. file[q].born > 0 <=> q <= n
        BY <1>1 DEF Saved
      <4> QED
        BY <1>5, <3>2, <4>1, <4>2
    <3> QED
      BY <3>1, <3>2
  <2>2. persona' \in 1..(n + 1)
    BY <1>1, <1>4, <1>5
  <2> QED
    BY <1>5, <2>1, <2>2 DEF InOrder
<1>11. Mm!NoneForgotten' /\ WithinLimits'
  BY <1>4 DEF MemInv, Mm!NoneForgotten, WithinLimits, Mm!ActiveOf, Mm!Active
<1>12. Repaid'
  <2> SUFFICES ASSUME NEW r \in Mm!Revisions, NEW m \in Memories, Owes(r, m)'
               PROVE  Paid(r, m)'
    BY DEF Repaid
  <2>1. r # n + 1
    BY <1>6, <1>7 DEF Owes
  <2>2. file'[r] = file[r]
    BY <1>7, <2>1
  <2>3. Owes(r, m)
    BY <1>4, <2>2 DEF Owes
  <2>4. Paid(r, m)
    BY <2>3 DEF MemInv, Repaid
  <2> QED
    BY <1>4, <2>2, <2>4 DEF Paid
<1> QED
  BY <1>8, <1>9, <1>10, <1>11, <1>12 DEF MemInv

LEMMA PersonaStep ==
  ASSUME Mm!MemoryAssumption, MemInv,
         Mm!SavePersona \/ \E r \in Mm!Revisions : Mm!RollbackPersona(r)
  PROVE  MemInv'
<1>1. CASE Mm!SavePersona
  <2>1. Mm!NoFile \in Revision /\ Mm!NoFile.applied = 0 /\ Mm!NoFile.reverted = {} /\ Mm!NoFile.sync = "none"
    BY DEF Mm!NoFile, Revision
  <2> QED
    BY <1>1, <2>1, SaveStep DEF Mm!SavePersona
<1>2. ASSUME NEW r \in Mm!Revisions, Mm!RollbackPersona(r)
      PROVE  MemInv'
  <2>1. PICK dies \in BOOLEAN : Mm!Save(
          [Mm!NoFile EXCEPT !.reverted = (r + 1)..Mm!Latest, !.since = file[r].born,
                            !.sync = IF dies THEN "lost" ELSE "local"], dies)
    BY <1>2 DEF Mm!RollbackPersona
  <2>2. file[r].born \in Nat /\ r \in Nat
    BY DEF MemInv, FileTyped, Revision, Mm!Revisions
  <2>3. Mm!Latest \in Nat
    <3>1. PICK n \in Mm!Revisions : Saved(n)
      BY DEF MemInv, InOrder
    <3>2. \A q \in Mm!Revisions : file[q].born \in Nat
      BY DEF MemInv, FileTyped, Revision
    <3> QED
      BY <3>1, <3>2, LatestIs DEF Mm!Revisions
  <2> DEFINE record == [Mm!NoFile EXCEPT !.reverted = (r + 1)..Mm!Latest, !.since = file[r].born,
                                         !.sync = IF dies THEN "lost" ELSE "local"]
  <2>4. record \in Revision /\ record.applied = 0 /\ record.sync \in {"lost", "local"}
    <3>1. (r + 1)..Mm!Latest \in SUBSET Nat
      BY <2>2, <2>3
    <3> QED
      BY <2>2, <3>1 DEF Mm!NoFile, Revision
  <2> HIDE DEF record
  <2>5. Mm!Save(record, dies)
    BY <2>1 DEF record
  <2> QED
    BY <2>4, <2>5, SaveStep
<1> QED
  BY <1>1, <1>2

(* A rollback arrives, for the first time or again, or does not.           *)
LEMMA SyncStep ==
  ASSUME Mm!MemoryAssumption, MemInv, NEW r \in Mm!Revisions, NEW from,
         from \in {{"local"}, {"pending"}}, NEW to \in {"done", "pending", "lost"}, NEW served \in BOOLEAN,
         to = "done" => served, Mm!Sync(r, from, to, served)
  PROVE  MemInv'
<1> DEFINE base == IF served THEN Mm!Settled(r) ELSE file[r]
           new == [base EXCEPT !.sync = to]
           first == served /\ file[r].applied = 0
           back(m) == first /\ Mm!Reverts(r, m)
<1>1. /\ time \in Nat \ {0} /\ covered \in 0..time /\ mem \in [Memories -> Memory]
      /\ file \in [Mm!Revisions -> Revision]
      /\ \A q \in Mm!Revisions : file[q] \in Revision /\ file[q].applied \in Nat /\ file[q].born \in Nat
  BY DEF MemInv, MemTyped, FileTyped, Revision
<1>2. /\ mem' = IF served THEN Mm!Applied(r) ELSE mem
      /\ file' = [file EXCEPT ![r] = new]
      /\ UNCHANGED <<covered, time, persona, revived>>
  BY DEF Mm!Sync
<1>3. /\ new \in Revision /\ new.sync = to /\ new.born = file[r].born /\ new.reverted = file[r].reverted
      /\ new.applied = IF first THEN time ELSE file[r].applied
      /\ new.spared = IF first THEN {m \in Memories : mem[m].state \notin {"none", "active"}} ELSE file[r].spared
  <2>1. {m \in Memories : mem[m].state \notin {"none", "active"}} \in SUBSET Memories
    OBVIOUS
  <2>2. CASE first
    BY <1>1, <2>1, <2>2 DEF Mm!Settled, Revision
  <2>3. CASE ~first
    <3>1. base = file[r]
      BY <2>3 DEF Mm!Settled
    <3> QED
      BY <1>1, <2>3, <3>1 DEF Revision
  <2> QED
    BY <2>2, <2>3
<1> HIDE DEF new
<1>4. file' \in [Mm!Revisions -> Revision] /\ \A q \in Mm!Revisions : file'[q] = IF q = r THEN new ELSE file[q]
  BY <1>1, <1>2, <1>3
<1>5. \A m \in Memories :
        mem'[m] = IF back(m) THEN [mem[m] EXCEPT !.state = "rollback"] ELSE mem[m]
  BY <1>2 DEF Mm!Applied
<1>6. \A m \in Memories :
        /\ mem'[m] \in Memory /\ mem'[m].kind = mem[m].kind /\ mem'[m].rev = mem[m].rev /\ mem'[m].born = mem[m].born
        /\ mem'[m].state = IF back(m) THEN "rollback" ELSE mem[m].state
  <2> SUFFICES ASSUME NEW m \in Memories
               PROVE  /\ mem'[m] \in Memory /\ mem'[m].kind = mem[m].kind /\ mem'[m].rev = mem[m].rev
                      /\ mem'[m].born = mem[m].born
                      /\ mem'[m].state = IF back(m) THEN "rollback" ELSE mem[m].state
    OBVIOUS
  <2>1. mem[m] \in Memory /\ "rollback" \in Mm!States \cup {"none"}
    BY RowsHold DEF Mm!States
  <2>2. CASE back(m)
    <3>1. mem'[m] = [mem[m] EXCEPT !.state = "rollback"]
      BY <1>5, <2>2
    <3> QED
      BY <2>1, <2>2, <3>1, WithState
  <2>3. CASE ~back(m)
    BY <1>5, <2>1, <2>3
  <2> QED
    BY <2>2, <2>3
<1>7. \A m \in Memories : back(m) => mem[m].state = "active" /\ mem[m].kind = "influence"
  BY DEF Mm!Reverts, Mm!ActiveOf, Mm!Active
<1>8. MemTyped'
  <2>1. mem' \in [Memories -> Memory]
    <3>1. mem' = [m \in Memories |-> mem'[m]]
      BY <1>1, <1>2 DEF Mm!Applied
    <3> QED
      BY <1>6, <3>1
  <2>2. \A m \in Memories : IF mem'[m].state = "none" THEN mem'[m] = Mm!None ELSE mem'[m].born \in 1..time'
    BY <1>2, <1>5, <1>6, <1>7, ZenonT(30) DEF MemInv, MemTyped
  <2> QED
    BY <1>1, <1>2, <2>1, <2>2 DEF MemTyped
<1>9. FileTyped'
  <2> SUFFICES ASSUME NEW q \in Mm!Revisions
               PROVE  /\ file'[q].applied <= time'
                      /\ file'[q].sync = "none" => file'[q].reverted = {}
                      /\ file'[q].sync = "done" => file'[q].applied # 0
    BY <1>4 DEF FileTyped
  <2>1. CASE q = r
    <3>1. file'[q] = new
      BY <1>4, <2>1
    <3>2. file[r].applied <= time
      BY DEF MemInv, FileTyped
    <3> QED
      BY <1>1, <1>2, <1>3, <3>1, <3>2
  <2>2. CASE q # r
    BY <1>2, <1>4, <2>2 DEF MemInv, FileTyped
  <2> QED
    BY <2>1, <2>2
<1>10. InOrder'
  <2>1. PICK n \in Mm!Revisions : Saved(n) /\ persona \in 1..n
    BY DEF MemInv, InOrder
  <2>2. \A q \in Mm!Revisions : file'[q].born = file[q].born
    BY <1>3, <1>4
  <2>3. Saved(n)'
    BY <2>1, <2>2 DEF Saved
  <2> QED
    BY <1>2, <2>1, <2>3 DEF InOrder
<1>11. Mm!NoneForgotten'
  <2> SUFFICES ASSUME NEW m \in Mm!ActiveOf("knowledge")'
               PROVE  mem'[m].born > covered' \/ \E pair \in revived' : pair[1] = m
    BY DEF Mm!NoneForgotten
  <2>1. m \in Mm!ActiveOf("knowledge")
    BY <1>6 DEF Mm!ActiveOf, Mm!Active
  <2>2. m \in Memories
    BY <2>1 DEF Mm!ActiveOf
  <2> QED
    BY <1>2, <1>6, <2>1, <2>2 DEF MemInv, Mm!NoneForgotten
<1>12. Repaid'
  <2> SUFFICES ASSUME NEW q \in Mm!Revisions, NEW m \in Memories, Owes(q, m)'
               PROVE  Paid(q, m)'
    BY DEF Repaid
  <2>1. mem[m].state # "none" /\ mem[m].kind = "influence" /\ mem[m].rev \in file[q].reverted
    BY <1>3, <1>4, <1>6, <1>7 DEF Owes
  <2>2. CASE q = r /\ first
    <3>1. CASE mem[m].state = "active"
      <4>1. back(m)
        BY <2>1, <2>2, <3>1 DEF Mm!Reverts, Mm!ActiveOf, Mm!Active
      <4> QED
        BY <1>6, <4>1 DEF Paid
    <3>2. CASE mem[m].state # "active"
      <4>1. m \in new.spared
        BY <1>3, <2>1, <2>2, <3>2
      <4> QED
        BY <1>4, <2>2, <4>1 DEF Paid
    <3> QED
      BY <3>1, <3>2
  <2>3. CASE ~(q = r /\ first)
    <3>1. file'[q].applied = file[q].applied /\ file'[q].spared = file[q].spared
      BY <1>3, <1>4, <2>3
    <3>2. Owes(q, m)
      BY <2>1, <3>1 DEF Owes
    <3>3. Paid(q, m)
      BY <3>2 DEF MemInv, Repaid
    <3> QED
      BY <1>2, <1>6, <3>1, <3>3 DEF Paid
  <2> QED
    BY <2>2, <2>3
<1>13. WithinLimits'
  <2> SUFFICES ASSUME NEW kind \in Mm!Kinds
               PROVE  Cardinality(Mm!ActiveOf(kind)') <= Mm!LimitOf(kind)
    BY LimitsBoth DEF WithinLimits, Mm!Kinds, Mm!LimitOf
  <2> DEFINE A == Mm!ActiveOf(kind)
  <2>1. IsFiniteSet(A) /\ Cardinality(A) \in Nat /\ Mm!LimitOf(kind) \in Nat /\ Cardinality(A) <= Mm!LimitOf(kind)
    BY LimitsAre, LimitsBoth DEF MemInv
  <2>2. A' \in SUBSET A
    BY <1>6 DEF Mm!ActiveOf, Mm!Active
  <2>3. Cardinality(A') <= Cardinality(A) /\ Cardinality(A') \in Nat
    BY <2>1, <2>2, Fewer
  <2> QED
    BY <2>1, <2>3
<1> QED
  BY <1>8, <1>9, <1>10, <1>11, <1>12, <1>13 DEF MemInv

LEMMA MemoryStep == Mm!MemoryAssumption /\ MemInv /\ [Mm!Next]_Mm!memoryVars => MemInv'
<1> SUFFICES ASSUME Mm!MemoryAssumption, MemInv, [Mm!Next]_Mm!memoryVars PROVE MemInv'
  OBVIOUS
<1>1. CASE UNCHANGED Mm!memoryVars
  BY <1>1 DEF Mm!memoryVars, MemInv, MemTyped, FileTyped, InOrder, Saved, Mm!NoneForgotten, Repaid, Owes, Paid,
              WithinLimits, Mm!ActiveOf, Mm!Active
<1>2. ASSUME NEW m \in Memories, NEW text \in Texts, NEW kind \in Mm!Kinds,
             NEW rev \in IF kind = "knowledge" THEN {0} ELSE {0} \cup 1..persona,
             NEW state \in {"active", "manual"}, Mm!Write(m, kind, text, rev, state)
      PROVE  MemInv'
  <2>1. rev \in Nat
    OBVIOUS
  <2> QED
    BY <1>2, <2>1, WriteStep
<1>3. ASSUME NEW m \in Memories, NEW old \in Memories, NEW text \in Texts,
             NEW rev \in {0, persona}, Mm!Supersede(m, old, text, rev)
      PROVE  MemInv'
  <2>1. rev \in Nat
    BY DEF MemInv, InOrder
  <2> QED
    BY <1>3, <2>1, SupersedeStep
<1>4. ASSUME NEW m \in Memories, Mm!Archive(m) \/ \E who \in {"agent", "owner"} : Mm!Reactivate(m, who)
      PROVE  MemInv'
  BY <1>4, ArchiveStep
<1>5. ASSUME NEW until, Mm!Consolidate(until)
      PROVE  MemInv'
  BY <1>5, ConsolidateStep
<1>6. ASSUME NEW r \in Mm!Revisions, Mm!Ask(r) \/ Mm!Die(r) \/ Mm!Retry(r)
      PROVE  MemInv'
  BY <1>6, SyncStep DEF Mm!Ask, Mm!Die, Mm!Retry
<1>7. CASE Mm!Next
  <2>1. CASE Mm!SavePersona \/ \E r \in Mm!Revisions : file[r].born > 0 /\ Mm!RollbackPersona(r)
    BY <2>1, PersonaStep
  <2>2. CASE \E m \in Mm!Unwritten, text \in Texts :
       \/ \E kind \in Mm!Kinds, state \in {"active", "manual"} :
            \E rev \in IF kind = "knowledge" THEN {0} ELSE {0} \cup 1..persona :
              Mm!Write(m, kind, text, rev, state)
       \/ \E old \in Memories, rev \in {0, persona} : Mm!Supersede(m, old, text, rev)
    <3>1. Mm!Unwritten \subseteq Memories
      BY DEF Mm!Unwritten
    <3> QED
      BY <1>2, <1>3, <2>2, <3>1
  <2> QED
    BY <1>4, <1>5, <1>6, <1>7, <2>1, <2>2 DEF Mm!Next
<1> QED
  BY <1>1, <1>7

LEMMA MemoryInvariant == ASSUME Mm!MemoryAssumption PROVE Mm!Spec => []MemInv
<1>1. Mm!Init => MemInv
  BY MemoryStarts
<1>2. MemInv /\ [Mm!Next]_Mm!memoryVars => MemInv'
  BY MemoryStep
<1> QED
  BY <1>1, <1>2, PTL DEF Mm!Spec

(* The context an agent starts with forgets nothing: what is active and older *)
(* than the last summary somebody took back from the archive (memory.ts). And *)
(* an influence of a reverted revision is not active once its rollback arrived *)
(* unless it was written later, was archived then, or its owner took it back. *)
THEOREM MemoryCorrect == ASSUME Mm!MemoryAssumption PROVE Mm!Spec => [](Mm!NoneForgotten /\ Mm!RollbackArrives)
<1>1. MemInv => Mm!NoneForgotten /\ Mm!RollbackArrives
  <2> SUFFICES ASSUME MemInv, NEW r \in Mm!Revisions, NEW m \in Mm!ActiveOf("influence"),
                      mem[m].rev \in file[r].reverted, file[r].sync \notin {"local", "pending", "lost"}
               PROVE  mem[m].born > file[r].applied \/ m \in file[r].spared \/ <<m, "owner">> \in revived
    BY DEF MemInv, Mm!RollbackArrives
  <2>1. file[r] \in Revision /\ m \in Memories /\ mem[m].state = "active" /\ mem[m].kind = "influence"
    BY DEF MemInv, FileTyped, Mm!ActiveOf, Mm!Active
  <2>2. file[r].sync = "done"
    <3>1. file[r].sync \in {"none", "local", "pending", "lost", "done"}
      BY <2>1 DEF Revision
    <3> QED
      BY <3>1 DEF MemInv, FileTyped
  <2>3. Owes(r, m)
    BY <2>1, <2>2 DEF MemInv, FileTyped, Owes
  <2> QED
    BY <2>1, <2>3 DEF MemInv, Repaid, Paid
<1>2. Mm!Spec => []MemInv
  BY MemoryInvariant
<1> QED
  BY <1>1, <1>2, PTL

(* Rows are whole, limits hold, and persona.json is of a revision saved.    *)
THEOREM MemoryTypeCorrect == ASSUME Mm!MemoryAssumption PROVE Mm!Spec => []Mm!TypeOK
<1>1. MemInv => Mm!TypeOK
  <2> SUFFICES ASSUME MemInv PROVE Mm!TypeOK
    OBVIOUS
  <2>1. \A m \in Memories : mem[m] = Mm!None \/ (mem[m].state \in Mm!States /\ mem[m].born \in 1..time)
    BY RowsHold DEF MemInv, MemTyped
  <2>2. PICK n \in Mm!Revisions : Saved(n) /\ persona \in 1..n
    BY DEF MemInv, InOrder
  <2>3. \A q \in Mm!Revisions : file[q].born \in Nat
    BY DEF MemInv, FileTyped, Revision
  <2>4. Mm!Latest = n
    BY <2>2, <2>3, LatestIs
  <2>5. /\ Mm!Cardinality(Mm!ActiveOf("knowledge")) <= KnowledgeLimit
        /\ Mm!Cardinality(Mm!ActiveOf("influence")) <= InfluenceLimit
    BY MemoryCounts DEF MemInv, WithinLimits
  <2> QED
    BY <2>1, <2>2, <2>4, <2>5 DEF Mm!TypeOK, MemInv, MemTyped
<1>2. Mm!Spec => []MemInv
  BY MemoryInvariant
<1> QED
  BY <1>1, <1>2, PTL

(****************************************************************************)
(* The parts, as they run side by side (Parts)                                *)
(****************************************************************************)
(* Rooms runs for who reads them or for the watcher, or never.             *)
LEMMA RoomsRuns == PartsSpec => Rm!Spec \/ []~Posting
<1>1. PartsInit /\ Posting => Rm!Init
  BY DEF PartsInit, Posting, Boarding
<1>2. Posting /\ [PartsNext]_partsVars => Posting' /\ [Rm!Next]_(Rm!vars)
  BY DEF PartsNext, partsVars, slots, Rm!vars, Posting
<1>3. ~Posting /\ [PartsNext]_partsVars => ~Posting'
  BY StaysPut DEF Posting
<1> QED
  BY <1>1, <1>2, <1>3, PTL DEF PartsSpec, Rm!Spec

(* Boards runs for the rooms or for the threads and cards.                 *)
LEMMA BoardsRuns == PartsSpec => Bd!Spec \/ []~Boarding
<1>1. PartsInit /\ Boarding => Bd!Init
  BY DEF PartsInit, Posting, Boarding
<1>2. Boarding /\ [PartsNext]_partsVars => Boarding' /\ [Bd!Next]_(Bd!boardVars)
  BY DEF PartsNext, partsVars, slots, Bd!boardVars, Boarding
<1>3. ~Boarding /\ [PartsNext]_partsVars => ~Boarding'
  BY StaysPut DEF Boarding
<1> QED
  BY <1>1, <1>2, <1>3, PTL DEF PartsSpec, Bd!Spec

(* So does the showcase.                                                   *)
LEMMA ShowcaseRuns == PartsSpec => Sh!Spec \/ []~(part = "showcase")
<1>1. PartsInit /\ part = "showcase" => Sh!Init
  BY DEF PartsInit, Posting, Boarding
<1>2. part = "showcase" /\ [PartsNext]_partsVars => (part = "showcase")' /\ [Sh!Next]_(Sh!showVars)
  BY DEF PartsNext, partsVars, slots, Sh!showVars, Boarding
<1>3. ~(part = "showcase") /\ [PartsNext]_partsVars => ~(part = "showcase")'
  BY StaysPut DEF Boarding
<1> QED
  BY <1>1, <1>2, <1>3, PTL DEF PartsSpec, Sh!Spec

(* So does enrollment.                                                     *)
LEMMA EnrollmentRuns == PartsSpec => En!Spec \/ []~(part = "enrollment")
<1>1. PartsInit /\ part = "enrollment" => En!Init
  BY DEF PartsInit, Posting, Boarding
<1>2. part = "enrollment" /\ [PartsNext]_partsVars => (part = "enrollment")' /\ [En!Next]_(En!enrollVars)
  BY DEF PartsNext, partsVars, slots, En!enrollVars, Boarding
<1>3. ~(part = "enrollment") /\ [PartsNext]_partsVars => ~(part = "enrollment")'
  BY StaysPut DEF Boarding
<1> QED
  BY <1>1, <1>2, <1>3, PTL DEF PartsSpec, En!Spec

(* So do quotas.                                               *)
LEMMA QuotasRuns == PartsSpec => Qt!Spec \/ []~(part = "quotas")
<1>1. PartsInit /\ part = "quotas" => Qt!Init
  BY DEF PartsInit, Posting, Boarding
<1>2. part = "quotas" /\ [PartsNext]_partsVars => (part = "quotas")' /\ [Qt!Next]_(Qt!quotaVars)
  BY DEF PartsNext, partsVars, slots, Qt!quotaVars, Boarding
<1>3. ~(part = "quotas") /\ [PartsNext]_partsVars => ~(part = "quotas")'
  BY StaysPut DEF Boarding
<1> QED
  BY <1>1, <1>2, <1>3, PTL DEF PartsSpec, Qt!Spec

(* So does retention.                                               *)
LEMMA RetentionRuns == PartsSpec => Rt!Spec \/ []~(part = "retention")
<1>1. PartsInit /\ part = "retention" => Rt!Init
  BY DEF PartsInit, Posting, Boarding
<1>2. part = "retention" /\ [PartsNext]_partsVars => (part = "retention")' /\ [Rt!Next]_(Rt!retentionVars)
  BY DEF PartsNext, partsVars, slots, Rt!retentionVars, Boarding
<1>3. ~(part = "retention") /\ [PartsNext]_partsVars => ~(part = "retention")'
  BY StaysPut DEF Boarding
<1> QED
  BY <1>1, <1>2, <1>3, PTL DEF PartsSpec, Rt!Spec

(* So does private memory.                                               *)
LEMMA MemoryRuns == PartsSpec => Mm!Spec \/ []~(part = "memory")
<1>1. PartsInit /\ part = "memory" => Mm!Init
  BY DEF PartsInit, Posting, Boarding
<1>2. part = "memory" /\ [PartsNext]_partsVars => (part = "memory")' /\ [Mm!Next]_(Mm!memoryVars)
  BY DEF PartsNext, partsVars, slots, Mm!memoryVars, Boarding
<1>3. ~(part = "memory") /\ [PartsNext]_partsVars => ~(part = "memory")'
  BY StaysPut DEF Boarding
<1> QED
  BY <1>1, <1>2, <1>3, PTL DEF PartsSpec, Mm!Spec

(* A member's message is in its inbox or ahead of its page, whatever commits*)
(* behind the page (app.ts:1207-1258).                                     *)
THEOREM HeardOrReadableCorrect == PartsSpec => []HeardOrReadable
<1>1. Rm!Spec => []Rm!HeardOrReadable
  BY HeardCorrect, PartsAssumption
<1>2. (Posting => Rm!HeardOrReadable) => HeardOrReadable
  BY DEF HeardOrReadable
<1> QED
  BY <1>1, <1>2, RoomsRuns, PTL

(* Each message that is the threshold-th of its text within 60 seconds opens  *)
(* an incident, and a published card is told of once, but for posts that      *)
(* overtook each other before the lock and requests that write an old row     *)
(* over a new one (app.ts:1260-1268, 1822-1858).                             *)
THEOREM AnnouncedCorrect == PartsSpec => []Announced
<1>1. Rm!Spec => []Rm!BurstReported
  BY WatchedCorrect, PartsAssumption
<1>2. Bd!Spec => []Bd!ToldOnce
  BY PublishedCorrect, PartsAssumption
<1>3. (Posting => Rm!BurstReported) /\ (Boarding => Bd!ToldOnce) => Announced
  BY DEF Announced
<1> QED
  BY <1>1, <1>2, <1>3, RoomsRuns, BoardsRuns, PTL

(* A retried POST is answered with its own message (app.ts:1189-1205).     *)
THEOREM AnswerMatchesCorrect == PartsSpec => []AnswerMatches
<1>1. Rm!Spec => []Rm!AnswerMatches
  BY AnswerCorrect, PartsAssumption
<1>2. (Posting => Rm!AnswerMatches) => AnswerMatches
  BY DEF AnswerMatches
<1> QED
  BY <1>1, <1>2, RoomsRuns, PTL

(* The showcase shows nothing of a restricted agent or owner (app.ts:575-617).*)
THEOREM RestrictedIsHiddenCorrect == PartsSpec => []RestrictedIsHidden
<1>1. Sh!Spec => []Sh!RestrictedIsHidden
  BY HiddenCorrect, PartsAssumption
<1>2. (part = "showcase" => Sh!RestrictedIsHidden) => RestrictedIsHidden
  BY DEF RestrictedIsHidden
<1> QED
  BY <1>1, <1>2, ShowcaseRuns, PTL

(* A used token made one agent and somebody holds it (app.ts:780-791).     *)
THEOREM EnrolledOnceCorrect == PartsSpec => []EnrolledOnce
<1>1. En!Spec => []En!EnrolledOnce
  BY EnrolledCorrect, PartsAssumption
<1>2. (part = "enrollment" => En!EnrolledOnce) => EnrolledOnce
  BY DEF EnrolledOnce
<1> QED
  BY <1>1, <1>2, EnrollmentRuns, PTL

(* Rooms and threads change as they were asked to, but for rows that changed*)
(* between the check and the UPDATE of a request (app.ts:879-951, 1397-1470).*)
THEOREM BoardsAsAskedCorrect == PartsSpec => BoardsAsAsked
<1>1. Bd!Spec => Bd!BoardsAsAsked
  BY BoardsCorrect, PartsAssumption
<1>2. [Bd!GoalAsAsked' /\ Bd!ThreadEdge]_(Bd!boardVars) /\ [PartsNext]_partsVars
        => [Boarding => Bd!GoalAsAsked' /\ Bd!ThreadEdge]_partsVars
  <2>1. Boarding /\ [PartsNext]_partsVars /\ UNCHANGED Bd!boardVars => UNCHANGED partsVars
    BY DEF PartsNext, partsVars, slots, OwnStill, Bd!boardVars, Boarding
  <2> QED
    BY <2>1
<1>3. ~Boarding => [Boarding => Bd!GoalAsAsked' /\ Bd!ThreadEdge]_partsVars
  OBVIOUS
<1> QED
  BY <1>1, <1>2, <1>3, BoardsRuns, PTL DEF PartsSpec, BoardsAsAsked, Bd!BoardsAsAsked

(* No window of a quota, wherever it ends, holds more rows than the limit    *)
(* (limits.ts:149-190).                                                    *)
THEOREM WindowHoldsCorrect == PartsSpec => []WindowHolds
<1>1. Qt!Spec => []Qt!WindowHolds
  BY WindowCorrect, PartsAssumption
<1>2. (part = "quotas" => Qt!WindowHolds) => WindowHolds
  BY DEF WindowHolds
<1> QED
  BY <1>1, <1>2, QuotasRuns, PTL

(* The context of an agent forgets nothing, a rollback that arrived has taken *)
(* its influences back, and retention leaves when an agent was last seen      *)
(* (memory.ts, retention.ts).                                              *)
THEOREM MemoryKeptCorrect == PartsSpec => []MemoryKept
<1>1. Mm!Spec => [](Mm!NoneForgotten /\ Mm!RollbackArrives)
  BY MemoryCorrect, PartsAssumption
<1>2. Rt!Spec => []Rt!LastSeenStays
  BY LastSeenCorrect, PartsAssumption
<1>3. /\ part = "memory" => Mm!NoneForgotten /\ Mm!RollbackArrives
      /\ part = "retention" => Rt!LastSeenStays
      => MemoryKept
  BY DEF MemoryKept
<1> QED
  BY <1>1, <1>2, <1>3, MemoryRuns, RetentionRuns, PTL

(* Inbox and Tasks have variables of their own: they run by their own       *)
(* specifications in every behaviour, or stand still.                       *)
LEMMA OwnRun == PartsSpec => Spec /\ TasksSpec
<1>1. PartsInit => Init /\ TasksInit
  BY DEF PartsInit, ReaderIdle
<1>2. [PartsNext]_partsVars => [Next]_vars /\ [TasksNext]_taskVars
  BY DEF PartsNext, partsVars, OwnStill, inboxVars
<1> QED
  BY <1>1, <1>2, PTL DEF PartsSpec, Spec, TasksSpec

(* Every variable of every part holds what its code can store in it.        *)
THEOREM TypesOKCorrect == PartsSpec => []TypesOK
<1> DEFINE OwnOK == TypeOK /\ TasksTypeOK
           RoomsOK == (Posting => Rm!TypeOK) /\ (Boarding => Bd!TypeOK)
           AgentsOK == (part = "showcase" => Sh!TypeOK) /\ (part = "memory" => Mm!TypeOK)
           LimitsOK == (part = "quotas" => Qt!TypeOK) /\ (part = "enrollment" => En!TypeOK)
           HomesOK == (part = "ledger" => Lg!TypeOK) /\ (part = "home" => Hm!TypeOK)
           MachineOK == (part = "listening" => Ls!TypeOK) /\ (part = "setup" => St!TypeOK)
           SweepOK == (part = "retention" => Rt!TypeOK) /\ (part = "route" => Ct!RouteTypeOK)
           PageOK == part = "page" => Pg!PageTypeOK
<1>1. PartsSpec => []OwnOK
  BY OwnRun, InboxTypeCorrect, TasksTypeCorrect, PTL
<1>2. PartsSpec => []RoomsOK
  <2>1. Rm!Spec => [](Base /\ AgeInv /\ Rm!TypeOK)
    BY RoomsTypeCorrect, PartsAssumption
  <2>2. Bd!Spec => []Bd!TypeOK
    BY BoardsTypeCorrect, PartsAssumption
  <2> QED
    BY <2>1, <2>2, RoomsRuns, BoardsRuns, PTL
<1>3. PartsSpec => []AgentsOK
  <2>1. Sh!Spec => []Sh!TypeOK
    BY ShownTypeCorrect, PartsAssumption
  <2>2. Mm!Spec => []Mm!TypeOK
    BY MemoryTypeCorrect, PartsAssumption
  <2> QED
    BY <2>1, <2>2, ShowcaseRuns, MemoryRuns, PTL
<1>4. PartsSpec => []LimitsOK
  <2>1. Qt!Spec => []Qt!TypeOK
    BY QuotaTypeCorrect, PartsAssumption
  <2>2. En!Spec => []En!TypeOK
    BY EnrollTypeCorrect, PartsAssumption
  <2> QED
    BY <2>1, <2>2, QuotasRuns, EnrollmentRuns, PTL
<1>5. PartsSpec => []HomesOK
  <2>1. Lg!Spec => [](Lg!SendsCounted /\ Lg!TimeCounted /\ Lg!TypeOK)
    BY LedgerCorrect, PartsAssumption
  <2> QED
    BY <2>1, HomeTypeCorrect, LedgerRuns, HomeRuns, PTL
<1>6. PartsSpec => []MachineOK
  <2>1. Ls!Spec => []Ls!TypeOK
    BY ListenTypeCorrect, PartsAssumption
  <2> QED
    BY <2>1, SetupCorrect, ListeningRuns, SetupRuns, PTL
<1>7. PartsSpec => []SweepOK
  <2>1. Rt!Spec => []Rt!TypeOK
    BY RetentionTypeCorrect, PartsAssumption
  <2>2. Ct!RouteSpec => [](Ct!ShownIsUrl /\ Ct!RouteTypeOK)
    BY RouteCorrect, PartsAssumption
  <2> QED
    BY <2>1, <2>2, RetentionRuns, RouteRuns, PTL
<1>8. PartsSpec => []PageOK
  <2>1. Pg!PageSpec => []Pg!PageTypeOK
    BY PageTypeCorrect, PartsAssumption
  <2> QED
    BY <2>1, PageRuns, PTL
<1>9. OwnOK /\ RoomsOK /\ AgentsOK /\ LimitsOK /\ HomesOK /\ MachineOK /\ SweepOK /\ PageOK => TypesOK
  BY DEF TypesOK
<1> HIDE DEF OwnOK, RoomsOK, AgentsOK, LimitsOK, HomesOK, MachineOK, SweepOK, PageOK
<1> QED
  BY <1>1, <1>2, <1>3, <1>4, <1>5, <1>6, <1>7, <1>8, <1>9, PTL
=============================================================================
