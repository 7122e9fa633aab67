-------------------------- MODULE ParticipantProofs --------------------------
(* Proofs about what runs at a participant, for any sizes and any number of  *)
(* agents, owners, tasks, commands, callers and rooms: its inbox (Inbox), the *)
(* tasks it creates or is assigned (Tasks), a caller's directory (ClientHome), *)
(* the owner's setup (Setup), the web application's page (RoomPage) and       *)
(* address (CityRoute), the commands that listen (Listening) and the budget   *)
(* of their sends and sessions (Ledger).                                     *)
(*                                                                          *)
(* Inbox.  The cursors are numbers of committed events, so that an event    *)
(* that commits below one of them was overtaken; a page that has been read   *)
(* and not saved yet leaves no gap above the cursor.  Queue and page stay    *)
(* within the capacity together (QueueFits), for the n lowest events of a set *)
(* are no more than n (LowestFew).                                          *)
(*                                                                          *)
(* Tasks.  A creation writes a row that nobody else is about (RequestInv):   *)
(* it is the only request with that task, which does not exist yet.          *)
(* CapacityHolds is not inductive: between the count and the INSERT it is    *)
(* the lock agent:<assignee> that keeps the count true, which CountInv says. *)
(*                                                                          *)
(* ClientHome.  What a command has read of the files may be stale when it    *)
(* writes them back; RowSound says what is still true of it, or that its     *)
(* caller is disturbed.                                                      *)
(*                                                                          *)
(* Setup.  CommandSound and CharacterSound say which step of the one command *)
(* still owes the vault, the config or a home what it has made.              *)
(*                                                                          *)
(* RoomPage.  CallOK and ScreenOK say which call in flight may still write   *)
(* to the page that is shown.                                                *)
(*                                                                          *)
(* CityRoute.  DiveOK and ExitOK say what the dive under way and the timer   *)
(* owe the address.                                                          *)
(*                                                                          *)
(* Listening.  Cursors of the server and of the file move before a page is   *)
(* printed; PlacesHad says that what is below them was printed, was lost     *)
(* with its page, or is on the page of a command that will print it.        *)
(*                                                                          *)
(* Ledger.  A command writes a whole copy back: CopiesKept says what the     *)
(* copies and the file have of the last hour, HourHolds that messages counted *)
(* and commands let pass stay within the limit and one command less, Lasts   *)
(* what a copy says of a session.                                           *)
EXTENDS Parts, Sequences, FiniteSetTheorems, WellFoundedInduction, TLAPS

(****************************************************************************)
(* What is counted                                                          *)
(****************************************************************************)
(* A part of a finite set has no more elements.                            *)
LEMMA Fewer ==
  ASSUME NEW S, IsFiniteSet(S), NEW T \in SUBSET S
  PROVE  IsFiniteSet(T) /\ Cardinality(T) \in Nat /\ Cardinality(S) \in Nat
         /\ Cardinality(T) <= Cardinality(S)
BY FS_Subset, FS_CardinalityType

(* One element makes it greater by at most one.                            *)
LEMMA OneMore ==
  ASSUME NEW S, IsFiniteSet(S), NEW x
  PROVE  IsFiniteSet(S \cup {x}) /\ Cardinality(S \cup {x}) <= Cardinality(S) + 1
<1>1. Cardinality(S) \in Nat
  BY FS_CardinalityType
<1>2. /\ IsFiniteSet(S \cup {x})
      /\ Cardinality(S \cup {x}) = IF x \in S THEN Cardinality(S) ELSE Cardinality(S) + 1
  BY FS_AddElement
<1> QED
  BY <1>1, <1>2

(* Two finite sets together have no more than both.                        *)
LEMMA JoinedCount ==
  ASSUME NEW S, IsFiniteSet(S), NEW T, IsFiniteSet(T)
  PROVE  /\ IsFiniteSet(S \cup T) /\ Cardinality(S \cup T) <= Cardinality(S) + Cardinality(T)
         /\ Cardinality(S \cup T) \in Nat
<1>1. /\ IsFiniteSet(S \cup T)
      /\ Cardinality(S \cup T) = Cardinality(S) + Cardinality(T) - Cardinality(S \cap T)
  BY FS_Union
<1>2. IsFiniteSet(S \cap T)
  BY FS_Subset
<1>3. /\ Cardinality(S) \in Nat /\ Cardinality(T) \in Nat /\ Cardinality(S \cap T) \in Nat
      /\ Cardinality(S \cup T) \in Nat
  BY <1>1, <1>2, FS_CardinalityType
<1> QED
  BY <1>1, <1>3

(* Of finitely many numbers one is the greatest.                           *)
LEMMA Greatest ==
  ASSUME NEW S \in SUBSET Int, IsFiniteSet(S), S # {}
  PROVE  \E m \in S : \A x \in S : x <= m
<1> DEFINE above(x) == {y \in S : y > x}
           N == {Cardinality(above(x)) : x \in S}
           smaller == OpToRel(<, Nat)
<1>1. \A x \in S : IsFiniteSet(above(x)) /\ Cardinality(above(x)) \in Nat
  BY Fewer
<1>2. N # {} /\ N \subseteq Nat
  BY <1>1
<1>3. PICK n \in N : \A k \in N : ~(<<k, n>> \in smaller)
  <2> HIDE DEF N, smaller
  <2> QED
    BY <1>2, NatLessThanWellFounded, WFMin DEF smaller
<1>4. \A k \in N : ~(k < n)
  BY <1>2, <1>3 DEF OpToRel
<1>5. PICK m \in S : n = Cardinality(above(m))
  BY <1>3
<1>6. ASSUME NEW x \in S, ~(x <= m)
      PROVE  FALSE
  <2>1. x \in Int /\ m \in Int /\ m < x /\ \A y \in S : y \in Int
    BY <1>6
  <2>2. \A y \in S : y > x => y > m
    BY <2>1
  <2>3. above(x) \subseteq above(m) /\ x \in above(m) /\ x \notin above(x)
    <3>1. above(x) \subseteq above(m)
      BY <2>2
    <3>2. x \in above(m)
      BY <2>1
    <3>3. x \notin above(x)
      BY <2>1
    <3> QED
      BY <3>1, <3>2, <3>3
  <2>4. Cardinality(above(x)) < Cardinality(above(m))
    <3>1. IsFiniteSet(above(m)) /\ above(x) \in SUBSET above(m) /\ above(x) # above(m)
      BY <1>1, <2>3
    <3>2. Cardinality(above(x)) <= Cardinality(above(m))
          /\ (Cardinality(above(m)) = Cardinality(above(x)) => above(m) = above(x))
      <4> HIDE DEF above
      <4> QED
        BY <3>1, FS_Subset
    <3>3. Cardinality(above(x)) \in Nat /\ Cardinality(above(m)) \in Nat
      BY <1>1
    <3> HIDE DEF above
    <3>4. Cardinality(above(x)) # Cardinality(above(m))
      BY <3>1, <3>2
    <3> QED
      BY <3>2, <3>3, <3>4
  <2> QED
    BY <1>4, <1>5, <2>4
<1> QED
  BY <1>6

(****************************************************************************)
(* Inbox                                                                    *)
(****************************************************************************)
Kinds ==
  /\ client \in {"resident", "participant"}
  /\ phase \in Phases

(* Numbers are taken once: an event that is still being written is none of *)
(* the committed ones.                                                     *)
Numbered ==
  /\ next \in Nat \ {0}
  /\ writing \cup Committed \subseteq 1..next - 1
  /\ writing \cap Committed = {}
  /\ queue \subseteq 1..next - 1

Positions ==
  /\ cursor \in Committed \cup {0}
  /\ ack \in Committed \cup {0}
  /\ checkpoint \in Committed \cup {0}

(* Retention deletes up to the checkpoint.                                 *)
DeletedBehind == \A e \in deleted : e <= checkpoint

Passed(e) == e <= cursor \/ e <= ack \/ e <= checkpoint
PassedAccounted == \A e \in Committed : Passed(e) => Accounted(e)

(* What the page that was read leaves out between the cursor and any of    *)
(* its events was overtaken or accounted for before.                       *)
PageWhole ==
  /\ page \subseteq Committed
  /\ phase = "save" =>
       \A e \in Committed, f \in page : e > cursor /\ e <= f => e \in page \/ Accounted(e)

Inv == Kinds /\ Numbered /\ Positions /\ DeletedBehind /\ PassedAccounted /\ PageWhole

-----------------------------------------------------------------------------
(* Lowest is closed downwards in the events it is taken from.              *)
LEMMA LowestClosed ==
  ASSUME NEW events, NEW bound \in Nat, events \subseteq 1..bound, NEW n \in Int,
         NEW e \in events, NEW f \in Lowest(events, n), e <= f
  PROVE  e \in Lowest(events, n)
<1> DEFINE below(x) == {g \in events : g < x}
<1>1. f \in events /\ Cardinality(below(f)) < n
  BY DEF Lowest
<1>2. below(e) \subseteq below(f)
  <2> SUFFICES ASSUME NEW g \in events, g < e
               PROVE  g < f
    OBVIOUS
  <2>1. e \in Int /\ f \in Int /\ g \in Int
    BY <1>1
  <2> QED BY <2>1
<1>3. IsFiniteSet(1..bound)
  BY FS_Interval
<1>4. IsFiniteSet(below(f))
  <2>1. below(f) \subseteq 1..bound
    OBVIOUS
  <2> QED BY <2>1, <1>3, FS_Subset
<1>5. Cardinality(below(e)) <= Cardinality(below(f)) /\ IsFiniteSet(below(e))
  BY <1>2, <1>4, FS_Subset
<1>6. Cardinality(below(e)) \in Nat /\ Cardinality(below(f)) \in Nat
  BY <1>4, <1>5, FS_CardinalityType
<1>7. Cardinality(below(e)) < n
  <2> HIDE DEF below
  <2> QED BY <1>1, <1>5, <1>6
<1> QED BY <1>7 DEF Lowest

LEMMA LowestWithin ==
  ASSUME NEW events, NEW n
  PROVE  Lowest(events, n) \subseteq events
BY DEF Lowest

LEMMA LimitType ==
  ASSUME Inv
  PROVE  Limit \in Int
<1>1. IsFiniteSet(1..next - 1)
  BY FS_Interval DEF Inv, Numbered
<1>2. queue \subseteq 1..next - 1
  BY DEF Inv, Numbered
<1>3. Cardinality(queue) \in Nat
  BY <1>1, <1>2, FS_Subset, FS_CardinalityType
<1> QED BY <1>3, InboxAssumption DEF Limit, Free

-----------------------------------------------------------------------------
LEMMA InitInv == Init => Inv
BY InboxAssumption DEF Init, Inv, Kinds, Numbered, Positions, DeletedBehind, PassedAccounted,
   Passed, PageWhole, Committed, Phases

(* A new event passes nobody: who is beyond it was there first.            *)
LEMMA CommitInv ==
  ASSUME Inv, NEW e \in Sequences, CommitEvent(e)
  PROVE  Inv'
<1> USE DEF CommitEvent, Inv
<1>1. Committed' = Committed \cup {e} /\ e \notin Committed /\ e \in 1..next - 1
  BY DEF Committed, Numbered
<1>2. UNCHANGED <<client, phase, page, cursor, ack, checkpoint, deleted, queue, next>>
  BY DEF local, run
<1>3. UNCHANGED <<skipped, received, presented, cut>>
  OBVIOUS
<1>4. overtaken \subseteq overtaken' /\ (\E f \in Committed : f > e) => e \in overtaken'
  OBVIOUS
<1>5. Kinds' /\ Numbered' /\ Positions' /\ DeletedBehind'
  <2>1. Kinds' /\ DeletedBehind'
    BY <1>2 DEF Kinds, DeletedBehind
  <2>2. Numbered'
    BY <1>1, <1>2 DEF Numbered
  <2> QED BY <1>1, <1>2, <2>1, <2>2 DEF Positions
<1>6. \A f : Accounted(f) => Accounted(f)'
  BY <1>2, <1>3, <1>4 DEF Accounted, InFlight
<1>7. ASSUME NEW p \in Committed \cup {0}, e <= p
      PROVE  Accounted(e)'
  <2>1. p \in Committed /\ p > e
    BY <1>1, <1>7 DEF Numbered
  <2> QED BY <2>1, <1>4 DEF Accounted
<1>8. PassedAccounted'
  <2> SUFFICES ASSUME NEW f \in Committed', Passed(f)'
               PROVE  Accounted(f)'
    BY DEF PassedAccounted
  <2>1. Passed(f)
    BY <1>2 DEF Passed
  <2>2. CASE f = e
    BY <2>1, <2>2, <1>7 DEF Passed, Positions
  <2>3. CASE f \in Committed
    BY <2>1, <2>3, <1>6 DEF PassedAccounted
  <2> QED BY <1>1, <2>2, <2>3
<1>9. PageWhole'
  <2>1. page' \subseteq Committed'
    BY <1>1, <1>2 DEF PageWhole
  <2>2. ASSUME phase' = "save", NEW g \in Committed', NEW f \in page', g > cursor', g <= f
        PROVE  g \in page' \/ Accounted(g)'
    <3>1. f \in Committed
      BY <1>2 DEF PageWhole
    <3>2. CASE g = e
      BY <3>1, <3>2, <2>2, <1>7
    <3>3. CASE g \in Committed
      BY <3>3, <2>2, <1>2, <1>6 DEF PageWhole
    <3> QED BY <1>1, <3>2, <3>3
  <2> QED BY <2>1, <2>2 DEF PageWhole
<1> QED BY <1>5, <1>8, <1>9

(* The other steps of the server and those of act keep what is accounted   *)
(* for, what has been passed and what is committed.                        *)
LEMMA ServerInv ==
  ASSUME Inv, Insert \/ \E e \in Sequences : RollbackEvent(e) \/ Prune(e)
  PROVE  Inv'
<1> USE DEF Inv
<1>1. UNCHANGED <<client, phase, page, cursor, ack, checkpoint, queue>>
      /\ UNCHANGED <<overtaken, skipped, received, presented, cut>>
  BY DEF Insert, RollbackEvent, Prune, local, run, history
<1>2. Committed' = Committed
  BY DEF Insert, RollbackEvent, Prune, Committed
<1>3. \A e : Accounted(e)' <=> Accounted(e)
  BY <1>1 DEF Accounted, InFlight
<1>4. Kinds' /\ Positions' /\ PassedAccounted' /\ PageWhole'
  BY <1>1, <1>2, <1>3 DEF Kinds, Positions, PassedAccounted, Passed, PageWhole
<1>5. Numbered'
  <2>1. CASE Insert
    <3>1. next' = next + 1 /\ writing' = writing \cup {next}
      BY <2>1 DEF Insert
    <3> QED BY <3>1, <1>1, <1>2 DEF Numbered
  <2>2. CASE \E e \in Sequences : RollbackEvent(e) \/ Prune(e)
    <3>1. next' = next /\ writing' \subseteq writing
      BY <2>2 DEF RollbackEvent, Prune
    <3> QED BY <3>1, <1>1, <1>2 DEF Numbered
  <2> QED BY <2>1, <2>2
<1>6. DeletedBehind'
  BY <1>1 DEF DeletedBehind, Insert, RollbackEvent, Prune
<1> QED BY <1>4, <1>5, <1>6

LEMMA ActInv ==
  ASSUME Inv, Act
  PROVE  Inv'
<1> USE DEF Inv
<1>1. UNCHANGED <<client, page, checkpoint, next, writing, inbox, deleted>>
      /\ UNCHANGED <<overtaken, skipped, received, presented, cut>>
  BY DEF Act, Reserve, Dispose, Retain, Status, NewExperiment, server, run, history
<1>2. /\ phase = "idle" /\ phase' \in {"idle", "show"}
      /\ client = "resident"
      /\ queue' \subseteq queue
      /\ cursor' \in {cursor, 0} /\ ack' \in {ack, 0}
  BY DEF Act, Reserve, Dispose, Retain, Status, NewExperiment, local, run
<1>3. Committed' = Committed
  BY <1>1 DEF Committed
<1>4. \A e : Accounted(e)' <=> Accounted(e)
  BY <1>1, <1>2 DEF Accounted
<1>5. Kinds' /\ Positions' /\ DeletedBehind' /\ PageWhole'
  BY <1>1, <1>2, <1>3 DEF Kinds, Phases, Positions, DeletedBehind, PageWhole
<1>6. Numbered'
  BY <1>1, <1>2, <1>3 DEF Numbered
<1>7. PassedAccounted'
  <2> SUFFICES ASSUME NEW e \in Committed, Passed(e)'
               PROVE  Accounted(e)
    BY <1>3, <1>4 DEF PassedAccounted
  <2>1. e >= 1
    BY DEF Numbered
  <2>2. Passed(e)
    BY <1>1, <1>2, <2>1 DEF Passed, Numbered
  <2> QED BY <2>2 DEF PassedAccounted
<1> QED BY <1>5, <1>6, <1>7

-----------------------------------------------------------------------------
(* Reading and saving a page.                                              *)
LEMMA FetchInv ==
  ASSUME Inv, Fetch
  PROVE  Inv'
<1> USE DEF Inv
<1>1. UNCHANGED <<client, cursor, ack, checkpoint, next, writing, inbox, deleted, queue>>
      /\ UNCHANGED <<overtaken, skipped, received, presented, cut>>
      /\ phase = "fetch"
  BY DEF Fetch, server, local, history
<1>2. Committed' = Committed
  BY <1>1 DEF Committed
<1>3. \A e : Accounted(e) => Accounted(e)'
  BY <1>1 DEF Accounted, InFlight
<1>4. Kinds' /\ Numbered' /\ Positions' /\ DeletedBehind' /\ PassedAccounted'
  BY <1>1, <1>2, <1>3
     DEF Fetch, Kinds, Phases, Numbered, Positions, DeletedBehind, PassedAccounted, Passed
<1>5. CASE phase' = "show" /\ page' = page
  BY <1>4, <1>5, <1>2 DEF PageWhole
<1>6. CASE page' = Lowest(AfterCursor, Limit)
  <2>1. AfterCursor \subseteq 1..next - 1 /\ next - 1 \in Nat /\ AfterCursor \subseteq inbox
    BY DEF AfterCursor, Numbered, Committed
  <2>2. page' \subseteq AfterCursor
    BY <1>6, LowestWithin
  <2>3. ASSUME NEW e \in Committed, NEW f \in page', e > cursor, e <= f
        PROVE  e \in page' \/ Accounted(e)
    <3>1. CASE e \in inbox
      <4>1. e \in AfterCursor
        BY <3>1, <2>3 DEF AfterCursor
      <4>2. Limit \in Int
        BY LimitType
      <4> QED BY <4>1, <4>2, <2>1, <1>6, <2>3, LowestClosed
    <3>2. CASE e \in deleted
      BY <3>2 DEF DeletedBehind, PassedAccounted, Passed
    <3> QED BY <3>1, <3>2 DEF Committed
  <2>4. PageWhole'
    BY <1>1, <1>2, <1>3, <2>1, <2>2, <2>3 DEF PageWhole, Committed
  <2> QED BY <1>4, <2>4
<1> QED BY <1>5, <1>6 DEF Fetch

(* The page is accounted for by the step that moves the cursor over it.    *)
LEMMA SaveInv ==
  ASSUME Inv, Save
  PROVE  Inv'
<1> USE DEF Inv
<1>1. UNCHANGED <<client, checkpoint, next, writing, inbox, deleted, page>>
      /\ UNCHANGED <<overtaken, skipped, presented, cut>>
      /\ phase = "save" /\ phase' \in {"show", "ack"}
  BY DEF Save, server
<1>2. Committed' = Committed
  BY <1>1 DEF Committed
<1>3. \A e : Accounted(e) \/ e \in page => Accounted(e)'
  BY <1>1 DEF Accounted, InFlight, Save, Kinds
<1>4. PICK last \in page \cup {cursor} :
        /\ IF page = {} THEN last = cursor ELSE IsLast(last, page)
        /\ cursor' = last
        /\ ack' = IF client = "participant" \/ page # {} THEN last ELSE ack
  BY DEF Save
<1>5. last \in Committed \cup {0} /\ ack' \in {ack, last}
  BY <1>4 DEF PageWhole, Positions
<1>6. Kinds' /\ DeletedBehind' /\ Positions' /\ PageWhole'
  BY <1>1, <1>2, <1>4, <1>5 DEF Kinds, Phases, DeletedBehind, Positions, PageWhole
<1>7. Numbered'
  <2>1. queue' \subseteq queue \cup page
    BY DEF Save
  <2> QED BY <2>1, <1>1, <1>2 DEF Numbered, PageWhole
<1>8. ASSUME NEW e \in Committed, e <= last
      PROVE  Accounted(e) \/ e \in page
  <2>1. CASE e <= cursor
    BY <2>1 DEF PassedAccounted, Passed
  <2>2. CASE ~(e <= cursor)
    <3>1. last \in page /\ e > cursor
      BY <2>2, <1>4, <1>8 DEF Numbered, Positions
    <3> QED BY <3>1, <1>1, <1>8 DEF PageWhole
  <2> QED BY <2>1, <2>2
<1>9. PassedAccounted'
  <2> SUFFICES ASSUME NEW e \in Committed, Passed(e)'
               PROVE  Accounted(e) \/ e \in page
    BY <1>2, <1>3 DEF PassedAccounted
  <2>1. CASE e <= last
    BY <2>1, <1>8
  <2>2. CASE ~(e <= last)
    BY <2>2, <1>1, <1>4, <1>5 DEF PassedAccounted, Passed
  <2> QED BY <2>1, <2>2
<1> QED BY <1>6, <1>7, <1>9

LEMMA BeginInv ==
  ASSUME Inv, Begin
  PROVE  Inv'
<1> USE DEF Inv
<1>1. UNCHANGED <<client, checkpoint, ack, next, writing, inbox, deleted, page, phase, queue>>
      /\ UNCHANGED <<overtaken, received, cut>>
      /\ phase = "idle" /\ client = "participant"
  BY DEF Begin, server, run
<1>2. Committed' = Committed
  BY <1>1 DEF Committed
<1>3. PICK last \in inbox \cup {0} :
        /\ IF inbox = {} THEN last = 0 ELSE IsLast(last, inbox)
        /\ cursor' = last
        /\ presented' = presented \cup {e \in inbox : e + Recent > last}
        /\ skipped' = skipped \cup {e \in inbox : e + Recent <= last}
  BY DEF Begin
<1>4. \A e : Accounted(e) => Accounted(e)'
  BY <1>1, <1>3 DEF Accounted, InFlight
<1>5. \A e \in inbox : Accounted(e)'
  <2> SUFFICES ASSUME NEW e \in inbox
               PROVE  e + Recent > last \/ e + Recent <= last
    BY <1>1, <1>3 DEF Accounted
  <2>1. e \in Nat /\ last \in Nat
    BY DEF Numbered, Committed
  <2> QED BY <2>1, InboxAssumption
<1>6. Kinds' /\ Numbered' /\ Positions' /\ DeletedBehind' /\ PageWhole'
  BY <1>1, <1>2, <1>3 DEF Kinds, Numbered, Positions, DeletedBehind, PageWhole, Committed
<1>7. PassedAccounted'
  <2> SUFFICES ASSUME NEW e \in deleted
               PROVE  Accounted(e)'
    BY <1>2, <1>5 DEF PassedAccounted, Committed
  <2>1. e \in Committed /\ Passed(e)
    BY DEF Committed, DeletedBehind, Passed
  <2> QED BY <2>1, <1>4 DEF PassedAccounted
<1> QED BY <1>6, <1>7

(* The other steps of a command: the acknowledgement sends a cursor that   *)
(* was saved, and what is in flight is printed or cut.                     *)
LEMMA CommandInv ==
  ASSUME Inv, Start \/ Acknowledge \/ AcknowledgeLost \/ Settle \/ Show \/ Die
  PROVE  Inv'
<1> USE DEF Inv
<1>1. UNCHANGED <<client, cursor, next, writing, inbox, deleted, queue>>
      /\ UNCHANGED <<overtaken, skipped, received>>
  BY DEF Start, Acknowledge, AcknowledgeLost, Settle, Show, Die, server, local, history
<1>2. /\ checkpoint' \in {checkpoint, ack} /\ checkpoint' >= checkpoint
      /\ ack' \in {ack, 0}
      /\ phase' # "save"
  BY DEF Start, Acknowledge, AcknowledgeLost, Settle, Show, Die, server, local, Positions,
     Numbered
<1>3. page' \in {page, {}}
  BY DEF Start, Acknowledge, AcknowledgeLost, Settle, Show, Die
<1>4. Committed' = Committed
  BY <1>1 DEF Committed
<1>5. Kinds'
  BY <1>1 DEF Kinds, Phases, Start, Acknowledge, AcknowledgeLost, Settle, Show, Die
<1>6. Numbered' /\ Positions' /\ PageWhole'
  BY <1>1, <1>2, <1>3, <1>4 DEF Numbered, Positions, PageWhole
<1>7. DeletedBehind'
  <2> SUFFICES ASSUME NEW e \in deleted
               PROVE  e <= checkpoint'
    BY <1>1 DEF DeletedBehind
  <2>1. e <= checkpoint /\ e \in Nat /\ checkpoint \in Nat /\ checkpoint' \in Nat
    BY <1>2 DEF DeletedBehind, Numbered, Committed, Positions
  <2> QED BY <2>1, <1>2
<1>8. \A e : Accounted(e) => Accounted(e)'
  <2>1. CASE Start \/ Acknowledge \/ AcknowledgeLost \/ Settle
    <3>1. UNCHANGED <<presented, cut, page>> /\ InFlight \subseteq InFlight'
      BY <2>1 DEF Start, Acknowledge, AcknowledgeLost, Settle, history, InFlight
    <3> QED BY <3>1, <1>1 DEF Accounted
  <2>2. CASE Show \/ Die
    <3>1. client = "participant" => InFlight \subseteq presented' \cup cut'
      BY <2>2 DEF Show, Die, InFlight, Output
    <3>2. presented \subseteq presented' /\ cut \subseteq cut'
      BY <2>2 DEF Show, Die
    <3> QED BY <3>1, <3>2, <1>1 DEF Accounted
  <2> QED BY <2>1, <2>2
<1>9. PassedAccounted'
  <2> SUFFICES ASSUME NEW e \in Committed, Passed(e)'
               PROVE  Passed(e)
    BY <1>4, <1>8 DEF PassedAccounted
  <2>1. e >= 1
    BY DEF Numbered
  <2> QED BY <2>1, <1>1, <1>2 DEF Passed, Numbered
<1> QED BY <1>5, <1>6, <1>7, <1>9

LEMMA NextInv == Inv /\ [Next]_vars => Inv'
<1> SUFFICES ASSUME Inv, [Next]_vars
             PROVE  Inv'
  OBVIOUS
<1>1. CASE Server
  BY <1>1, CommitInv, ServerInv DEF Server
<1>2. CASE Read
  BY <1>2, FetchInv, SaveInv, BeginInv, CommandInv DEF Read
<1>3. CASE Act
  BY <1>3, ActInv
<1>4. CASE UNCHANGED vars
  BY <1>4 DEF vars, server, local, run, history, Inv, Kinds, Numbered, Positions, DeletedBehind,
     PassedAccounted, Passed, PageWhole, Accounted, InFlight, Committed
<1> QED BY <1>1, <1>2, <1>3, <1>4 DEF Next

(* Whatever the sizes of pages, queue and snapshots, and wherever commands *)
(* die, an event that is below the reader's cursor or the checkpoint, or   *)
(* that retention deleted, was saved in the resident's queue; a            *)
(* participant's was printed, cut, skipped or is in flight.                *)
THEOREM NothingLostCorrect == Spec => []NothingLost
<1>1. Inv => NothingLost
  BY DEF Inv, NothingLost, DeletedBehind, PassedAccounted, Passed
<1> QED BY <1>1, InitInv, NextInv, PTL DEF Spec

-----------------------------------------------------------------------------
(* The resident's queue is behind the cursor and a page that was read is   *)
(* ahead of it, so that what was disposed of cannot come back; when no     *)
(* command runs, the next snapshot has been shown.                         *)
QueueBehind ==
  /\ \A e \in queue \cup handled : e <= cursor
  /\ phase = "save" => \A e \in page : e > cursor
  /\ intent \subseteq queue

ShownFirst ==
  /\ client = "resident" /\ phase = "idle" => Lowest(queue, Batch) \subseteq presented \cup cut
  /\ intent \cup handled \subseteq presented \cup cut

HandledInv ==
  /\ queue \cup handled \subseteq Nat
  /\ client = "participant" => queue = {} /\ handled = {}
  /\ QueueBehind /\ ShownFirst /\ DisposedOnce

LEMMA InitHandled == Init => HandledInv
BY DEF Init, HandledInv, QueueBehind, ShownFirst, DisposedOnce, Lowest

(* Saving a page: all of it lies beyond what was queued or disposed of.    *)
LEMMA SaveHandled ==
  ASSUME Inv, HandledInv, Save
  PROVE  HandledInv'
<1>1. UNCHANGED <<client, handled, presented, cut, intent, page>>
      /\ phase = "save" /\ phase' \in {"show", "ack"}
  BY DEF Save
<1>2. page \subseteq Nat \ {0} /\ cursor \in Nat
  BY DEF Inv, PageWhole, Numbered, Positions
<1>3. PICK last \in page \cup {cursor} :
        /\ IF page = {} THEN last = cursor ELSE IsLast(last, page)
        /\ cursor' = last
  BY DEF Save
<1>4. cursor' \in Nat /\ cursor <= cursor' /\ \A e \in page : e <= cursor'
  BY <1>1, <1>2, <1>3 DEF IsLast, HandledInv, QueueBehind
<1>5. queue' \in {queue, queue \cup page}
  BY DEF Save
<1>6. QueueBehind'
  <2>1. \A e \in queue' \cup handled' : e <= cursor'
    <3> SUFFICES ASSUME NEW e \in queue \cup handled \cup page
                 PROVE  e <= cursor'
      BY <1>1, <1>5
    <3>1. CASE e \in page
      BY <3>1, <1>4
    <3>2. CASE e \in queue \cup handled
      <4>1. e \in Nat /\ e <= cursor
        BY <3>2 DEF HandledInv, QueueBehind
      <4> QED BY <4>1, <1>2, <1>4
    <3> QED BY <3>1, <3>2
  <2> QED BY <2>1, <1>1, <1>5 DEF HandledInv, QueueBehind
<1>7. \A e \in handled : e \notin page
  <2> SUFFICES ASSUME NEW e \in handled, e \in page
               PROVE  FALSE
    OBVIOUS
  <2>1. e <= cursor /\ e > cursor /\ e \in Nat
    BY <1>1 DEF HandledInv, QueueBehind
  <2> QED BY <2>1, <1>2
<1>8. DisposedOnce'
  BY <1>1, <1>5, <1>7 DEF HandledInv, DisposedOnce
<1>9. ShownFirst' /\ queue' \cup handled' \subseteq Nat
  BY <1>1, <1>2, <1>5 DEF HandledInv, ShownFirst
<1>10. client' = "participant" => queue' = {} /\ handled' = {}
  BY <1>1 DEF Save, HandledInv
<1> QED BY <1>6, <1>8, <1>9, <1>10 DEF HandledInv

(* The other steps of a command leave the queue alone, and those that end  *)
(* it have shown the snapshot or cut it.                                   *)
LEMMA ReadHandled ==
  ASSUME Inv, HandledInv,
         Start \/ Fetch \/ Acknowledge \/ AcknowledgeLost \/ Settle \/ Show \/ Die \/ Begin
  PROVE  HandledInv'
<1>1. UNCHANGED <<client, queue, handled, intent>>
  BY DEF Start, Fetch, Acknowledge, AcknowledgeLost, Settle, Show, Die, Begin, local, history
<1>2. presented \cup cut \subseteq presented' \cup cut'
  BY DEF Start, Fetch, Acknowledge, AcknowledgeLost, Settle, Show, Die, Begin, history
<1>3. DisposedOnce' /\ queue' \cup handled' \subseteq Nat
      /\ (client' = "participant" => queue' = {} /\ handled' = {})
  BY <1>1 DEF HandledInv, DisposedOnce
<1>4. QueueBehind'
  <2>1. \A e \in queue' \cup handled' : e <= cursor'
    <3>1. CASE Begin
      BY <3>1, <1>1 DEF Begin, HandledInv
    <3>2. CASE ~Begin
      <4>1. cursor' = cursor
        BY <3>2 DEF Start, Fetch, Acknowledge, AcknowledgeLost, Settle, Show, Die, local
      <4> QED BY <4>1, <1>1 DEF HandledInv, QueueBehind
    <3> QED BY <3>1, <3>2
  <2>2. ASSUME phase' = "save", NEW e \in page'  PROVE e > cursor'
    <3>1. Fetch /\ page' = Lowest(AfterCursor, Limit)
      BY <2>2, <1>1
         DEF Start, Fetch, Acknowledge, AcknowledgeLost, Settle, Show, Die, Begin, run
    <3>2. e \in AfterCursor
      BY <3>1, <2>2, LowestWithin
    <3> QED BY <3>1, <3>2 DEF Fetch, AfterCursor, local
  <2> QED BY <2>1, <2>2, <1>1 DEF HandledInv, QueueBehind
<1>5. ShownFirst'
  <2>1. ASSUME client' = "resident", phase' = "idle"
        PROVE  Lowest(queue, Batch) \subseteq presented' \cup cut'
    BY <2>1, <1>1
       DEF Start, Fetch, Acknowledge, AcknowledgeLost, Settle, Show, Die, Begin, Output
  <2> QED BY <2>1, <1>1, <1>2 DEF HandledInv, ShownFirst
<1> QED BY <1>3, <1>4, <1>5 DEF HandledInv

(* What is reserved has been shown, and what is disposed of was reserved.  *)
LEMMA ActHandled ==
  ASSUME Inv, HandledInv, Act
  PROVE  HandledInv'
<1>1. UNCHANGED <<client, page, presented, cut>> /\ client = "resident" /\ phase = "idle"
  BY DEF Act, Reserve, Dispose, Retain, Status, NewExperiment, run, history
<1>2. CASE Reserve
  <2>1. UNCHANGED <<queue, handled, cursor, phase>> /\ intent' = Lowest(queue, Batch)
    BY <1>2 DEF Reserve, run, history
  <2>2. intent' \subseteq queue
    BY <2>1, LowestWithin
  <2>3. QueueBehind' /\ DisposedOnce'
    BY <1>1, <2>1, <2>2 DEF HandledInv, QueueBehind, DisposedOnce
  <2>4. ShownFirst'
    BY <1>1, <2>1 DEF HandledInv, ShownFirst
  <2> QED BY <1>1, <2>1, <2>3, <2>4 DEF HandledInv
<1>3. CASE Dispose
  <2>1. /\ queue' = queue \ intent /\ handled' = handled \cup intent /\ intent' = {}
        /\ cursor' = cursor /\ phase' = "show"
    BY <1>3 DEF Dispose
  <2>2. QueueBehind' /\ DisposedOnce'
    BY <2>1 DEF HandledInv, QueueBehind, DisposedOnce
  <2>3. ShownFirst'
    BY <1>1, <2>1 DEF HandledInv, ShownFirst
  <2>4. queue' \cup handled' \subseteq Nat
    BY <2>1 DEF HandledInv, QueueBehind
  <2> QED BY <1>1, <2>2, <2>3, <2>4 DEF HandledInv
<1>4. CASE Retain \/ Status
  <2>1. UNCHANGED <<queue, handled, cursor>> /\ intent' \in {intent, {}} /\ phase' = "show"
    BY <1>4 DEF Retain, Status, local, history
  <2>2. QueueBehind' /\ DisposedOnce' /\ ShownFirst'
    BY <1>1, <2>1 DEF HandledInv, QueueBehind, DisposedOnce, ShownFirst
  <2> QED BY <1>1, <2>1, <2>2 DEF HandledInv
<1>5. CASE NewExperiment
  <2>1. queue' = {} /\ handled' = {} /\ intent' = {} /\ phase' = "idle"
    BY <1>1, <1>5 DEF NewExperiment, run
  <2> QED BY <1>1, <2>1 DEF HandledInv, QueueBehind, DisposedOnce, ShownFirst, Lowest
<1> QED BY <1>2, <1>3, <1>4, <1>5 DEF Act

LEMMA NextHandled == Inv /\ HandledInv /\ [Next]_vars => HandledInv'
<1> SUFFICES ASSUME Inv, HandledInv, [Next]_vars
             PROVE  HandledInv'
  OBVIOUS
<1>1. CASE Server \/ UNCHANGED vars
  <2>1. UNCHANGED <<client, local, run, presented, cut, handled>>
    BY <1>1 DEF Server, Insert, CommitEvent, RollbackEvent, Prune, vars, history
  <2> QED BY <2>1 DEF local, run, HandledInv, QueueBehind, ShownFirst, DisposedOnce
<1>2. CASE Read
  BY <1>2, SaveHandled, ReadHandled DEF Read
<1>3. CASE Act
  BY <1>3, ActHandled
<1> QED BY <1>1, <1>2, <1>3 DEF Next

(* An action of the resident disposes only of events that were shown to    *)
(* its agent, or cut off while they were about to be, and none comes back  *)
(* to the queue in the same experiment, wherever commands die.             *)
THEOREM HandledOnceCorrect == Spec => []HandledOnce
<1>1. HandledInv => HandledOnce
  BY DEF HandledInv, HandledOnce, HandledWereShown, ShownFirst
<1> QED BY <1>1, InitInv, NextInv, InitHandled, NextHandled, PTL DEF Spec

-----------------------------------------------------------------------------
(* The n lowest are no more than n: below the greatest of them are fewer.    *)
LEMMA LowestFew ==
  ASSUME NEW events, NEW bound \in Nat, events \subseteq 1..bound, NEW n \in Nat
  PROVE  IsFiniteSet(Lowest(events, n)) /\ Cardinality(Lowest(events, n)) <= n
<1> DEFINE low == Lowest(events, n)
           below(x) == {g \in events : g < x}
<1>1. IsFiniteSet(events) /\ low \in SUBSET events
  <2>1. IsFiniteSet(1..bound)
    BY FS_Interval
  <2> QED
    BY <2>1, FS_Subset, LowestWithin
<1>2. IsFiniteSet(low) /\ Cardinality(low) \in Nat
  <2> HIDE DEF low
  <2> QED
    BY <1>1, FS_Subset, FS_CardinalityType
<1>3. CASE low = {}
  BY <1>2, <1>3, FS_EmptySet
<1>4. CASE low # {}
  <2>1. low \in SUBSET Int
    <3>1. 1..bound \subseteq Int
      OBVIOUS
    <3> HIDE DEF low
    <3> QED
      BY <1>1, <3>1
  <2>2. PICK m \in low : \A x \in low : x <= m
    <3> HIDE DEF low
    <3> QED
      BY <1>2, <1>4, <2>1, Greatest
  <2>3. Cardinality(below(m)) < n
    BY DEF Lowest
  <2>4. below(m) \in SUBSET events
    OBVIOUS
  <2>5. IsFiniteSet(below(m)) /\ Cardinality(below(m)) \in Nat
    <3> HIDE DEF below
    <3> QED
      BY <1>1, <2>4, FS_Subset, FS_CardinalityType
  <2>6. low \in SUBSET (below(m) \cup {m})
    <3> SUFFICES ASSUME NEW x \in low, x # m PROVE x < m
      BY <1>1
    <3>1. x <= m /\ x \in Int /\ m \in Int
      BY <2>1, <2>2
    <3> QED
      BY <3>1
  <2> HIDE DEF below, low
  <2>7. /\ IsFiniteSet(below(m) \cup {m})
        /\ Cardinality(below(m) \cup {m}) <= Cardinality(below(m)) + 1
    BY <2>5, OneMore
  <2>8. /\ Cardinality(low) <= Cardinality(below(m) \cup {m})
        /\ Cardinality(below(m) \cup {m}) \in Nat
    BY <2>6, <2>7, FS_Subset, FS_CardinalityType
  <2>9. Cardinality(low) <= n
    BY <1>2, <2>3, <2>5, <2>7, <2>8
  <2> QED
    BY <1>2, <2>9 DEF low
<1> QED
  BY <1>3, <1>4

(* The queue and the page a resident is about to save keep to the capacity.   *)
QueueFits ==
  /\ client = "participant" => queue = {}
  /\ IsFiniteSet(queue) /\ Cardinality(queue) <= Capacity
  /\ client = "resident" /\ phase = "save" => Cardinality(queue) + Cardinality(page) <= Capacity
FitsInv ==
  /\ client \in Clients /\ next \in 1..MaxSequence + 1 /\ experiment \in 1..MaxExperiments
  /\ intent \subseteq queue /\ QueueFits
  /\ \A h \in {overtaken, skipped, received, presented, cut, handled} : h \subseteq Sequences

LEMMA Sizes ==
  ASSUME Inv, FitsInv
  PROVE  /\ IsFiniteSet(queue) /\ Cardinality(queue) \in Nat /\ IsFiniteSet(page) /\ Cardinality(page) \in Nat
         /\ queue \subseteq Sequences /\ Committed \subseteq Sequences /\ page \subseteq Sequences
         /\ inbox \subseteq Sequences /\ Output \subseteq Sequences
         /\ Capacity \in Nat \ {0} /\ PageLimit \in Nat \ {0} /\ next \in Nat /\ next - 1 \in Nat
<1>1. next \in Nat \ {0} /\ next <= MaxSequence + 1 /\ MaxSequence \in Nat
  BY InboxAssumption DEF Inv, Numbered, FitsInv
<1>2. 1..next - 1 \subseteq Sequences /\ next - 1 \in Nat
  BY <1>1 DEF Sequences
<1>3. queue \subseteq 1..next - 1 /\ Committed \subseteq 1..next - 1 /\ page \subseteq 1..next - 1
  BY DEF Inv, Numbered, PageWhole
<1>4. IsFiniteSet(1..next - 1)
  BY <1>2, FS_Interval
<1>5. IsFiniteSet(queue) /\ IsFiniteSet(page)
  BY <1>3, <1>4, FS_Subset
<1>6. inbox \subseteq Committed /\ Output \subseteq queue \cup page
  BY LowestWithin DEF Committed, Output
<1> QED
  BY <1>1, <1>2, <1>3, <1>5, <1>6, FS_CardinalityType, InboxAssumption

LEMMA InitFits == Init => FitsInv
<1> SUFFICES ASSUME Init PROVE FitsInv
  OBVIOUS
<1>1. IsFiniteSet({}) /\ Cardinality({}) = 0
  BY FS_EmptySet
<1>2. QueueFits
  BY <1>1, InboxAssumption DEF Init, QueueFits
<1> QED
  BY <1>2, InboxAssumption DEF Init, FitsInv

LEMMA FetchFits == Inv /\ FitsInv /\ Fetch => FitsInv'
<1> SUFFICES ASSUME Inv, FitsInv, Fetch PROVE FitsInv'
  OBVIOUS
<1>1. /\ UNCHANGED <<client, next, cursor, queue, ack, intent, experiment>>
      /\ UNCHANGED <<overtaken, skipped, received, presented, cut, handled>>
  BY DEF Fetch, server, local, history
<1>2. CASE client = "resident" /\ Cardinality(queue) < Capacity /\ phase' = "save"
  <2>1. page' = Lowest(AfterCursor, Limit)
    BY <1>2, Sizes DEF Fetch
  <2>2. Limit \in Nat /\ Limit + Cardinality(queue) <= Capacity
    BY <1>2, Sizes DEF Limit, Free
  <2>3. AfterCursor \subseteq 1..next - 1 /\ next - 1 \in Nat
    BY Sizes DEF Inv, Numbered, Committed, AfterCursor
  <2>4. IsFiniteSet(page') /\ Cardinality(page') <= Limit
    BY <2>1, <2>2, <2>3, LowestFew
  <2>5. Cardinality(page') \in Nat /\ Cardinality(queue) \in Nat /\ Capacity \in Nat
    BY <2>4, Sizes, FS_CardinalityType
  <2>6. Cardinality(queue) + Cardinality(page') <= Capacity
    BY <2>2, <2>4, <2>5
  <2> QED
    BY <1>1, <2>6 DEF FitsInv, QueueFits
<1>3. CASE ~(client = "resident" /\ phase' = "save")
  BY <1>1, <1>3 DEF FitsInv, QueueFits
<1>4. client = "resident" /\ phase' = "save" => Cardinality(queue) < Capacity
  BY Sizes DEF Fetch
<1> QED
  BY <1>2, <1>3, <1>4

LEMMA SaveFits == Inv /\ FitsInv /\ Save => FitsInv'
<1> SUFFICES ASSUME Inv, FitsInv, Save PROVE FitsInv'
  OBVIOUS
<1>1. /\ UNCHANGED <<client, next, intent, experiment, page>>
      /\ UNCHANGED <<overtaken, skipped, presented, cut, handled>>
      /\ phase = "save" /\ phase' \in {"show", "ack"}
  BY DEF Save, server
<1>2. CASE client = "resident"
  <2>1. queue' = queue \cup page /\ received' = received \cup page
    BY <1>2 DEF Save
  <2>2. /\ IsFiniteSet(queue \cup page) /\ Cardinality(queue \cup page) \in Nat
        /\ Cardinality(queue \cup page) <= Cardinality(queue) + Cardinality(page)
    BY Sizes, JoinedCount
  <2>3. Cardinality(queue) + Cardinality(page) <= Capacity
    BY <1>1, <1>2 DEF FitsInv, QueueFits
  <2>4. Cardinality(queue') <= Capacity
    BY <2>1, <2>2, <2>3, Sizes
  <2>5. QueueFits'
    BY <1>1, <1>2, <2>1, <2>2, <2>4 DEF QueueFits
  <2> QED
    BY <1>1, <2>1, <2>5, Sizes DEF FitsInv
<1>3. CASE client # "resident"
  <2>1. UNCHANGED <<queue, received>>
    BY <1>3 DEF Save
  <2> QED
    BY <1>1, <1>3, <2>1 DEF FitsInv, QueueFits
<1> QED
  BY <1>2, <1>3

LEMMA ServerFits == Inv /\ FitsInv /\ Server => FitsInv'
<1> SUFFICES ASSUME Inv, FitsInv, Server PROVE FitsInv'
  OBVIOUS
<1>1. /\ UNCHANGED <<client, phase, page, queue, intent, experiment>>
      /\ UNCHANGED <<skipped, received, presented, cut, handled>>
  BY DEF Server, Insert, CommitEvent, RollbackEvent, Prune, local, run, history
<1>2. next' \in 1..MaxSequence + 1
  BY InboxAssumption DEF Server, Insert, CommitEvent, RollbackEvent, Prune, server, Sequences, FitsInv
<1>3. overtaken' \subseteq Sequences
  BY DEF Server, Insert, CommitEvent, RollbackEvent, Prune, history, FitsInv
<1> QED
  BY <1>1, <1>2, <1>3 DEF FitsInv, QueueFits

LEMMA CommandFits ==
  Inv /\ FitsInv /\ (Start \/ Acknowledge \/ AcknowledgeLost \/ Settle \/ Show \/ Die \/ Begin) => FitsInv'
<1> SUFFICES ASSUME Inv, FitsInv, Start \/ Acknowledge \/ AcknowledgeLost \/ Settle \/ Show \/ Die \/ Begin
             PROVE  FitsInv'
  OBVIOUS
<1>1. UNCHANGED <<client, next, queue, intent, experiment, overtaken, received, handled>>
  BY DEF Start, Acknowledge, AcknowledgeLost, Settle, Show, Die, Begin, server, local, history
<1>2. phase' # "save" \/ UNCHANGED <<phase, page>>
  BY DEF Start, Acknowledge, AcknowledgeLost, Settle, Show, Die, Begin, run
<1>3. presented' \subseteq Sequences /\ cut' \subseteq Sequences /\ skipped' \subseteq Sequences
  BY Sizes DEF Start, Acknowledge, AcknowledgeLost, Settle, Show, Die, Begin, history, FitsInv
<1>4. QueueFits'
  BY <1>1, <1>2 DEF FitsInv, QueueFits
<1> QED
  BY <1>1, <1>3, <1>4 DEF FitsInv

LEMMA ActFits == Inv /\ FitsInv /\ Act => FitsInv'
<1> SUFFICES ASSUME Inv, FitsInv, Act PROVE FitsInv'
  OBVIOUS
<1>1. UNCHANGED <<client, next, page, overtaken, skipped, received, presented, cut>>
  BY DEF Act, Reserve, Dispose, Retain, Status, NewExperiment, server, run, history
<1>2. phase' # "save"
  BY DEF Act, Reserve, Dispose, Retain, Status, NewExperiment, run
<1>3. queue' \in SUBSET queue /\ (client = "participant" => UNCHANGED queue)
  BY DEF Act, Reserve, Dispose, Retain, Status, NewExperiment, local, FitsInv, QueueFits
<1>4. IsFiniteSet(queue') /\ Cardinality(queue') <= Capacity
  <2>1. /\ IsFiniteSet(queue') /\ Cardinality(queue') <= Cardinality(queue) /\ Cardinality(queue') \in Nat
    BY <1>3, Sizes, FS_Subset, FS_CardinalityType
  <2> QED
    BY <2>1, Sizes DEF FitsInv, QueueFits
<1>5. intent' \subseteq queue' /\ handled' \subseteq Sequences
  BY Sizes, LowestWithin DEF Act, Reserve, Dispose, Retain, Status, NewExperiment, local, history, FitsInv
<1>6. experiment' \in 1..MaxExperiments
  BY InboxAssumption DEF Act, Reserve, Dispose, Retain, Status, NewExperiment, local, FitsInv
<1>7. QueueFits'
  BY <1>1, <1>2, <1>3, <1>4 DEF FitsInv, QueueFits
<1> QED
  BY <1>1, <1>5, <1>6, <1>7 DEF FitsInv

(* An observe asks the server for no more than still fits, so that the      *)
(* resident's queue keeps to its capacity (resident-runtime.js).            *)
THEOREM InboxTypeCorrect == Spec => []TypeOK
<1>1. Inv /\ FitsInv /\ [Next]_vars => FitsInv'
  <2> SUFFICES ASSUME Inv, FitsInv, [Next]_vars PROVE FitsInv'
    OBVIOUS
  <2>1. CASE UNCHANGED vars
    BY <2>1 DEF vars, server, local, run, history, FitsInv, QueueFits
  <2> QED
    BY <2>1, FetchFits, SaveFits, ServerFits, CommandFits, ActFits DEF Next, Read
<1>2. Inv /\ FitsInv => TypeOK
  <2> SUFFICES ASSUME Inv, FitsInv PROVE TypeOK
    OBVIOUS
  <2>1. writing \subseteq 1..next - 1 /\ inbox \subseteq 1..next - 1 /\ deleted \subseteq 1..next - 1
    BY DEF Inv, Numbered, Committed
  <2>2. {checkpoint, cursor, ack} \subseteq 0..MaxSequence
    <3>1. checkpoint \in Committed \cup {0} /\ cursor \in Committed \cup {0} /\ ack \in Committed \cup {0}
      BY DEF Inv, Positions
    <3>2. Sequences \cup {0} \subseteq 0..MaxSequence
      BY InboxAssumption DEF Sequences
    <3> QED
      BY <3>1, <3>2, Sizes
  <2>3. phase \in Phases
    BY DEF Inv, Kinds
  <2> QED
    BY <2>1, <2>2, <2>3, Sizes DEF TypeOK, FitsInv, QueueFits
<1> QED
  BY <1>1, <1>2, InitInv, NextInv, InitFits, PTL DEF Spec

(****************************************************************************)
(* Tasks                                                                    *)
(****************************************************************************)
RequestInv ==
  \A r \in Requests : job[r].phase # "idle" =>
    /\ job[r].phase \in {"checked", "counted"} => job[r].wish \in Agents
    /\ job[r].wish \in Agents =>
         /\ ~Exists(job[r].task)
         /\ \A q \in Requests \ {r} : job[q].phase # "idle" => job[q].task # job[r].task

CountInv ==
  \A r \in Requests : job[r].phase = "counted" =>
    /\ Cardinality(OpenTasks(job[r].wish)) < Cap
    /\ \A q \in Requests : job[q].phase = "counted" /\ job[q].wish = job[r].wish => q = r

Typed == TasksTypeOK /\ RequestInv
CapInv == CountInv /\ CapacityHolds

------------------------------------------------------------------------------
(* What the rows and the requests are.                                      *)

(* A request that is under way has a phase, an actor, a task and a wish.     *)
LEMMA Strings ==
  ASSUME TasksTypeOK, NEW r \in Requests, job[r].phase # "idle"
  PROVE  /\ job[r].phase \in {"admitted", "checked", "counted"}
         /\ job[r].who \in Parties /\ job[r].task \in TaskIds /\ job[r].wish \in Wishes
BY DEF TasksTypeOK, NoJob

(* A task that exists has a status, a creator and an assignee.               *)
LEMMA Rows ==
  ASSUME TasksTypeOK, NEW t \in TaskIds, Exists(t)
  PROVE  task[t] \in [status : Statuses, creator : Parties, assignee : Agents]
BY DEF TasksTypeOK, Exists, NoTask

(* A creation puts its row where there was none.                            *)
LEMMA CreateRow ==
  ASSUME Typed, NEW r \in Requests, Create(r)
  PROVE  LET t == job[r].task IN
         /\ t \in TaskIds /\ ~Exists(t) /\ job[r].wish \in Agents /\ job[r].who \in Parties
         /\ task' = [task EXCEPT ![t] = [status |-> "proposed", creator |-> job[r].who,
                                         assignee |-> job[r].wish]]
         /\ known' = [known EXCEPT ![t] =
              [p \in Parties |-> IF p \in {job[r].who, job[r].wish} THEN "proposed" ELSE @[p]]]
         /\ job' = [job EXCEPT ![r] = NoJob] /\ UNCHANGED barred
BY Strings DEF Typed, RequestInv, Create, Tell

(* A change sets the status of an open row, which both parties then know.   *)
LEMMA ChangeRow ==
  ASSUME Typed, NEW r \in Requests, Update(r) \/ Cancel(r)
  PROVE  LET t == job[r].task IN
         /\ t \in TaskIds /\ Exists(t) /\ task[t].status \notin Terminal
         /\ \E status \in Statuses \ {"proposed"} :
              /\ task' = [task EXCEPT ![t].status = status]
              /\ known' = [known EXCEPT ![t] =
                   [p \in Parties |-> IF p \in {task[t].creator, task[t].assignee}
                                      THEN status ELSE @[p]]]
         /\ job' = [job EXCEPT ![r] = NoJob] /\ UNCHANGED barred
<1>1. CASE Update(r)
  <2>1. job[r].phase # "idle" BY <1>1 DEF Update
  <2>2. /\ job[r].task \in TaskIds /\ job[r].wish \in Wishes
        /\ job[r].wish \notin Agents \cup {"cancel"}
    BY <1>1, <2>1, Strings DEF Typed, Update
  <2>3. (IF job[r].wish = "decline" THEN "cancelled" ELSE job[r].wish) \in Statuses \ {"proposed"}
    BY <2>2, TasksAssumption DEF Wishes, Statuses, Terminal
  <2> QED
    BY <1>1, <2>2, <2>3 DEF Update, MayBecome, OpenTask, Change, Tell, Others
<1>2. CASE Cancel(r)
  <2>1. job[r].phase # "idle" BY <1>2 DEF Cancel
  <2>2. job[r].task \in TaskIds BY <2>1, Strings DEF Typed
  <2>3. "cancelled" \in Statuses \ {"proposed"} BY DEF Statuses, Terminal
  <2> QED
    BY <1>2, <2>2, <2>3 DEF Cancel, OpenTask, Change, Tell, Others
<1> QED BY <1>1, <1>2

------------------------------------------------------------------------------
(* Typed is inductive.                                                      *)

(* The table starts empty, with no request under way.                        *)
LEMMA TypedInit == TasksInit => Typed
BY TasksAssumption DEF TasksInit, Typed, TasksTypeOK, RequestInv, NoTask, NoJob

(* A request that is admitted keeps the types.                               *)
LEMMA TypedAdmit ==
  ASSUME Typed, NEW r \in Requests, NEW who \in Parties, NEW t \in TaskIds, NEW wish \in Wishes,
         Admit(r, who, t, wish)
  PROVE  Typed'
<1>1. TasksTypeOK' BY DEF Typed, TasksTypeOK, Admit
<1>2. ASSUME NEW q \in Requests, job'[q].phase # "idle"
      PROVE  /\ job'[q].phase \in {"checked", "counted"} => job'[q].wish \in Agents
             /\ job'[q].wish \in Agents =>
                  /\ task'[job'[q].task].status = "none"
                  /\ \A p \in Requests \ {q} : job'[p].phase # "idle" => job'[p].task # job'[q].task
  <2>1. job' = [job EXCEPT ![r] = [phase |-> "admitted", who |-> who, task |-> t, wish |-> wish]]
        /\ task' = task /\ job[r].phase = "idle"
    BY DEF Admit
  <2>2. /\ wish \in Agents => ~Exists(t) /\ \A p \in Requests : job[p].task # t
        /\ wish \notin Agents => Exists(t)
    BY DEF Admit, Claimed
  <2>3. CASE q = r
    BY <2>1, <2>2, <2>3 DEF Typed, TasksTypeOK, Exists
  <2>4. CASE q # r
    <3>1. job'[q] = job[q] BY <2>1, <2>4 DEF Typed, TasksTypeOK
    <3>2. job[q].wish \in Agents => job[q].task # t
      BY <1>2, <2>2, <3>1 DEF Typed, RequestInv
    <3> QED
      BY <1>2, <2>1, <3>1, <3>2 DEF Typed, TasksTypeOK, RequestInv, Exists
  <2> QED BY <2>3, <2>4
<1> QED BY <1>1, <1>2 DEF Typed, RequestInv, Exists

(* The steps that only change the phase of a request.                       *)
LEMMA TypedPhase ==
  ASSUME Typed, NEW r \in Requests, Refuse(r) \/ CheckAssignee(r) \/ CountOpen(r)
  PROVE  Typed'
<1>1. /\ task' = task /\ barred' = barred /\ known' = known
      /\ job' = [job EXCEPT ![r] = NoJob] \/ job' = [job EXCEPT ![r].phase = "checked"]
           \/ job' = [job EXCEPT ![r].phase = "counted"]
      /\ job[r].phase # "idle"
      /\ job'[r].phase # "idle" => job[r].wish \in Agents
  <2>1. job \in [Requests -> {NoJob} \cup [phase : {"admitted", "checked", "counted"}, who : Parties,
                                         task : TaskIds, wish : Wishes]]
    BY DEF Typed, TasksTypeOK
  <2>2. CASE Refuse(r) BY <2>1, <2>2 DEF Refuse, NoJob
  <2>3. CASE CheckAssignee(r) BY <2>1, <2>3 DEF CheckAssignee
  <2>4. CASE CountOpen(r) BY <2>1, <2>4 DEF CountOpen, Typed, RequestInv
  <2> QED BY <2>2, <2>3, <2>4
<1>2. job[r] \in [phase : {"admitted", "checked", "counted"}, who : Parties,
                  task : TaskIds, wish : Wishes]
  BY <1>1 DEF Typed, TasksTypeOK, NoJob
<1>3. TasksTypeOK'
  <2>1. \A stage \in {"checked", "counted"} :
          [job[r] EXCEPT !.phase = stage]
            \in [phase : {"admitted", "checked", "counted"}, who : Parties, task : TaskIds,
                wish : Wishes]
    BY <1>2
  <2> QED BY <1>1, <2>1, ZenonT(30) DEF Typed, TasksTypeOK
<1>4. /\ job'[r].phase # "idle" => job'[r].wish = job[r].wish /\ job'[r].task = job[r].task
      /\ \A q \in Requests \ {r} : job'[q] = job[q]
  BY <1>1, <1>2 DEF Typed, TasksTypeOK, NoJob
<1>5. RequestInv'
  BY <1>1, <1>4 DEF Typed, RequestInv, Exists
<1> QED BY <1>3, <1>5 DEF Typed

(* So does the creation of a task under its lock.                            *)
LEMMA TypedCreate ==
  ASSUME Typed, NEW r \in Requests, Create(r)
  PROVE  Typed'
<1> DEFINE t == job[r].task
<1>1. /\ t \in TaskIds /\ job[r].wish \in Agents /\ job[r].who \in Parties
      /\ task' = [task EXCEPT ![t] = [status |-> "proposed", creator |-> job[r].who,
                                      assignee |-> job[r].wish]]
      /\ job' = [job EXCEPT ![r] = NoJob] /\ barred' = barred
  BY CreateRow
<1>2. [status |-> "proposed", creator |-> job[r].who, assignee |-> job[r].wish]
        \in [status : Statuses, creator : Parties, assignee : Agents]
  BY <1>1 DEF Statuses
<1>3. TasksTypeOK'
  <2>1. known' \in [TaskIds -> [Parties -> {"none"} \cup Statuses]]
    <3> DEFINE row == [p \in Parties |-> IF p \in {job[r].who, job[r].wish} THEN "proposed"
                                         ELSE known[t][p]]
    <3>1. row \in [Parties -> {"none"} \cup Statuses]
      BY <1>1 DEF Typed, TasksTypeOK, Statuses
    <3>2. known' = [known EXCEPT ![t] = row] BY CreateRow DEF Typed, TasksTypeOK
    <3> HIDE DEF row
    <3> QED BY <1>1, <3>1, <3>2 DEF Typed, TasksTypeOK
  <2> QED BY <1>1, <1>2, <2>1 DEF Typed, TasksTypeOK
<1>4. ASSUME NEW q \in Requests, job'[q].phase # "idle"
      PROVE  q # r /\ job'[q] = job[q] /\ job[q].task # t
  <2>1. q # r /\ job'[q] = job[q] BY <1>1, <1>4 DEF Typed, TasksTypeOK, NoJob
  <2>2. job[r].phase # "idle" BY DEF Create
  <2> QED BY <1>1, <1>4, <2>1, <2>2 DEF Typed, RequestInv
<1>5. \A u \in TaskIds \ {t} : task'[u] = task[u]
  BY <1>1 DEF Typed, TasksTypeOK
<1>6. RequestInv'
  BY <1>4, <1>5, Strings DEF Typed, RequestInv, Exists
<1> QED BY <1>3, <1>6 DEF Typed

(* So does the change of a task's status.                                    *)
LEMMA TypedChange ==
  ASSUME Typed, NEW r \in Requests, Update(r) \/ Cancel(r)
  PROVE  Typed'
<1> DEFINE t == job[r].task
<1>1. PICK status \in Statuses \ {"proposed"} :
        /\ task' = [task EXCEPT ![t].status = status]
        /\ known' = [known EXCEPT ![t] =
             [p \in Parties |-> IF p \in {task[t].creator, task[t].assignee}
                                THEN status ELSE @[p]]]
  BY ChangeRow
<1>2. t \in TaskIds /\ Exists(t) BY ChangeRow
<1>3. task[t] \in [status : Statuses, creator : Parties, assignee : Agents]
  BY <1>2, Rows DEF Typed
<1>4. TasksTypeOK'
  BY <1>1, <1>2, <1>3, ChangeRow, SMTT(30) DEF Typed, TasksTypeOK
<1>5. ASSUME NEW q \in Requests, job'[q].phase # "idle"
      PROVE  q # r /\ job'[q] = job[q]
  BY <1>5, ChangeRow DEF Typed, TasksTypeOK, NoJob
<1>6. \A u \in TaskIds : Exists(u) <=> Exists(u)'
  <2>1. status # "none" BY DEF Statuses, Terminal
  <2> QED BY <1>1, <1>2, <1>3, <2>1 DEF Typed, TasksTypeOK, Exists
<1>7. RequestInv'
  BY <1>5, <1>6, Strings DEF Typed, RequestInv
<1> QED BY <1>4, <1>7 DEF Typed

(* Every step keeps the types.                                               *)
LEMMA TypedStep == Typed /\ [TasksNext]_taskVars => Typed'
<1> SUFFICES ASSUME Typed, [TasksNext]_taskVars PROVE Typed' OBVIOUS
<1>1. CASE UNCHANGED taskVars
  BY <1>1 DEF taskVars, Typed, TasksTypeOK, RequestInv, Exists
<1>2. ASSUME NEW p \in Fickle, Bar(p) PROVE Typed'
  BY <1>2, TasksAssumption DEF Bar, Typed, TasksTypeOK, RequestInv, Exists
<1> QED
  BY <1>1, <1>2, TypedAdmit, TypedPhase, TypedCreate, TypedChange DEF TasksNext

(* The rows, the requests and what is known keep their types.               *)
THEOREM TasksTypeCorrect == TasksSpec => []TasksTypeOK
<1>1. Typed => TasksTypeOK BY DEF Typed
<1> QED BY TypedInit, TypedStep, <1>1, PTL DEF TasksSpec

------------------------------------------------------------------------------
(* What the two parties know, and what a task becomes.                      *)

(* Every step leaves both parties of a task knowing its status.              *)
LEMMA KnownStep ==
  ASSUME Typed, BothKnow, [TasksNext]_taskVars
  PROVE  BothKnow'
<1>1. CASE UNCHANGED <<task, known>>
  BY <1>1 DEF BothKnow, Exists
<1>2. ASSUME NEW r \in Requests, Create(r) PROVE BothKnow'
  <2> DEFINE t == job[r].task
  <2>1. /\ t \in TaskIds /\ job[r].wish \in Agents /\ job[r].who \in Parties
        /\ task' = [task EXCEPT ![t] = [status |-> "proposed", creator |-> job[r].who,
                                        assignee |-> job[r].wish]]
        /\ known' = [known EXCEPT ![t] =
             [p \in Parties |-> IF p \in {job[r].who, job[r].wish} THEN "proposed" ELSE known[t][p]]]
    BY <1>2, CreateRow DEF Typed, TasksTypeOK
  <2>2. /\ task'[t].creator = job[r].who /\ task'[t].assignee = job[r].wish
        /\ task'[t].status = "proposed"
    BY <2>1 DEF Typed, TasksTypeOK
  <2>3. known'[t][job[r].who] = "proposed" /\ known'[t][job[r].wish] = "proposed"
    BY <2>1 DEF Typed, TasksTypeOK, Parties
  <2>4. \A u \in TaskIds \ {t} : task'[u] = task[u] /\ known'[u] = known[u]
    BY <2>1 DEF Typed, TasksTypeOK
  <2> QED BY <2>2, <2>3, <2>4 DEF BothKnow, Exists
<1>3. ASSUME NEW r \in Requests, Update(r) \/ Cancel(r) PROVE BothKnow'
  <2> DEFINE t == job[r].task
  <2>1. PICK status \in Statuses \ {"proposed"} :
          /\ task' = [task EXCEPT ![t].status = status]
          /\ known' = [known EXCEPT ![t] =
               [p \in Parties |-> IF p \in {task[t].creator, task[t].assignee}
                                  THEN status ELSE @[p]]]
    BY <1>3, ChangeRow
  <2>2. t \in TaskIds /\ Exists(t) BY <1>3, ChangeRow
  <2>3. task[t] \in [status : Statuses, creator : Parties, assignee : Agents]
    BY <2>2, Rows DEF Typed
  <2>4. /\ task'[t].creator = task[t].creator /\ task'[t].assignee = task[t].assignee
        /\ task'[t].status = status
    BY <2>1, <2>2, <2>3 DEF Typed, TasksTypeOK
  <2>5. known'[t][task[t].creator] = status /\ known'[t][task[t].assignee] = status
    BY <2>1, <2>2, <2>3 DEF Typed, TasksTypeOK, Parties
  <2>6. \A u \in TaskIds \ {t} : task'[u] = task[u] /\ known'[u] = known[u]
    BY <2>1 DEF Typed, TasksTypeOK
  <2> QED BY <2>4, <2>5, <2>6 DEF BothKnow, Exists
<1> QED
  BY <1>1, <1>2, <1>3 DEF TasksNext, taskVars, Admit, Refuse, CheckAssignee, CountOpen, Bar

(* Both parties of a task know its status, whatever requests overlap and    *)
(* whoever is barred (taskEvent).                                           *)
THEOREM BothKnowCorrect == TasksSpec => []BothKnow
<1>1. TasksInit => Typed /\ BothKnow
  BY TypedInit DEF TasksInit, BothKnow, Exists, NoTask
<1>2. Typed /\ BothKnow /\ [TasksNext]_taskVars => Typed' /\ BothKnow'
  BY TypedStep, KnownStep
<1> QED BY <1>1, <1>2, PTL DEF TasksSpec

(* A step that changes a task finds it open and changes its status alone.    *)
LEMMA StepOfATask ==
  ASSUME Typed, [TasksNext]_taskVars, NEW t \in TaskIds, Exists(t), task'[t] # task[t]
  PROVE  /\ task[t].status \notin Terminal
         /\ task'[t].status # "proposed"
         /\ [task'[t] EXCEPT !.status = task[t].status] = task[t]
<1>1. CASE UNCHANGED task BY <1>1
<1>2. ASSUME NEW r \in Requests, Create(r) PROVE FALSE
  <2>1. \A u \in TaskIds \ {job[r].task} : task'[u] = task[u]
    BY <1>2, CreateRow DEF Typed, TasksTypeOK
  <2> QED BY <1>2, <2>1, CreateRow
<1>3. ASSUME NEW r \in Requests, Update(r) \/ Cancel(r)
      PROVE  /\ task[t].status \notin Terminal
             /\ task'[t].status # "proposed"
             /\ [task'[t] EXCEPT !.status = task[t].status] = task[t]
  <2>1. PICK status \in Statuses \ {"proposed"} : task' = [task EXCEPT ![job[r].task].status = status]
    BY <1>3, ChangeRow
  <2>2. t = job[r].task BY <2>1 DEF Typed, TasksTypeOK
  <2>3. task[t] \in [status : Statuses, creator : Parties, assignee : Agents]
    BY Rows DEF Typed
  <2>4. task'[t] = [task[t] EXCEPT !.status = status]
    BY <2>1, <2>2 DEF Typed, TasksTypeOK
  <2> QED BY <1>3, <2>2, <2>3, <2>4, ChangeRow
<1> QED
  BY <1>1, <1>2, <1>3 DEF TasksNext, taskVars, Admit, Refuse, CheckAssignee, CountOpen, Bar

(* The types hold in every reachable state.                                  *)
LEMMA TypedAlways == TasksSpec => []Typed
BY TypedInit, TypedStep, PTL DEF TasksSpec

(* A task that is over stays so, none goes back to proposed and nobody is   *)
(* swapped (PATCH /v1/tasks/:taskId and its cancel).                        *)
THEOREM StepsCorrect == TasksSpec => TaskSteps
<1>1. Typed /\ [TasksNext]_taskVars =>
        [TaskStep]_taskVars
  BY StepOfATask DEF TaskStep
<1> QED BY TypedAlways, <1>1, PTL DEF TasksSpec, TaskSteps

------------------------------------------------------------------------------
(* The capacity of an assignee.                                             *)

(* An agent's open tasks are finitely many.                                  *)
LEMMA OpenFinite == ASSUME NEW a PROVE IsFiniteSet(OpenTasks(a)) /\ Cardinality(OpenTasks(a)) \in Nat
<1>1. OpenTasks(a) \subseteq TaskIds BY DEF OpenTasks
<1> QED BY <1>1, TasksAssumption, FS_Subset, FS_CardinalityType

(* Rows that are as they were, or are over, leave no more open tasks.       *)
LEMMA CapKept ==
  ASSUME Typed, CapInv, \A a \in Agents : OpenTasks(a)' \subseteq OpenTasks(a),
         \A q \in Requests : job'[q].phase = "counted" => job'[q] = job[q]
  PROVE  CapInv'
<1>1. ASSUME NEW a \in Agents
      PROVE  /\ Cardinality(OpenTasks(a)') \in Nat /\ Cardinality(OpenTasks(a)) \in Nat
             /\ Cardinality(OpenTasks(a)') <= Cardinality(OpenTasks(a))
  <2>1. IsFiniteSet(OpenTasks(a)) /\ Cardinality(OpenTasks(a)) \in Nat BY OpenFinite
  <2>2. /\ IsFiniteSet(OpenTasks(a)')
        /\ Cardinality(OpenTasks(a)') <= Cardinality(OpenTasks(a))
    BY <2>1, FS_Subset
  <2> QED BY <2>1, <2>2, FS_CardinalityType
<1>2. CapacityHolds' BY <1>1, TasksAssumption DEF CapInv, CapacityHolds
<1>3. ASSUME NEW q \in Requests, job'[q].phase = "counted"
      PROVE  /\ job'[q] = job[q] /\ job[q].wish \in Agents
             /\ Cardinality(OpenTasks(job[q].wish)') < Cap
  BY <1>1, <1>3, TasksAssumption DEF CapInv, CountInv, Typed, RequestInv
<1>4. CountInv' BY <1>3 DEF CapInv, CountInv
<1> QED BY <1>2, <1>4 DEF CapInv

(* Every step keeps the open tasks of each assignee within the capacity.     *)
LEMMA CapStep ==
  ASSUME Typed, CapInv, [TasksNext]_taskVars
  PROVE  CapInv'
<1>1. CASE UNCHANGED taskVars
  BY <1>1, CapKept DEF taskVars, OpenTasks, OpenTask, Exists
<1>2. ASSUME NEW p \in Fickle, Bar(p) PROVE CapInv'
  BY <1>2, CapKept DEF Bar, OpenTasks, OpenTask, Exists
<1>3. ASSUME NEW r \in Requests, NEW who \in Parties, NEW t \in TaskIds, NEW wish \in Wishes,
             Admit(r, who, t, wish)
      PROVE  CapInv'
  <2>1. \A q \in Requests : job'[q].phase = "counted" => job'[q] = job[q]
    BY <1>3 DEF Admit, Typed, TasksTypeOK
  <2> QED BY <1>3, <2>1, CapKept DEF Admit, OpenTasks, OpenTask, Exists
<1>4. ASSUME NEW r \in Requests, Refuse(r) \/ CheckAssignee(r) PROVE CapInv'
  <2>1. \A q \in Requests : job'[q].phase = "counted" => job'[q] = job[q]
    BY <1>4 DEF Refuse, CheckAssignee, Typed, TasksTypeOK, NoJob
  <2> QED BY <1>4, <2>1, CapKept DEF Refuse, CheckAssignee, OpenTasks, OpenTask, Exists
<1>5. ASSUME NEW r \in Requests, CountOpen(r) PROVE CapInv'
  <2>1. /\ task' = task /\ job' = [job EXCEPT ![r].phase = "counted"]
        /\ \A q \in Requests : job[q].phase = "counted" => job[q].wish # job[r].wish
        /\ Cardinality(OpenTasks(job[r].wish)) < Cap
    BY <1>5 DEF CountOpen, Counting
  <2>2. \A a : OpenTasks(a)' = OpenTasks(a) BY <2>1 DEF OpenTasks, OpenTask, Exists
  <2>3. /\ \A q \in Requests \ {r} : job'[q] = job[q]
        /\ job'[r].phase = "counted" /\ job'[r].wish = job[r].wish
    <3>1. job[r] \in [phase : {"admitted", "checked", "counted"}, who : Parties,
                      task : TaskIds, wish : Wishes]
      BY <1>5 DEF CountOpen, Typed, TasksTypeOK, NoJob
    <3> QED BY <2>1, <3>1 DEF Typed, TasksTypeOK
  <2>4. CountInv' BY <2>1, <2>2, <2>3 DEF CapInv, CountInv
  <2> QED BY <2>2, <2>4 DEF CapInv, CapacityHolds
<1>6. ASSUME NEW r \in Requests, Create(r) PROVE CapInv'
  <2>0. PICK t \in TaskIds, b \in Agents : t = job[r].task /\ b = job[r].wish
    BY <1>6, CreateRow
  <2>1. /\ ~Exists(t)
        /\ task' = [task EXCEPT ![t] = [status |-> "proposed", creator |-> job[r].who,
                                        assignee |-> b]]
        /\ job' = [job EXCEPT ![r] = NoJob] /\ job[r].phase = "counted"
    BY <1>6, <2>0, CreateRow DEF Create
  <2>2. \A a \in Agents \ {b} : OpenTasks(a)' = OpenTasks(a)
    BY <2>1 DEF OpenTasks, OpenTask, Exists, Typed, TasksTypeOK
  <2>3. OpenTasks(b)' = OpenTasks(b) \cup {t} /\ t \notin OpenTasks(b)
    <3>1. /\ task'[t].status = "proposed" /\ task'[t].assignee = b
          /\ \A u \in TaskIds \ {t} : task'[u] = task[u]
      BY <2>1 DEF Typed, TasksTypeOK
    <3> QED BY <2>1, <3>1 DEF OpenTasks, OpenTask, Exists, Terminal
  <2>4. Cardinality(OpenTasks(b)') = Cardinality(OpenTasks(b)) + 1
    BY <2>3, OpenFinite, FS_AddElement
  <2>5. Cardinality(OpenTasks(b)) < Cap BY <2>0, <2>1 DEF CapInv, CountInv
  <2>6. CapacityHolds'
    <3>1. Cardinality(OpenTasks(b)) \in Nat BY OpenFinite
    <3>2. Cardinality(OpenTasks(b)') <= Cap BY <2>4, <2>5, <3>1, TasksAssumption
    <3> QED BY <2>2, <3>2 DEF CapInv, CapacityHolds
  <2>7. ASSUME NEW q \in Requests, job'[q].phase = "counted"
        PROVE  job'[q] = job[q] /\ job[q].wish \in Agents \ {b}
    <3>1. q # r /\ job'[q] = job[q] BY <2>1, <2>7 DEF Typed, TasksTypeOK, NoJob
    <3> QED BY <2>0, <2>1, <2>7, <3>1 DEF CapInv, CountInv, Typed, RequestInv
  <2>8. CountInv' BY <2>2, <2>7 DEF CapInv, CountInv
  <2> QED BY <2>6, <2>8 DEF CapInv
<1>7. ASSUME NEW r \in Requests, Update(r) \/ Cancel(r) PROVE CapInv'
  <2>1. PICK status \in Statuses \ {"proposed"} : task' = [task EXCEPT ![job[r].task].status = status]
    BY <1>7, ChangeRow
  <2>2. job[r].task \in TaskIds /\ OpenTask(job[r].task) /\ job' = [job EXCEPT ![r] = NoJob]
    BY <1>7, ChangeRow DEF OpenTask
  <2>3. task[job[r].task] \in [status : Statuses, creator : Parties, assignee : Agents]
    BY <2>2, Rows DEF Typed, OpenTask
  <2>4. \A a : OpenTasks(a)' \subseteq OpenTasks(a)
    BY <2>1, <2>2, <2>3 DEF OpenTasks, OpenTask, Exists, Typed, TasksTypeOK
  <2>5. \A q \in Requests : job'[q].phase = "counted" => job'[q] = job[q]
    BY <2>2 DEF Typed, TasksTypeOK, NoJob
  <2> QED BY <2>4, <2>5, CapKept
<1> QED
  BY <1>1, <1>2, <1>3, <1>4, <1>5, <1>6, <1>7 DEF TasksNext

(* With any number of creations under way no assignee has more open tasks   *)
(* than the cap (POST /v1/rooms/:roomId/tasks).                             *)
THEOREM CapacityCorrect == TasksSpec => []CapacityHolds
<1>1. TasksInit => CapInv
  <2> SUFFICES ASSUME TasksInit PROVE CapInv OBVIOUS
  <2>1. \A a \in Agents : OpenTasks(a) = {}
    BY DEF TasksInit, OpenTasks, OpenTask, Exists, NoTask
  <2>2. CapacityHolds BY <2>1, FS_EmptySet, TasksAssumption DEF CapacityHolds
  <2>3. CountInv BY DEF TasksInit, CountInv, NoJob
  <2> QED BY <2>2, <2>3 DEF CapInv
<1>2. Typed /\ CapInv /\ [TasksNext]_taskVars => CapInv' BY CapStep
<1>3. CapInv => CapacityHolds BY DEF CapInv
<1> QED BY <1>1, <1>2, <1>3, TypedAlways, PTL DEF TasksSpec

(****************************************************************************)
(* ClientHome                                                               *)
(****************************************************************************)
(* The variables of ClientHome.                                            *)
home == s1
command == s2
begun == s3
done == s4
open == s5
disturbed == s6
USE DEF home, command, begun, done, open, disturbed

Directories(n) == [there : BOOLEAN, meta : 0..n, lease : {"live", "over", "aged"},
                   credential : 0..n, pending : [Mutations -> 0..n]]
Running(n) ==
  [phase : {"idle", "loaded", "announce", "keying", "store", "keyed", "sent", "complete", "answered",
            "begun", "credential", "end", "prune", "remove"},
   caller : Callers \cup {Absent}, form : SUBSET {"lease", "policy", "keyed", "announced"},
   request : Mutations \cup {Absent}, meta : 0..n, pending : [Mutations -> 0..n], key : 0..n]
HomeTyped ==
  /\ begun \in Nat /\ home \in [Callers -> Directories(begun)]
  /\ command \in [Commands -> Running(begun)]
  /\ done \subseteq 1..begun /\ disturbed \subseteq Callers
  /\ open \in [Callers -> [Mutations -> SUBSET (1..begun)]]

(* A command that sends waits under its key in the file, unless that key   *)
(* was carried out; one that is to take a key out was answered for it.     *)
RowSound(row) ==
  /\ row.phase # "idle" => row.caller \in Callers /\ row.key # 0
  /\ row.phase \in {"keying", "store", "keyed", "sent", "complete"} => row.request \in Mutations
  /\ row.phase = "loaded" /\ "keyed" \in row.form => row.request \in Mutations
  /\ row.phase = "store" => row.pending[row.request] = 0
  /\ row.phase = "keyed" /\ row.caller \notin disturbed =>
       home[row.caller].pending[row.request] = row.key \/ row.key \in done
  /\ row.phase \in {"sent", "complete"} => row.key \in done
  /\ row.phase = "complete" => row.key \notin open[row.caller][row.request]
  /\ row.phase = "remove" => row.pending = Hm!NoKeys
NoneThere == \A c \in Callers : ~home[c].there =>
               home[c].meta = 0 /\ home[c].credential = 0 /\ home[c].pending = Hm!NoKeys
HomeInv ==
  /\ HomeTyped /\ \A p \in Commands : RowSound(command[p])
  /\ NoneThere /\ Hm!RetriedOnce /\ Hm!SessionWhole

LEMMA NoKeysAre == Hm!NoKeys = [r \in Mutations |-> 0] /\ \A n \in Nat : Hm!NoKeys \in [Mutations -> 0..n]
BY DEF Hm!NoKeys

LEMMA IdleRow ==
  /\ \A n \in Nat : Hm!Idle \in Running(n)
  /\ Hm!Idle.phase = "idle" /\ RowSound(Hm!Idle) /\ RowSound(Hm!Idle)'
BY NoKeysAre DEF Hm!Idle, Running, RowSound

LEMMA EmptyHome ==
  /\ \A n \in Nat : Hm!NoHome \in Directories(n)
  /\ Hm!NoHome.meta = 0 /\ Hm!NoHome.credential = 0 /\ Hm!NoHome.pending = Hm!NoKeys
BY NoKeysAre DEF Hm!NoHome, Directories

LEMMA HomeStarts == Hm!Init => HomeInv
<1> SUFFICES ASSUME Hm!Init PROVE HomeInv
  OBVIOUS
<1>1. /\ \A c \in Callers : home[c] \in {Hm!NoHome, Hm!InSession} /\ DOMAIN home = Callers
      /\ home = [c \in Callers |-> home[c]]
      /\ command = [p \in Commands |-> Hm!Idle] /\ begun = 1 /\ done = {} /\ disturbed = {}
      /\ open = [c \in Callers |-> [r \in Mutations |-> {}]]
  BY DEF Hm!Init
<1>2. /\ Hm!InSession \in Directories(1) /\ Hm!InSession.there
      /\ Hm!InSession.meta = Hm!InSession.credential
  <2>1. PICK none \in Directories(1) : none = Hm!NoHome
    BY EmptyHome
  <2>2. Hm!InSession = [none EXCEPT !.there = TRUE, !.meta = 1, !.credential = 1, !.lease = "live"]
    BY <2>1 DEF Hm!InSession
  <2>3. Hm!InSession \in Directories(1)
    <3>0. PICK yes \in BOOLEAN : yes = TRUE
      BY Zenon
    <3>1. PICK one \in 0..1 : one = 1
      OBVIOUS
    <3>2. [none EXCEPT !.there = yes, !.meta = one, !.credential = one, !.lease = "live"]
            \in Directories(1)
      BY <2>1 DEF Directories
    <3> QED
      BY <2>2, <3>0, <3>1, <3>2
  <2>4. Hm!InSession.there /\ Hm!InSession.meta = 1 /\ Hm!InSession.credential = 1
    BY <2>1, <2>2 DEF Directories
  <2> QED
    BY <2>3, <2>4
<1>3. HomeTyped
  BY <1>1, <1>2, EmptyHome, IdleRow DEF HomeTyped
<1>4. NoneThere /\ Hm!RetriedOnce /\ Hm!SessionWhole
  BY <1>1, <1>2, EmptyHome DEF NoneThere, Hm!RetriedOnce, Hm!SessionWhole
<1>5. \A p \in Commands : RowSound(command[p])
  BY <1>1, IdleRow
<1> QED
  BY <1>3, <1>4, <1>5 DEF HomeInv

(* What a step must keep of the files and of what the server did, for the  *)
(* commands that it is not a step of.                                      *)
FilesKept ==
  /\ disturbed \subseteq disturbed' /\ done \subseteq done'
  /\ \A c \in Callers, r \in Mutations : open'[c][r] \cap done \subseteq open[c][r]
  /\ \A c \in Callers \ disturbed' : \A r \in Mutations :
       \/ home'[c].pending[r] = home[c].pending[r]
       \/ home[c].pending[r] \in done \cup {0}

LEMMA RowsKept ==
  ASSUME FilesKept, NEW row, RowSound(row)
  PROVE  RowSound(row)'
BY DEF FilesKept, RowSound

(* One command moves.                                                      *)
LEMMA OneMoves ==
  ASSUME HomeInv, NEW p \in Commands, NEW row, command' = [command EXCEPT ![p] = row],
         row \in Running(begun), RowSound(row)', begun' = begun, FilesKept,
         home' \in [Callers -> Directories(begun)], done' \subseteq 1..begun,
         disturbed' \subseteq Callers, open' \in [Callers -> [Mutations -> SUBSET (1..begun)]],
         NoneThere', Hm!RetriedOnce', Hm!SessionWhole'
  PROVE  HomeInv'
<1>1. \A q \in Commands : command'[q] = IF q = p THEN row ELSE command[q]
  BY DEF HomeInv, HomeTyped
<1>2. HomeTyped'
  BY <1>1 DEF HomeInv, HomeTyped
<1>3. ASSUME NEW q \in Commands PROVE RowSound(command[q])'
  <2>1. CASE q = p
    <3>1. command'[q] = row
      BY <1>1, <2>1
    <3> QED
      BY <3>1 DEF RowSound
  <2>2. CASE q # p
    <3>1. PICK other : other = command[q]
      OBVIOUS
    <3>2. RowSound(other)' /\ command'[q] = other
      BY <1>1, <2>2, <3>1, RowsKept DEF HomeInv
    <3> QED
      BY <3>2 DEF RowSound
  <2> QED
    BY <2>1, <2>2
<1> QED
  BY <1>2, <1>3 DEF HomeInv

(* A step of a command that leaves the sessions alone.                     *)
LEMMA SessionsKept ==
  ASSUME HomeInv, NEW p \in Commands, NEW row, command' = [command EXCEPT ![p] = row],
         disturbed \subseteq disturbed',
         command[p].phase = "credential" =>
           \/ row.phase = "credential" /\ row.caller = command[p].caller
           \/ command[p].caller \in disturbed',
         \A c \in Callers \ disturbed' : home'[c].meta = home[c].meta
                                         /\ home'[c].credential = home[c].credential
  PROVE  Hm!SessionWhole'
<1>1. \A q \in Commands : command'[q] = IF q = p THEN row ELSE command[q]
  BY DEF HomeInv, HomeTyped
<1> QED
  BY <1>1 DEF HomeInv, Hm!SessionWhole, Hm!Caller

(* The keys of a caller wait as they did.                                  *)
LEMMA KeysKept ==
  ASSUME HomeInv, disturbed \subseteq disturbed', open' = open,
         \A c \in Callers \ disturbed' : home'[c].pending = home[c].pending
  PROVE  Hm!RetriedOnce'
BY DEF HomeInv, Hm!RetriedOnce

LEMMA BeginsStep ==
  ASSUME HomeInv, NEW p \in Commands, NEW c \in Callers,
         NEW stage \in {"loaded", "begun", "end", "prune"},
         NEW form \in SUBSET {"lease", "policy", "keyed", "announced"}, NEW r \in Mutations \cup {Absent},
         stage = "loaded" /\ "keyed" \in form => r \in Mutations, Hm!Begins(p, c, stage, form, r)
  PROVE  HomeInv'
<1> DEFINE row == [Hm!Idle EXCEPT !.phase = stage, !.caller = c, !.form = form, !.request = r,
                                  !.meta = home[c].meta, !.key = begun + 1]
<1>1. /\ command[p].phase = "idle" /\ begun' = begun + 1 /\ begun \in Nat
      /\ command' = [command EXCEPT ![p] = row] /\ UNCHANGED <<home, done, open, disturbed>>
  BY DEF Hm!Begins, HomeInv, HomeTyped
<1>2. 0..begun \subseteq 0..begun + 1 /\ 1..begun \subseteq 1..begun + 1
      /\ begun + 1 \in 0..begun + 1 /\ begun + 1 # 0
  BY <1>1
<1>3. Directories(begun) \subseteq Directories(begun + 1) /\ Running(begun) \subseteq Running(begun + 1)
  <2>1. [Mutations -> 0..begun] \subseteq [Mutations -> 0..begun + 1]
    BY <1>2
  <2> QED
    BY <1>2, <2>1 DEF Directories, Running
<1>4. /\ row \in Running(begun + 1) /\ row.phase = stage /\ row.caller = c /\ row.form = form
      /\ row.request = r /\ row.key = begun + 1
  <2>1. home[c].meta \in 0..begun + 1
    BY <1>2 DEF HomeInv, HomeTyped, Directories
  <2>2. Hm!Idle \in Running(begun + 1)
    BY <1>1, IdleRow
  <2> QED
    BY <1>2, <2>1, <2>2 DEF Running
<1> HIDE DEF row
<1>5. \A q \in Commands : command'[q] = IF q = p THEN row ELSE command[q]
  BY <1>1 DEF HomeInv, HomeTyped
<1>6. HomeTyped'
  <2>1. command' \in [Commands -> Running(begun + 1)]
    BY <1>1, <1>3, <1>4 DEF HomeInv, HomeTyped
  <2>2. home' \in [Callers -> Directories(begun + 1)]
    BY <1>1, <1>3 DEF HomeInv, HomeTyped
  <2>3. open' \in [Callers -> [Mutations -> SUBSET (1..begun + 1)]] /\ done' \subseteq 1..begun + 1
    BY <1>1, <1>2 DEF HomeInv, HomeTyped
  <2> QED
    BY <1>1, <2>1, <2>2, <2>3 DEF HomeInv, HomeTyped
<1>7. ASSUME NEW q \in Commands PROVE RowSound(command[q])'
  <2>1. CASE q = p
    BY <1>2, <1>4, <1>5, <2>1 DEF RowSound
  <2>2. CASE q # p
    BY <1>1, <1>5, <2>2 DEF HomeInv, RowSound
  <2> QED
    BY <2>1, <2>2
<1>8. Hm!SessionWhole'
  BY <1>1, <1>5 DEF HomeInv, Hm!SessionWhole, Hm!Caller
<1> QED
  BY <1>1, <1>6, <1>7, <1>8 DEF HomeInv, NoneThere, Hm!RetriedOnce

(* A command's row and the directory it is about, once it has begun.       *)
LEMMA RowIs ==
  ASSUME HomeInv, NEW p \in Commands, command[p].phase # "idle"
  PROVE  /\ command[p] \in Running(begun) /\ RowSound(command[p]) /\ Hm!Caller(p) \in Callers
         /\ Hm!Caller(p) = command[p].caller /\ Hm!Home(p) = home[command[p].caller]
         /\ Hm!Home(p) \in Directories(begun) /\ command[p].key \in 1..begun /\ begun \in Nat
         /\ command[p].meta \in 0..begun /\ command[p].pending \in [Mutations -> 0..begun]
<1>1. command[p] \in Running(begun) /\ RowSound(command[p]) /\ begun \in Nat
  BY DEF HomeInv, HomeTyped
<1>2. Hm!Caller(p) \in Callers /\ command[p].key # 0 /\ command[p].caller \in Callers
  BY <1>1 DEF RowSound, Hm!Caller
<1>3. command[p].key \in 0..begun /\ command[p].meta \in 0..begun
      /\ command[p].pending \in [Mutations -> 0..begun]
  BY <1>1 DEF Running
<1>4. command[p].key \in 1..begun
  BY <1>1, <1>2, <1>3
<1> QED
  BY <1>1, <1>2, <1>3, <1>4 DEF Hm!Caller, Hm!Home, HomeInv, HomeTyped

LEMMA StateIs ==
  ASSUME HomeInv
  PROVE  /\ home \in [Callers -> Directories(begun)] /\ done \subseteq 1..begun
         /\ disturbed \subseteq Callers /\ open \in [Callers -> [Mutations -> SUBSET (1..begun)]]
         /\ command \in [Commands -> Running(begun)] /\ begun \in Nat
BY DEF HomeInv, HomeTyped

(* Rows that wait for nothing.                                             *)
Quiet == {"announce", "answered", "begun", "credential", "end", "prune"}
LEMMA QuietRow ==
  ASSUME NEW row, row.phase \in Quiet, row.caller \in Callers, row.key # 0
  PROVE  RowSound(row) /\ RowSound(row)'
BY DEF Quiet, RowSound

(* Steps that write no key: the session's files at most, and the lease.    *)
LEMMA QuietStep ==
  ASSUME HomeInv, NEW p \in Commands, NEW row, command' = [command EXCEPT ![p] = row],
         row \in Running(begun), RowSound(row)', UNCHANGED <<begun, done, open>>,
         disturbed \subseteq disturbed', disturbed' \subseteq Callers,
         home' \in [Callers -> Directories(begun)], NoneThere', Hm!SessionWhole',
         \A c \in Callers \ disturbed' : home'[c].pending = home[c].pending
  PROVE  HomeInv'
<1>1. FilesKept
  BY DEF FilesKept
<1>2. Hm!RetriedOnce'
  BY KeysKept
<1> QED
  BY <1>1, <1>2, OneMoves, StateIs

LEMMA CommandStops ==
  ASSUME HomeInv, NEW p \in Commands, Hm!Stop(p)
  PROVE  HomeInv'
<1>1. /\ command[p].phase # "idle" /\ command' = [command EXCEPT ![p] = Hm!Idle]
      /\ disturbed' = IF command[p].phase = "credential" THEN disturbed \cup {command[p].caller}
                                                         ELSE disturbed
      /\ UNCHANGED <<home, begun, done, open>>
  BY DEF Hm!Stop, Hm!Done, Hm!Disturb, Hm!Caller
<1>2. command[p].caller \in Callers
  BY <1>1, RowIs
<1>3. Hm!SessionWhole'
  BY <1>1, SessionsKept
<1>4. NoneThere'
  BY <1>1 DEF HomeInv, NoneThere
<1>5. Hm!Idle \in Running(begun)
  BY StateIs, IdleRow
<1> QED
  BY <1>1, <1>2, <1>3, <1>4, <1>5, IdleRow, QuietStep, StateIs

LEMMA PassStep ==
  ASSUME HomeInv, NEW c \in Callers, Hm!Pass(c)
  PROVE  HomeInv'
<1> DEFINE after == IF home[c].lease = "live" THEN "over" ELSE "aged"
<1>1. /\ home[c].meta # 0 /\ home' = [home EXCEPT ![c].lease = after]
      /\ UNCHANGED <<command, begun, done, open, disturbed>>
  BY DEF Hm!Pass
<1>2. /\ home' \in [Callers -> Directories(begun)]
      /\ \A d \in Callers : /\ home'[d].meta = home[d].meta /\ home'[d].pending = home[d].pending
                            /\ home'[d].credential = home[d].credential
                            /\ home'[d].there = home[d].there
  BY <1>1, StateIs DEF Directories
<1>3. HomeTyped'
  BY <1>1, <1>2 DEF HomeInv, HomeTyped
<1>4. FilesKept
  BY <1>1, <1>2 DEF FilesKept
<1>5. ASSUME NEW p \in Commands PROVE RowSound(command[p])'
  <2>1. PICK row : row = command[p]
    OBVIOUS
  <2>2. RowSound(row)' /\ command'[p] = row
    BY <1>1, <1>4, <2>1, RowsKept DEF HomeInv
  <2> QED
    BY <2>2 DEF RowSound
<1>6. NoneThere' /\ Hm!RetriedOnce' /\ Hm!SessionWhole'
  BY <1>1, <1>2 DEF HomeInv, NoneThere, Hm!RetriedOnce, Hm!SessionWhole, Hm!Caller
<1> QED
  BY <1>3, <1>5, <1>6 DEF HomeInv

RowPhases == {"idle", "loaded", "announce", "keying", "store", "keyed", "sent", "complete", "answered",
            "begun", "credential", "end", "prune", "remove"}

LEMMA RowTo ==
  ASSUME HomeInv, NEW p \in Commands, NEW to \in RowPhases
  PROVE  LET row == [command[p] EXCEPT !.phase = to]
         IN  /\ row \in Running(begun) /\ row.phase = to
             /\ row.caller = command[p].caller /\ row.form = command[p].form
             /\ row.request = command[p].request /\ row.meta = command[p].meta
             /\ row.pending = command[p].pending /\ row.key = command[p].key
<1>1. command[p] \in Running(begun)
  BY StateIs
<1> QED
  BY <1>1 DEF Running, RowPhases

LEMMA GotoRow ==
  ASSUME NEW p, NEW from, NEW to, Hm!Goto(p, from, to)
  PROVE  /\ command[p].phase = from
         /\ command' = [command EXCEPT ![p] = [command[p] EXCEPT !.phase = to]]
BY DEF Hm!Goto

LEMMA RenewStep ==
  ASSUME HomeInv, NEW p \in Commands, Hm!Renew(p)
  PROVE  HomeInv'
<1> DEFINE c == command[p].caller  r == command[p]
           to(x) == [command[p] EXCEPT !.phase = x]
<1>1. /\ r.phase \in {"loaded", "announce"} /\ UNCHANGED <<begun, done, open>>
      /\ home' = [home EXCEPT ![c].there = TRUE, ![c].meta = r.meta, ![c].lease = "live"]
      /\ disturbed' = IF home[c].meta # r.meta THEN disturbed \cup {c} ELSE disturbed
  BY DEF Hm!Renew, Hm!Disturb, Hm!Caller, Hm!Home
<1>2. c \in Callers /\ r.meta \in 0..begun /\ r.key # 0 /\ RowSound(r)
  BY <1>1, RowIs
<1>3. /\ home' \in [Callers -> Directories(begun)]
      /\ \A d \in Callers : home'[d].pending = home[d].pending /\ home'[d].credential = home[d].credential
      /\ \A d \in Callers \ disturbed' : home'[d].meta = home[d].meta
      /\ home'[c].there = TRUE /\ \A d \in Callers : d # c => home'[d] = home[d]
  <2>1. PICK yes \in BOOLEAN : yes = TRUE
    BY Zenon
  <2>2. home' = [home EXCEPT ![c] = [home[c] EXCEPT !.there = yes, !.meta = r.meta, !.lease = "live"]]
    BY <1>1, <2>1
  <2>3. PICK dir : dir = [home[c] EXCEPT !.there = yes, !.meta = r.meta, !.lease = "live"]
    OBVIOUS
  <2>4. home[c] \in Directories(begun)
    BY <1>2, StateIs
  <2>5. /\ dir \in Directories(begun) /\ dir.there = yes /\ dir.meta = r.meta
        /\ dir.credential = home[c].credential /\ dir.pending = home[c].pending
    BY <1>2, <2>1, <2>3, <2>4 DEF Directories
  <2>6. home'[c] = dir /\ \A d \in Callers : d # c => home'[d] = home[d]
    BY <1>2, <2>2, <2>3, StateIs
  <2>7. home' \in [Callers -> Directories(begun)]
    BY <1>2, <2>2, <2>3, <2>5, StateIs
  <2>8. \A d \in Callers \ disturbed' : home'[d].meta = home[d].meta
    BY <1>1, <2>5, <2>6
  <2> QED
    BY <2>1, <2>5, <2>6, <2>7, <2>8
<1>4. disturbed \subseteq disturbed' /\ disturbed' \subseteq Callers
  BY <1>1, <1>2, StateIs
<1>5. NoneThere'
  BY <1>3 DEF HomeInv, NoneThere
<1>6. ASSUME NEW row \in Running(begun), command' = [command EXCEPT ![p] = row], RowSound(row)'
      PROVE  HomeInv'
  <2>1. Hm!SessionWhole'
    BY <1>1, <1>3, <1>4, <1>6, SessionsKept
  <2> QED
    BY <1>1, <1>3, <1>4, <1>5, <1>6, <2>1, QuietStep
<1>7. CASE Hm!Done(p)
  BY <1>6, <1>7, IdleRow, StateIs DEF Hm!Done
<1>8. CASE Hm!Goto(p, "loaded", "answered")
  <2>1. command' = [command EXCEPT ![p] = to("answered")]
    BY <1>8, GotoRow
  <2>2. to("answered") \in Running(begun) /\ to("answered").phase = "answered"
        /\ to("answered").caller = c /\ to("answered").key # 0
    BY <1>2, RowTo, ZenonT(30) DEF RowPhases
  <2> HIDE DEF to
  <2>3. PICK row : row = to("answered")
    OBVIOUS
  <2>4. RowSound(row)'
    BY <1>2, <2>2, <2>3, QuietRow DEF Quiet
  <2> QED
    BY <1>6, <2>1, <2>2, <2>3, <2>4
<1>9. CASE Hm!Goto(p, "loaded", "keying") /\ "keyed" \in r.form
  <2>1. r.phase = "loaded" /\ command' = [command EXCEPT ![p] = to("keying")]
    BY <1>9, GotoRow
  <2>2. to("keying") \in Running(begun) /\ to("keying").phase = "keying"
        /\ to("keying").caller = c /\ to("keying").key # 0 /\ to("keying").request = r.request
    BY <1>2, RowTo, ZenonT(30) DEF RowPhases
  <2>3. r.request \in Mutations
    BY <1>2, <1>9, <2>1 DEF RowSound
  <2> HIDE DEF to
  <2>4. PICK row : row = to("keying")
    OBVIOUS
  <2>5. RowSound(row)'
    <3>1. row.phase = "keying" /\ row.caller \in Callers /\ row.key # 0 /\ row.request \in Mutations
      BY <1>2, <2>2, <2>3, <2>4
    <3> QED
      BY <3>1 DEF RowSound
  <2> QED
    BY <1>6, <2>1, <2>2, <2>4, <2>5
<1> QED
  BY <1>7, <1>8, <1>9 DEF Hm!Renew

LEMMA LoadKeysStep ==
  ASSUME HomeInv, NEW p \in Commands, Hm!LoadKeys(p)
  PROVE  HomeInv'
<1> DEFINE c == command[p].caller  old == command[p]
           found == home[c].pending[old.request]
           after == [old EXCEPT !.phase = IF found = 0 THEN "store" ELSE "keyed",
                               !.key = IF found = 0 THEN @ ELSE found, !.pending = home[c].pending]
<1>1. /\ old.phase = "keying" /\ command' = [command EXCEPT ![p] = after]
      /\ UNCHANGED <<home, begun, done, open, disturbed>>
  BY DEF Hm!LoadKeys, Hm!Home, Hm!Caller
<1>2. /\ c \in Callers /\ old \in Running(begun) /\ RowSound(old) /\ old.key \in 1..begun
      /\ home[c] \in Directories(begun) /\ begun \in Nat
  BY <1>1, RowIs
<1>3. old.request \in Mutations /\ found \in 0..begun /\ home[c].pending \in [Mutations -> 0..begun]
  BY <1>1, <1>2 DEF RowSound, Directories
<1>4. PICK row : row = after
  OBVIOUS
<1>5. /\ row \in Running(begun) /\ row.phase = IF found = 0 THEN "store" ELSE "keyed"
      /\ row.caller = c /\ row.request = old.request /\ row.pending = home[c].pending
      /\ row.key = IF found = 0 THEN old.key ELSE found
  <2>1. (IF found = 0 THEN old.key ELSE found) \in 0..begun
    BY <1>2, <1>3
  <2> QED
    BY <1>2, <1>3, <1>4, <2>1 DEF Running
<1> HIDE DEF after
<1>6. row.key # 0
  BY <1>2, <1>5
<1>7. RowSound(row)
  <2>1. CASE found = 0
    BY <1>2, <1>3, <1>5, <1>6, <2>1 DEF RowSound
  <2>2. CASE found # 0
    BY <1>2, <1>3, <1>5, <1>6, <2>2 DEF RowSound
  <2> QED
    BY <2>1, <2>2
<1>8. FilesKept
  BY <1>1 DEF FilesKept
<1>9. RowSound(row)'
  BY <1>7, <1>8, RowsKept
<1>10. Hm!SessionWhole' /\ NoneThere'
  <2>1. Hm!SessionWhole'
    BY <1>1, SessionsKept
  <2> QED
    BY <1>1, <2>1 DEF HomeInv, NoneThere
<1> QED
  BY <1>1, <1>4, <1>5, <1>9, <1>10, QuietStep, StateIs

LEMMA BroadcastStep ==
  ASSUME HomeInv, NEW p \in Commands, Hm!BroadcastActivity(p)
  PROVE  HomeInv'
<1> DEFINE c == command[p].caller  after == [command[p] EXCEPT !.phase = "announce", !.meta = home[c].meta]
<1>1. /\ command[p].phase = "answered" /\ UNCHANGED <<home, begun, done, open, disturbed>>
      /\ command' = [command EXCEPT ![p] = after] \/ command' = [command EXCEPT ![p] = Hm!Idle]
  BY DEF Hm!BroadcastActivity, Hm!Home, Hm!Caller, Hm!Done
<1>2. /\ c \in Callers /\ command[p] \in Running(begun) /\ command[p].key \in 1..begun
      /\ home[c] \in Directories(begun) /\ begun \in Nat
  BY <1>1, RowIs
<1>3. PICK row : row = after
  OBVIOUS
<1>4. row \in Running(begun) /\ row.phase = "announce" /\ row.caller = c /\ row.key # 0
  <2>1. home[c].meta \in 0..begun
    BY <1>2 DEF Directories
  <2>2. row \in Running(begun) /\ row.phase = "announce" /\ row.caller = c /\ row.key = command[p].key
    BY <1>2, <1>3, <2>1 DEF Running
  <2> QED
    BY <1>2, <2>2
<1>5. RowSound(row)'
  BY <1>2, <1>4, QuietRow DEF Quiet
<1>6. PICK new \in Running(begun) : RowSound(new)' /\ command' = [command EXCEPT ![p] = new]
  BY <1>1, <1>3, <1>4, <1>5, IdleRow, StateIs
<1>7. Hm!SessionWhole'
  BY <1>1, <1>6, SessionsKept
<1>8. NoneThere'
  BY <1>1 DEF HomeInv, NoneThere
<1> QED
  BY <1>1, <1>6, <1>7, <1>8, QuietStep, StateIs

LEMMA LookStep ==
  ASSUME HomeInv, NEW p \in Commands, NEW c \in Callers, Hm!Look(p, c)
  PROVE  HomeInv'
<1> DEFINE after == [command[p] EXCEPT !.phase = "remove", !.caller = c, !.meta = home[c].credential,
                                      !.pending = home[c].pending]
<1>1. /\ command[p].phase = "prune" /\ command' = [command EXCEPT ![p] = after]
      /\ home[c].pending = Hm!NoKeys /\ UNCHANGED <<home, begun, done, open, disturbed>>
  BY DEF Hm!Look, Hm!Removable
<1>2. /\ command[p] \in Running(begun) /\ command[p].key \in 1..begun /\ begun \in Nat
      /\ home[c] \in Directories(begun)
  BY <1>1, RowIs, StateIs
<1>3. PICK row : row = after
  OBVIOUS
<1>4. /\ row \in Running(begun) /\ row.phase = "remove" /\ row.caller = c /\ row.key # 0
      /\ row.pending = Hm!NoKeys
  <2>1. home[c].credential \in 0..begun /\ home[c].pending \in [Mutations -> 0..begun]
    BY <1>2 DEF Directories
  <2>2. /\ row \in Running(begun) /\ row.phase = "remove" /\ row.caller = c
        /\ row.key = command[p].key /\ row.pending = home[c].pending
    BY <1>2, <1>3, <2>1 DEF Running
  <2> QED
    BY <1>1, <1>2, <2>2
<1>5. RowSound(row)'
  BY <1>4 DEF RowSound, Hm!NoKeys
<1>6. Hm!SessionWhole'
  BY <1>1, SessionsKept
<1>7. NoneThere'
  BY <1>1 DEF HomeInv, NoneThere
<1> QED
  BY <1>1, <1>3, <1>4, <1>5, <1>6, <1>7, QuietStep, StateIs

(* beginMutation() and completeMutation() write one key with the others    *)
(* they had read: unless the file has changed, one key changes.            *)
LEMMA KeyWritten ==
  ASSUME HomeInv, NEW p \in Commands, command[p].phase # "idle", command[p].request \in Mutations,
         NEW key \in 0..begun, NEW other \in BOOLEAN, Hm!WriteKeys(p, key, other)
  PROVE  LET c == command[p].caller r == command[p].request
         IN  /\ home' \in [Callers -> Directories(begun)] /\ NoneThere'
             /\ \A d \in Callers : /\ home'[d].meta = home[d].meta
                                   /\ home'[d].credential = home[d].credential
             /\ \A d \in Callers : d # c => home'[d] = home[d]
             /\ disturbed \subseteq disturbed' /\ disturbed' \subseteq Callers
             /\ c \notin disturbed' =>
                  /\ ~other /\ home[c].pending = command[p].pending
                  /\ home'[c].pending[r] = key
                  /\ \A s \in Mutations : s # r => home'[c].pending[s] = home[c].pending[s]
<1> DEFINE c == command[p].caller  r == command[p].request
           keys == [command[p].pending EXCEPT ![r] = key]
<1>1. /\ home' = [home EXCEPT ![c].there = TRUE, ![c].pending = keys]
      /\ disturbed' = IF other \/ home[c].pending # command[p].pending
                        THEN disturbed \cup {c} ELSE disturbed
  BY DEF Hm!WriteKeys, Hm!Disturb, Hm!Caller, Hm!Home
<1>2. c \in Callers /\ command[p].pending \in [Mutations -> 0..begun] /\ home[c] \in Directories(begun)
  BY RowIs, StateIs
<1>3. keys \in [Mutations -> 0..begun] /\ keys[r] = key
      /\ \A s \in Mutations : s # r => keys[s] = command[p].pending[s]
  BY <1>2
<1>4. PICK yes \in BOOLEAN : yes = TRUE
  BY Zenon
<1> HIDE DEF keys
<1>5. PICK dir : dir = [home[c] EXCEPT !.there = yes, !.pending = keys]
  OBVIOUS
<1>6. /\ dir \in Directories(begun) /\ dir.there = yes /\ dir.pending = keys
      /\ dir.meta = home[c].meta /\ dir.credential = home[c].credential
  BY <1>2, <1>3, <1>5 DEF Directories
<1>7. home' = [home EXCEPT ![c] = dir]
  BY <1>1, <1>4, <1>5
<1>8. home'[c] = dir /\ \A d \in Callers : d # c => home'[d] = home[d]
  BY <1>2, <1>7, StateIs
<1>9. home' \in [Callers -> Directories(begun)]
  BY <1>2, <1>6, <1>7, StateIs
<1>10. NoneThere'
  BY <1>4, <1>6, <1>8 DEF HomeInv, NoneThere
<1>11. disturbed \subseteq disturbed' /\ disturbed' \subseteq Callers
  BY <1>1, <1>2, StateIs
<1>12. c \notin disturbed' => ~other /\ home[c].pending = command[p].pending
  BY <1>1
<1> QED
  BY <1>3, <1>6, <1>8, <1>9, <1>10, <1>11, <1>12

LEMMA StoreKeyStep ==
  ASSUME HomeInv, NEW p \in Commands, Hm!StoreKey(p)
  PROVE  HomeInv'
<1> DEFINE c == command[p].caller  r == command[p].request
<1>1. /\ command[p].phase = "store" /\ UNCHANGED <<begun, done, open>>
      /\ command' = [command EXCEPT ![p] = [command[p] EXCEPT !.phase = "keyed"]]
      /\ Hm!WriteKeys(p, command[p].key, FALSE)
  BY GotoRow DEF Hm!StoreKey
<1>2. /\ c \in Callers /\ r \in Mutations /\ command[p].key \in 1..begun /\ begun \in Nat
      /\ command[p].pending[r] = 0
  BY <1>1, RowIs DEF RowSound
<1>3. command[p].key \in 0..begun /\ command[p].key # 0
  BY <1>2
<1>4. /\ home' \in [Callers -> Directories(begun)] /\ NoneThere'
      /\ \A d \in Callers : /\ home'[d].meta = home[d].meta
                            /\ home'[d].credential = home[d].credential
      /\ \A d \in Callers : d # c => home'[d] = home[d]
      /\ disturbed \subseteq disturbed' /\ disturbed' \subseteq Callers
      /\ c \notin disturbed' =>
           /\ home[c].pending = command[p].pending
           /\ home'[c].pending[r] = command[p].key
           /\ \A s \in Mutations : s # r => home'[c].pending[s] = home[c].pending[s]
  <2>1. FALSE \in BOOLEAN
    BY Zenon
  <2> QED
    BY <1>1, <1>2, <1>3, <2>1, KeyWritten
<1>5. FilesKept
  BY <1>1, <1>2, <1>4 DEF FilesKept
<1>6. PICK row : row = [command[p] EXCEPT !.phase = "keyed"]
  OBVIOUS
<1>7. /\ row \in Running(begun) /\ row.phase = "keyed" /\ row.caller = c /\ row.request = r
      /\ row.key = command[p].key
  BY <1>6, RowTo, ZenonT(30) DEF RowPhases
<1>8. RowSound(row)'
  BY <1>2, <1>3, <1>4, <1>7 DEF RowSound
<1>9. Hm!SessionWhole'
  BY <1>1, <1>4, SessionsKept
<1>10. Hm!RetriedOnce'
  <2> SUFFICES ASSUME NEW d \in Callers \ disturbed', NEW s \in Mutations, open[d][s] # {}
               PROVE  open[d][s] = {home'[d].pending[s]}
    BY <1>1 DEF Hm!RetriedOnce
  <2>1. open[d][s] = {home[d].pending[s]} /\ open[d][s] \subseteq 1..begun
    BY <1>4, StateIs DEF HomeInv, Hm!RetriedOnce
  <2>2. home[d].pending[s] # 0
    BY <2>1, <1>2
  <2>3. ~(d = c /\ s = r)
    BY <1>2, <1>4, <2>2
  <2> QED
    BY <1>4, <2>1, <2>3
<1> QED
  BY <1>1, <1>4, <1>5, <1>6, <1>7, <1>8, <1>9, <1>10, OneMoves, StateIs

LEMMA CarryOutStep ==
  ASSUME HomeInv, NEW p \in Commands, Hm!CarryOut(p)
  PROVE  HomeInv'
<1> DEFINE c == command[p].caller  r == command[p].request  key == command[p].key
<1>1. /\ command[p].phase = "keyed" /\ done' = done \cup {key}
      /\ open' = IF key \in done THEN open ELSE [open EXCEPT ![c][r] = open[c][r] \cup {key}]
      /\ command' = [command EXCEPT ![p] = [command[p] EXCEPT !.phase = "sent"]]
      /\ UNCHANGED <<home, begun, disturbed>>
  BY GotoRow DEF Hm!CarryOut, Hm!Caller
<1>2. /\ c \in Callers /\ r \in Mutations /\ key \in 1..begun /\ RowSound(command[p])
  BY <1>1, RowIs DEF RowSound
<1>3. /\ open' \in [Callers -> [Mutations -> SUBSET (1..begun)]]
      /\ \A d \in Callers, s \in Mutations :
           open'[d][s] = IF key \notin done /\ d = c /\ s = r THEN open[c][r] \cup {key} ELSE open[d][s]
  BY <1>1, <1>2, StateIs
<1>4. FilesKept
  BY <1>1, <1>3 DEF FilesKept
<1>5. PICK row : row = [command[p] EXCEPT !.phase = "sent"]
  OBVIOUS
<1>6. /\ row \in Running(begun) /\ row.phase = "sent" /\ row.caller = c /\ row.request = r
      /\ row.key = key
  BY <1>5, RowTo, ZenonT(30) DEF RowPhases
<1>7. key # 0
  BY <1>2, StateIs
<1>8. RowSound(row)'
  BY <1>1, <1>2, <1>6, <1>7 DEF RowSound
<1>9. Hm!SessionWhole' /\ NoneThere'
  <2>1. Hm!SessionWhole'
    BY <1>1, SessionsKept
  <2> QED
    BY <1>1, <2>1 DEF HomeInv, NoneThere
<1>10. Hm!RetriedOnce'
  <2>1. c \notin disturbed /\ key \notin done => home[c].pending[r] = key
    BY <1>1, <1>2 DEF RowSound
  <2> QED
    BY <1>1, <1>2, <1>3, <2>1, SMTT(30) DEF HomeInv, Hm!RetriedOnce
<1> QED
  BY <1>1, <1>2, <1>3, <1>4, <1>5, <1>6, <1>8, <1>9, <1>10, OneMoves, StateIs

LEMMA AnsweredStep ==
  ASSUME HomeInv, NEW p \in Commands, Hm!Answer(p)
  PROVE  HomeInv'
<1> DEFINE c == command[p].caller  r == command[p].request
           after == [command[p] EXCEPT !.phase = "complete", !.pending = home[c].pending]
<1>1. /\ command[p].phase = "sent" /\ command' = [command EXCEPT ![p] = after]
      /\ open' = [open EXCEPT ![c][r] = {}] /\ UNCHANGED <<home, begun, done, disturbed>>
  BY DEF Hm!Answer, Hm!Caller, Hm!Home
<1>2. /\ c \in Callers /\ r \in Mutations /\ RowSound(command[p]) /\ command[p] \in Running(begun)
      /\ home[c] \in Directories(begun)
  BY <1>1, RowIs, StateIs DEF RowSound
<1>3. /\ open' \in [Callers -> [Mutations -> SUBSET (1..begun)]]
      /\ \A d \in Callers, s \in Mutations : open'[d][s] = IF d = c /\ s = r THEN {} ELSE open[d][s]
  BY <1>1, <1>2, StateIs
<1>4. FilesKept
  BY <1>1, <1>3 DEF FilesKept
<1>5. PICK row : row = after
  OBVIOUS
<1>6. /\ row \in Running(begun) /\ row.phase = "complete" /\ row.caller = c /\ row.request = r
      /\ row.key = command[p].key
  <2>1. home[c].pending \in [Mutations -> 0..begun]
    BY <1>2 DEF Directories
  <2> QED
    BY <1>2, <1>5, <2>1 DEF Running
<1>7. RowSound(row)'
  BY <1>1, <1>2, <1>3, <1>6 DEF RowSound
<1>8. Hm!SessionWhole' /\ NoneThere'
  <2>1. Hm!SessionWhole'
    BY <1>1, SessionsKept
  <2> QED
    BY <1>1, <2>1 DEF HomeInv, NoneThere
<1>9. Hm!RetriedOnce'
  BY <1>1, <1>3 DEF HomeInv, Hm!RetriedOnce
<1> QED
  BY <1>1, <1>3, <1>4, <1>5, <1>6, <1>7, <1>8, <1>9, OneMoves, StateIs

LEMMA CompletedStep ==
  ASSUME HomeInv, NEW p \in Commands, Hm!CompleteMutation(p)
  PROVE  HomeInv'
<1> DEFINE c == command[p].caller  r == command[p].request  key == command[p].key
           other == home[c].pending[r] \notin {0, key}
<1>1. /\ command[p].phase = "complete" /\ UNCHANGED <<begun, done, open>>
      /\ Hm!WriteKeys(p, 0, other)
      /\ \/ command' = [command EXCEPT ![p] = [command[p] EXCEPT !.phase = "answered"]]
         \/ command' = [command EXCEPT ![p] = Hm!Idle]
  <2>1. /\ command[p].phase = "complete" /\ UNCHANGED <<begun, done, open>>
        /\ Hm!WriteKeys(p, 0, other)
        /\ Hm!Goto(p, "complete", "answered") \/ Hm!Done(p)
    BY DEF Hm!CompleteMutation, Hm!Home, Hm!Caller
  <2> QED
    BY <2>1, GotoRow DEF Hm!Done
<1>2. /\ c \in Callers /\ r \in Mutations /\ key \in 1..begun /\ begun \in Nat
      /\ key \in done /\ key \notin open[c][r]
  BY <1>1, RowIs DEF RowSound
<1>3. PICK differs \in BOOLEAN : differs = other
  BY Zenon
<1>4. /\ home' \in [Callers -> Directories(begun)] /\ NoneThere'
      /\ \A d \in Callers : /\ home'[d].meta = home[d].meta
                            /\ home'[d].credential = home[d].credential
      /\ \A d \in Callers : d # c => home'[d] = home[d]
      /\ disturbed \subseteq disturbed' /\ disturbed' \subseteq Callers
      /\ c \notin disturbed' =>
           /\ ~differs /\ home[c].pending = command[p].pending
           /\ home'[c].pending[r] = 0
           /\ \A s \in Mutations : s # r => home'[c].pending[s] = home[c].pending[s]
  <2>1. 0 \in 0..begun
    BY <1>2
  <2>2. Hm!WriteKeys(p, 0, differs)
    BY <1>1, <1>3
  <2> QED
    BY <1>1, <1>2, <2>1, <2>2, KeyWritten, ZenonT(30)
<1>5. c \notin disturbed' => home[c].pending[r] \in {0, key}
  BY <1>3, <1>4
<1>6. FilesKept
  BY <1>1, <1>2, <1>4, <1>5 DEF FilesKept
<1>7. PICK row \in Running(begun) : RowSound(row)' /\ command' = [command EXCEPT ![p] = row]
  <2>1. PICK answered : answered = [command[p] EXCEPT !.phase = "answered"]
    OBVIOUS
  <2>2. answered \in Running(begun) /\ answered.phase = "answered" /\ answered.caller = c
        /\ answered.key = key
    BY <2>1, RowTo DEF RowPhases
  <2>3. key # 0
    BY <1>2
  <2>4. RowSound(answered)'
    BY <1>2, <2>2, <2>3, QuietRow DEF Quiet
  <2> QED
    BY <1>1, <2>1, <2>2, <2>4, IdleRow, StateIs
<1>8. Hm!SessionWhole'
  BY <1>1, <1>4, <1>7, SessionsKept
<1>9. Hm!RetriedOnce'
  <2> SUFFICES ASSUME NEW d \in Callers \ disturbed', NEW s \in Mutations, open[d][s] # {}
               PROVE  open[d][s] = {home'[d].pending[s]}
    BY <1>1 DEF Hm!RetriedOnce
  <2>1. open[d][s] = {home[d].pending[s]} /\ open[d][s] \subseteq 1..begun
    BY <1>4, StateIs DEF HomeInv, Hm!RetriedOnce
  <2>2. home[d].pending[s] # 0
    BY <2>1, <1>2
  <2>3. ~(d = c /\ s = r)
    BY <1>2, <1>5, <2>1, <2>2
  <2> QED
    BY <1>4, <2>1, <2>3
<1> QED
  BY <1>1, <1>4, <1>6, <1>7, <1>8, <1>9, OneMoves, StateIs

(* A step that writes the session's files of its caller, and no other's.   *)
LEMMA SessionsMove ==
  ASSUME HomeInv, NEW p \in Commands, NEW row, command' = [command EXCEPT ![p] = row],
         disturbed \subseteq disturbed',
         \A d \in Callers : d # command[p].caller => home'[d] = home[d],
         command[p].caller \notin disturbed' =>
           \/ home'[command[p].caller].meta = home'[command[p].caller].credential
           \/ row.phase = "credential" /\ row.caller = command[p].caller
  PROVE  Hm!SessionWhole'
<1>1. \A q \in Commands : command'[q] = IF q = p THEN row ELSE command[q]
  BY DEF HomeInv, HomeTyped
<1> SUFFICES ASSUME NEW d \in Callers \ disturbed', home'[d].meta # home'[d].credential
             PROVE  \E q \in Commands : command'[q].phase = "credential" /\ command'[q].caller = d
  BY DEF Hm!SessionWhole, Hm!Caller
<1>2. CASE d = command[p].caller
  BY <1>1, <1>2
<1>3. CASE d # command[p].caller
  <2>1. home[d].meta # home[d].credential /\ d \notin disturbed
    BY <1>3
  <2>2. PICK q \in Commands : command[q].phase = "credential" /\ command[q].caller = d
    BY <2>1 DEF HomeInv, Hm!SessionWhole, Hm!Caller
  <2> QED
    BY <1>1, <1>3, <2>2
<1> QED
  BY <1>2, <1>3

(* The row of a command that goes on to a phase that waits for nothing.    *)
LEMMA GoesOn ==
  ASSUME HomeInv, NEW p \in Commands, command[p].phase # "idle", NEW to \in Quiet
  PROVE  \E row \in Running(begun) :
           /\ row = [command[p] EXCEPT !.phase = to] /\ row.phase = to
           /\ row.caller = command[p].caller /\ RowSound(row)'
<1>1. PICK row : row = [command[p] EXCEPT !.phase = to]
  OBVIOUS
<1>2. row \in Running(begun) /\ row.phase = to /\ row.caller = command[p].caller
      /\ row.key = command[p].key
  <2>1. to \in RowPhases
    BY DEF Quiet, RowPhases
  <2> QED
    BY <1>1, <2>1, RowTo
<1>3. row.caller \in Callers /\ row.key # 0
  BY <1>2, RowIs
<1>4. RowSound(row)'
  BY <1>2, <1>3, QuietRow
<1> QED
  BY <1>1, <1>2, <1>4

LEMMA CredentialStep ==
  ASSUME HomeInv, NEW p \in Commands, Hm!SaveCredential(p)
  PROVE  HomeInv'
<1> DEFINE c == command[p].caller  key == command[p].key
<1>1. /\ command[p].phase = "begun" /\ UNCHANGED <<begun, done, open, disturbed>>
      /\ command' = [command EXCEPT ![p] = [command[p] EXCEPT !.phase = "credential"]]
      /\ home' = [home EXCEPT ![c].there = TRUE, ![c].credential = key]
  BY GotoRow DEF Hm!SaveCredential, Hm!Caller
<1>2. c \in Callers /\ key \in 0..begun /\ home[c] \in Directories(begun)
  BY <1>1, RowIs
<1>3. PICK row \in Running(begun) : /\ command' = [command EXCEPT ![p] = row] /\ RowSound(row)'
                                    /\ row.phase = "credential" /\ row.caller = c
  BY <1>1, GoesOn DEF Quiet
<1>4. PICK yes \in BOOLEAN : yes = TRUE
  BY Zenon
<1>5. PICK dir : dir = [home[c] EXCEPT !.there = yes, !.credential = key]
  OBVIOUS
<1>6. dir \in Directories(begun) /\ dir.there = yes /\ dir.pending = home[c].pending
  BY <1>2, <1>5 DEF Directories
<1>7. home' = [home EXCEPT ![c] = dir]
  BY <1>1, <1>4, <1>5
<1>8. /\ home'[c] = dir /\ \A d \in Callers : d # c => home'[d] = home[d]
      /\ home' \in [Callers -> Directories(begun)]
  BY <1>2, <1>6, <1>7, StateIs
<1>9. NoneThere'
  BY <1>4, <1>6, <1>8 DEF HomeInv, NoneThere
<1>10. Hm!SessionWhole'
  BY <1>1, <1>3, <1>8, SessionsMove
<1>11. \A d \in Callers : home'[d].pending = home[d].pending
  BY <1>6, <1>8
<1> QED
  BY <1>1, <1>3, <1>8, <1>9, <1>10, <1>11, QuietStep, StateIs

LEMMA SessionStep ==
  ASSUME HomeInv, NEW p \in Commands, Hm!SaveSession(p)
  PROVE  HomeInv'
<1> DEFINE c == command[p].caller  key == command[p].key
<1>1. /\ command[p].phase = "credential" /\ UNCHANGED <<begun, done, open>>
      /\ disturbed' = IF home[c].credential # key THEN disturbed \cup {c} ELSE disturbed
      /\ \/ /\ home[c].there
            /\ command' = [command EXCEPT ![p] = [command[p] EXCEPT !.phase = "prune"]]
            /\ home' = [home EXCEPT ![c].meta = key, ![c].lease = "live"]
         \/ /\ ~home[c].there /\ home' = home
            /\ command' = [command EXCEPT ![p] = Hm!Idle]
  <2>1. \/ home[c].there /\ Hm!Goto(p, "credential", "prune")
           /\ home' = [home EXCEPT ![c].meta = key, ![c].lease = "live"]
        \/ ~home[c].there /\ home' = home /\ Hm!Done(p)
    BY DEF Hm!SaveSession, Hm!Home, Hm!Caller
  <2> QED
    BY <2>1, GotoRow DEF Hm!SaveSession, Hm!Home, Hm!Caller, Hm!Disturb, Hm!Done
<1>2. c \in Callers /\ key \in 1..begun /\ begun \in Nat /\ home[c] \in Directories(begun)
  BY <1>1, RowIs
<1>3. key \in 0..begun /\ key # 0
  BY <1>2
<1>4. disturbed \subseteq disturbed' /\ disturbed' \subseteq Callers
  BY <1>1, <1>2, StateIs
<1>5. PICK row \in Running(begun) : command' = [command EXCEPT ![p] = row] /\ RowSound(row)'
  <2>1. CASE command' = [command EXCEPT ![p] = [command[p] EXCEPT !.phase = "prune"]]
    BY <1>1, <2>1, GoesOn DEF Quiet
  <2>2. CASE command' = [command EXCEPT ![p] = Hm!Idle]
    BY <2>2, IdleRow, StateIs
  <2> QED
    BY <1>1, <2>1, <2>2
<1>6. CASE ~home[c].there
  <2>1. home' = home /\ home[c].credential = 0
    BY <1>1, <1>2, <1>6 DEF HomeInv, NoneThere
  <2>2. c \in disturbed'
    BY <1>1, <1>3, <2>1
  <2>3. Hm!SessionWhole' /\ NoneThere'
    <3>1. Hm!SessionWhole'
      BY <1>4, <1>5, <2>1, <2>2, SessionsMove
    <3> QED
      BY <2>1, <3>1 DEF HomeInv, NoneThere
  <2> QED
    BY <1>1, <1>4, <1>5, <2>1, <2>3, QuietStep, StateIs
<1>7. CASE home[c].there
  <2>1. PICK dir : dir = [home[c] EXCEPT !.meta = key, !.lease = "live"]
    OBVIOUS
  <2>2. /\ dir \in Directories(begun) /\ dir.there = home[c].there /\ dir.meta = key
        /\ dir.credential = home[c].credential /\ dir.pending = home[c].pending
    BY <1>2, <1>3, <2>1 DEF Directories
  <2>3. home' = [home EXCEPT ![c] = dir]
    BY <1>1, <1>7, <2>1
  <2>4. /\ home'[c] = dir /\ \A d \in Callers : d # c => home'[d] = home[d]
        /\ home' \in [Callers -> Directories(begun)]
    BY <1>2, <2>2, <2>3, StateIs
  <2>5. NoneThere'
    BY <1>7, <2>2, <2>4 DEF HomeInv, NoneThere
  <2>6. Hm!SessionWhole'
    BY <1>1, <1>4, <1>5, <2>2, <2>4, SessionsMove
  <2>7. \A d \in Callers : home'[d].pending = home[d].pending
    BY <2>2, <2>4
  <2> QED
    BY <1>1, <1>4, <1>5, <2>4, <2>5, <2>6, <2>7, QuietStep
<1> QED
  BY <1>6, <1>7

LEMMA ClearSessionStep ==
  ASSUME HomeInv, NEW p \in Commands, Hm!ClearSession(p)
  PROVE  HomeInv'
<1> DEFINE c == command[p].caller
<1>1. /\ command[p].phase = "end" /\ UNCHANGED <<begun, done, open>>
      /\ command' = [command EXCEPT ![p] = [command[p] EXCEPT !.phase = "prune"]]
      /\ home' = [home EXCEPT ![c].meta = 0, ![c].credential = 0]
      /\ disturbed' = IF home[c].meta # command[p].meta THEN disturbed \cup {c} ELSE disturbed
  BY GotoRow DEF Hm!ClearSession, Hm!Caller, Hm!Home, Hm!Disturb
<1>2. c \in Callers /\ begun \in Nat /\ home[c] \in Directories(begun)
  BY <1>1, RowIs
<1>3. PICK none \in 0..begun : none = 0
  BY <1>2
<1>4. PICK dir : dir = [home[c] EXCEPT !.meta = none, !.credential = none]
  OBVIOUS
<1>5. /\ dir \in Directories(begun) /\ dir.there = home[c].there /\ dir.meta = none
      /\ dir.credential = none /\ dir.pending = home[c].pending
  BY <1>2, <1>4 DEF Directories
<1>6. home' = [home EXCEPT ![c] = dir]
  BY <1>1, <1>3, <1>4
<1>7. /\ home'[c] = dir /\ \A d \in Callers : d # c => home'[d] = home[d]
      /\ home' \in [Callers -> Directories(begun)]
  BY <1>2, <1>5, <1>6, StateIs
<1>8. PICK row \in Running(begun) : command' = [command EXCEPT ![p] = row] /\ RowSound(row)'
  BY <1>1, GoesOn DEF Quiet
<1>9. disturbed \subseteq disturbed' /\ disturbed' \subseteq Callers
  BY <1>1, <1>2, StateIs
<1>10. NoneThere'
  BY <1>2, <1>3, <1>5, <1>7 DEF HomeInv, NoneThere
<1>11. Hm!SessionWhole'
  BY <1>5, <1>7, <1>8, <1>9, SessionsMove
<1>12. \A d \in Callers : home'[d].pending = home[d].pending
  BY <1>5, <1>7
<1> QED
  BY <1>1, <1>7, <1>8, <1>9, <1>10, <1>11, <1>12, QuietStep

LEMMA PrunedStep ==
  ASSUME HomeInv, NEW p \in Commands, Hm!Remove(p)
  PROVE  HomeInv'
<1> DEFINE c == command[p].caller
<1>1. /\ command[p].phase = "remove" /\ UNCHANGED <<begun, done, open>>
      /\ command' = [command EXCEPT ![p] = [command[p] EXCEPT !.phase = "prune"]]
      /\ home' = [home EXCEPT ![c] = Hm!NoHome]
      /\ disturbed' \in {disturbed, disturbed \cup {c}}
      /\ home[c].pending # command[p].pending => c \in disturbed'
  BY GotoRow DEF Hm!Remove, Hm!Caller, Hm!Home, Hm!Disturb
<1>2. c \in Callers /\ begun \in Nat /\ RowSound(command[p])
  BY <1>1, RowIs
<1>3. /\ home'[c] = Hm!NoHome /\ \A d \in Callers : d # c => home'[d] = home[d]
      /\ home' \in [Callers -> Directories(begun)]
  BY <1>1, <1>2, EmptyHome, StateIs
<1>4. PICK row \in Running(begun) : command' = [command EXCEPT ![p] = row] /\ RowSound(row)'
  BY <1>1, GoesOn DEF Quiet
<1>5. disturbed \subseteq disturbed' /\ disturbed' \subseteq Callers
  BY <1>1, <1>2, StateIs
<1>6. NoneThere'
  BY <1>3, EmptyHome DEF HomeInv, NoneThere, Hm!NoKeys
<1>7. Hm!SessionWhole'
  BY <1>3, <1>4, <1>5, EmptyHome, SessionsMove
<1>8. \A d \in Callers \ disturbed' : home'[d].pending = home[d].pending
  BY <1>1, <1>2, <1>3, EmptyHome DEF RowSound
<1> QED
  BY <1>1, <1>3, <1>4, <1>5, <1>6, <1>7, <1>8, QuietStep

(* Any step of any command, and the passing of time.                       *)
LEMMA HomeStep ==
  ASSUME HomeInv, [Hm!Next]_(Hm!homeVars)
  PROVE  HomeInv'
<1>1. CASE UNCHANGED Hm!homeVars
  BY <1>1 DEF Hm!homeVars, HomeInv, HomeTyped, RowSound, NoneThere, Hm!RetriedOnce, Hm!SessionWhole,
              Hm!Caller
<1>2. CASE \E p \in Commands :
             \/ Hm!Renew(p) \/ Hm!LoadKeys(p) \/ Hm!StoreKey(p) \/ Hm!CarryOut(p) \/ Hm!Answer(p)
             \/ Hm!CompleteMutation(p) \/ Hm!BroadcastActivity(p)
  BY <1>2, RenewStep, LoadKeysStep, StoreKeyStep, CarryOutStep, AnsweredStep, CompletedStep,
     BroadcastStep
<1>3. CASE \E p \in Commands :
             \/ Hm!SaveCredential(p) \/ Hm!SaveSession(p) \/ Hm!ClearSession(p) \/ Hm!Remove(p)
             \/ Hm!Stop(p) \/ \E c \in Callers : Hm!Look(p, c)
  BY <1>3, CredentialStep, SessionStep, ClearSessionStep, PrunedStep, CommandStops, LookStep
<1>4. CASE \E p \in Commands, c \in Callers : Hm!Command(p, c)
  <2>1. PICK p \in Commands, c \in Callers : Hm!Command(p, c)
    BY <1>4
  <2>2. PICK f \in Hm!Forms : \E r \in (IF "keyed" \in f THEN Mutations ELSE {Absent}) :
          Hm!Begins(p, c, "loaded", f, r)
    BY <2>1 DEF Hm!Command
  <2>3. PICK r \in Mutations \cup {Absent} :
          ("keyed" \in f => r \in Mutations) /\ Hm!Begins(p, c, "loaded", f, r)
    BY <2>2
  <2>4. f \in SUBSET {"lease", "policy", "keyed", "announced"}
    BY DEF Hm!Forms, Hm!Message, Hm!ForumAsk, Hm!Inbox, Hm!KnowledgeInspect, Hm!KnowledgeCard,
           Hm!KnowledgeReview, Hm!MemorySave, Hm!MemoryConsolidate, Hm!RoomCommand, Hm!TaskDecline,
           Hm!Request, Hm!KnowledgeArchive, Hm!KnowledgeList, Hm!MemoryCommand, Hm!ReadRoom,
           Hm!Report, Hm!ForumList, Hm!ForumResolve, Hm!Subscribe, Hm!Recommendations, Hm!Usage,
           Hm!Post, Hm!Keyed, Hm!Unkeyed, Hm!Announced
  <2> QED
    BY <2>1, <2>3, <2>4, BeginsStep
<1>5. CASE \E p \in Commands, c \in Callers :
             Hm!SessionBegin(p, c) \/ Hm!SessionEnd(p, c) \/ Hm!SessionPrune(p, c)
  <2>1. PICK p \in Commands, c \in Callers, stage \in {"begun", "end", "prune"} :
          Hm!Begins(p, c, stage, {}, Absent)
    BY <1>5 DEF Hm!SessionBegin, Hm!SessionEnd, Hm!SessionPrune
  <2> QED
    BY <2>1, BeginsStep
<1>6. CASE \E c \in Callers : Hm!Pass(c)
  BY <1>6, PassStep
<1> QED
  BY <1>1, <1>2, <1>3, <1>4, <1>5, <1>6 DEF Hm!Next

LEMMA HomeInvariant == Hm!Spec => []HomeInv
<1>1. Hm!Init => HomeInv
  BY HomeStarts
<1>2. HomeInv /\ [Hm!Next]_(Hm!homeVars) => HomeInv'
  BY HomeStep
<1> QED
  BY <1>1, <1>2, PTL DEF Hm!Spec

(* A request that had no answer still waits for its retry under the key it *)
(* was carried out with, so that no retry does it twice, and a caller has  *)
(* the metadata and the credential of one session: through deaths, ended   *)
(* sessions and pruned homes, for every number of commands at a time,      *)
(* unless a copy of the file that another command had changed was written  *)
(* back or a death fell between the two files (state.js, cli.js).          *)
THEOREM RetriedCorrect == Hm!Spec => [](Hm!RetriedOnce /\ Hm!SessionWhole)
<1>1. HomeInv => Hm!RetriedOnce /\ Hm!SessionWhole
  BY DEF HomeInv
<1> QED
  BY <1>1, HomeInvariant, PTL

(* What the files hold are keys and sessions of commands that have begun,  *)
(* and a home without its directory holds nothing.                         *)
THEOREM HomeTypeCorrect == Hm!Spec => []Hm!TypeOK
<1>1. HomeInv => Hm!TypeOK
  <2> SUFFICES ASSUME HomeInv PROVE Hm!TypeOK
    OBVIOUS
  <2>1. ASSUME NEW c \in Callers
        PROVE  /\ home[c].meta \in 0..begun /\ home[c].credential \in 0..begun
               /\ \A r \in Mutations : home[c].pending[r] \in 0..begun
    BY StateIs DEF Directories
  <2>2. ASSUME NEW c \in Callers, ~home[c].there
        PROVE  home[c] = [Hm!NoHome EXCEPT !.lease = home[c].lease]
    <3>1. /\ home[c] \in Directories(begun) /\ home[c].meta = 0 /\ home[c].credential = 0
          /\ home[c].pending = Hm!NoKeys
      BY <2>2, StateIs DEF HomeInv, NoneThere
    <3>2. PICK no \in BOOLEAN : no = FALSE
      BY Zenon
    <3>3. home[c].there = no
      <4>1. home[c].there \in BOOLEAN
        BY <3>1 DEF Directories
      <4> QED
        BY <2>2, <3>2, <4>1, Zenon
    <3>4. Hm!NoHome = [there |-> no, meta |-> 0, lease |-> "over", credential |-> 0,
                       pending |-> Hm!NoKeys]
      BY <3>2 DEF Hm!NoHome
    <3>5. [Hm!NoHome EXCEPT !.lease = home[c].lease] =
            [there |-> no, meta |-> 0, lease |-> home[c].lease, credential |-> 0,
             pending |-> Hm!NoKeys]
      BY <3>4
    <3> QED
      BY <3>1, <3>3, <3>5 DEF Directories
  <2> QED
    BY <2>1, <2>2, StateIs DEF Hm!TypeOK
<1> QED
  BY <1>1, HomeInvariant, PTL

(****************************************************************************)
(* Setup                                                                    *)
(****************************************************************************)
(* The other variables of Setup.                                           *)
vault == s2
config == s3
enrolled == s4
unlinked == s5
setup == s6
forsaken == s7
forced == s8
USE DEF vault, config, enrolled, unlinked, setup, forsaken, forced

File(n) == [there : BOOLEAN, agents : [Ids -> 0..n]]
SetupCommands(n) ==
  [phase : {"idle", "next", "credential", "config", "owner", "splice", "remove"},
   form : {"", "init", "add", "unlink"}, todo : SUBSET Ids, id : Ids \cup {Nobody},
   agent : 0..n, made : [Ids -> 0..n]]
SetupTyped ==
  /\ enrolled \in Nat /\ vault \in File(enrolled) /\ config \in File(enrolled)
  /\ home \in [Ids -> [credential : 0..enrolled, agent : 0..enrolled]]
  /\ setup \in SetupCommands(enrolled)
  /\ unlinked \subseteq 1..enrolled /\ forsaken \subseteq 1..enrolled /\ forced \subseteq Ids

(* What the command has done so far.                                       *)
CommandSound ==
  /\ setup.phase \in {"idle", "splice", "remove"} => setup.made = St!None /\ setup.agent = 0
  /\ setup.phase = "idle" => setup = St!Idle
  /\ setup.phase \in {"credential", "config", "splice", "remove"} => setup.id \in Ids
  /\ setup.phase \in {"next", "credential", "config", "owner"} => setup.form \in {"init", "add"}
  /\ setup.phase \in {"credential", "config"} => setup.agent # 0 /\ setup.id \notin setup.todo
  /\ setup.phase \in {"next", "owner"} => setup.agent \in {0} \cup St!Numbers(setup.made)
  /\ setup.phase = "config" => /\ home[setup.id].credential = setup.agent
                               /\ setup.form = "init" => setup.id \in forced
  /\ setup.phase = "remove" => config.agents[setup.id] = 0
(* Characters still to enroll, or being enrolled.                          *)
Working(i) == i \in setup.todo \/ (setup.phase \in {"credential", "config"} /\ i = setup.id)
(* The vault follows the command: nothing of the character it adds before  *)
(* it is written, and what was made after; the config follows the vault.   *)
CharacterSound(i) ==
  /\ setup.phase \notin {"idle", "owner"} /\ Working(i) => setup.made[i] = 0
  /\ setup.made[i] # 0 => home[i] = [credential |-> setup.made[i], agent |-> setup.made[i]]
  /\ setup.phase \in {"next", "credential", "config"} /\ setup.form = "add" =>
       (Working(i) \/ setup.made[i] # 0 => vault.agents[i] = 0)
  /\ setup.phase = "owner" =>
       vault.agents[i] = setup.made[i] \/ (setup.form = "add" /\ setup.made[i] = 0)
  /\ i \notin forced => config.agents[i] \in {0, vault.agents[i]}
  /\ i \notin forced /\ config.agents[i] # 0 =>
       home[i] = [credential |-> config.agents[i], agent |-> config.agents[i]]
SetupInv ==
  SetupTyped /\ CommandSound /\ (\A i \in Ids : CharacterSound(i)) /\ St!VaultHasAll
  /\ (setup.phase = "owner" => St!Numbers(setup.made) \subseteq St!Numbers(vault.agents))

LEMMA NoneMade == St!None = [i \in Ids |-> 0] /\ St!Numbers(St!None) = {}
BY DEF St!None, St!Numbers

LEMMA IdleCommand ==
  \A n \in Nat : /\ St!Idle \in SetupCommands(n) /\ St!Idle.phase = "idle" /\ St!Idle.made = St!None
                 /\ St!Idle.agent = 0 /\ St!Idle.todo = {}
BY NoneMade DEF St!Idle, SetupCommands

LEMMA SetupStarts == St!Init => SetupInv
<1> SUFFICES ASSUME St!Init PROVE SetupInv
  OBVIOUS
<1>1. /\ enrolled = 0 /\ unlinked = {} /\ forsaken = {} /\ forced = {} /\ setup = St!Idle
      /\ vault = [there |-> FALSE, agents |-> St!None] /\ config = vault
      /\ home = [i \in Ids |-> [credential |-> 0, agent |-> 0]]
  BY DEF St!Init, St!NoFile, St!NoHome
<1>2. SetupTyped
  BY <1>1, IdleCommand, NoneMade DEF SetupTyped, File
<1>3. CommandSound /\ \A i \in Ids : CharacterSound(i)
  BY <1>1, IdleCommand, NoneMade DEF CommandSound, CharacterSound, Working
<1> QED
  BY <1>1, <1>2, <1>3, IdleCommand DEF SetupInv, St!VaultHasAll

(* A command that starts has made nothing yet.                             *)
LEMMA Started ==
  ASSUME SetupInv, NEW form \in {"init", "add"}, NEW ids \in SUBSET Ids, St!Starts(form, ids),
         form = "add" => \A i \in ids : vault.agents[i] = 0,
         UNCHANGED <<vault, config, home, enrolled, unlinked, forsaken, forced>>
  PROVE  SetupInv'
<1>1. setup = St!Idle /\ setup' = [St!Idle EXCEPT !.phase = "next", !.form = form, !.todo = ids]
  BY DEF St!Starts, St!At, SetupInv, CommandSound
<1>2. /\ setup' \in SetupCommands(enrolled) /\ setup'.phase = "next" /\ setup'.form = form
      /\ setup'.todo = ids /\ setup'.made = St!None /\ setup'.agent = 0
  BY <1>1, NoneMade DEF SetupInv, SetupTyped, SetupCommands, St!Idle
<1>3. SetupTyped'
  BY <1>2 DEF SetupInv, SetupTyped, File
<1>4. CommandSound'
  BY <1>2 DEF CommandSound
<1>5. ASSUME NEW i \in Ids PROVE CharacterSound(i)'
  <2>1. setup'.made[i] = 0 /\ (Working(i)' <=> i \in ids)
    BY <1>2, NoneMade DEF Working
  <2>2. CharacterSound(i)
    BY DEF SetupInv
  <2>3. /\ vault'.agents[i] = vault.agents[i] /\ config'.agents[i] = config.agents[i]
        /\ home'[i] = home[i] /\ forced' = forced
    OBVIOUS
  <2>4. form = "add" /\ i \in ids => vault.agents[i] = 0
    OBVIOUS
  <2> QED
    BY <1>2, <2>1, <2>2, <2>3, <2>4, SMTT(30) DEF CharacterSound
<1>6. St!VaultHasAll'
  BY <1>1, <1>2, IdleCommand, NoneMade DEF SetupInv, St!VaultHasAll, St!Numbers
<1> QED
  BY <1>2, <1>3, <1>4, <1>5, <1>6 DEF SetupInv

LEMMA EnrollStep ==
  ASSUME SetupInv, St!Enroll
  PROVE  SetupInv'
<1>1. PICK i \in setup.todo :
        setup' = [setup EXCEPT !.phase = "credential", !.todo = @ \ {i}, !.id = i,
                               !.agent = enrolled + 1]
  BY DEF St!Enroll
<1>2. /\ setup.phase = "next" /\ enrolled' = enrolled + 1 /\ enrolled \in Nat
      /\ UNCHANGED <<vault, config, home, unlinked, forsaken, forced>>
  BY DEF St!Enroll, St!At, SetupInv, SetupTyped
<1>3. 0..enrolled \subseteq 0..enrolled + 1 /\ 1..enrolled + 1 = 1..enrolled \cup {enrolled + 1}
  BY <1>2
<1>0. /\ setup.made \in [Ids -> 0..enrolled + 1] /\ i \in Ids /\ enrolled + 1 \in 0..enrolled + 1
      /\ setup.todo \ {i} \in SUBSET Ids /\ setup \in SetupCommands(enrolled)
  <2>1. setup \in SetupCommands(enrolled)
    BY DEF SetupInv, SetupTyped
  <2>2. setup.made \in [Ids -> 0..enrolled] /\ i \in Ids /\ setup.todo \ {i} \in SUBSET Ids
    BY <2>1 DEF SetupCommands
  <2>3. setup.made \in [Ids -> 0..enrolled + 1]
    BY <1>3, <2>2
  <2> QED
    BY <1>2, <2>1, <2>2, <2>3
<1>4. /\ setup' \in SetupCommands(enrolled + 1) /\ setup'.phase = "credential"
      /\ setup'.todo = setup.todo \ {i} /\ setup'.id = i /\ setup'.agent = enrolled + 1
      /\ setup'.made = setup.made /\ setup'.form = setup.form /\ i \in Ids
  BY <1>0, <1>1 DEF SetupCommands
<1>5. vault' \in File(enrolled + 1) /\ config' \in File(enrolled + 1)
  BY <1>2, <1>3 DEF SetupInv, SetupTyped, File
<1>6. SetupTyped'
  BY <1>2, <1>3, <1>4, <1>5 DEF SetupInv, SetupTyped
<1>7. CommandSound'
  BY <1>2, <1>4 DEF SetupInv, CommandSound
<1>8. ASSUME NEW j \in Ids PROVE CharacterSound(j)'
  BY <1>1, <1>2, <1>4 DEF SetupInv, CharacterSound, Working
<1>9. St!VaultHasAll'
  BY <1>2, <1>3, <1>4 DEF SetupInv, CommandSound, St!VaultHasAll, St!Numbers
<1> QED
  BY <1>4, <1>6, <1>7, <1>8, <1>9 DEF SetupInv

LEMMA SaveCredentialStep ==
  ASSUME SetupInv, St!SaveCredential
  PROVE  SetupInv'
<1> DEFINE i == setup.id
<1>1. /\ setup.phase = "credential" /\ setup' = [setup EXCEPT !.phase = "config"]
      /\ home' = [home EXCEPT ![i].credential = setup.agent]
      /\ forced' = IF setup.form = "init" THEN forced \cup {i} ELSE forced
      /\ UNCHANGED <<vault, config, enrolled, unlinked, forsaken>>
  BY DEF St!SaveCredential, St!At, St!Goto
<1>2. i \in Ids /\ setup.agent \in 0..enrolled /\ setup.agent # 0 /\ setup.form \in {"init", "add"}
  BY <1>1 DEF SetupInv, CommandSound, SetupTyped, SetupCommands
<1>3. /\ setup' \in SetupCommands(enrolled) /\ setup'.phase = "config" /\ setup'.todo = setup.todo
      /\ setup'.id = i /\ setup'.agent = setup.agent
      /\ setup'.made = setup.made /\ setup'.form = setup.form
  BY <1>1 DEF SetupInv, SetupTyped, SetupCommands
<1>4. /\ home' \in [Ids -> [credential : 0..enrolled, agent : 0..enrolled]]
      /\ home'[i].credential = setup.agent /\ \A j \in Ids : j # i => home'[j] = home[j]
  BY <1>1, <1>2 DEF SetupInv, SetupTyped
<1>5. SetupTyped'
  BY <1>1, <1>2, <1>3, <1>4 DEF SetupInv, SetupTyped
<1>6. CommandSound'
  BY <1>1, <1>2, <1>3, <1>4 DEF SetupInv, CommandSound
<1>7. ASSUME NEW j \in Ids PROVE CharacterSound(j)'
  <2>1. CharacterSound(j)
    BY DEF SetupInv
  <2>2. CASE j # i
    BY <1>1, <1>2, <1>3, <1>4, <2>1, <2>2 DEF CharacterSound, Working
  <2>3. CASE j = i
    <3>1. setup.made[i] = 0 /\ (setup.form = "add" => vault.agents[i] = 0)
      BY <1>1, <2>1, <2>3 DEF CharacterSound, Working
    <3>2. i \notin forced' => config.agents[i] = 0
      BY <1>1, <1>2, <2>1, <2>3, <3>1 DEF CharacterSound
    <3> QED
      BY <1>1, <1>2, <1>3, <2>3, <3>1, <3>2 DEF CharacterSound
  <2> QED
    BY <2>2, <2>3
<1>8. St!VaultHasAll'
  BY <1>1, <1>3 DEF SetupInv, St!VaultHasAll, St!Numbers
<1> QED
  BY <1>3, <1>5, <1>6, <1>7, <1>8 DEF SetupInv

LEMMA SaveConfigStep ==
  ASSUME SetupInv, St!SaveConfig
  PROVE  SetupInv'
<1> DEFINE i == setup.id
<1>1. /\ setup.phase = "config"
      /\ setup' = [setup EXCEPT !.phase = "next", !.made[i] = setup.agent]
      /\ home' = [home EXCEPT ![i].agent = setup.agent]
      /\ UNCHANGED <<vault, config, enrolled, unlinked, forsaken, forced>>
  BY DEF St!SaveConfig, St!At
<1>2. /\ i \in Ids /\ setup.agent \in 0..enrolled /\ setup.agent # 0 /\ setup.form \in {"init", "add"}
      /\ home[i].credential = setup.agent /\ (setup.form = "init" => i \in forced)
  BY <1>1 DEF SetupInv, CommandSound, SetupTyped, SetupCommands
<1>3. /\ setup' \in SetupCommands(enrolled) /\ setup'.phase = "next" /\ setup'.todo = setup.todo
      /\ setup'.agent = setup.agent /\ setup'.form = setup.form
      /\ setup'.made = [setup.made EXCEPT ![i] = setup.agent]
  BY <1>1, <1>2 DEF SetupInv, SetupTyped, SetupCommands
<1>4. /\ home' \in [Ids -> [credential : 0..enrolled, agent : 0..enrolled]]
      /\ home'[i] = [credential |-> setup.agent, agent |-> setup.agent]
      /\ \A j \in Ids : j # i => home'[j] = home[j]
  BY <1>1, <1>2 DEF SetupInv, SetupTyped
<1>5. setup.made \in [Ids -> 0..enrolled]
  BY DEF SetupInv, SetupTyped, SetupCommands
<1>6. setup'.made[i] = setup.agent /\ \A j \in Ids : j # i => setup'.made[j] = setup.made[j]
  BY <1>2, <1>3, <1>5
<1>7. CharacterSound(i) /\ Working(i) /\ setup.made[i] = 0
  BY <1>1, <1>2 DEF SetupInv, CharacterSound, Working
<1>8. SetupTyped'
  BY <1>1, <1>3, <1>4 DEF SetupInv, SetupTyped
<1>9. St!Numbers(setup'.made) = St!Numbers(setup.made) \cup {setup.agent}
  BY <1>2, <1>6, <1>7 DEF St!Numbers
<1>10. CommandSound'
  BY <1>2, <1>3, <1>9 DEF CommandSound
<1>11. ASSUME NEW j \in Ids PROVE CharacterSound(j)'
  <2>1. CharacterSound(j)
    BY DEF SetupInv
  <2>2. CASE j # i
    BY <1>1, <1>2, <1>3, <1>4, <1>6, <2>1, <2>2 DEF CharacterSound, Working
  <2>3. CASE j = i
    <3>1. setup.form = "add" => vault.agents[i] = 0
      BY <1>1, <1>7 DEF CharacterSound
    <3>2. i \notin forced => config.agents[i] = 0
      BY <1>2, <1>7, <3>1 DEF CharacterSound
    <3>3. i \notin setup.todo
      BY <1>1 DEF SetupInv, CommandSound
    <3> QED
      BY <1>1, <1>2, <1>3, <1>4, <1>6, <2>3, <3>1, <3>2, <3>3 DEF CharacterSound, Working
  <2> QED
    BY <2>2, <2>3
<1>12. St!VaultHasAll'
  BY <1>1, <1>3, <1>9 DEF SetupInv, St!VaultHasAll
<1> QED
  BY <1>3, <1>8, <1>10, <1>11, <1>12 DEF SetupInv

(* What is made replaces, or is added to, what the file had.               *)
LEMMA MergedIs ==
  ASSUME NEW n \in Nat, NEW first \in [Ids -> 0..n], NEW after \in [Ids -> 0..n]
  PROVE  /\ St!Merged(first, after) \in [Ids -> 0..n]
         /\ \A i \in Ids : St!Merged(first, after)[i] = IF first[i] # 0 THEN first[i] ELSE after[i]
         /\ St!Numbers(first) \subseteq St!Numbers(St!Merged(first, after))
         /\ St!Numbers(first) \subseteq 1..n
BY DEF St!Merged, St!Numbers

LEMMA KeptIs ==
  ASSUME SetupInv, NEW file \in File(enrolled)
  PROVE  /\ St!Kept(file) \in [Ids -> 0..enrolled] /\ enrolled \in Nat
         /\ setup.made \in [Ids -> 0..enrolled]
         /\ \A i \in Ids : St!Kept(file)[i] = IF setup.form = "init" THEN 0 ELSE file.agents[i]
<1>1. enrolled \in Nat /\ setup.made \in [Ids -> 0..enrolled]
  BY DEF SetupInv, SetupTyped, SetupCommands
<1>2. file.agents \in [Ids -> 0..enrolled]
  BY DEF File
<1>3. CASE setup.form = "init"
  BY <1>1, <1>3, NoneMade DEF St!Kept
<1>4. CASE setup.form # "init"
  BY <1>1, <1>2, <1>4 DEF St!Kept
<1> QED
  BY <1>3, <1>4

LEMMA WriteVaultStep ==
  ASSUME SetupInv, St!WriteVault
  PROVE  SetupInv'
<1>1. /\ setup.phase = "next" /\ setup.todo = {} /\ setup' = [setup EXCEPT !.phase = "owner"]
      /\ vault' = [there |-> TRUE, agents |-> St!Merged(setup.made, St!Kept(vault))]
      /\ forsaken' = forsaken \cup (St!Numbers(vault.agents) \ St!Numbers(vault'.agents))
      /\ forced' = forced \cup IF setup.form = "init"
           THEN {i \in Ids : config.agents[i] \notin {0, vault'.agents[i]}} ELSE {}
      /\ UNCHANGED <<config, home, enrolled, unlinked>>
  BY DEF St!WriteVault, St!At, St!Goto
<1>2. vault \in File(enrolled) /\ enrolled \in Nat /\ setup.form \in {"init", "add"}
  BY <1>1 DEF SetupInv, SetupTyped, CommandSound
<1>3. /\ vault'.agents \in [Ids -> 0..enrolled] /\ vault'.there = TRUE
      /\ \A i \in Ids : vault'.agents[i] = IF setup.made[i] # 0 THEN setup.made[i]
                                           ELSE IF setup.form = "init" THEN 0 ELSE vault.agents[i]
      /\ St!Numbers(setup.made) \subseteq St!Numbers(vault'.agents)
  <2>1. /\ St!Kept(vault) \in [Ids -> 0..enrolled] /\ setup.made \in [Ids -> 0..enrolled]
        /\ \A i \in Ids : St!Kept(vault)[i] = IF setup.form = "init" THEN 0 ELSE vault.agents[i]
    BY <1>2, KeptIs
  <2>2. vault'.agents = St!Merged(setup.made, St!Kept(vault)) /\ vault'.there = TRUE
    BY <1>1
  <2> QED
    BY <1>2, <2>1, <2>2, MergedIs
<1>4. /\ setup' \in SetupCommands(enrolled) /\ setup'.phase = "owner" /\ setup'.todo = setup.todo
      /\ setup'.agent = setup.agent /\ setup'.made = setup.made /\ setup'.form = setup.form
  BY <1>1 DEF SetupInv, SetupTyped, SetupCommands
<1>5. SetupTyped'
  <2>1. vault' \in File(enrolled)
    BY <1>1, <1>3 DEF File
  <2>2. St!Numbers(vault.agents) \subseteq 1..enrolled
    BY <1>2 DEF File, St!Numbers
  <2>3. forsaken' \subseteq 1..enrolled /\ forced' \subseteq Ids
    BY <1>1, <2>2 DEF SetupInv, SetupTyped
  <2> QED
    BY <1>1, <1>4, <2>1, <2>3 DEF SetupInv, SetupTyped
<1>6. CommandSound'
  BY <1>1, <1>2, <1>4 DEF SetupInv, CommandSound
<1>7. ASSUME NEW i \in Ids PROVE CharacterSound(i)'
  <2>1. CharacterSound(i)
    BY DEF SetupInv
  <2>2. i \notin forced' => config.agents[i] \in {0, vault'.agents[i]}
    <3>1. CASE setup.form = "init"
      BY <1>1, <3>1
    <3>2. CASE setup.form = "add"
      BY <1>1, <1>3, <2>1, <3>2 DEF CharacterSound
    <3> QED
      BY <1>2, <3>1, <3>2
  <2>3. i \notin forced' => i \notin forced
    BY <1>1
  <2>4. vault'.agents[i] = setup.made[i] \/ (setup.form = "add" /\ setup.made[i] = 0)
    BY <1>2, <1>3
  <2> QED
    BY <1>1, <1>4, <2>1, <2>2, <2>3, <2>4 DEF CharacterSound, Working
<1>8. St!VaultHasAll'
  BY <1>1, <1>4 DEF SetupInv, St!VaultHasAll
<1> QED
  BY <1>3, <1>4, <1>5, <1>6, <1>7, <1>8 DEF SetupInv

(* What a command leaves behind is accounted for.                          *)
LEMMA Ended ==
  ASSUME SetupInv, setup' = St!Idle, vault' = vault, config' \in File(enrolled),
         home' = home, enrolled' = enrolled, unlinked' = unlinked,
         forsaken \subseteq forsaken', forsaken' \subseteq 1..enrolled, forced' \subseteq Ids,
         {setup.agent} \cup St!Numbers(setup.made)
           \subseteq {0} \cup forsaken' \cup St!Numbers(vault.agents),
         \A i \in Ids \ forced' : /\ config'.agents[i] \in {0, vault.agents[i]}
                                  /\ config'.agents[i] # 0 =>
                                       home[i] = [credential |-> config'.agents[i],
                                                  agent |-> config'.agents[i]]
  PROVE  SetupInv'
<1>1. SetupTyped'
  BY IdleCommand DEF SetupInv, SetupTyped
<1>2. CommandSound' /\ \A i \in Ids : CharacterSound(i)'
  BY IdleCommand, NoneMade DEF CommandSound, CharacterSound, Working
<1>3. St!VaultHasAll'
  <2>1. 1..enrolled \subseteq {0} \cup forsaken' \cup St!Numbers(vault.agents)
    BY DEF SetupInv, St!VaultHasAll
  <2>2. 0 \notin 1..enrolled
    BY DEF SetupInv, SetupTyped
  <2> QED
    BY <2>1, <2>2 DEF St!VaultHasAll
<1> QED
  BY <1>1, <1>2, <1>3, IdleCommand DEF SetupInv

LEMMA WriteConfigStep ==
  ASSUME SetupInv, St!WriteConfig
  PROVE  SetupInv'
<1>1. /\ setup.phase = "owner" /\ setup' = St!Idle
      /\ config' = [there |-> TRUE, agents |-> St!Merged(St!Kept(config), setup.made)]
      /\ forced' = IF setup.form = "init" THEN {} ELSE forced
      /\ UNCHANGED <<vault, home, enrolled, unlinked, forsaken>>
  BY DEF St!WriteConfig, St!At
<1>2. /\ config \in File(enrolled) /\ enrolled \in Nat /\ setup.form \in {"init", "add"}
      /\ setup.agent \in {0} \cup St!Numbers(setup.made)
      /\ St!Numbers(setup.made) \subseteq St!Numbers(vault.agents)
  BY <1>1 DEF SetupInv, SetupTyped, CommandSound
<1>3. /\ config'.agents \in [Ids -> 0..enrolled] /\ config'.there = TRUE
      /\ \A i \in Ids : config'.agents[i] =
           IF setup.form # "init" /\ config.agents[i] # 0 THEN config.agents[i] ELSE setup.made[i]
  <2>1. /\ St!Kept(config) \in [Ids -> 0..enrolled] /\ setup.made \in [Ids -> 0..enrolled]
        /\ \A i \in Ids : St!Kept(config)[i] = IF setup.form = "init" THEN 0 ELSE config.agents[i]
    BY <1>2, KeptIs
  <2>2. config'.agents = St!Merged(St!Kept(config), setup.made) /\ config'.there = TRUE
    BY <1>1
  <2> QED
    BY <1>2, <2>1, <2>2, MergedIs
<1>4. config' \in File(enrolled)
  BY <1>1, <1>3 DEF File
<1>5. forsaken' \subseteq 1..enrolled /\ forced' \subseteq Ids
  BY <1>1 DEF SetupInv, SetupTyped
<1>6. ASSUME NEW i \in Ids \ forced'
      PROVE  /\ config'.agents[i] \in {0, vault.agents[i]}
             /\ config'.agents[i] # 0 =>
                  home[i] = [credential |-> config'.agents[i], agent |-> config'.agents[i]]
  <2>1. CharacterSound(i)
    BY DEF SetupInv
  <2>2. vault.agents[i] = setup.made[i] \/ (setup.form = "add" /\ setup.made[i] = 0)
    BY <1>1, <2>1 DEF CharacterSound
  <2>3. CASE setup.form # "init" /\ config.agents[i] # 0
    BY <1>1, <1>3, <2>1, <2>3 DEF CharacterSound
  <2>4. CASE ~(setup.form # "init" /\ config.agents[i] # 0)
    <3>1. config'.agents[i] = setup.made[i]
      BY <1>3, <2>4
    <3> QED
      BY <2>1, <2>2, <3>1 DEF CharacterSound
  <2> QED
    BY <2>3, <2>4
<1> QED
  BY <1>1, <1>2, <1>4, <1>5, <1>6, Ended

LEMMA UnlinkStep ==
  ASSUME SetupInv, NEW i \in Ids, St!AgentUnlink(i)
  PROVE  SetupInv'
<1>1. /\ setup = St!Idle /\ config.agents[i] # 0 /\ unlinked' = unlinked \cup {config.agents[i]}
      /\ setup' = [St!Idle EXCEPT !.phase = "splice", !.form = "unlink", !.id = i]
      /\ UNCHANGED <<vault, config, home, enrolled, forsaken, forced>>
  BY DEF St!AgentUnlink, St!At, SetupInv, CommandSound
<1>2. /\ setup' \in SetupCommands(enrolled) /\ setup'.phase = "splice" /\ setup'.todo = {}
      /\ setup'.id = i /\ setup'.agent = 0 /\ setup'.made = St!None /\ setup'.form = "unlink"
  BY <1>1, NoneMade DEF SetupInv, SetupTyped, SetupCommands, St!Idle
<1>3. unlinked' \subseteq 1..enrolled
  BY <1>1 DEF SetupInv, SetupTyped, File
<1>4. SetupTyped'
  BY <1>1, <1>2, <1>3 DEF SetupInv, SetupTyped
<1>5. CommandSound'
  BY <1>2 DEF CommandSound
<1>6. ASSUME NEW j \in Ids PROVE CharacterSound(j)'
  <2>1. setup'.made[j] = 0
    BY <1>2, NoneMade
  <2>2. CharacterSound(j)
    BY DEF SetupInv
  <2>3. /\ vault'.agents[j] = vault.agents[j] /\ config'.agents[j] = config.agents[j]
        /\ home'[j] = home[j] /\ forced' = forced
    BY <1>1
  <2> QED
    BY <1>2, <2>1, <2>2, <2>3, SMTT(30) DEF CharacterSound
<1>7. St!VaultHasAll'
  BY <1>1, <1>2, IdleCommand DEF SetupInv, St!VaultHasAll
<1> QED
  BY <1>2, <1>4, <1>5, <1>6, <1>7 DEF SetupInv

LEMMA SpliceStep ==
  ASSUME SetupInv, St!RemoveAgentFromOwnerConfig
  PROVE  SetupInv'
<1> DEFINE i == setup.id
<1>1. /\ setup.phase = "splice" /\ setup' = [setup EXCEPT !.phase = "remove"]
      /\ config' = [config EXCEPT !.agents[i] = 0]
      /\ UNCHANGED <<vault, home, enrolled, unlinked, forsaken, forced>>
  BY DEF St!RemoveAgentFromOwnerConfig, St!At, St!Goto
<1>2. i \in Ids /\ setup.made = St!None /\ setup.agent = 0 /\ enrolled \in Nat
  BY <1>1 DEF SetupInv, CommandSound, SetupTyped
<1>3. /\ setup' \in SetupCommands(enrolled) /\ setup'.phase = "remove" /\ setup'.id = i
      /\ setup'.agent = 0 /\ setup'.made = St!None
  BY <1>1, <1>2 DEF SetupInv, SetupTyped, SetupCommands
<1>4. /\ config' \in File(enrolled) /\ config'.agents[i] = 0
      /\ \A j \in Ids : j # i => config'.agents[j] = config.agents[j]
  BY <1>1, <1>2 DEF SetupInv, SetupTyped, File
<1>5. SetupTyped'
  BY <1>1, <1>3, <1>4 DEF SetupInv, SetupTyped
<1>6. CommandSound'
  BY <1>2, <1>3, <1>4 DEF CommandSound
<1>7. ASSUME NEW j \in Ids PROVE CharacterSound(j)'
  BY <1>1, <1>2, <1>3, <1>4, NoneMade DEF SetupInv, CharacterSound, Working
<1>8. St!VaultHasAll'
  BY <1>1, <1>2, <1>3 DEF SetupInv, St!VaultHasAll
<1> QED
  BY <1>3, <1>5, <1>6, <1>7, <1>8 DEF SetupInv

LEMMA RemoveStep ==
  ASSUME SetupInv, St!RemoveHome
  PROVE  SetupInv'
<1> DEFINE i == setup.id
<1>1. /\ setup.phase = "remove" /\ setup' = St!Idle /\ home' = [home EXCEPT ![i] = St!NoHome]
      /\ UNCHANGED <<vault, config, enrolled, unlinked, forsaken, forced>>
  BY DEF St!RemoveHome, St!At
<1>2. i \in Ids /\ setup.made = St!None /\ setup.agent = 0 /\ enrolled \in Nat
      /\ config.agents[i] = 0
  BY <1>1 DEF SetupInv, CommandSound, SetupTyped
<1>3. /\ home' \in [Ids -> [credential : 0..enrolled, agent : 0..enrolled]]
      /\ \A j \in Ids : j # i => home'[j] = home[j]
  BY <1>1, <1>2 DEF SetupInv, SetupTyped, St!NoHome
<1>4. SetupTyped'
  BY <1>1, <1>2, <1>3, IdleCommand DEF SetupInv, SetupTyped
<1>5. CommandSound'
  BY <1>1, IdleCommand DEF CommandSound
<1>6. ASSUME NEW j \in Ids PROVE CharacterSound(j)'
  BY <1>1, <1>2, <1>3, IdleCommand, NoneMade DEF SetupInv, CharacterSound, Working
<1>7. St!VaultHasAll'
  BY <1>1, <1>2, IdleCommand DEF SetupInv, St!VaultHasAll
<1> QED
  BY <1>1, <1>4, <1>5, <1>6, <1>7, IdleCommand DEF SetupInv

LEMMA StopStep ==
  ASSUME SetupInv, St!Stop
  PROVE  SetupInv'
<1>1. /\ setup' = St!Idle /\ UNCHANGED <<vault, config, home, enrolled, unlinked, forced>>
      /\ forsaken' = forsaken \cup (({setup.agent} \cup St!Numbers(setup.made))
                                      \ ({0} \cup St!Numbers(vault.agents)))
  BY DEF St!Stop, St!At
<1>2. /\ config \in File(enrolled) /\ forced \subseteq Ids /\ setup.agent \in 0..enrolled
      /\ forsaken \subseteq 1..enrolled /\ setup.made \in [Ids -> 0..enrolled] /\ enrolled \in Nat
  BY DEF SetupInv, SetupTyped, SetupCommands
<1>3. St!Numbers(setup.made) \subseteq 1..enrolled
  BY <1>2 DEF St!Numbers
<1>4. forsaken' \subseteq 1..enrolled /\ forsaken \subseteq forsaken'
  <2>1. \A n \in 0..enrolled : n # 0 => n \in 1..enrolled
    BY <1>2
  <2> QED
    BY <1>1, <1>2, <1>3, <2>1
<1>5. {setup.agent} \cup St!Numbers(setup.made)
        \subseteq {0} \cup forsaken' \cup St!Numbers(vault.agents)
  BY <1>1
<1>6. \A i \in Ids \ forced : /\ config.agents[i] \in {0, vault.agents[i]}
                              /\ config.agents[i] # 0 =>
                                   home[i] = [credential |-> config.agents[i],
                                              agent |-> config.agents[i]]
  BY DEF SetupInv, CharacterSound
<1> QED
  BY <1>1, <1>2, <1>4, <1>5, <1>6, Ended

LEMMA SetupInvariant == St!Spec => []SetupInv
<1>1. SetupInv /\ [St!Next]_(St!setupVars) => SetupInv'
  <2> SUFFICES ASSUME SetupInv, [St!Next]_(St!setupVars) PROVE SetupInv'
    OBVIOUS
  <2>0. CASE UNCHANGED St!setupVars
    BY <2>0 DEF St!setupVars, SetupInv, SetupTyped, CommandSound, CharacterSound, Working,
                St!VaultHasAll
  <2>1. ASSUME NEW force \in BOOLEAN, St!RunInit(force) PROVE SetupInv'
    BY <2>1, Started DEF St!RunInit
  <2>2. ASSUME NEW i \in Ids, St!AgentAdd(i) PROVE SetupInv'
    <3>1. {i} \in SUBSET Ids /\ St!Starts("add", {i}) /\ \A j \in {i} : vault.agents[j] = 0
      BY <2>2 DEF St!AgentAdd, St!MayAdd
    <3> QED
      BY <2>2, <3>1, Started DEF St!AgentAdd
  <2> QED
    BY <2>0, <2>1, <2>2, EnrollStep, SaveCredentialStep, SaveConfigStep, WriteVaultStep,
       WriteConfigStep, UnlinkStep, SpliceStep, RemoveStep, StopStep DEF St!Next
<1> QED
  BY <1>1, SetupStarts, PTL DEF St!Spec

(* Whatever step a command dies at, a participant that the owner's config  *)
(* sends to a home finds that agent's credential and identity there, and    *)
(* the vault has every agent but those of commands that died or were forced *)
(* (init-apply.js, agent-manage.js).                                        *)
THEOREM SetupCorrect == St!Spec => [](St!HomesHold /\ St!VaultHasAll /\ St!TypeOK)
<1>1. SetupInv => St!HomesHold /\ St!VaultHasAll
  BY DEF SetupInv, CharacterSound, St!HomesHold, St!ResolveParticipantHome
<1>2. SetupInv => St!TypeOK
  BY DEF SetupInv, SetupTyped, File, St!TypeOK
<1> QED
  BY <1>1, <1>2, SetupInvariant, PTL

(****************************************************************************)
(* RoomPage                                                                 *)
(****************************************************************************)
(* The variables of RoomPage.                                              *)
store == s1
shell == s2
minted == s3
selected == s4
applied == s5
pageOf == s6
listed == s7
calls == s8
tone == s9
loaded == s10
USE DEF store, shell, minted, selected, applied, pageOf, listed, calls, tone, loaded

(* What a call in flight is about.  One that still counts for the room was *)
(* made since the effects last ran, for the room they ran for.             *)
CallOK(call) ==
  /\ call \in Pg!Calls /\ call.shell \in 1..minted
  /\ call.kind \notin {"load", "logout"} => call.room # Absent
  /\ call.kind \in Pg!OfTheRoom /\ call.live /\ call.shell = shell => call.room = applied
(* The list holds the messages of the room that was asked for last, and of *)
(* the one selected until the effects run for it.                          *)
ScreenOK ==
  /\ applied # Absent => pageOf = applied
  /\ listed \subseteq {pageOf} \cup (IF applied = selected THEN {} ELSE {selected})
PageInv ==
  /\ Pg!PageTypeOK /\ shell <= minted
  /\ \A call \in calls : CallOK(call)
  /\ ScreenOK /\ Pg!SessionAndToneAreTrue

LEMMA TokensAre ==
  ASSUME Pg!PageAssumption
  PROVE  Pg!Tokens \cup {Pg!NoToken} = 0..MaxSignIns /\ Pg!Tokens = 1..MaxSignIns
         /\ Pg!NoToken = 0 /\ MaxSignIns \in Nat
BY DEF Pg!PageAssumption, Pg!Tokens, Pg!NoToken

LEMMA CallMade ==
  ASSUME NEW kind \in Pg!Kinds, NEW of \in Pg!Tokens, NEW token \in Pg!Tokens \cup {Pg!NoToken},
         NEW rm \in PageRooms \cup {Absent}
  PROVE  LET call == Pg!Call(kind, of, token, rm)
         IN  /\ call \in Pg!Calls /\ call.kind = kind /\ call.shell = of
             /\ call.token = token /\ call.room = rm
BY DEF Pg!Call, Pg!Calls

(* A shell that mounts, with no call yet but its first load.               *)
LEMMA Mounts ==
  ASSUME Pg!PageAssumption, Pg!Fresh, NEW m \in 0..MaxSignIns, minted' = m,
         store' \in 0..m, shell' = store', calls' \subseteq Pg!FirstLoad(store') \cup calls,
         \A call \in calls : call \in Pg!Calls /\ call.shell \in 1..m /\ call.shell # shell'
                             /\ (call.kind \notin {"load", "logout"} => call.room # Absent)
  PROVE  PageInv'
<1>1. /\ selected' = Absent /\ applied' = Absent /\ pageOf' = Absent /\ listed' = {}
      /\ tone' = "checking" /\ loaded' = "never"
  BY DEF Pg!Fresh
<1>2. ASSUME NEW call \in calls' PROVE CallOK(call)'
  <2>1. CASE call \in calls
    BY <2>1, <1>1 DEF CallOK
  <2>2. CASE call \in Pg!FirstLoad(store')
    <3>1. store' # 0 /\ store' \in Pg!Tokens /\ call = Pg!Call("load", store', store', Absent)
      BY <2>2, TokensAre DEF Pg!FirstLoad
    <3>2. call \in Pg!Calls /\ call.kind = "load" /\ call.shell = store'
      BY <3>1, CallMade DEF Pg!Kinds
    <3> QED
      BY <3>1, <3>2 DEF CallOK, Pg!OfTheRoom
  <2> QED
    BY <2>1, <2>2
<1>3. calls' \subseteq Pg!Calls
  BY <1>2 DEF CallOK
<1>4. Pg!PageTypeOK'
  BY <1>1, <1>3, TokensAre DEF Pg!PageTypeOK
<1>5. Pg!SessionAndToneAreTrue' /\ ScreenOK'
  BY <1>1 DEF Pg!SessionAndToneAreTrue, ScreenOK
<1> QED
  BY <1>2, <1>4, <1>5 DEF PageInv

(* A shell that is given up: no call is of none.                           *)
LEMMA Unmounts ==
  ASSUME Pg!PageAssumption, PageInv, Pg!Fresh, shell' = Pg!NoToken, store' = Pg!NoToken,
         minted' = minted, calls' \subseteq calls
  PROVE  PageInv'
<1>1. minted \in 0..MaxSignIns
  BY TokensAre DEF PageInv, Pg!PageTypeOK
<1>2. \A call \in calls : call \in Pg!Calls /\ call.shell \in 1..minted /\ call.shell # 0
                          /\ (call.kind \notin {"load", "logout"} => call.room # Absent)
  BY DEF PageInv, CallOK
<1> QED
  BY <1>1, <1>2, Mounts, TokensAre

LEMMA PageStarts == Pg!PageAssumption /\ Pg!PageInit => PageInv
BY TokensAre DEF Pg!PageInit, PageInv, Pg!PageTypeOK, CallOK, ScreenOK, Pg!SessionAndToneAreTrue

LEMMA OwnersStep ==
  ASSUME Pg!PageAssumption, PageInv,
         \/ Pg!SignIn \/ Pg!Reload \/ Pg!RunEffects
         \/ \E rm \in PageRooms \cup {Absent} : Pg!Select(rm)
         \/ \E kind \in Pg!Kinds \ {"first"} : Pg!Begin(kind)
  PROVE  PageInv'
<1>0. /\ store \in 0..MaxSignIns /\ shell \in 0..MaxSignIns /\ minted \in 0..MaxSignIns
      /\ store <= minted
      /\ \A call \in calls : call \in Pg!Calls /\ call.shell \in 1..minted
                             /\ (call.kind \notin {"load", "logout"} => call.room # Absent)
  BY TokensAre DEF PageInv, Pg!PageTypeOK, CallOK, Pg!SessionAndToneAreTrue
<1>1. CASE Pg!SignIn
  <2>1. /\ minted' = minted + 1 /\ minted < MaxSignIns /\ store' = minted' /\ shell' = minted'
        /\ calls' = calls \cup Pg!FirstLoad(store') /\ Pg!Fresh
    BY <1>1 DEF Pg!SignIn
  <2> QED
    BY <1>0, <2>1, Mounts, TokensAre
<1>2. CASE Pg!Reload
  <2>1. /\ minted' = minted /\ store' = store /\ shell' = store'
        /\ calls' = Pg!FirstLoad(store') /\ Pg!Fresh
    BY <1>2 DEF Pg!Reload
  <2>2. ASSUME NEW call \in calls' PROVE CallOK(call)'
    <3>1. store' # 0 /\ store' \in Pg!Tokens /\ call = Pg!Call("load", store', store', Absent)
      BY <2>1, <2>2, <1>0, TokensAre DEF Pg!FirstLoad
    <3>2. call \in Pg!Calls /\ call.kind = "load" /\ call.shell = store'
      BY <3>1, CallMade DEF Pg!Kinds
    <3> QED
      BY <1>0, <2>1, <3>1, <3>2 DEF CallOK, Pg!OfTheRoom
  <2>3. /\ selected' = Absent /\ applied' = Absent /\ pageOf' = Absent /\ listed' = {}
        /\ tone' = "checking" /\ loaded' = "never"
    BY <2>1 DEF Pg!Fresh
  <2>4. calls' \subseteq Pg!Calls
    BY <2>2 DEF CallOK
  <2>5. Pg!PageTypeOK'
    BY <1>0, <2>1, <2>3, <2>4, TokensAre DEF Pg!PageTypeOK
  <2> QED
    BY <1>0, <2>1, <2>2, <2>3, <2>5 DEF PageInv, Pg!SessionAndToneAreTrue, ScreenOK
<1>3. CASE Pg!RunEffects
  <2> DEFINE dead(call) == [call EXCEPT !.live = @ /\ call.kind \notin Pg!OfTheRoom]
  <2>0. PICK new : new = Pg!Call("first", shell, store, selected)
    OBVIOUS
  <2>1. /\ shell # 0 /\ applied # selected /\ applied' = selected
        /\ UNCHANGED <<store, shell, minted, selected, tone, loaded>>
        /\ \/ /\ selected = Absent /\ calls' = {dead(call) : call \in calls}
              /\ UNCHANGED <<pageOf, listed>>
           \/ /\ selected # Absent /\ calls' = {dead(call) : call \in calls} \cup {new}
              /\ pageOf' = selected /\ listed' = {}
    BY <1>3, <2>0, TokensAre DEF Pg!RunEffects
  <2>2. ASSUME NEW call \in calls PROVE CallOK(dead(call))'
    <3>1. /\ dead(call) \in Pg!Calls /\ dead(call).shell = call.shell
          /\ dead(call).kind = call.kind /\ dead(call).room = call.room
          /\ dead(call).live = (call.live /\ call.kind \notin Pg!OfTheRoom)
      BY <1>0 DEF Pg!Calls
    <3> HIDE DEF dead
    <3> QED
      BY <1>0, <2>1, <3>1 DEF CallOK
  <2>3. selected # Absent => CallOK(new)'
    <3>1. shell \in Pg!Tokens /\ store \in Pg!Tokens \cup {Pg!NoToken}
          /\ selected \in PageRooms \cup {Absent}
      BY <1>0, <2>1, TokensAre DEF PageInv, Pg!PageTypeOK
    <3>2. new \in Pg!Calls /\ new.kind = "first" /\ new.shell = shell /\ new.room = selected
      BY <2>0, <3>1, CallMade DEF Pg!Kinds
    <3>3. shell \in 1..minted
      BY <1>0, <2>1 DEF PageInv
    <3> QED
      BY <2>1, <3>2, <3>3 DEF CallOK
  <2>4. \A call \in calls' : CallOK(call)'
    BY <2>1, <2>2, <2>3
  <2>5. calls' \subseteq Pg!Calls
    BY <2>4 DEF CallOK
  <2>6. Pg!PageTypeOK'
    BY <2>1, <2>5 DEF PageInv, Pg!PageTypeOK
  <2>7. ScreenOK'
    BY <2>1 DEF PageInv, ScreenOK, Pg!PageTypeOK, Pg!PageAssumption
  <2> QED
    BY <2>1, <2>4, <2>6, <2>7 DEF PageInv, Pg!SessionAndToneAreTrue
<1>4. ASSUME NEW rm \in PageRooms \cup {Absent}, Pg!Select(rm)
      PROVE  PageInv'
  <2>1. /\ applied = selected /\ selected' = rm
        /\ UNCHANGED <<store, shell, minted, applied, pageOf, listed, calls, tone, loaded>>
    BY <1>4 DEF Pg!Select
  <2>2. Pg!PageTypeOK'
    BY <2>1 DEF PageInv, Pg!PageTypeOK
  <2>3. \A call \in calls' : CallOK(call)'
    BY <2>1 DEF PageInv, CallOK
  <2> QED
    BY <2>1, <2>2, <2>3 DEF PageInv, ScreenOK, Pg!SessionAndToneAreTrue
<1>5. ASSUME NEW kind \in Pg!Kinds \ {"first"}, Pg!Begin(kind)
      PROVE  PageInv'
  <2> DEFINE rm == IF kind \in {"load", "logout"} THEN Absent ELSE selected
             new == Pg!Call(kind, shell, store, rm)
  <2>1. /\ shell # 0 /\ (kind \in {"poll", "earlier", "send"} => selected # Absent)
        /\ (kind = "poll" => applied = selected)
        /\ calls' = calls \cup {new}
        /\ UNCHANGED <<store, shell, minted, selected, applied, pageOf, listed, tone, loaded>>
    BY <1>5, TokensAre DEF Pg!Begin, Pg!view
  <2>2. CallOK(new)
    <3>1. shell \in Pg!Tokens /\ store \in Pg!Tokens \cup {Pg!NoToken} /\ rm \in PageRooms \cup {Absent}
      BY <1>0, <2>1, TokensAre DEF PageInv, Pg!PageTypeOK
    <3>2. new \in Pg!Calls /\ new.kind = kind /\ new.shell = shell /\ new.room = rm
      BY <3>1, CallMade
    <3>3. shell \in 1..minted
      BY <1>0, <2>1 DEF PageInv
    <3>4. kind \in {"poll", "earlier", "send", "load", "logout"}
      BY DEF Pg!Kinds
    <3> HIDE DEF new
    <3> QED
      BY <2>1, <3>2, <3>3, <3>4 DEF CallOK, Pg!OfTheRoom
  <2>3. \A call \in calls' : CallOK(call)'
    <3> HIDE DEF new
    <3> QED
      BY <2>1, <2>2 DEF PageInv, CallOK
  <2>4. calls' \subseteq Pg!Calls
    BY <2>3 DEF CallOK
  <2>5. Pg!PageTypeOK'
    BY <2>1, <2>4 DEF PageInv, Pg!PageTypeOK
  <2> QED
    BY <2>1, <2>3, <2>5 DEF PageInv, ScreenOK, Pg!SessionAndToneAreTrue
<1> QED
  BY <1>1, <1>2, <1>3, <1>4, <1>5

(* An answer that leaves the shell mounted.                                *)
LEMMA Lands ==
  ASSUME Pg!PageAssumption, PageInv, NEW call \in calls, NEW outcome,
         calls' = calls \ {call}, store' = Pg!StoreAfter(call, outcome),
         UNCHANGED <<shell, minted, selected, applied, pageOf>>,
         \/ listed' = listed
         \/ listed' = {call.room} /\ call.room = pageOf /\ call.room # Absent
         \/ listed' = listed \cup {call.room} /\ call.room \in {pageOf, selected} /\ call.room # Absent,
         tone' \in {"checking", "online", "degraded", "offline"},
         loaded' \in Pg!Loads \cup {"never"}, tone' = "online" => loaded' = "all"
  PROVE  PageInv'
<1>1. store' \in {Pg!NoToken, store}
  BY DEF Pg!StoreAfter
<1>2. \A c \in calls' : CallOK(c)'
  BY DEF PageInv, CallOK
<1>3. call \in Pg!Calls
  BY DEF PageInv, CallOK
<1>4. call.room \in PageRooms \cup {Absent}
  BY <1>3 DEF Pg!Calls
<1>5. listed' \subseteq PageRooms
  BY <1>4 DEF PageInv, Pg!PageTypeOK
<1>6. Pg!PageTypeOK'
  BY <1>1, <1>5, TokensAre DEF PageInv, Pg!PageTypeOK
<1>7. ScreenOK'
  <2>1. listed' \subseteq listed \cup {pageOf} \/ (listed' = listed \cup {selected} /\ selected # Absent)
    OBVIOUS
  <2>2. selected # Absent /\ applied = selected => pageOf = selected
    BY DEF PageInv, ScreenOK
  <2> QED
    BY <2>1, <2>2 DEF PageInv, ScreenOK
<1>8. Pg!SessionAndToneAreTrue'
  BY <1>1 DEF PageInv, Pg!SessionAndToneAreTrue
<1> QED
  BY <1>2, <1>6, <1>7, <1>8 DEF PageInv

LEMMA AnswerStep ==
  ASSUME Pg!PageAssumption, PageInv, NEW call \in calls, NEW outcome \in Pg!Outcomes,
         Pg!Answer(call, outcome)
  PROVE  PageInv'
<1>0. calls' = calls \ {call} /\ minted' = minted
  BY DEF Pg!Answer, Pg!Forget
<1>1. /\ call \in Pg!Calls /\ (call.kind \notin {"load", "logout"} => call.room # Absent)
      /\ call.kind \in Pg!OfTheRoom /\ call.live /\ call.shell = shell => call.room = applied
      /\ applied # Absent => pageOf = applied
      /\ tone \in {"checking", "online", "degraded", "offline"}
      /\ loaded \in Pg!Loads \cup {"never"} /\ (tone = "online" => loaded = "all")
  BY DEF PageInv, CallOK, ScreenOK, Pg!PageTypeOK, Pg!SessionAndToneAreTrue
<1>2. CASE Pg!FirstPage(call, outcome) /\ store' = Pg!StoreAfter(call, outcome)
  <2>1. /\ listed' = listed \/ (listed' = {call.room} /\ Pg!StillAsked(call))
        /\ call.kind = "first" /\ UNCHANGED <<shell, selected, applied, pageOf, tone, loaded>>
    BY <1>2 DEF Pg!FirstPage
  <2>2. Pg!StillAsked(call) => call.room = pageOf /\ call.room # Absent
    BY <1>1, <2>1 DEF Pg!StillAsked, Pg!OfTheRoom
  <2> QED
    BY <1>0, <1>1, <1>2, <2>1, <2>2, Lands
<1>3. CASE Pg!PollPage(call, outcome) /\ store' = Pg!StoreAfter(call, outcome)
  <2>1. /\ listed' = listed \/ (listed' = listed \cup {call.room} /\ Pg!StillAsked(call))
        /\ tone' = tone \/ tone' = Pg!PollTone(outcome)
        /\ call.kind = "poll" /\ UNCHANGED <<shell, selected, applied, pageOf, loaded>>
    BY <1>3 DEF Pg!PollPage
  <2>2. Pg!StillAsked(call) => call.room = pageOf /\ call.room # Absent
    BY <1>1, <2>1 DEF Pg!StillAsked, Pg!OfTheRoom
  <2>3. tone' = tone \/ tone' \in {"degraded", "offline"}
    BY <2>1 DEF Pg!PollTone
  <2> QED
    BY <1>0, <1>1, <1>3, <2>1, <2>2, <2>3, Lands
<1>4. CASE Pg!OwnPage(call, outcome) /\ store' = Pg!StoreAfter(call, outcome)
  <2>1. /\ listed' = listed \/ (listed' = listed \cup {call.room} /\ call.room = selected)
        /\ call.kind \in {"earlier", "send"}
        /\ UNCHANGED <<shell, selected, applied, pageOf, tone, loaded>>
    BY <1>4 DEF Pg!OwnPage
  <2> QED
    BY <1>0, <1>1, <1>4, <2>1, Lands
<1>5. ASSUME NEW found \in Pg!Loads, Pg!LoadLands(call, outcome, found),
             store' = Pg!StoreAfter(call, outcome)
      PROVE  PageInv'
  <2>1. CASE call.shell = shell /\ Pg!StoreAfter(call, outcome) = Pg!NoToken
    <3>1. shell' = Pg!NoToken /\ Pg!Fresh /\ store' = Pg!NoToken
      BY <1>5, <2>1 DEF Pg!LoadLands
    <3> QED
      BY <1>0, <3>1, Unmounts
  <2>2. CASE ~(call.shell = shell /\ Pg!StoreAfter(call, outcome) = Pg!NoToken)
    <3>1. /\ \/ tone' = Pg!LoadTone(found) /\ loaded' = found
             \/ tone' = tone /\ loaded' = loaded
          /\ UNCHANGED <<shell, selected, applied, pageOf, listed>>
      BY <1>5, <2>2 DEF Pg!LoadLands
    <3>2. /\ Pg!LoadTone(found) \in {"online", "degraded", "offline"}
          /\ Pg!LoadTone(found) = "online" => found = "all"
      BY DEF Pg!LoadTone, Pg!Loads
    <3> QED
      BY <1>0, <1>1, <1>5, <3>1, <3>2, Lands
  <2> QED
    BY <2>1, <2>2
<1>6. CASE Pg!LogoutLands(call)
  <2>1. shell' = Pg!NoToken /\ Pg!Fresh /\ store' = Pg!NoToken
    BY <1>6 DEF Pg!LogoutLands
  <2> QED
    BY <1>0, <2>1, Unmounts
<1> QED
  BY <1>2, <1>3, <1>4, <1>5, <1>6 DEF Pg!Answer

LEMMA PageInvariant ==
  ASSUME Pg!PageAssumption
  PROVE  Pg!PageSpec => []PageInv
<1>1. PageInv /\ [Pg!PageNext]_(Pg!pageVars) => PageInv'
  <2> SUFFICES ASSUME PageInv, [Pg!PageNext]_(Pg!pageVars) PROVE PageInv'
    OBVIOUS
  <2>1. CASE UNCHANGED Pg!pageVars
    BY <2>1 DEF Pg!pageVars, PageInv, Pg!PageTypeOK, CallOK, ScreenOK, Pg!SessionAndToneAreTrue
  <2>2. CASE Pg!PageNext
    BY <2>2, OwnersStep, AnswerStep DEF Pg!PageNext
  <2> QED
    BY <2>1, <2>2
<1> QED
  BY <1>1, PageStarts, PTL DEF Pg!PageSpec

(* However the answers of rooms, sessions and reloads overtake one another, *)
(* a room's screen shows messages of that room only, the store and the      *)
(* shell are of one session, and Online is what the last load found         *)
(* (App.tsx:193, networkStatus.ts:44-45).                                   *)
THEOREM ScreenCorrect ==
  ASSUME Pg!PageAssumption
  PROVE  Pg!PageSpec => []Pg!ScreenIsTrue
<1>1. PageInv => Pg!ScreenIsTrue
  BY DEF PageInv, ScreenOK, Pg!ScreenIsTrue, Pg!OwnRoom, Pg!Displayed
<1> QED
  BY <1>1, PageInvariant, PTL

(* Calls are of rooms there are and of sign-ins there were, and the store   *)
(* holds a token of one or none.                                           *)
THEOREM PageTypeCorrect ==
  ASSUME Pg!PageAssumption
  PROVE  Pg!PageSpec => []Pg!PageTypeOK
<1>1. PageInv => Pg!PageTypeOK
  BY DEF PageInv
<1> QED
  BY <1>1, PageInvariant, PTL

(****************************************************************************)
(* CityRoute                                                                *)
(****************************************************************************)
(* The variables of CityRoute.                                             *)
visited == s1
at == s2
shown == s3
dive == s4
due == s5
camera == s6
guest == s7
USE DEF visited, at, shown, dive, due, camera, guest

(* What a dive under way has promised the URL, and the URL it.             *)
DiveOK ==
  dive.phase \in {"focusing", "diving"} =>
    /\ dive.pending \in Ct!Commits /\ dive.pending.push /\ dive.pending.route \in Ct!Screens
    /\ guest => dive.pending.route # "owner"
    /\ ~dive.fromScreen => shown = "city" /\ Ct!Url = "city"
ExitOK ==
  dive.phase = "exiting" =>
    IF dive.covered THEN /\ dive.pending \in Ct!Commits /\ dive.pending.route = "city"
                         /\ ~dive.pending.push => Ct!Url = "city"
                    ELSE /\ dive.pending = Ct!NoCommit /\ camera = "home"
                         /\ shown = "city" /\ Ct!Url = "city"
RouteInv == Ct!RouteTypeOK /\ Ct!ShownIsUrl /\ DiveOK /\ ExitOK

LEMMA CityIsNoScreen ==
  ASSUME Ct!RouteAssumption
  PROVE  /\ "city" \notin Ct!Screens /\ "none" \notin Ct!Routes /\ "city" \in Ct!Routes
         /\ "owner" \in Ct!Screens /\ Ct!NoCommit \notin Ct!Commits
         /\ \A route \in Ct!Routes : route \notin Ct!Screens => route = "city"
BY DEF Ct!RouteAssumption, Ct!Screens, Ct!Routes, Ct!NoCommit, Ct!Commits

LEMMA RestingDives ==
  /\ Ct!Idle \in Ct!Dives /\ Ct!Inside \in Ct!Dives
  /\ Ct!Idle.phase = "idle" /\ Ct!Inside.phase = "inside"
BY DEF Ct!Idle, Ct!Inside, Ct!Dives

LEMMA CommitMade ==
  ASSUME NEW route \in Ct!Routes, NEW push \in BOOLEAN
  PROVE  /\ Ct!To(route, push) \in Ct!Commits
         /\ Ct!To(route, push).route = route /\ Ct!To(route, push).push = push
BY DEF Ct!To, Ct!Commits

(* A commit that pushes leaves the URL its route; one that does not leaves *)
(* it where it is.                                                         *)
LEMMA Sent ==
  ASSUME Ct!RouteAssumption, NEW result, NEW entries \in Seq(Ct!Routes),
         NEW here \in 1..Len(entries), NEW left \in 0..1,
         NEW commit \in Ct!Commits \cup {Ct!NoCommit}, commit = result.commit,
         Ct!Send(result, entries, here, left)
  PROVE  /\ visited' \in Seq(Ct!Routes) /\ at' \in 1..Len(visited') /\ guest' = guest
         /\ dive' = result.dive
         /\ due' = (IF Ct!Stale(result) THEN 0 ELSE left) + (IF result.timed THEN 1 ELSE 0)
         /\ camera' = IF result.move = "hold" THEN camera ELSE result.move
         /\ shown' = IF commit = Ct!NoCommit THEN shown ELSE commit.route
         /\ visited'[at'] = IF commit # Ct!NoCommit /\ commit.push THEN commit.route ELSE entries[here]
<1>1. /\ dive' = result.dive /\ guest' = guest
      /\ due' = (IF Ct!Stale(result) THEN 0 ELSE left) + (IF result.timed THEN 1 ELSE 0)
      /\ camera' = IF result.move = "hold" THEN camera ELSE result.move
      /\ shown' = IF commit = Ct!NoCommit THEN shown ELSE commit.route
      /\ visited' = IF Ct!Pushes(entries, here, commit)
                      THEN Append(SubSeq(entries, 1, here), commit.route) ELSE entries
      /\ at' = IF Ct!Pushes(entries, here, commit) THEN here + 1 ELSE here
  BY DEF Ct!Send
<1>2. CASE Ct!Pushes(entries, here, commit)
  <2>1. commit # Ct!NoCommit /\ commit.push /\ commit.route \in Ct!Routes
    BY <1>2 DEF Ct!Pushes, Ct!NoCommit, Ct!Commits
  <2>2. /\ SubSeq(entries, 1, here) \in Seq(Ct!Routes) /\ Len(SubSeq(entries, 1, here)) = here
    OBVIOUS
  <2>3. visited' = Append(SubSeq(entries, 1, here), commit.route) /\ at' = here + 1
    BY <1>1, <1>2
  <2> QED
    BY <1>1, <2>1, <2>2, <2>3
<1>3. CASE ~Ct!Pushes(entries, here, commit)
  BY <1>1, <1>3 DEF Ct!Pushes
<1> QED
  BY <1>2, <1>3

LEMMA ResultFields ==
  \A state, commit, move, timed :
    LET result == Ct!Result(state, commit, move, timed)
    IN  /\ result.dive = state /\ result.commit = commit
        /\ result.move = move /\ result.timed = timed
BY DEF Ct!Result

(* What comes to rest at a screen, or at the city.                         *)
LEMMA Rests ==
  ASSUME Ct!RouteAssumption, visited' \in Seq(Ct!Routes), at' \in 1..Len(visited'),
         guest' \in BOOLEAN, shown' \in Ct!Routes, shown' = visited'[at'],
         dive' = Ct!InitialDive(shown'), due' = 0, camera' \in {"home", "away"},
         shown' = "city" => camera' = "home", guest' => shown' # "owner"
  PROVE  RouteInv'
<1>1. dive' = IF shown' \in Ct!Screens THEN Ct!Inside ELSE Ct!Idle
  BY DEF Ct!InitialDive
<1>2. dive' \in Ct!Dives /\ dive'.phase \in {"idle", "inside"}
      /\ (dive'.phase = "idle" => shown' = "city")
  BY <1>1, RestingDives, CityIsNoScreen
<1>3. Ct!Url' = visited'[at']
  BY DEF Ct!Url
<1>4. Ct!RouteTypeOK'
  BY <1>2 DEF Ct!RouteTypeOK
<1>5. Ct!ShownIsUrl'
  BY <1>2, <1>3 DEF Ct!ShownIsUrl, Ct!InitialDive
<1> QED
  BY <1>2, <1>4, <1>5 DEF RouteInv, DiveOK, ExitOK

(* An event comes with the browser where it was, and pushes; or with the   *)
(* browser at the route already, and does not.                             *)
Asked(entries, here, goal, push) ==
  /\ entries \in Seq(Ct!Routes) /\ here \in 1..Len(entries) /\ goal \in Ct!Routes
  /\ guest => goal # "owner"
  /\ push => entries = visited /\ here = at
  /\ ~push => entries[here] = goal

LEMMA Ignored ==
  ASSUME Ct!RouteAssumption, RouteInv, NEW entries, NEW here, NEW goal, NEW push \in BOOLEAN,
         Asked(entries, here, goal, push), Ct!Send(Ct!Ignore, entries, here, due),
         push \/ (dive.phase = "exiting" /\ dive.pending = Ct!NoCommit /\ goal = "city")
  PROVE  RouteInv'
<1>1. /\ Ct!Ignore.dive = dive /\ Ct!Ignore.commit = Ct!NoCommit /\ Ct!Ignore.move = "hold"
      /\ ~Ct!Ignore.timed /\ ~Ct!Stale(Ct!Ignore)
  BY DEF Ct!Result, Ct!Ignore, Ct!Stale
<1>2. due \in 0..1
  BY DEF RouteInv, Ct!RouteTypeOK
<1>3. /\ visited' \in Seq(Ct!Routes) /\ at' \in 1..Len(visited') /\ guest' = guest
      /\ dive' = dive /\ due' = due + 0 /\ camera' = camera /\ shown' = shown
      /\ visited'[at'] = entries[here]
  BY <1>1, <1>2, Sent DEF Asked
<1>4. Ct!RouteTypeOK' /\ due' = due
  BY <1>2, <1>3 DEF RouteInv, Ct!RouteTypeOK
<1>5. CASE push
  <2>1. Ct!Url' = Ct!Url
    BY <1>3, <1>5 DEF Ct!Url, Asked
  <2> QED
    BY <1>3, <1>4, <2>1 DEF RouteInv, Ct!ShownIsUrl, DiveOK, ExitOK, Ct!InitialDive
<1>6. CASE ~push
  <2>1. dive.phase = "exiting" /\ dive.pending = Ct!NoCommit /\ Ct!Url' = "city"
    BY <1>3, <1>6 DEF Ct!Url, Asked
  <2>2. ~dive.covered
    BY <2>1, CityIsNoScreen DEF RouteInv, ExitOK
  <2> QED
    BY <1>3, <1>4, <2>1, <2>2 DEF RouteInv, Ct!ShownIsUrl, DiveOK, ExitOK
<1> QED
  BY <1>5, <1>6 DEF Asked

(* A screen opens, or the dive to it begins.                               *)
LEMMA OpensNow ==
  ASSUME Ct!RouteAssumption, RouteInv, NEW entries, NEW here, NEW goal \in Ct!Screens, NEW push \in BOOLEAN,
         Asked(entries, here, goal, push),
         Ct!Send(Ct!OpenNow(goal, push), entries, here, due)
  PROVE  RouteInv'
<1> DEFINE result == Ct!OpenNow(goal, push)  commit == Ct!To(goal, push)
<1>1. /\ result.dive = Ct!Inside /\ result.commit = commit /\ result.move = "hold"
      /\ ~result.timed
  BY DEF Ct!Result, Ct!OpenNow
<1>2. commit \in Ct!Commits /\ commit.route = goal /\ commit.push = push /\ commit # Ct!NoCommit
  BY CommitMade, CityIsNoScreen DEF Asked
<1>3. due \in 0..1 /\ camera \in {"home", "away"} /\ guest \in BOOLEAN
  BY DEF RouteInv, Ct!RouteTypeOK
<1>4. ~Ct!Stale(result) => due = 0
  BY <1>1, RestingDives DEF Ct!Stale, RouteInv, Ct!ShownIsUrl
<1>5. /\ visited' \in Seq(Ct!Routes) /\ at' \in 1..Len(visited') /\ guest' = guest
      /\ dive' = Ct!Inside /\ due' = (IF Ct!Stale(result) THEN 0 ELSE due) + 0
      /\ camera' = camera /\ shown' = goal
      /\ visited'[at'] = IF push THEN goal ELSE entries[here]
  <2> HIDE DEF commit, result
  <2>1. Ct!Send(result, entries, here, due)
    BY DEF result
  <2> QED
    BY <1>1, <1>2, <1>3, <2>1, Sent DEF Asked
<1>6. due' = 0 /\ visited'[at'] = goal /\ (guest' => goal # "owner")
  BY <1>4, <1>5 DEF Asked
<1>7. dive' = Ct!InitialDive(shown')
  BY <1>5 DEF Ct!InitialDive
<1> QED
  BY <1>3, <1>5, <1>6, <1>7, Rests, CityIsNoScreen DEF Asked

LEMMA Dives ==
  ASSUME Ct!RouteAssumption, RouteInv, NEW goal \in Ct!Screens, NEW fromScreen \in BOOLEAN,
         guest => goal # "owner", fromScreen \/ dive.phase = "idle",
         Ct!Send(Ct!DiveInto(goal, TRUE, fromScreen), visited, at, due)
  PROVE  RouteInv'
<1> DEFINE result == Ct!DiveInto(goal, TRUE, fromScreen)
           commit == IF fromScreen THEN Ct!To("city", FALSE) ELSE Ct!NoCommit
           state == [phase |-> "focusing", covered |-> FALSE, pending |-> Ct!To(goal, TRUE),
                     fromScreen |-> fromScreen]
<1>1. /\ result.dive = state /\ result.commit = commit /\ result.move = "away" /\ result.timed
  BY DEF Ct!Result, Ct!DiveInto
<1>2. /\ commit \in Ct!Commits \cup {Ct!NoCommit}
      /\ commit # Ct!NoCommit => commit.route = "city" /\ ~commit.push
      /\ commit = Ct!NoCommit <=> ~fromScreen
  BY CommitMade, CityIsNoScreen
<1>3. /\ visited \in Seq(Ct!Routes) /\ at \in 1..Len(visited) /\ due \in 0..1
      /\ camera \in {"home", "away"} /\ guest \in BOOLEAN /\ shown \in Ct!Routes
  BY DEF RouteInv, Ct!RouteTypeOK
<1>4. /\ visited' \in Seq(Ct!Routes) /\ at' \in 1..Len(visited') /\ guest' = guest
      /\ dive' = state /\ due' = (IF Ct!Stale(result) THEN 0 ELSE due) + 1
      /\ camera' = "away" /\ shown' = IF fromScreen THEN "city" ELSE shown
      /\ visited'[at'] = Ct!Url
  <2> HIDE DEF commit, result, state
  <2>1. Ct!Send(result, visited, at, due)
    BY DEF result
  <2> QED
    BY <1>1, <1>2, <1>3, <2>1, Sent DEF Ct!Url
<1>5. due' = 1
  BY <1>1, <1>4 DEF Ct!Stale
<1>6. /\ state \in Ct!Dives /\ state.phase = "focusing" /\ state.pending \in Ct!Commits
      /\ state.pending.push /\ state.pending.route = goal /\ state.fromScreen = fromScreen
  BY CommitMade DEF Ct!Dives, Ct!Routes
<1>7. ~fromScreen => shown = "city" /\ Ct!Url = "city"
  <2> SUFFICES ASSUME ~fromScreen PROVE shown = "city" /\ Ct!Url = "city"
    OBVIOUS
  <2>1. shown = Ct!Url /\ dive = Ct!InitialDive(shown) /\ dive.phase = "idle"
    BY DEF RouteInv, Ct!ShownIsUrl
  <2>2. shown \notin Ct!Screens
    BY <2>1, RestingDives DEF Ct!InitialDive
  <2> QED
    BY <1>3, <2>1, <2>2, CityIsNoScreen
<1> HIDE DEF state
<1>8. Ct!RouteTypeOK'
  <2>1. shown' \in Ct!Routes
    BY <1>3, <1>4, CityIsNoScreen
  <2>2. dive' \in Ct!Dives
    BY <1>4, <1>6
  <2>3. due' \in 0..1
    BY <1>5
  <2>4. camera' \in {"home", "away"} /\ guest' \in BOOLEAN
    BY <1>3, <1>4
  <2> QED
    BY <1>4, <2>1, <2>2, <2>3, <2>4 DEF Ct!RouteTypeOK
<1>9. Ct!Url' = Ct!Url
  BY <1>4 DEF Ct!Url
<1> QED
  BY <1>4, <1>6, <1>7, <1>8, <1>9 DEF RouteInv, Ct!ShownIsUrl, DiveOK, ExitOK

LEMMA OpenStep ==
  ASSUME Ct!RouteAssumption, RouteInv, NEW entries, NEW here, NEW goal \in Ct!Screens,
         NEW push \in BOOLEAN, NEW flies \in BOOLEAN, Asked(entries, here, goal, push),
         Ct!Send(Ct!Open(goal, push, ~push, flies), entries, here, due)
  PROVE  RouteInv'
<1>0. (push => entries = visited /\ here = at) /\ (guest => goal # "owner")
  BY DEF Asked
<1>1. CASE Ct!Open(goal, push, ~push, flies) = Ct!OpenNow(goal, push)
  BY <1>1, OpensNow
<1>2. CASE push /\ Ct!Open(goal, push, ~push, flies) = Ct!Ignore
  BY <1>2, Ignored
<1>3. CASE push /\ dive.phase = "idle" /\ Ct!Open(goal, push, ~push, flies) = Ct!DiveInto(goal, push, FALSE)
  BY <1>0, <1>3, Dives
<1>4. CASE push /\ Ct!Open(goal, push, ~push, flies) = Ct!DiveInto(goal, push, TRUE)
  BY <1>0, <1>4, Dives
<1>5. CASE ~push
  BY <1>1, <1>5 DEF Ct!Open
<1>6. CASE push
  BY <1>1, <1>2, <1>3, <1>4, <1>6 DEF Ct!Open
<1> QED
  BY <1>0, <1>5, <1>6

(* The city comes back: at once, with a cancelled dive or with an exit.    *)
LEMMA ComesHome ==
  ASSUME Ct!RouteAssumption, RouteInv, NEW entries, NEW here, NEW push \in BOOLEAN,
         Asked(entries, here, "city", push), NEW result,
         Ct!Send(result, entries, here, due), result.dive = Ct!Idle, result.timed = FALSE,
         \/ result.commit = Ct!To("city", push)
         \/ result.commit = Ct!NoCommit /\ push /\ shown = "city" /\ Ct!Url = "city",
         \/ result.move = "home"
         \/ result.move = "hold" /\ dive.phase = "idle"
  PROVE  RouteInv'
<1>1. result.commit \in Ct!Commits \cup {Ct!NoCommit}
      /\ (result.commit # Ct!NoCommit => /\ result.commit.route = "city"
                                         /\ result.commit.push = push)
  BY CommitMade, CityIsNoScreen
<1>2. due \in 0..1 /\ camera \in {"home", "away"} /\ guest \in BOOLEAN
      /\ (dive.phase = "idle" => due = 0 /\ camera = "home")
  BY DEF RouteInv, Ct!RouteTypeOK, Ct!ShownIsUrl
<1>3. ~Ct!Stale(result) => due = 0
  BY <1>2, RestingDives DEF Ct!Stale
<1>4. /\ visited' \in Seq(Ct!Routes) /\ at' \in 1..Len(visited') /\ guest' = guest
      /\ dive' = Ct!Idle /\ due' = (IF Ct!Stale(result) THEN 0 ELSE due) + 0
      /\ camera' = IF result.move = "hold" THEN camera ELSE result.move
      /\ shown' = IF result.commit = Ct!NoCommit THEN shown ELSE result.commit.route
      /\ visited'[at'] = IF result.commit # Ct!NoCommit /\ result.commit.push
                           THEN result.commit.route ELSE entries[here]
  BY <1>1, <1>2, Sent DEF Asked
<1>5. shown' = "city" /\ visited'[at'] = "city"
  <2>1. ~push => entries[here] = "city"
    BY DEF Asked
  <2>2. push => entries[here] = Ct!Url
    BY DEF Asked, Ct!Url
  <2>3. CASE result.commit = Ct!NoCommit
    BY <1>4, <2>2, <2>3, CommitMade, CityIsNoScreen
  <2>4. CASE result.commit # Ct!NoCommit
    BY <1>1, <1>4, <2>1, <2>4
  <2> QED
    BY <2>3, <2>4
<1>6. due' = 0
  BY <1>3, <1>4
<1>7. camera' = "home"
  BY <1>2, <1>4
<1>8. dive' = Ct!InitialDive(shown')
  BY <1>4, <1>5, CityIsNoScreen DEF Ct!InitialDive
<1> QED
  BY <1>2, <1>4, <1>5, <1>6, <1>7, <1>8, Rests, CityIsNoScreen

LEMMA Exits ==
  ASSUME Ct!RouteAssumption, RouteInv, NEW entries, NEW here, NEW push \in BOOLEAN,
         Asked(entries, here, "city", push), NEW result,
         Ct!Send(result, entries, here, due), result.commit = Ct!NoCommit,
         result.dive \in Ct!Dives, result.dive.phase = "exiting", result.dive.covered,
         result.dive.pending = Ct!To("city", push), result.move \in {"hold", "away"},
         result.timed \in BOOLEAN, result.timed => dive.phase = "inside"
  PROVE  RouteInv'
<1>2. due \in 0..1 /\ camera \in {"home", "away"} /\ guest \in BOOLEAN /\ shown \in Ct!Routes
  BY DEF RouteInv, Ct!RouteTypeOK
<1>3. /\ visited' \in Seq(Ct!Routes) /\ at' \in 1..Len(visited') /\ guest' = guest
      /\ dive' = result.dive
      /\ due' = (IF Ct!Stale(result) THEN 0 ELSE due) + (IF result.timed THEN 1 ELSE 0)
      /\ camera' = IF result.move = "hold" THEN camera ELSE result.move
      /\ shown' = shown /\ visited'[at'] = entries[here]
  BY <1>2, Sent DEF Asked
<1>4. due' \in 0..1
  <2>1. result.timed => Ct!Stale(result)
    BY DEF Ct!Stale
  <2>2. CASE result.timed
    BY <1>3, <2>1, <2>2
  <2>3. CASE ~result.timed
    BY <1>2, <1>3, <2>3
  <2> QED
    BY <2>2, <2>3
<1>5. Ct!RouteTypeOK'
  <2>1. camera' \in {"home", "away"} /\ guest' \in BOOLEAN /\ shown' \in Ct!Routes
    BY <1>2, <1>3
  <2>2. dive' \in Ct!Dives
    BY <1>3
  <2> QED
    BY <1>3, <1>4, <2>1, <2>2 DEF Ct!RouteTypeOK
<1>6. /\ dive'.pending \in Ct!Commits /\ dive'.pending.route = "city"
      /\ ~dive'.pending.push => ~push
  BY <1>3, CommitMade, CityIsNoScreen
<1>7. ~push => Ct!Url' = "city"
  BY <1>3 DEF Asked, Ct!Url
<1> QED
  BY <1>3, <1>5, <1>6, <1>7 DEF RouteInv, Ct!ShownIsUrl, DiveOK, ExitOK

LEMMA CloseStep ==
  ASSUME Ct!RouteAssumption, RouteInv, NEW entries, NEW here, NEW push \in BOOLEAN,
         NEW flies \in BOOLEAN, Asked(entries, here, "city", push),
         Ct!Send(Ct!Close("city", push, flies), entries, here, due)
  PROVE  RouteInv'
<1> DEFINE sent(result) == Ct!Send(result, entries, here, due)
<1>0. dive \in Ct!Dives /\ (dive.phase \in {"focusing", "diving"} =>
        dive.fromScreen \/ (shown = "city" /\ Ct!Url = "city"))
  BY DEF RouteInv, Ct!RouteTypeOK, DiveOK
<1>1. ASSUME sent(Ct!Result(Ct!Idle, Ct!To("city", push), "hold", FALSE)), dive.phase = "idle"
      PROVE  RouteInv'
  <2> DEFINE result == Ct!Result(Ct!Idle, Ct!To("city", push), "hold", FALSE)
  <2>1. result.dive = Ct!Idle /\ result.timed = FALSE /\ result.commit = Ct!To("city", push)
        /\ result.move = "hold"
    BY DEF Ct!Result
  <2> HIDE DEF result
  <2> QED
    BY <1>1, <2>1, ComesHome DEF result
<1>2. ASSUME sent(Ct!CloseNow("city", push)) PROVE RouteInv'
  <2> DEFINE result == Ct!CloseNow("city", push)
  <2>1. result.dive = Ct!Idle /\ result.timed = FALSE /\ result.commit = Ct!To("city", push)
        /\ result.move = "home"
    BY DEF Ct!Result, Ct!CloseNow
  <2> HIDE DEF result
  <2> QED
    BY <1>2, <2>1, ComesHome DEF result
<1>3. ASSUME sent(Ct!Cancel("city", push)), dive.phase \in {"focusing", "diving"} PROVE RouteInv'
  <2> DEFINE result == Ct!Cancel("city", push)
  <2>1. result.dive = Ct!Idle /\ result.timed = FALSE /\ result.move = "home"
    BY DEF Ct!Result, Ct!Cancel
  <2>2. result.commit = IF dive.fromScreen \/ ~push THEN Ct!To("city", push) ELSE Ct!NoCommit
    BY DEF Ct!Result, Ct!Cancel, Ct!Reconciles
  <2>3. \/ result.commit = Ct!To("city", push)
        \/ result.commit = Ct!NoCommit /\ push /\ shown = "city" /\ Ct!Url = "city"
    BY <1>0, <1>3, <2>2
  <2> HIDE DEF result
  <2> QED
    BY <1>3, <2>1, <2>3, ComesHome DEF result
<1>4. ASSUME sent(Ct!Exit("city", push)), dive.phase = "inside" PROVE RouteInv'
  <2> DEFINE result == Ct!Exit("city", push)
  <2>1. /\ result.commit = Ct!NoCommit /\ result.move = "away" /\ result.timed = TRUE
        /\ result.dive = [phase |-> "exiting", covered |-> TRUE, pending |-> Ct!To("city", push),
                          fromScreen |-> FALSE]
    BY DEF Ct!Result, Ct!Exit
  <2>3. Ct!To("city", push) \in Ct!Commits
    BY CommitMade, CityIsNoScreen
  <2>4. result.dive \in Ct!Dives
    <3> DEFINE pending == Ct!To("city", push)
    <3>1. pending \in Ct!Commits
      BY <2>3
    <3> HIDE DEF pending
    <3>2. [phase |-> "exiting", covered |-> TRUE, pending |-> pending, fromScreen |-> FALSE] \in Ct!Dives
      BY <3>1 DEF Ct!Dives
    <3> QED
      BY <2>1, <3>2 DEF pending
  <2>2. result.dive \in Ct!Dives /\ result.dive.phase = "exiting" /\ result.dive.covered
        /\ result.dive.pending = Ct!To("city", push)
    BY <2>1, <2>4
  <2> HIDE DEF result
  <2> QED
    BY <1>4, <2>1, <2>2, Exits DEF result
<1>5. ASSUME sent(Ct!DropPush("city")), ~push, dive.phase = "exiting", dive.pending # Ct!NoCommit
      PROVE  RouteInv'
  <2> DEFINE result == Ct!DropPush("city")
  <2>1. /\ result.commit = Ct!NoCommit /\ result.move = "hold" /\ result.timed = FALSE
        /\ result.dive = [dive EXCEPT !.pending = Ct!To("city", FALSE)]
    BY DEF Ct!Result, Ct!DropPush
  <2>2. dive.covered
    BY <1>5 DEF RouteInv, ExitOK
  <2>3. Ct!To("city", FALSE) \in Ct!Commits /\ push = FALSE
    BY <1>5, CommitMade, CityIsNoScreen
  <2>4. result.dive \in Ct!Dives /\ result.dive.phase = "exiting" /\ result.dive.covered
        /\ result.dive.pending = Ct!To("city", push)
    BY <1>0, <1>5, <2>1, <2>2, <2>3 DEF Ct!Dives
  <2> HIDE DEF result
  <2> QED
    BY <1>5, <2>1, <2>4, Exits DEF result
<1>6. ASSUME sent(Ct!Ignore), push \/ (dive.phase = "exiting" /\ dive.pending = Ct!NoCommit)
      PROVE  RouteInv'
  BY <1>6, Ignored
<1>7. dive.phase \in {"idle", "focusing", "diving", "inside", "exiting"}
  BY <1>0 DEF Ct!Dives
<1>8. \/ Ct!Close("city", push, flies) = Ct!Result(Ct!Idle, Ct!To("city", push), "hold", FALSE)
         /\ dive.phase = "idle"
      \/ Ct!Close("city", push, flies) = Ct!Exit("city", push) /\ dive.phase = "inside"
      \/ Ct!Close("city", push, flies) = Ct!CloseNow("city", push)
      \/ Ct!Close("city", push, flies) = Ct!Cancel("city", push)
         /\ dive.phase \in {"focusing", "diving"}
      \/ Ct!Close("city", push, flies) = Ct!DropPush("city") /\ ~push /\ dive.phase = "exiting"
         /\ dive.pending # Ct!NoCommit
      \/ Ct!Close("city", push, flies) = Ct!Ignore
         /\ (push \/ (dive.phase = "exiting" /\ dive.pending = Ct!NoCommit))
  BY <1>7 DEF Ct!Close
<1> QED
  BY <1>1, <1>2, <1>3, <1>4, <1>5, <1>6, <1>8

(* The timer fires.                                                        *)
LEMMA TickStep ==
  ASSUME Ct!RouteAssumption, RouteInv, Ct!Tick
  PROVE  RouteInv'
<1>0. /\ dive \in Ct!Dives /\ due = 1 /\ guest \in BOOLEAN /\ shown \in Ct!Routes
      /\ camera \in {"home", "away"} /\ visited \in Seq(Ct!Routes) /\ at \in 1..Len(visited)
  BY DEF RouteInv, Ct!RouteTypeOK, Ct!Tick
<1>1. Ct!Send(Ct!OnTick, visited, at, 0)
  BY <1>0 DEF Ct!Tick
<1>2. CASE dive.phase = "focusing"
  <2> DEFINE state == [dive EXCEPT !.phase = "diving"]
  <2>1. /\ Ct!OnTick.dive = state /\ Ct!OnTick.commit = Ct!NoCommit
        /\ Ct!OnTick.move = "away" /\ Ct!OnTick.timed = TRUE
    BY <1>2 DEF Ct!OnTick, Ct!Result
  <2>2. /\ state \in Ct!Dives /\ state.phase = "diving" /\ state.pending = dive.pending
        /\ state.fromScreen = dive.fromScreen
    BY <1>0 DEF Ct!Dives
  <2> HIDE DEF state
  <2>3. /\ visited' \in Seq(Ct!Routes) /\ at' \in 1..Len(visited') /\ guest' = guest
        /\ dive' = state /\ due' = 1 /\ camera' = "away" /\ shown' = shown
        /\ visited'[at'] = visited[at]
    BY <1>0, <1>1, <2>1, Sent
  <2>4. Ct!RouteTypeOK'
    <3>1. dive' \in Ct!Dives
      BY <2>2, <2>3
    <3>2. shown' \in Ct!Routes /\ guest' \in BOOLEAN
      BY <1>0, <2>3
    <3> QED
      BY <2>3, <3>1, <3>2 DEF Ct!RouteTypeOK
  <2>5. Ct!Url' = Ct!Url
    BY <2>3 DEF Ct!Url
  <2> QED
    BY <1>2, <2>2, <2>3, <2>4, <2>5 DEF RouteInv, Ct!ShownIsUrl, DiveOK, ExitOK
<1>3. CASE dive.phase = "diving"
  <2>1. /\ Ct!OnTick.dive = Ct!Inside /\ Ct!OnTick.commit = dive.pending
        /\ Ct!OnTick.move = "hold" /\ Ct!OnTick.timed = FALSE
    BY <1>3 DEF Ct!OnTick, Ct!Result
  <2>2. /\ dive.pending \in Ct!Commits /\ dive.pending.push /\ dive.pending.route \in Ct!Screens
        /\ guest => dive.pending.route # "owner"
    BY <1>3 DEF RouteInv, DiveOK
  <2>3. dive.pending # Ct!NoCommit
    BY <2>2, CityIsNoScreen
  <2>4. /\ visited' \in Seq(Ct!Routes) /\ at' \in 1..Len(visited') /\ guest' = guest
        /\ dive' = Ct!Inside /\ due' = 0 /\ camera' = camera /\ shown' = dive.pending.route
        /\ visited'[at'] = dive.pending.route
    BY <1>0, <1>1, <2>1, <2>2, <2>3, Sent
  <2>5. dive' = Ct!InitialDive(shown')
    BY <2>2, <2>4 DEF Ct!InitialDive
  <2> QED
    BY <1>0, <2>2, <2>4, <2>5, Rests, CityIsNoScreen DEF Ct!Routes
<1>4. CASE dive.phase = "exiting" /\ dive.covered
  <2> DEFINE state == [dive EXCEPT !.covered = FALSE, !.pending = Ct!NoCommit]
  <2>1. /\ Ct!OnTick.dive = state /\ Ct!OnTick.commit = dive.pending
        /\ Ct!OnTick.move = "home" /\ Ct!OnTick.timed = TRUE
    BY <1>4 DEF Ct!OnTick, Ct!Result
  <2>2. /\ dive.pending \in Ct!Commits /\ dive.pending.route = "city"
        /\ ~dive.pending.push => visited[at] = "city"
    BY <1>4 DEF RouteInv, ExitOK, Ct!Url
  <2>3. dive.pending # Ct!NoCommit
    BY <2>2, CityIsNoScreen
  <2>4. /\ state \in Ct!Dives /\ state.phase = "exiting" /\ state.pending = Ct!NoCommit
        /\ ~state.covered
    BY <1>0, <1>4 DEF Ct!Dives
  <2> HIDE DEF state
  <2>5. /\ visited' \in Seq(Ct!Routes) /\ at' \in 1..Len(visited') /\ guest' = guest
        /\ dive' = state /\ due' = 1 /\ camera' = "home" /\ shown' = "city"
        /\ visited'[at'] = IF dive.pending.push THEN "city" ELSE visited[at]
    BY <1>0, <1>1, <2>1, <2>2, <2>3, Sent
  <2>6. Ct!RouteTypeOK'
    <3>1. dive' \in Ct!Dives
      BY <2>4, <2>5
    <3>2. shown' \in Ct!Routes /\ guest' \in BOOLEAN
      BY <1>0, <2>5, CityIsNoScreen
    <3> QED
      BY <2>5, <3>1, <3>2 DEF Ct!RouteTypeOK
  <2>7. Ct!Url' = "city"
    BY <2>2, <2>5 DEF Ct!Url
  <2> QED
    BY <2>4, <2>5, <2>6, <2>7 DEF RouteInv, Ct!ShownIsUrl, DiveOK, ExitOK
<1>5. CASE dive.phase = "exiting" /\ ~dive.covered
  <2>1. /\ Ct!OnTick.dive = Ct!Idle /\ Ct!OnTick.commit = Ct!NoCommit
        /\ Ct!OnTick.move = "hold" /\ Ct!OnTick.timed = FALSE
    BY <1>5 DEF Ct!OnTick, Ct!Result
  <2>2. camera = "home" /\ shown = "city" /\ visited[at] = "city"
    BY <1>5 DEF RouteInv, ExitOK, Ct!Url
  <2>3. /\ visited' \in Seq(Ct!Routes) /\ at' \in 1..Len(visited') /\ guest' = guest
        /\ dive' = Ct!Idle /\ due' = 0 /\ camera' = camera /\ shown' = shown
        /\ visited'[at'] = visited[at]
    BY <1>0, <1>1, <2>1, Sent
  <2>4. dive' = Ct!InitialDive(shown')
    BY <2>2, <2>3, CityIsNoScreen DEF Ct!InitialDive
  <2> QED
    BY <1>0, <2>2, <2>3, <2>4, Rests, CityIsNoScreen
<1>6. dive.phase \notin {"idle", "inside"}
  BY <1>0 DEF RouteInv, Ct!ShownIsUrl
<1>7. dive.phase \in {"focusing", "diving", "exiting"}
  BY <1>0, <1>6 DEF Ct!Dives
<1> QED
  BY <1>2, <1>3, <1>4, <1>5, <1>7

LEMMA MountStep ==
  ASSUME Ct!RouteAssumption, NEW entries \in Seq(Ct!Routes), NEW here \in 1..Len(entries),
         NEW asGuest \in BOOLEAN, Ct!Mount(entries, here, asGuest)
  PROVE  RouteInv'
<1> DEFINE route == Ct!Allowed(asGuest, entries[here])
<1>1. route \in Ct!Routes /\ (asGuest => route # "owner")
  BY CityIsNoScreen DEF Ct!Allowed
<1>2. /\ visited' = [entries EXCEPT ![here] = route] /\ at' = here /\ shown' = route
      /\ dive' = Ct!InitialDive(route) /\ due' = 0 /\ camera' = "home" /\ guest' = asGuest
  BY DEF Ct!Mount
<1> HIDE DEF route
<1>3. visited' \in Seq(Ct!Routes) /\ at' \in 1..Len(visited') /\ visited'[at'] = route
  BY <1>1, <1>2
<1> QED
  BY <1>1, <1>2, <1>3, Rests

LEMMA RouteInvariant ==
  ASSUME Ct!RouteAssumption
  PROVE  Ct!RouteSpec => []RouteInv
<1>1. Ct!RouteInit => RouteInv
  <2> SUFFICES ASSUME Ct!RouteInit PROVE RouteInv
    OBVIOUS
  <2>1. PICK route \in Ct!Routes : shown = Ct!Allowed(guest, route) /\ visited = <<shown>>
                                   /\ dive = Ct!InitialDive(shown)
    BY DEF Ct!RouteInit
  <2>2. guest \in BOOLEAN /\ at = 1 /\ due = 0 /\ camera = "home"
    BY DEF Ct!RouteInit
  <2>3. shown \in Ct!Routes /\ (guest => shown # "owner")
    BY <2>1, CityIsNoScreen DEF Ct!Allowed
  <2>4. visited \in Seq(Ct!Routes) /\ at \in 1..Len(visited) /\ Ct!Url = shown
    BY <2>1, <2>2, <2>3 DEF Ct!Url
  <2>5. /\ dive \in Ct!Dives /\ dive.phase \in {"idle", "inside"}
    BY <2>1, RestingDives DEF Ct!InitialDive
  <2>6. Ct!RouteTypeOK
    BY <2>2, <2>3, <2>4, <2>5 DEF Ct!RouteTypeOK
  <2>7. Ct!ShownIsUrl
    BY <2>1, <2>2, <2>3, <2>4 DEF Ct!ShownIsUrl
  <2> QED
    BY <2>5, <2>6, <2>7 DEF RouteInv, DiveOK, ExitOK
<1>2. RouteInv /\ [Ct!RouteNext]_(Ct!routeVars) => RouteInv'
  <2> SUFFICES ASSUME RouteInv, [Ct!RouteNext]_(Ct!routeVars) PROVE RouteInv'
    OBVIOUS
  <2>0. CASE UNCHANGED Ct!routeVars
    BY <2>0 DEF Ct!routeVars, RouteInv, Ct!RouteTypeOK, Ct!ShownIsUrl, Ct!Url, DiveOK, ExitOK
  <2>1. /\ visited \in Seq(Ct!Routes) /\ at \in 1..Len(visited) /\ guest \in BOOLEAN
    BY DEF RouteInv, Ct!RouteTypeOK
  <2>2. ASSUME NEW route \in Ct!Routes
        PROVE  /\ Ct!Allowed(guest, route) \in Ct!Routes
               /\ guest => Ct!Allowed(guest, route) # "owner"
    BY CityIsNoScreen DEF Ct!Allowed
  <2>3. ASSUME NEW route \in Ct!Routes, NEW flies \in BOOLEAN, Ct!Navigate(route, flies)
        PROVE  RouteInv'
    <3>0. PICK goal : goal = Ct!Allowed(guest, route)
      OBVIOUS
    <3>1. Asked(visited, at, goal, TRUE)
      BY <2>1, <2>2, <3>0 DEF Asked
    <3>2. Ct!Send(IF goal \in Ct!Screens THEN Ct!Open(goal, TRUE, FALSE, flies)
                                         ELSE Ct!Close(goal, TRUE, flies), visited, at, due)
      BY <2>3, <3>0 DEF Ct!Navigate
    <3>3. CASE goal \in Ct!Screens
      <4>1. Ct!Send(Ct!Open(goal, TRUE, ~TRUE, flies), visited, at, due)
        BY <3>2, <3>3
      <4> QED
        BY <3>1, <3>3, <4>1, OpenStep
    <3>4. CASE goal \notin Ct!Screens
      <4>1. goal = "city"
        BY <2>2, <3>0, <3>4, CityIsNoScreen
      <4> QED
        BY <3>1, <3>2, <3>4, <4>1, CloseStep
    <3> QED
      BY <3>3, <3>4
  <2>4. ASSUME NEW here \in 1..Len(visited), NEW flies \in BOOLEAN, Ct!Traverse(here, flies)
        PROVE  RouteInv'
    <3>0. PICK goal : goal = Ct!Allowed(guest, visited[here])
      OBVIOUS
    <3>1. goal \in Ct!Routes /\ (guest => goal # "owner")
      BY <2>1, <2>2, <3>0
    <3>2. PICK entries : entries = [visited EXCEPT ![here] = goal]
      OBVIOUS
    <3>3. Asked(entries, here, goal, FALSE)
      BY <2>1, <3>1, <3>2 DEF Asked
    <3>4. Ct!Send(IF goal \in Ct!Screens THEN Ct!Open(goal, FALSE, TRUE, flies)
                                         ELSE Ct!Close(goal, FALSE, flies), entries, here, due)
      BY <2>4, <3>0, <3>2 DEF Ct!Traverse
    <3>5. CASE goal \in Ct!Screens
      <4>1. Ct!Send(Ct!Open(goal, FALSE, ~FALSE, flies), entries, here, due)
        BY <3>4, <3>5
      <4> QED
        BY <3>3, <3>5, <4>1, OpenStep
    <3>6. CASE goal \notin Ct!Screens
      <4>1. goal = "city"
        BY <3>1, <3>6, CityIsNoScreen
      <4> QED
        BY <3>3, <3>4, <3>6, <4>1, CloseStep
    <3> QED
      BY <3>5, <3>6
  <2>5. CASE Ct!ChangeSession
    <3> DEFINE more == Append(SubSeq(visited, 1, at), "city")
    <3>1. SubSeq(visited, 1, at) \in Seq(Ct!Routes) /\ Len(SubSeq(visited, 1, at)) = at
      BY <2>1
    <3>2. more \in Seq(Ct!Routes) /\ at + 1 \in 1..Len(more)
      BY <2>1, <3>1, CityIsNoScreen
    <3>3. (~guest) \in BOOLEAN
      BY Zenon
    <3>4. Ct!Mount(visited, at, ~guest) \/ Ct!Mount(more, at + 1, ~guest)
      BY <2>5 DEF Ct!ChangeSession
    <3> HIDE DEF more
    <3> QED
      BY <2>1, <3>2, <3>3, <3>4, MountStep
  <2>6. CASE Ct!LoseSession \/ Ct!Reload
    BY <2>1, <2>6, MountStep DEF Ct!LoseSession, Ct!Reload
  <2> QED
    BY <2>0, <2>3, <2>4, <2>5, <2>6, TickStep DEF Ct!RouteNext
<1> QED
  BY <1>1, <1>2, PTL DEF Ct!RouteSpec

(* Whatever order clicks, Back, Forward, timers and session changes come   *)
(* in, a shell at rest shows what its URL says, with no timer left to fire  *)
(* into it (useCityRoute.ts:42-46, diveMachine.ts:12-15).                   *)
THEOREM RouteCorrect ==
  ASSUME Ct!RouteAssumption
  PROVE  Ct!RouteSpec => [](Ct!ShownIsUrl /\ Ct!RouteTypeOK)
<1>1. RouteInv => Ct!ShownIsUrl /\ Ct!RouteTypeOK
  BY DEF RouteInv
<1> QED
  BY <1>1, RouteInvariant, PTL


(****************************************************************************)
(* Listening: cursors that move before a page is printed                      *)
(****************************************************************************)
published == s1
acked == s2
serving == s3
place == s4
listener == s5
launched == s6
printed == s7
dropped == s8
passed == s9
USE DEF published, acked, serving, place, listener, launched, printed, dropped, passed

Forms == {"listen", "wait", "none"}
Listener == [form : Forms, at : 1..8, read : Nat \cup {Ls!None}, cursor : Nat, page : SUBSET Nat,
             retries : Nat, teardown : {"no", "end", "clear", "exit"}]
Place == [there : BOOLEAN, cursor : Nat, lease : BOOLEAN, whole : BOOLEAN]
(* Where a command is, and that it has a page once it has read one only.     *)
InOrderOf(l) ==
  /\ l.form = "wait" => l.at <= 6
  /\ l.form = "none" => l.at = 1
  /\ l.at <= 3 => l.page = {}
  /\ l.cursor <= published /\ (l.read # Ls!None => l.read <= published)
  /\ l.page \subseteq 1..published
(* An event is had when it was printed, was lost with its page, was counted to *)
(* the caller by a session's begin, or is on a page whose command has saved   *)
(* its cursor.                                                              *)
Had(e) == e \in printed \cup dropped \cup passed \/ \E p \in Commands : listener[p].at > 4 /\ e \in listener[p].page
Behind(e, l) == e <= l.cursor \/ (l.read # Ls!None /\ e <= l.read)
ListenTyped ==
  /\ published \in Nat /\ acked \in 0..published
  /\ place \in Place /\ place.cursor <= published
  /\ listener \in [Commands -> Listener]
  /\ \A p \in Commands : InOrderOf(listener[p])
PlacesHad == \A e \in 1..published : e <= acked \/ e <= place.cursor => Had(e)
PagesHad == \A p \in Commands, e \in 1..published :
              Behind(e, listener[p]) => Had(e) \/ e \in listener[p].page
ListenInv == ListenTyped /\ PlacesHad /\ PagesHad

LEMMA ListenStarts == Ls!Init => ListenInv
<1> SUFFICES ASSUME Ls!Init PROVE ListenInv
  OBVIOUS
<1>1. /\ published = 0 /\ acked = 0 /\ place = Ls!NoSession /\ listener = [p \in Commands |-> Ls!Idle]
  BY DEF Ls!Init
<1>2. /\ Ls!Idle \in Listener /\ Ls!Idle.form = "none" /\ Ls!Idle.at = 1 /\ Ls!Idle.page = {}
      /\ Ls!Idle.cursor = 0 /\ Ls!Idle.read = Ls!None
  BY DEF Ls!Idle, Listener, Forms
<1>3. Ls!NoSession \in Place /\ Ls!NoSession.cursor = 0
  BY DEF Ls!NoSession, Place
<1>4. InOrderOf(Ls!Idle)
  BY <1>1, <1>2 DEF InOrderOf
<1> QED
  BY <1>1, <1>2, <1>3, <1>4 DEF ListenInv, ListenTyped, PlacesHad, PagesHad

(* Nothing is had no more.                                                  *)
(* One command moves: what was had through it is had still.                 *)
LEMMA Moves ==
  ASSUME ListenInv, NEW p \in Commands, NEW new \in Listener,
         listener' = [listener EXCEPT ![p] = new], UNCHANGED published, InOrderOf(new),
         printed \cup dropped \cup passed \subseteq printed' \cup dropped' \cup passed',
         listener[p].at > 4 => \A e \in listener[p].page :
           e \in printed' \cup dropped' \cup passed' \/ (new.at > 4 /\ e \in new.page),
         acked' \in 0..published, place' \in Place, place'.cursor <= published,
         \A e \in 1..published : e <= acked' \/ e <= place'.cursor =>
           Had(e) \/ (new.at > 4 /\ e \in new.page),
         \A e \in 1..published : Behind(e, new) => Had(e) \/ e \in new.page
  PROVE  ListenInv'
<1>1. listener \in [Commands -> Listener] /\ \A q \in Commands : InOrderOf(listener[q])
  BY DEF ListenInv, ListenTyped
<1>2. /\ listener' \in [Commands -> Listener] /\ listener'[p] = new
      /\ \A q \in Commands \ {p} : listener'[q] = listener[q]
  BY <1>1
<1>3. \A e : Had(e) => Had(e)'
  <2> SUFFICES ASSUME NEW e, Had(e) PROVE Had(e)'
    OBVIOUS
  <2>1. CASE e \in printed \cup dropped \cup passed
    BY <2>1 DEF Had
  <2>2. ASSUME NEW q \in Commands, listener[q].at > 4, e \in listener[q].page
        PROVE  Had(e)'
    <3>1. CASE q = p
      BY <1>2, <2>2, <3>1 DEF Had
    <3>2. CASE q # p
      BY <1>2, <2>2, <3>2 DEF Had
    <3> QED
      BY <3>1, <3>2
  <2> QED
    BY <2>1, <2>2 DEF Had
<1>4. \A e : new.at > 4 /\ e \in new.page => Had(e)'
  BY <1>2 DEF Had
<1>5. ListenTyped'
  <2>1. \A q \in Commands : InOrderOf(listener[q])'
    <3> SUFFICES ASSUME NEW q \in Commands PROVE InOrderOf(listener[q])'
      OBVIOUS
    <3>1. InOrderOf(listener[q]) /\ (listener'[q] = listener[q] \/ listener'[q] = new)
      BY <1>1, <1>2
    <3> QED
      BY <3>1 DEF InOrderOf
  <2> QED
    BY <1>2, <2>1 DEF ListenInv, ListenTyped
<1>6. PlacesHad'
  BY <1>3, <1>4 DEF PlacesHad
<1>7. PagesHad'
  <2> SUFFICES ASSUME NEW q \in Commands, NEW e \in 1..published, Behind(e, listener'[q])
               PROVE  Had(e)' \/ e \in listener'[q].page
    BY DEF PagesHad, Behind
  <2>1. CASE q = p
    BY <1>2, <1>3, <2>1
  <2>2. CASE q # p
    BY <1>2, <1>3, <2>2 DEF ListenInv, PagesHad
  <2> QED
    BY <2>1, <2>2
<1> QED
  BY <1>5, <1>6, <1>7 DEF ListenInv

(* What a command is about to do, and where it is then.                     *)
LEMMA StepsAre ==
  ASSUME NEW l \in Listener, InOrderOf(l), NEW step, step = Ls!Order[l.form][l.at]
  PROVE  /\ step \in {"heartbeat", "renew"} => l.at < 3
         /\ step = "wait" => l.at = 3
         /\ step \in {"cursor", "save", "ack"} => l.at \in 4..7 /\ (l.form = "wait" => l.at < 6)
         /\ step \in {"ack", "output"} => l.at > 4
         /\ l.form = "none" => step = "none"
<1>1. l.at \in 1..8 /\ l.form \in {"listen", "wait", "none"}
  BY DEF Listener, Forms
<1>2. CASE l.form = "listen"
  <2>1. step = <<"heartbeat", "renew", "wait", "cursor", "ack", "save", "ack", "output">>[l.at]
    BY <1>2 DEF Ls!Order
  <2> QED
    BY <1>1, <1>2, <2>1
<1>3. CASE l.form = "wait"
  <2>1. step = <<"renew", "heartbeat", "wait", "save", "ack", "output">>[l.at]
    BY <1>3 DEF Ls!Order
  <2>2. l.at \in 1..6
    BY <1>1, <1>3 DEF InOrderOf
  <2> QED
    BY <1>3, <2>1, <2>2
<1>4. CASE l.form = "none"
  <2>1. l.at = 1
    BY <1>4 DEF InOrderOf
  <2>2. step = "none"
    BY <1>4, <2>1 DEF Ls!Order
  <2> QED
    BY <1>4, <2>2
<1> QED
  BY <1>1, <1>2, <1>3, <1>4

(* A command that goes on, or is gone.                                      *)
LEMMA Onwards ==
  ASSUME NEW p, NEW l \in Listener, InOrderOf(l), listener[p] = l,
         Ls!Step(p) \in {"heartbeat", "renew", "wait", "cursor", "save", "ack"}
  PROVE  LET new == Ls!Onward(p) IN
         /\ new \in Listener /\ new.form = l.form /\ new.at = l.at + 1 /\ new.read = Ls!None
         /\ new.cursor = l.cursor /\ new.page = l.page /\ new.teardown = l.teardown
         /\ (l.at # 3 \/ l.page = {} => InOrderOf(new))
<1>1. l.at \in 1..7 /\ (l.form = "wait" => l.at < 6) /\ l.form # "none"
  <2>1. Ls!Step(p) = Ls!Order[l.form][l.at]
    BY DEF Ls!Step
  <2>2. l.at \in 1..8
    BY DEF Listener
  <2> HIDE DEF Ls!Step
  <2> QED
    BY <2>1, <2>2, StepsAre
<1>2. l.at + 1 \in 1..8 /\ 0 \in Nat
  BY <1>1
<1> DEFINE new == Ls!Onward(p)
<1>3. new = [l EXCEPT !.at = @ + 1, !.retries = 0, !.read = Ls!None]
  BY DEF Ls!Onward
<1>4. /\ new \in Listener /\ new.form = l.form /\ new.at = l.at + 1 /\ new.read = Ls!None
      /\ new.cursor = l.cursor /\ new.page = l.page /\ new.teardown = l.teardown
  BY <1>2, <1>3 DEF Listener
<1> HIDE DEF new
<1>5. l.at # 3 \/ l.page = {} => InOrderOf(new)
  BY <1>1, <1>4 DEF InOrderOf
<1> QED
  BY <1>4, <1>5 DEF new

(* What is known of a command before it takes a step.                       *)
LEMMA Calls ==
  ASSUME ListenInv, NEW p \in Commands
  PROVE  /\ listener[p] \in Listener /\ InOrderOf(listener[p]) /\ published \in Nat
         /\ acked \in 0..published /\ place \in Place /\ place.cursor <= published
         /\ \A e \in 1..published : e <= acked \/ e <= place.cursor => Had(e)
         /\ \A e \in 1..published : Behind(e, listener[p]) => Had(e) \/ e \in listener[p].page
BY DEF ListenInv, ListenTyped, PlacesHad, PagesHad

(* A command that ends, whatever for, drops what it did not print.          *)
LEMMA Leaves ==
  ASSUME ListenInv, NEW p \in Commands, NEW new, new \in {Ls!Idle, Ls!Gone(p)},
         listener' = [listener EXCEPT ![p] = new], dropped' = dropped \cup (Ls!Saved(p) \ printed),
         UNCHANGED <<published, acked, place, printed, passed>>
  PROVE  ListenInv'
<1>1. listener[p] \in Listener /\ listener[p].teardown \in {"no", "end", "clear", "exit"}
  BY Calls DEF Listener
<1>2. /\ new \in Listener /\ new.form = "none" /\ new.at = 1 /\ new.page = {} /\ new.cursor = 0
      /\ new.read = Ls!None
  <2>1. new = Ls!Idle \/ new = [Ls!Idle EXCEPT !.teardown = listener[p].teardown]
    BY DEF Ls!Gone
  <2> QED
    BY <1>1, <2>1 DEF Ls!Idle, Listener, Forms
<1>3. published \in Nat
  BY Calls
<1>4. InOrderOf(new) /\ \A e \in 1..published : ~Behind(e, new)
  BY <1>2, <1>3 DEF InOrderOf, Behind
<1>5. listener[p].at > 4 => \A e \in listener[p].page : e \in printed' \cup dropped' \cup passed'
  BY DEF Ls!Saved
<1>6. \A e \in 1..published : e <= acked' \/ e <= place'.cursor => Had(e)
  BY Calls
<1>7. acked' \in 0..published /\ place' \in Place /\ place'.cursor <= published
  BY Calls
<1> HIDE DEF Had
<1> QED
  BY <1>2, <1>4, <1>5, <1>6, <1>7, Moves

(* A command that goes on with what it has.                                 *)
LEMMA Goes ==
  ASSUME ListenInv, NEW p \in Commands, NEW new \in Listener,
         listener' = [listener EXCEPT ![p] = new], UNCHANGED <<published, printed, dropped, passed>>,
         new.cursor = listener[p].cursor, new.page = listener[p].page, new.at >= listener[p].at,
         InOrderOf(new),
         new.read # Ls!None => \A e \in 1..published : e <= new.read => Had(e) \/ e \in new.page,
         acked' \in 0..published, place' \in Place, place'.cursor <= published,
         \A e \in 1..published : e <= acked' \/ e <= place'.cursor =>
           Had(e) \/ (new.at > 4 /\ e \in new.page)
  PROVE  ListenInv'
<1>1. listener[p].at \in Nat /\ new.at \in Nat
  BY Calls DEF Listener
<1>2. \A e \in 1..published : Behind(e, new) => Had(e) \/ e \in new.page
  BY Calls DEF Behind
<1>3. listener[p].at > 4 => \A e \in listener[p].page : new.at > 4 /\ e \in new.page
  BY <1>1
<1> HIDE DEF Had
<1> QED
  BY <1>2, <1>3, Moves

(* A session begins at the newest event, and counts what it passes.          *)
LEMMA BeginStep ==
  ASSUME ListenInv, Ls!SessionBegin
  PROVE  ListenInv'
<1>1. /\ UNCHANGED <<published, acked, listener, printed, dropped>>
      /\ place' = [there |-> TRUE, cursor |-> published, lease |-> TRUE, whole |-> TRUE]
      /\ passed' = passed \cup ((acked + 1)..published \ printed)
  BY DEF Ls!SessionBegin
<1>2. published \in Nat /\ acked \in 0..published
  BY DEF ListenInv, ListenTyped
<1>3. place' \in Place /\ place'.cursor = published
  BY <1>1, <1>2 DEF Place
<1>4. \A e \in 1..published : Had(e)'
  <2> SUFFICES ASSUME NEW e \in 1..published PROVE Had(e)'
    OBVIOUS
  <2>1. CASE e <= acked
    <3>1. Had(e)
      BY <2>1 DEF ListenInv, PlacesHad
    <3> QED
      BY <1>1, <3>1 DEF Had
  <2>2. CASE e > acked
    <3>1. e \in (acked + 1)..published
      BY <1>2, <2>2
    <3> QED
      BY <1>1, <3>1 DEF Had
  <2> QED
    BY <1>2, <2>1, <2>2
<1>5. ListenTyped'
  <2>1. \A p \in Commands : InOrderOf(listener[p])'
    BY <1>1 DEF ListenInv, ListenTyped, InOrderOf
  <2> QED
    BY <1>1, <1>2, <1>3, <2>1 DEF ListenInv, ListenTyped
<1>6. PlacesHad' /\ PagesHad'
  BY <1>1, <1>4 DEF PlacesHad, PagesHad
<1> QED
  BY <1>5, <1>6 DEF ListenInv

(* The files of the session, the server and the clock change by themselves. *)
LEMMA SittingStep ==
  ASSUME ListenInv, Ls!SessionEnd \/ Ls!LeaseOver \/ Ls!Refuse
  PROVE  ListenInv'
<1>1. UNCHANGED <<published, acked, listener, printed, dropped, passed>>
  BY DEF Ls!SessionEnd, Ls!LeaseOver, Ls!Refuse
<1>2. published \in Nat /\ acked \in 0..published /\ place \in Place /\ place.cursor <= published
  BY DEF ListenInv, ListenTyped
<1>3. place' \in Place /\ place'.cursor \in {0, place.cursor}
  <2>1. CASE Ls!SessionEnd
    BY <2>1 DEF Ls!SessionEnd, Ls!NoSession, Place
  <2>2. CASE Ls!LeaseOver
    BY <1>2, <2>2 DEF Ls!LeaseOver, Place
  <2>3. CASE Ls!Refuse
    BY <1>2, <2>3 DEF Ls!Refuse
  <2> QED
    BY <2>1, <2>2, <2>3
<1>4. ListenTyped'
  <2>1. \A p \in Commands : InOrderOf(listener[p])'
    BY <1>1 DEF ListenInv, ListenTyped, InOrderOf
  <2>2. place'.cursor <= published
    BY <1>2, <1>3
  <2> QED
    BY <1>1, <1>2, <1>3, <2>1, <2>2 DEF ListenInv, ListenTyped
<1>5. PlacesHad'
  BY <1>1, <1>2, <1>3 DEF ListenInv, PlacesHad, Had
<1>6. PagesHad'
  BY <1>1 DEF ListenInv, PagesHad, Had, Behind
<1> QED
  BY <1>4, <1>5, <1>6 DEF ListenInv

LEMMA PublishStep ==
  ASSUME ListenInv, Ls!Publish
  PROVE  ListenInv'
<1>1. UNCHANGED <<acked, place, listener, printed, dropped, passed>> /\ published' = published + 1
  BY DEF Ls!Publish
<1>2. /\ published \in Nat /\ acked \in 0..published /\ place \in Place /\ place.cursor <= published
      /\ place.cursor \in Nat
  BY DEF ListenInv, ListenTyped, Place
<1>3. \A p \in Commands : /\ listener[p].cursor \in Nat /\ listener[p].cursor <= published
                          /\ listener[p].read # Ls!None => listener[p].read \in Nat /\ listener[p].read <= published
                          /\ listener[p].page \subseteq 1..published
  BY DEF ListenInv, ListenTyped, InOrderOf, Listener
<1>4. ListenTyped'
  <2>1. \A p \in Commands : InOrderOf(listener[p])'
    <3> SUFFICES ASSUME NEW p \in Commands PROVE InOrderOf(listener[p])'
      OBVIOUS
    <3>1. /\ listener[p].cursor <= published + 1
          /\ listener[p].read # Ls!None => listener[p].read <= published + 1
          /\ listener[p].page \subseteq 1..(published + 1)
      BY <1>2, <1>3
    <3>2. InOrderOf(listener[p])
      BY DEF ListenInv, ListenTyped
    <3> QED
      BY <1>1, <3>1, <3>2 DEF InOrderOf
  <2>2. published' \in Nat /\ acked \in 0..published' /\ place.cursor <= published'
    BY <1>1, <1>2
  <2> QED
    BY <1>1, <1>2, <2>1, <2>2 DEF ListenInv, ListenTyped
<1>5. \A e \in 1..published' : e \in 1..published \/ (e > acked /\ e > place.cursor /\ e = published + 1)
  BY <1>1, <1>2
<1>6. PlacesHad'
  <2> SUFFICES ASSUME NEW e \in 1..published', e <= acked \/ e <= place.cursor
               PROVE  Had(e)'
    BY <1>1 DEF PlacesHad
  <2>1. e \in 1..published
    BY <1>2, <1>5
  <2> QED
    BY <1>1, <2>1 DEF ListenInv, PlacesHad, Had
<1>7. PagesHad'
  <2> SUFFICES ASSUME NEW p \in Commands, NEW e \in 1..published', Behind(e, listener[p])
               PROVE  Had(e)' \/ e \in listener[p].page
    BY <1>1 DEF PagesHad, Behind
  <2>1. e \in 1..published
    BY <1>2, <1>3, <1>5 DEF Behind
  <2> QED
    BY <1>1, <2>1 DEF ListenInv, PagesHad, Had
<1> QED
  BY <1>4, <1>6, <1>7 DEF ListenInv

LEMMA StartStep ==
  ASSUME ListenInv, NEW p \in Commands, NEW form \in {"listen", "wait"}, Ls!Start(p, form)
  PROVE  ListenInv'
<1>1. PICK after \in 0..place.cursor :
        listener' = [listener EXCEPT ![p] = [Ls!Idle EXCEPT !.form = form, !.cursor = after]]
  BY DEF Ls!Start, Ls!Set
<1>2. listener[p] = Ls!Idle /\ UNCHANGED <<published, acked, place, printed, dropped, passed>>
  BY DEF Ls!Start
<1> DEFINE new == [Ls!Idle EXCEPT !.form = form, !.cursor = after]
<1>3. place.cursor \in Nat /\ published \in Nat /\ place.cursor <= published
  BY Calls DEF Place
<1>5. after \in Nat /\ after <= published
  BY <1>3
<1>4. /\ new \in Listener /\ new.form = form /\ new.at = 1 /\ new.page = {} /\ new.cursor = after
      /\ new.read = Ls!None /\ Ls!Idle.at = 1
  <2>1. /\ Ls!Idle \in Listener /\ Ls!Idle.at = 1 /\ Ls!Idle.page = {} /\ Ls!Idle.read = Ls!None
    BY DEF Ls!Idle, Listener, Forms
  <2>2. form \in Forms
    BY DEF Forms
  <2> QED
    BY <1>5, <2>1, <2>2 DEF Listener
<1> HIDE DEF new
<1>6. InOrderOf(new)
  BY <1>4, <1>5 DEF InOrderOf
<1>7. \A e \in 1..published : Behind(e, new) => Had(e) \/ e \in new.page
  <2> SUFFICES ASSUME NEW e \in 1..published, e <= after PROVE Had(e)
    BY <1>4 DEF Behind
  <2>1. e <= place.cursor
    BY <1>3, <1>5
  <2> QED
    BY <2>1, Calls
<1>8. listener' = [listener EXCEPT ![p] = new]
  BY <1>1 DEF new
<1>9. /\ acked' \in 0..published /\ place' \in Place /\ place'.cursor <= published
      /\ \A e \in 1..published : e <= acked' \/ e <= place'.cursor => Had(e)
  BY <1>2, Calls
<1>10. ~(listener[p].at > 4)
  BY <1>2, <1>4
<1> HIDE DEF Had
<1> QED
  BY <1>2, <1>4, <1>6, <1>7, <1>8, <1>9, <1>10, Moves

LEMMA FailsStep ==
  ASSUME ListenInv, NEW p \in Commands, Ls!Fails(p), UNCHANGED <<published, acked, place, printed, passed>>
  PROVE  ListenInv'
BY Leaves DEF Ls!Fails, Ls!Set

LEMMA ExitStep ==
  ASSUME ListenInv, NEW p \in Commands, Ls!Exit(p)
  PROVE  ListenInv'
BY Leaves DEF Ls!Exit, Ls!Set

(* Nothing of the session or the inbox changes.                             *)
LEMMA Stays ==
  ASSUME ListenInv, NEW p \in Commands, NEW new \in Listener,
         listener' = [listener EXCEPT ![p] = new], UNCHANGED <<published, acked, place, printed, dropped, passed>>,
         new.cursor = listener[p].cursor, new.page = listener[p].page, new.at >= listener[p].at,
         InOrderOf(new),
         new.read # Ls!None => \A e \in 1..published : e <= new.read => Had(e) \/ e \in new.page
  PROVE  ListenInv'
<1>1. /\ acked' \in 0..published /\ place' \in Place /\ place'.cursor <= published
      /\ \A e \in 1..published : e <= acked' \/ e <= place'.cursor => Had(e)
  BY Calls
<1> HIDE DEF Had
<1> QED
  BY <1>1, Goes

LEMMA RetryStep ==
  ASSUME ListenInv, NEW p \in Commands, Ls!Retry(p)
  PROVE  ListenInv'
<1>1. CASE listener[p].retries < MaxRetries
  <2> DEFINE new == [listener[p] EXCEPT !.retries = @ + 1]
  <2>1. listener' = [listener EXCEPT ![p] = new] /\ UNCHANGED <<published, acked, place, printed, dropped, passed>>
    BY <1>1 DEF Ls!Retry, Ls!Set
  <2>2. listener[p] \in Listener /\ InOrderOf(listener[p])
    BY Calls
  <2>3. /\ new \in Listener /\ new.cursor = listener[p].cursor /\ new.page = listener[p].page
        /\ new.at = listener[p].at /\ new.form = listener[p].form /\ new.read = listener[p].read
    BY <2>2 DEF Listener
  <2>4. listener[p].at \in Nat
    BY <2>2 DEF Listener
  <2> HIDE DEF new
  <2>5. InOrderOf(new) /\ new.at >= listener[p].at
    BY <2>2, <2>3, <2>4 DEF InOrderOf
  <2>6. new.read # Ls!None => \A e \in 1..published : e <= new.read => Had(e) \/ e \in new.page
    BY <2>3, Calls DEF Behind
  <2> QED
    BY <2>1, <2>3, <2>5, <2>6, Stays
<1>2. CASE ~(listener[p].retries < MaxRetries)
  <2>1. Ls!Fails(p) /\ UNCHANGED <<published, acked, place, printed, passed>>
    BY <1>2 DEF Ls!Retry
  <2> QED
    BY <2>1, FailsStep
<1> QED
  BY <1>1, <1>2

LEMMA HeartbeatStep ==
  ASSUME ListenInv, NEW p \in Commands, Ls!Heartbeat(p)
  PROVE  ListenInv'
<1>1. CASE serving = "live"
  <2> DEFINE new == Ls!Onward(p) l == listener[p]
  <2>1. listener' = [listener EXCEPT ![p] = new] /\ UNCHANGED <<published, acked, place, printed, dropped, passed>>
    BY <1>1 DEF Ls!Heartbeat, Ls!Set
  <2>2. l \in Listener /\ InOrderOf(l) /\ l.at \in Nat
    BY Calls DEF Listener
  <2>3. Ls!Step(p) = "heartbeat"
    BY DEF Ls!Heartbeat, Ls!At
  <2>4. l.at < 3
    BY <2>2, <2>3, StepsAre DEF Ls!Step
  <2>5. /\ new \in Listener /\ new.form = l.form /\ new.at = l.at + 1 /\ new.read = Ls!None
        /\ new.cursor = l.cursor /\ new.page = l.page /\ InOrderOf(new)
    BY <2>2, <2>3, <2>4, Onwards
  <2> HIDE DEF new
  <2>6. new.at >= l.at
    BY <2>2, <2>5
  <2> QED
    BY <2>1, <2>5, <2>6, Stays
<1>2. CASE serving # "live"
  <2>1. Ls!Fails(p) /\ UNCHANGED <<published, acked, place, printed, passed>>
    BY <1>2 DEF Ls!Heartbeat
  <2> QED
    BY <2>1, FailsStep
<1> QED
  BY <1>1, <1>2

LEMMA RenewReadStep ==
  ASSUME ListenInv, NEW p \in Commands, Ls!RenewRead(p)
  PROVE  ListenInv'
<1> DEFINE l == listener[p]
           read == IF Ls!Step(p) = "renew" THEN place.cursor ELSE l.cursor
           new == [l EXCEPT !.read = read]
<1>1. CASE place.there /\ place.whole /\ place.lease
  <2>1. listener' = [listener EXCEPT ![p] = new] /\ UNCHANGED <<published, acked, place, printed, dropped, passed>>
    BY <1>1 DEF Ls!RenewRead, Ls!Set
  <2>2. l \in Listener /\ InOrderOf(l) /\ l.at \in Nat /\ l.cursor \in Nat /\ place.cursor \in Nat
    BY Calls DEF Listener, Place
  <2>3. read \in Nat /\ read <= published
    BY <2>2, Calls DEF InOrderOf
  <2>4. \A e \in 1..published : e <= read => Had(e) \/ e \in l.page
    BY Calls DEF Behind
  <2> HIDE DEF read
  <2>5. /\ new \in Listener /\ new.cursor = l.cursor /\ new.page = l.page
        /\ new.at = l.at /\ new.form = l.form /\ new.read = read
    BY <2>2, <2>3 DEF Listener
  <2> HIDE DEF new
  <2>6. InOrderOf(new) /\ new.at >= l.at
    BY <2>2, <2>3, <2>5 DEF InOrderOf
  <2>7. \A e \in 1..published : e <= new.read => Had(e) \/ e \in new.page
    BY <2>4, <2>5
  <2> HIDE DEF Had
  <2> QED
    BY <2>1, <2>5, <2>6, <2>7, Stays
<1>2. CASE ~(place.there /\ place.whole /\ place.lease)
  <2>1. Ls!Fails(p) /\ UNCHANGED <<published, acked, place, printed, passed>>
    BY <1>2 DEF Ls!RenewRead
  <2> QED
    BY <2>1, FailsStep
<1> QED
  BY <1>1, <1>2

LEMMA RenewWriteStep ==
  ASSUME ListenInv, NEW p \in Commands, Ls!RenewWrite(p)
  PROVE  ListenInv'
<1> DEFINE l == listener[p] new == Ls!Onward(p)
<1>1. /\ Ls!Step(p) \in {"renew", "cursor", "save"} /\ l.read # Ls!None
      /\ listener' = [listener EXCEPT ![p] = new]
      /\ place' = [there |-> TRUE, lease |-> TRUE, whole |-> place.there /\ place.whole, cursor |-> l.read]
      /\ UNCHANGED <<published, acked, printed, dropped, passed>>
  BY DEF Ls!RenewWrite, Ls!Set
<1>2. l \in Listener /\ InOrderOf(l) /\ l.at \in Nat /\ l.read \in Nat /\ l.read <= published
  BY <1>1, Calls DEF Listener, InOrderOf
<1>3. l.at < 3 \/ l.at > 3
  BY <1>1, <1>2, StepsAre DEF Ls!Step
<1>4. /\ new \in Listener /\ new.form = l.form /\ new.at = l.at + 1 /\ new.read = Ls!None
      /\ new.cursor = l.cursor /\ new.page = l.page /\ InOrderOf(new)
  BY <1>1, <1>2, <1>3, Onwards
<1> HIDE DEF new
<1>5. new.at >= l.at /\ (l.at > 3 => new.at > 4)
  BY <1>2, <1>4
<1>6. place' \in Place /\ place'.cursor = l.read
  <2>1. (place.there /\ place.whole) \in BOOLEAN
    BY Calls DEF Place
  <2> QED
    BY <1>1, <1>2, <2>1 DEF Place
<1>7. \A e \in 1..published : e <= acked' \/ e <= place'.cursor => Had(e) \/ (new.at > 4 /\ e \in new.page)
  <2> SUFFICES ASSUME NEW e \in 1..published, e <= acked \/ e <= l.read
               PROVE  Had(e) \/ (new.at > 4 /\ e \in new.page)
    BY <1>1, <1>6
  <2>1. CASE e <= acked
    BY <2>1, Calls
  <2>2. CASE e <= l.read
    <3>1. Had(e) \/ e \in l.page
      BY <1>1, <2>2, Calls DEF Behind
    <3>2. l.at < 3 => l.page = {}
      BY <1>2 DEF InOrderOf
    <3> QED
      BY <1>3, <1>4, <1>5, <3>1, <3>2
  <2> QED
    BY <2>1, <2>2
<1>8. acked' \in 0..published /\ place'.cursor <= published
  BY <1>1, <1>2, <1>6, Calls
<1> HIDE DEF Had
<1> QED
  BY <1>1, <1>4, <1>5, <1>6, <1>7, <1>8, Goes

(* A page is the events from the cursor on, as many as it takes.            *)
LEMMA Pages ==
  ASSUME NEW from \in Nat, PageSize \in Nat, NEW n \in Nat, from <= n, NEW sheet,
         sheet = {e \in from + 1..n : e <= from + PageSize}
  PROVE  /\ sheet \subseteq 1..n /\ Ls!LastOf(sheet, from) \in from..n
         /\ \A e \in 1..n : e <= Ls!LastOf(sheet, from) => e <= from \/ e \in sheet
<1>1. CASE sheet = {}
  BY <1>1 DEF Ls!LastOf
<1>2. CASE sheet # {}
  <2> DEFINE m == IF n <= from + PageSize THEN n ELSE from + PageSize
             last == CHOOSE e \in sheet : \A f \in sheet : f <= e
  <2>1. m \in sheet /\ \A f \in sheet : f <= m
    BY <1>2
  <2>2. last \in sheet
    <3> HIDE DEF m
    <3> QED
      BY <2>1
  <2>3. Ls!LastOf(sheet, from) = last
    BY <1>2 DEF Ls!LastOf
  <2>4. last \in Nat /\ last \in from + 1..n /\ last <= from + PageSize
    BY <2>2
  <2> HIDE DEF last, m
  <2> QED
    BY <2>3, <2>4
<1> QED
  BY <1>1, <1>2

LEMMA WaitStep ==
  ASSUME ListenInv, NEW p \in Commands, Ls!Wait(p), PageSize \in Nat
  PROVE  ListenInv'
<1> DEFINE l == listener[p]
           sheet == {e \in l.cursor + 1..published : e <= l.cursor + PageSize}
           last == Ls!LastOf(sheet, l.cursor)
           got == [Ls!Onward(p) EXCEPT !.page = sheet, !.cursor = last]
<1>1. Ls!At(p, "wait") /\ UNCHANGED <<published, acked, place, printed, passed>>
  BY DEF Ls!Wait
<1>2. /\ l \in Listener /\ InOrderOf(l) /\ l.cursor \in Nat /\ l.cursor <= published /\ l.form \in Forms
      /\ published \in Nat /\ l.at \in Nat
  BY Calls DEF Listener, InOrderOf
<1>3. l.at = 3 /\ l.form # "none"
  BY <1>1, <1>2, StepsAre DEF Ls!Step, Ls!At
<1>4. l.page = {}
  BY <1>2, <1>3 DEF InOrderOf
<1>5. /\ sheet \subseteq 1..published /\ last \in l.cursor..published
      /\ \A e \in 1..published : e <= last => e <= l.cursor \/ e \in sheet
  BY <1>2, Pages
<1>6. last \in Nat /\ last <= published /\ sheet \subseteq Nat
  BY <1>2, <1>5
<1>7. /\ Ls!Onward(p) \in Listener /\ Ls!Onward(p).form = l.form /\ Ls!Onward(p).at = 4
      /\ Ls!Onward(p).read = Ls!None
  BY <1>1, <1>2, <1>3, Onwards DEF Ls!At
<1>8. CASE serving # "live"
  <2>1. Ls!Fails(p)
    BY <1>8 DEF Ls!Wait
  <2> QED
    BY <1>1, <2>1, FailsStep
<1>9. ASSUME NEW step \in {1, 4, 6}, step = 4 \/ (sheet = {} /\ l.form = "listen"),
             listener' = [listener EXCEPT ![p] = [got EXCEPT !.at = step]], UNCHANGED dropped
      PROVE  ListenInv'
  <2> DEFINE new == [got EXCEPT !.at = step]
  <2> HIDE DEF sheet, last
  <2>1. /\ new \in Listener /\ new.form = l.form /\ new.at = step /\ new.read = Ls!None
        /\ new.page = sheet /\ new.cursor = last
    <3>1. /\ got \in Listener /\ got.form = l.form /\ got.read = Ls!None /\ got.page = sheet /\ got.cursor = last
      BY <1>6, <1>7 DEF Listener
    <3>2. step \in 1..8
      OBVIOUS
    <3> HIDE DEF got
    <3> QED
      BY <3>1, <3>2 DEF Listener
  <2> HIDE DEF new
  <2>2. InOrderOf(new)
    BY <1>3, <1>5, <1>6, <1>9, <2>1 DEF InOrderOf
  <2>3. \A e \in 1..published : Behind(e, new) => Had(e) \/ e \in new.page
    <3> SUFFICES ASSUME NEW e \in 1..published, e <= last PROVE Had(e) \/ e \in sheet
      BY <2>1 DEF Behind
    <3>1. e <= l.cursor => Had(e) \/ e \in l.page
      BY Calls DEF Behind
    <3> QED
      BY <1>4, <1>5, <3>1
  <2>4. /\ acked' \in 0..published /\ place' \in Place /\ place'.cursor <= published
        /\ \A e \in 1..published : e <= acked' \/ e <= place'.cursor => Had(e)
    BY <1>1, Calls
  <2>5. ~(l.at > 4)
    BY <1>3
  <2>6. listener' = [listener EXCEPT ![p] = new]
    BY <1>9 DEF new
  <2> HIDE DEF Had
  <2> QED
    BY <1>1, <1>9, <2>1, <2>2, <2>3, <2>4, <2>5, <2>6, Moves
<1>10. CASE serving = "live"
  <2>1. got = [got EXCEPT !.at = 4]
    <3> HIDE DEF sheet, last
    <3>1. got.at = 4 /\ got \in Listener
      BY <1>6, <1>7 DEF Listener
    <3> QED
      BY <3>1 DEF Listener
  <2>2. UNCHANGED dropped
    BY <1>10 DEF Ls!Wait
  <2>3. \/ Ls!Set(p, got)
        \/ sheet = {} /\ l.form = "listen" /\ Ls!Set(p, [got EXCEPT !.at = 1])
        \/ sheet = {} /\ l.form = "listen" /\ Ls!Set(p, [got EXCEPT !.at = 6])
    BY <1>10 DEF Ls!Wait
  <2> HIDE DEF got, sheet, last
  <2>4. CASE Ls!Set(p, got)
    BY <1>9, <2>1, <2>2, <2>4 DEF Ls!Set
  <2>5. CASE sheet = {} /\ l.form = "listen" /\ Ls!Set(p, [got EXCEPT !.at = 1])
    BY <1>9, <2>2, <2>5 DEF Ls!Set
  <2>6. CASE sheet = {} /\ l.form = "listen" /\ Ls!Set(p, [got EXCEPT !.at = 6])
    BY <1>9, <2>2, <2>6 DEF Ls!Set
  <2> QED
    BY <2>3, <2>4, <2>5, <2>6
<1> QED
  BY <1>8, <1>10

LEMMA AckStep ==
  ASSUME ListenInv, NEW p \in Commands, Ls!Ack(p)
  PROVE  ListenInv'
<1> DEFINE l == listener[p] new == Ls!Onward(p)
<1>1. /\ Ls!Step(p) = "ack" /\ listener' = [listener EXCEPT ![p] = new]
      /\ acked' = acked \/ (acked' = l.cursor /\ l.cursor > acked)
      /\ UNCHANGED <<published, place, printed, dropped, passed>>
  BY DEF Ls!Ack, Ls!Set, Ls!At
<1>2. /\ l \in Listener /\ InOrderOf(l) /\ l.at \in Nat /\ l.cursor \in Nat /\ l.cursor <= published
      /\ acked \in 0..published /\ place \in Place /\ place.cursor <= published /\ published \in Nat
  BY Calls DEF Listener, InOrderOf
<1>3. l.at > 4
  BY <1>1, <1>2, StepsAre DEF Ls!Step
<1>4. /\ new \in Listener /\ new.form = l.form /\ new.at = l.at + 1 /\ new.read = Ls!None
      /\ new.cursor = l.cursor /\ new.page = l.page /\ InOrderOf(new)
  BY <1>1, <1>2, <1>3, Onwards
<1> HIDE DEF new
<1>5. new.at >= l.at /\ new.at > 4
  BY <1>2, <1>3, <1>4
<1>6. \A e \in 1..published : e <= acked' \/ e <= place'.cursor => Had(e) \/ e \in new.page
  <2> SUFFICES ASSUME NEW e \in 1..published, e <= acked' \/ e <= place'.cursor
               PROVE  Had(e) \/ e \in l.page
    BY <1>4
  <2>1. CASE e <= acked \/ e <= place.cursor
    BY <2>1, Calls
  <2>2. CASE e <= l.cursor
    BY <2>2, Calls DEF Behind
  <2> QED
    BY <1>1, <2>1, <2>2
<1>7. acked' \in 0..published /\ place' \in Place /\ place'.cursor <= published
  BY <1>1, <1>2
<1> HIDE DEF Had
<1> QED
  BY <1>1, <1>4, <1>5, <1>6, <1>7, Goes

LEMMA OutputStep ==
  ASSUME ListenInv, NEW p \in Commands, Ls!Output(p)
  PROVE  ListenInv'
<1> DEFINE l == listener[p] new == Ls!Gone(p)
<1>1. /\ listener' = [listener EXCEPT ![p] = new]
      /\ printed' = printed \cup l.page /\ dropped' = dropped \ l.page /\ passed' = passed \ l.page
      /\ UNCHANGED <<published, acked, place>>
  BY DEF Ls!Output, Ls!Set
<1>2. l \in Listener /\ l.teardown \in {"no", "end", "clear", "exit"} /\ published \in Nat
  BY Calls DEF Listener
<1>3. /\ new \in Listener /\ new.form = "none" /\ new.at = 1 /\ new.page = {} /\ new.cursor = 0
      /\ new.read = Ls!None
  <2>1. new = [Ls!Idle EXCEPT !.teardown = l.teardown]
    BY DEF Ls!Gone
  <2> QED
    BY <1>2, <2>1 DEF Ls!Idle, Listener, Forms
<1> HIDE DEF new
<1>4. InOrderOf(new) /\ \A e \in 1..published : ~Behind(e, new)
  BY <1>2, <1>3 DEF InOrderOf, Behind
<1>5. /\ printed \cup dropped \cup passed \subseteq printed' \cup dropped' \cup passed'
      /\ \A e \in l.page : e \in printed' \cup dropped' \cup passed'
  BY <1>1
<1>6. /\ acked' \in 0..published /\ place' \in Place /\ place'.cursor <= published
      /\ \A e \in 1..published : e <= acked' \/ e <= place'.cursor => Had(e)
  BY <1>1, Calls
<1> HIDE DEF Had
<1> QED
  BY <1>1, <1>3, <1>4, <1>5, <1>6, Moves

(* A signal ends a wait, which has no page, and lets anything else go on.   *)
LEMMA SignalStep ==
  ASSUME ListenInv, NEW p \in Commands, Ls!Signal(p)
  PROVE  ListenInv'
<1> DEFINE l == listener[p]
<1>1. /\ UNCHANGED <<published, acked, place, printed, dropped, passed>>
      /\ listener' = [listener EXCEPT ![p] = [(IF Ls!Step(p) = "wait" THEN Ls!Idle ELSE l) EXCEPT !.teardown = "end"]]
  BY DEF Ls!Signal, Ls!Set
<1>2. l \in Listener /\ InOrderOf(l) /\ l.at \in Nat /\ published \in Nat
  BY Calls DEF Listener
<1>3. CASE Ls!Step(p) = "wait"
  <2> DEFINE new == [Ls!Idle EXCEPT !.teardown = "end"]
  <2>1. listener' = [listener EXCEPT ![p] = new]
    BY <1>1, <1>3
  <2>2. l.at = 3
    BY <1>2, <1>3, StepsAre DEF Ls!Step
  <2>3. /\ new \in Listener /\ new.form = "none" /\ new.at = 1 /\ new.page = {} /\ new.cursor = 0
        /\ new.read = Ls!None
    BY DEF Ls!Idle, Listener, Forms
  <2> HIDE DEF new
  <2>4. InOrderOf(new) /\ \A e \in 1..published : ~Behind(e, new)
    BY <1>2, <2>3 DEF InOrderOf, Behind
  <2>5. /\ acked' \in 0..published /\ place' \in Place /\ place'.cursor <= published
        /\ \A e \in 1..published : e <= acked' \/ e <= place'.cursor => Had(e)
    BY <1>1, Calls
  <2>6. ~(l.at > 4)
    BY <2>2
  <2> HIDE DEF Had
  <2> QED
    BY <1>1, <2>1, <2>3, <2>4, <2>5, <2>6, Moves
<1>4. CASE Ls!Step(p) # "wait"
  <2> DEFINE new == [l EXCEPT !.teardown = "end"]
  <2>1. listener' = [listener EXCEPT ![p] = new]
    BY <1>1, <1>4
  <2>2. /\ new \in Listener /\ new.cursor = l.cursor /\ new.page = l.page
        /\ new.at = l.at /\ new.form = l.form /\ new.read = l.read
    BY <1>2 DEF Listener
  <2> HIDE DEF new
  <2>3. InOrderOf(new) /\ new.at >= l.at
    BY <1>2, <2>2 DEF InOrderOf
  <2>4. new.read # Ls!None => \A e \in 1..published : e <= new.read => Had(e) \/ e \in new.page
    BY <2>2, Calls DEF Behind
  <2> HIDE DEF Had
  <2> QED
    BY <1>1, <2>1, <2>2, <2>3, <2>4, Stays
<1> QED
  BY <1>3, <1>4

(* The teardown moves on, and may take the session with it.                 *)
LEMMA TeardownStep ==
  ASSUME ListenInv, NEW p \in Commands, Ls!TeardownEnd(p) \/ Ls!TeardownClear(p)
  PROVE  ListenInv'
<1> DEFINE l == listener[p]
<1>1. PICK teardown \in {"clear", "exit"} : listener' = [listener EXCEPT ![p] = [l EXCEPT !.teardown = teardown]]
  BY DEF Ls!TeardownEnd, Ls!TeardownClear, Ls!Set
<1> DEFINE new == [l EXCEPT !.teardown = teardown]
<1>2. l \in Listener /\ InOrderOf(l) /\ l.at \in Nat /\ published \in Nat
  BY Calls DEF Listener
<1>3. /\ new \in Listener /\ new.cursor = l.cursor /\ new.page = l.page
      /\ new.at = l.at /\ new.form = l.form /\ new.read = l.read
  BY <1>1, <1>2 DEF Listener
<1> HIDE DEF new
<1>4. InOrderOf(new) /\ new.at >= l.at
  BY <1>2, <1>3 DEF InOrderOf
<1>5. new.read # Ls!None => \A e \in 1..published : e <= new.read => Had(e) \/ e \in new.page
  BY <1>3, Calls DEF Behind
<1>6. listener' = [listener EXCEPT ![p] = new] /\ UNCHANGED <<published, acked, printed, dropped, passed>>
  BY <1>1 DEF new, Ls!TeardownEnd, Ls!TeardownClear
<1>7. place' = place \/ (place' \in Place /\ place'.cursor = 0)
  <2>1. Ls!NoSession \in Place /\ Ls!NoSession.cursor = 0
    BY DEF Ls!NoSession, Place
  <2>2. CASE Ls!TeardownEnd(p)
    BY <2>2 DEF Ls!TeardownEnd
  <2>3. CASE Ls!TeardownClear(p)
    BY <2>1, <2>3 DEF Ls!TeardownClear
  <2> QED
    BY <2>2, <2>3
<1>8. /\ acked' \in 0..published /\ place' \in Place /\ place'.cursor <= published
      /\ \A e \in 1..published : e <= acked' \/ e <= place'.cursor => Had(e)
  BY <1>2, <1>6, <1>7, Calls
<1> HIDE DEF Had
<1> QED
  BY <1>3, <1>4, <1>5, <1>6, <1>8, Goes

LEMMA ListenStep == ASSUME ListenInv, PageSize \in Nat, [Ls!Next]_(Ls!listenVars) PROVE ListenInv'
<1>1. CASE UNCHANGED Ls!listenVars
  BY <1>1 DEF Ls!listenVars, ListenInv, ListenTyped, PlacesHad, PagesHad, InOrderOf, Had, Behind
<1>2. ASSUME NEW p \in Commands, Ls!Start(p, "listen") \/ Ls!Start(p, "wait")
      PROVE  ListenInv'
  BY <1>2, StartStep
<1>3. ASSUME NEW p \in Commands,
             \/ Ls!Retry(p) \/ Ls!Heartbeat(p) \/ Ls!RenewRead(p) \/ Ls!RenewWrite(p) \/ Ls!Wait(p)
             \/ Ls!Ack(p) \/ Ls!Output(p)
      PROVE  ListenInv'
  BY <1>3, RetryStep, HeartbeatStep, RenewReadStep, RenewWriteStep, WaitStep, AckStep, OutputStep
<1>4. ASSUME NEW p \in Commands,
             Ls!Signal(p) \/ Ls!TeardownEnd(p) \/ Ls!TeardownClear(p) \/ Ls!Exit(p)
      PROVE  ListenInv'
  BY <1>4, SignalStep, TeardownStep, ExitStep
<1>5. CASE Ls!Next
  BY <1>2, <1>3, <1>4, <1>5, BeginStep, SittingStep, PublishStep DEF Ls!Next
<1> QED
  BY <1>1, <1>5

LEMMA ListenInvariant == ASSUME Ls!ListeningAssumption PROVE Ls!Spec => []ListenInv
<1>1. PageSize \in Nat
  BY DEF Ls!ListeningAssumption
<1>2. ListenInv /\ [Ls!Next]_(Ls!listenVars) => ListenInv'
  BY <1>1, ListenStep
<1> QED
  BY <1>2, ListenStarts, PTL DEF Ls!Spec

(* What an agent's listeners have passed was printed, is about to be, was lost *)
(* with the page of a command that died (cli.js listen, wait), or was counted  *)
(* to the caller by the session that began past it (app.ts:496, 567).         *)
THEOREM MissedCorrect == ASSUME Ls!ListeningAssumption PROVE Ls!Spec => []Ls!NothingMissed
<1>1. ListenInv => Ls!NothingMissed
  BY DEF ListenInv, PlacesHad, Had, Ls!NothingMissed
<1>2. Ls!Spec => []ListenInv
  BY ListenInvariant
<1> QED
  BY <1>1, <1>2, PTL

(* Cursors and pages are of events there are.                               *)
THEOREM ListenTypeCorrect == ASSUME Ls!ListeningAssumption PROVE Ls!Spec => []Ls!TypeOK
<1>1. ListenInv => Ls!TypeOK
  <2> SUFFICES ASSUME ListenInv PROVE Ls!TypeOK
    OBVIOUS
  <2>1. place.cursor \in 0..published
    BY DEF ListenInv, ListenTyped, Place
  <2> QED
    BY <2>1 DEF ListenInv, ListenTyped, InOrderOf, Ls!TypeOK
<1>2. Ls!Spec => []ListenInv
  BY ListenInvariant
<1> QED
  BY <1>1, <1>2, PTL

(****************************************************************************)
(* The local budget: one file, written back without a lock                    *)
(****************************************************************************)
hour == s1
ledger == s2
spender == s3
spent == s4
sent == s5
observed == s6
lost == s7
shuffled == s8
USE DEF hour, ledger, spender, spent, sent, observed, lost, shuffled

LEMMA LedgerCountsAre == \A S : Lg!Cardinality(S) = Cardinality(S) /\ Lg!IsFiniteSet(S) = IsFiniteSet(S)
BY DEF Lg!Cardinality, Lg!IsFiniteSet, Cardinality, IsFiniteSet

SendRow == [n : Sends, at : Nat]
SessionRow == [id : Sessions \cup {""}, from : Nat, seen : Nat]
SpanRow == [id : Sessions \cup {""}, from : Nat, to : Nat]
Book == [sends : SUBSET SendRow, session : SessionRow, history : SUBSET SpanRow]
Spender == [phase : {"idle", "checked", "delivered", "record", "touch", "end"},
            what : Sends \cup Sessions \cup {""}, copy : Book]
(* A ledger, or a copy of it, at time t, of messages first delivered at when.  *)
BookOK(b, t, when) ==
  /\ b \in Book /\ IsFiniteSet(b.sends)
  /\ \A x \in b.sends : x.at <= t /\ when[x.n] \in 1..x.at
  /\ b.session.from <= b.session.seen /\ b.session.seen <= t
  /\ \A h \in b.history : h.from <= h.to /\ h.to <= t
SpenderOK(l, t, when) ==
  /\ l \in Spender /\ BookOK(l.copy, t, when)
  /\ l.phase \in {"delivered", "record"} => l.what \in Sends /\ when[l.what] \in 1..t
  /\ l.phase \in {"touch", "end"} => l.what \in Sessions
LedgerTyped ==
  /\ hour \in Nat \ {0} /\ sent \in [Sends -> Nat] /\ lost \subseteq Sends
  /\ \A n \in Sends : sent[n] <= hour
  /\ observed \in [Sessions -> [first : Nat, last : Nat]]
  /\ \A s \in Sessions : observed[s].first <= observed[s].last /\ observed[s].last <= hour
  /\ BookOK(ledger, hour, sent)
  /\ spender \in [Commands -> Spender]
  /\ \A p \in Commands : SpenderOK(spender[p], hour, sent)

(* What a copy has of the last hour the ledger has, or it is lost.          *)
CopiesKept ==
  \A p \in Commands : \A x \in spender[p].copy.sends :
    hour - x.at < Hour => x \in ledger.sends \/ x.n \in lost
(* A message delivered lately is about to be recorded, or is recorded.      *)
Carries(l, n) == l.phase \in {"delivered", "record"} /\ l.what = n
Delivered ==
  \A n \in Sends \ lost : sent[n] > 0 /\ hour - sent[n] < Hour =>
    (\E p \in Commands : Carries(spender[p], n)) \/ \E x \in ledger.sends : x.n = n
(* Those that are counted and the commands that were let pass are not more    *)
(* than the limit and one command less.                                     *)
Counted == {n \in Sends \ lost : \E x \in ledger.sends : hour - x.at < Hour /\ x.n = n}
LetPass(l) == l.phase \in {"checked", "delivered", "record"}
Busy == {p \in Commands : LetPass(spender[p])}
HourHolds == Cardinality(Counted) + Cardinality(Busy) <= SpendLimit + Cardinality(Commands) - 1
SendsInv == LedgerTyped /\ CopiesKept /\ Delivered /\ HourHolds

LEMMA Hours ==
  ASSUME Lg!LedgerAssumption
  PROVE  /\ IsFiniteSet(Commands) /\ Cardinality(Commands) \in Nat \ {0} /\ IsFiniteSet(Sends)
         /\ SpendLimit \in Nat /\ Hour \in Nat /\ LedgerDay \in Nat /\ "" \notin Sessions
         /\ IsFiniteSet(Busy) /\ Cardinality(Busy) \in Nat /\ Cardinality(Busy) <= Cardinality(Commands)
         /\ IsFiniteSet(Counted) /\ Cardinality(Counted) \in Nat
<1>1. /\ IsFiniteSet(Commands) /\ Commands # {} /\ IsFiniteSet(Sends)
      /\ SpendLimit \in Nat /\ Hour \in Nat /\ LedgerDay \in Nat /\ "" \notin Sessions
  BY LedgerCountsAre DEF Lg!LedgerAssumption
<1>2. Cardinality(Commands) \in Nat \ {0}
  BY <1>1, FS_CardinalityType, FS_EmptySet
<1>3. Busy \in SUBSET Commands /\ Counted \in SUBSET Sends
  BY DEF Busy, Counted
<1> QED
  BY <1>1, <1>2, <1>3, Fewer

LEMMA EmptyBook ==
  ASSUME NEW t \in Nat, NEW when
  PROVE  BookOK(Lg!Empty, t, when) /\ Lg!Empty.sends = {} /\ Lg!Empty.history = {}
         /\ Lg!Empty.session = Lg!NoSession /\ Lg!NoSession.id = ""
<1>1. /\ Lg!Empty.sends = {} /\ Lg!Empty.history = {} /\ Lg!Empty.session = Lg!NoSession
      /\ Lg!NoSession = [id |-> "", from |-> 0, seen |-> 0]
  BY DEF Lg!Empty, Lg!NoSession
<1>2. Lg!NoSession \in SessionRow
  <2>1. 0 \in Nat /\ "" \in Sessions \cup {""}
    OBVIOUS
  <2> QED
    BY <2>1 DEF SessionRow, Lg!NoSession
<1>3. Lg!Empty \in Book
  BY <1>2 DEF Lg!Empty, Book
<1>4. Lg!Empty.session.from = 0 /\ Lg!Empty.session.seen = 0 /\ Lg!Empty.session.id = ""
  BY DEF Lg!Empty, Lg!NoSession
<1>5. IsFiniteSet(Lg!Empty.sends)
  BY <1>1, FS_EmptySet
<1>6. /\ \A x \in Lg!Empty.sends : x.at <= t /\ when[x.n] \in 1..x.at
      /\ \A h \in Lg!Empty.history : h.from <= h.to /\ h.to <= t
  BY <1>1
<1>7. Lg!Empty.session.from <= Lg!Empty.session.seen /\ Lg!Empty.session.seen <= t
  <2>1. Lg!Empty.session.from = 0 /\ Lg!Empty.session.seen = 0
    BY <1>4
  <2>2. 0 <= t
    OBVIOUS
  <2>3. Lg!Empty.session.from <= Lg!Empty.session.seen
    BY <2>1
  <2> QED
    BY <2>1, <2>2, <2>3
<1>8. BookOK(Lg!Empty, t, when)
  BY <1>3, <1>5, <1>6, <1>7 DEF BookOK
<1> QED
  BY <1>1, <1>4, <1>8

LEMMA IdleSpender ==
  ASSUME NEW t \in Nat, NEW when
  PROVE  /\ SpenderOK(Lg!Idle, t, when) /\ Lg!Idle.phase = "idle" /\ Lg!Idle.what = ""
         /\ Lg!Idle.copy = Lg!Empty
<1>1. Lg!Idle.phase = "idle" /\ Lg!Idle.what = "" /\ Lg!Idle.copy = Lg!Empty
  BY DEF Lg!Idle
<1>2. BookOK(Lg!Empty, t, when) /\ Lg!Empty \in Book
  BY EmptyBook DEF BookOK
<1>3. Lg!Idle \in Spender
  BY <1>2 DEF Lg!Idle, Spender
<1> QED
  BY <1>1, <1>2, <1>3 DEF SpenderOK

LEMMA LedgerStarts == Lg!LedgerAssumption /\ Lg!Init => SendsInv
<1> SUFFICES ASSUME Lg!LedgerAssumption, Lg!Init PROVE SendsInv
  OBVIOUS
<1>1. /\ hour = 1 /\ ledger = Lg!Empty /\ lost = {} /\ shuffled = {}
      /\ spender = [p \in Commands |-> Lg!Idle] /\ sent = [n \in Sends |-> 0]
      /\ observed = [s \in Sessions |-> [first |-> 0, last |-> 0]]
  BY DEF Lg!Init
<1>2. /\ BookOK(ledger, hour, sent) /\ ledger.sends = {} /\ ledger.history = {}
      /\ \A p \in Commands : /\ spender[p].phase = "idle" /\ spender[p].copy.sends = {}
                            /\ SpenderOK(spender[p], hour, sent) /\ spender[p] \in Spender
  <2>1. hour \in Nat
    BY <1>1
  <2>2. BookOK(Lg!Empty, hour, sent) /\ Lg!Empty.sends = {} /\ Lg!Empty.history = {}
    BY <2>1, EmptyBook
  <2>3. SpenderOK(Lg!Idle, hour, sent) /\ Lg!Idle.phase = "idle" /\ Lg!Idle.copy = Lg!Empty
    BY <2>1, IdleSpender
  <2>4. \A p \in Commands : spender[p] = Lg!Idle
    BY <1>1
  <2> QED
    BY <1>1, <2>2, <2>3, <2>4 DEF SpenderOK
<1>3. LedgerTyped
  <2>1. hour \in Nat \ {0} /\ lost \subseteq Sends
    BY <1>1
  <2>2. sent \in [Sends -> Nat] /\ \A n \in Sends : sent[n] <= hour
    BY <1>1
  <2>3. /\ observed \in [Sessions -> [first : Nat, last : Nat]]
        /\ \A s \in Sessions : observed[s].first <= observed[s].last /\ observed[s].last <= hour
    BY <1>1
  <2>4. spender \in [Commands -> Spender]
    BY <1>1, <1>2
  <2> QED
    BY <1>2, <2>1, <2>2, <2>3, <2>4 DEF LedgerTyped
<1>4. CopiesKept
  BY <1>2 DEF CopiesKept
<1>5. Delivered
  <2>1. \A n \in Sends : sent[n] = 0
    BY <1>1
  <2> QED
    BY <2>1 DEF Delivered
<1>6. Counted = {} /\ Busy = {}
  BY <1>2 DEF Counted, Busy, LetPass
<1>7. HourHolds
  <2>1. Cardinality(Counted) = 0 /\ Cardinality(Busy) = 0
    BY <1>6, FS_EmptySet
  <2>2. SpendLimit \in Nat /\ Cardinality(Commands) \in Nat \ {0}
    BY Hours
  <2> QED
    BY <2>1, <2>2 DEF HourHolds
<1> QED
  BY <1>3, <1>4, <1>5, <1>7 DEF SendsInv

(* Time passes, and messages are delivered for the first time: what was      *)
(* recorded stays right.                                                    *)
LEMMA Later ==
  ASSUME NEW t \in Nat, NEW u \in Nat, t <= u, NEW w \in [Sends -> Nat], NEW v \in [Sends -> Nat],
         \A n \in Sends : v[n] = w[n] \/ w[n] = 0
  PROVE  /\ \A b : BookOK(b, t, w) => BookOK(b, u, v)
         /\ \A l : SpenderOK(l, t, w) => SpenderOK(l, u, v)
<1>1. ASSUME NEW b, BookOK(b, t, w)
      PROVE  BookOK(b, u, v)
  <2>1. /\ b \in Book /\ b.session \in SessionRow /\ b.session.seen \in Nat
        /\ \A x \in b.sends : x \in SendRow /\ x.n \in Sends /\ x.at \in Nat
        /\ \A h \in b.history : h \in SpanRow /\ h.to \in Nat
    BY <1>1 DEF BookOK, Book, SendRow, SessionRow, SpanRow
  <2>2. \A x \in b.sends : x.at <= u /\ v[x.n] \in 1..x.at
    BY <1>1, <2>1 DEF BookOK
  <2>3. b.session.seen <= u /\ \A h \in b.history : h.to <= u
    BY <1>1, <2>1 DEF BookOK
  <2> QED
    BY <1>1, <2>2, <2>3 DEF BookOK
<1>2. ASSUME NEW l, SpenderOK(l, t, w)
      PROVE  SpenderOK(l, u, v)
  <2>1. BookOK(l.copy, u, v)
    BY <1>1, <1>2 DEF SpenderOK
  <2>2. l.phase \in {"delivered", "record"} => v[l.what] \in 1..u
    BY <1>2 DEF SpenderOK
  <2> QED
    BY <1>2, <2>1, <2>2 DEF SpenderOK
<1> QED
  BY <1>1, <1>2

(* The records of the last hour are no fewer than the messages they count.   *)
LEMMA RecordsCount ==
  ASSUME Lg!LedgerAssumption, BookOK(ledger, hour, sent), hour \in Nat,
         Cardinality(Lg!Within(ledger.sends)) < SpendLimit
  PROVE  Cardinality(Counted) + 1 <= SpendLimit
<1> DEFINE W == Lg!Within(ledger.sends)
           f == [x \in W |-> x.n]
           T == {x.n : x \in W}
<1>1. W = {x \in ledger.sends : hour - x.at < Hour}
  BY DEF Lg!Within
<1>2. IsFiniteSet(ledger.sends)
  BY DEF BookOK
<1>3. IsFiniteSet(W) /\ Cardinality(W) \in Nat
  <2>1. W \in SUBSET ledger.sends
    BY <1>1
  <2> HIDE DEF W
  <2> QED
    BY <1>2, <2>1, Fewer
<1>4. Counted \in SUBSET T
  BY <1>1 DEF Counted
<1> HIDE DEF W
<1>5. f \in Surjection(W, T)
  BY DEF Surjection
<1>6. IsFiniteSet(T) /\ Cardinality(T) <= Cardinality(W)
  <2> HIDE DEF f, T
  <2> QED
    BY <1>3, <1>5, FS_Surjection
<1>7. Cardinality(Counted) <= Cardinality(T) /\ Cardinality(Counted) \in Nat /\ Cardinality(T) \in Nat
  <2> HIDE DEF T
  <2> QED
    BY <1>4, <1>6, Fewer, FS_Subset, FS_CardinalityType
<1>8. SpendLimit \in Nat /\ Cardinality(W) < SpendLimit
  BY Hours DEF W
<1> HIDE DEF T
<1> QED
  BY <1>3, <1>6, <1>7, <1>8

(* A step of a command that leaves the file alone, and may deliver.          *)
LEMMA Turns ==
  ASSUME Lg!LedgerAssumption, SendsInv, NEW p \in Commands, NEW l,
         spender' = [spender EXCEPT ![p] = l], UNCHANGED <<hour, ledger, observed>>,
         sent' \in [Sends -> Nat],
         \A n \in Sends : sent'[n] = sent[n] \/ (sent[n] = 0 /\ sent'[n] = hour /\ Carries(l, n)),
         SpenderOK(l, hour, sent'), l.copy.sends \subseteq ledger.sends,
         lost \subseteq lost', lost' \subseteq Sends,
         \A n \in Sends : Carries(spender[p], n) => Carries(l, n) \/ n \in lost',
         LetPass(l) => LetPass(spender[p]) \/ Cardinality(Lg!Within(ledger.sends)) < SpendLimit
  PROVE  SendsInv'
<1>1. /\ hour \in Nat \ {0} /\ sent \in [Sends -> Nat] /\ BookOK(ledger, hour, sent)
      /\ spender \in [Commands -> Spender] /\ \A n \in Sends : sent[n] <= hour
      /\ \A q \in Commands : SpenderOK(spender[q], hour, sent)
  BY DEF SendsInv, LedgerTyped
<1>2. \A q \in Commands : spender'[q] = IF q = p THEN l ELSE spender[q]
  BY <1>1
<1>3. BookOK(ledger, hour, sent') /\ \A q \in Commands : SpenderOK(spender'[q], hour, sent')
  <2>1. \A n \in Sends : sent'[n] = sent[n] \/ sent[n] = 0
    OBVIOUS
  <2>2. /\ \A b : BookOK(b, hour, sent) => BookOK(b, hour, sent')
        /\ \A q : SpenderOK(q, hour, sent) => SpenderOK(q, hour, sent')
    BY <1>1, <2>1, Later
  <2> QED
    BY <1>1, <1>2, <2>2
<1>4. LedgerTyped'
  <2>1. \A n \in Sends : sent'[n] <= hour'
    BY <1>1
  <2>2. spender' \in [Commands -> Spender]
    BY <1>1 DEF SpenderOK
  <2>3. /\ hour' \in Nat \ {0} /\ observed' \in [Sessions -> [first : Nat, last : Nat]]
        /\ \A s \in Sessions : observed'[s].first <= observed'[s].last /\ observed'[s].last <= hour'
    BY DEF SendsInv, LedgerTyped
  <2>4. BookOK(ledger', hour', sent') /\ \A q \in Commands : SpenderOK(spender'[q], hour', sent')
    BY <1>3
  <2> QED
    BY <2>1, <2>2, <2>3, <2>4 DEF LedgerTyped
<1>5. CopiesKept'
  BY <1>2 DEF SendsInv, CopiesKept
<1>6. Delivered'
  <2> SUFFICES ASSUME NEW n \in Sends \ lost', sent'[n] > 0, hour - sent'[n] < Hour
               PROVE  (\E q \in Commands : Carries(spender'[q], n)) \/ \E x \in ledger.sends : x.n = n
    BY DEF Delivered
  <2>1. CASE sent'[n] # sent[n]
    BY <1>2, <2>1
  <2>2. CASE sent'[n] = sent[n]
    <3>1. (\E q \in Commands : Carries(spender[q], n)) \/ \E x \in ledger.sends : x.n = n
      BY <2>2 DEF SendsInv, Delivered
    <3>2. \A q \in Commands : Carries(spender[q], n) => Carries(spender'[q], n)
      BY <1>2
    <3> QED
      BY <3>1, <3>2
  <2> QED
    BY <2>1, <2>2
<1>7. HourHolds'
  <2>1. Counted' \in SUBSET Counted
    BY DEF Counted
  <2>2. /\ Cardinality(Counted') <= Cardinality(Counted)
        /\ Cardinality(Counted') \in Nat /\ Cardinality(Counted) \in Nat
    BY <2>1, Hours, Fewer, FS_Subset, FS_CardinalityType
  <2>3. Busy' \in SUBSET Commands
    BY DEF Busy
  <2>4. /\ Cardinality(Busy') <= Cardinality(Commands) /\ Cardinality(Busy') \in Nat
        /\ Cardinality(Commands) \in Nat \ {0} /\ SpendLimit \in Nat /\ Cardinality(Busy) \in Nat
    BY <2>3, Hours, Fewer, FS_Subset, FS_CardinalityType
  <2>5. CASE LetPass(l) /\ Cardinality(Lg!Within(ledger.sends)) < SpendLimit
    <3>1. Cardinality(Counted) + 1 <= SpendLimit
      BY <1>1, <2>5, RecordsCount
    <3> QED
      BY <2>2, <2>4, <3>1 DEF HourHolds
  <2>6. CASE LetPass(l) => LetPass(spender[p])
    <3>1. Busy' \in SUBSET Busy
      BY <1>2, <2>6 DEF Busy, LetPass
    <3>2. Cardinality(Busy') <= Cardinality(Busy)
      BY <3>1, Hours, Fewer
    <3>3. Cardinality(Counted) + Cardinality(Busy) <= SpendLimit + Cardinality(Commands) - 1
      BY DEF SendsInv, HourHolds
    <3> QED
      BY <2>2, <2>4, <3>2, <3>3 DEF HourHolds
  <2> QED
    BY <2>5, <2>6
<1> QED
  BY <1>4, <1>5, <1>6, <1>7 DEF SendsInv

(* A command writes back what it has made of its copy.                       *)
LEMMA Saves ==
  ASSUME Lg!LedgerAssumption, SendsInv, NEW p \in Commands, NEW book, Lg!Save(p, book),
         BookOK(book, hour, sent),
         spender[p].phase \in {"record", "touch", "end"},
         \A x \in book.sends : hour - x.at < Hour =>
           x \in spender[p].copy.sends \/ (spender[p].phase = "record" /\ x.n = spender[p].what),
         spender[p].phase = "record" => \E x \in book.sends : x.n = spender[p].what,
         observed' \in [Sessions -> [first : Nat, last : Nat]],
         \A s \in Sessions : observed'[s].first <= observed'[s].last /\ observed'[s].last <= hour
  PROVE  SendsInv'
<1>1. /\ hour \in Nat \ {0} /\ sent \in [Sends -> Nat] /\ BookOK(ledger, hour, sent)
      /\ spender \in [Commands -> Spender] /\ \A n \in Sends : sent[n] <= hour
      /\ lost \subseteq Sends /\ \A q \in Commands : SpenderOK(spender[q], hour, sent)
  BY DEF SendsInv, LedgerTyped
<1>2. /\ hour' = hour /\ sent' = sent /\ ledger' = book
      /\ spender' = [spender EXCEPT ![p] = [phase |-> "idle", what |-> "", copy |-> Lg!Empty]]
      /\ lost' = lost \cup {x.n : x \in Lg!Within(ledger.sends) \ book.sends}
  BY DEF Lg!Save, Lg!Set
<1>3. /\ \A q \in Commands : spender'[q] = IF q = p THEN Lg!Idle ELSE spender[q]
      /\ SpenderOK(Lg!Idle, hour, sent) /\ Lg!Idle.phase = "idle" /\ Lg!Idle.copy.sends = {}
  <2>1. SpenderOK(Lg!Idle, hour, sent) /\ Lg!Idle.phase = "idle" /\ Lg!Idle.copy = Lg!Empty
    BY <1>1, IdleSpender
  <2>2. Lg!Empty.sends = {}
    BY <1>1, EmptyBook
  <2>3. spender' = [spender EXCEPT ![p] = Lg!Idle]
    BY <1>2 DEF Lg!Idle
  <2> QED
    BY <1>1, <2>1, <2>2, <2>3
<1>4. /\ lost \subseteq lost' /\ lost' \subseteq Sends
      /\ \A x \in ledger.sends : hour - x.at < Hour => x \in book.sends \/ x.n \in lost'
  <2>1. \A x \in ledger.sends : x.n \in Sends
    BY <1>1 DEF BookOK, Book, SendRow
  <2> QED
    BY <1>1, <1>2, <2>1 DEF Lg!Within
<1>5. LedgerTyped'
  <2>1. spender' \in [Commands -> Spender]
    BY <1>1, <1>2, <1>3 DEF SpenderOK, Lg!Idle
  <2>2. hour' \in Nat \ {0} /\ sent' \in [Sends -> Nat] /\ lost' \subseteq Sends
        /\ \A n \in Sends : sent'[n] <= hour'
    BY <1>1, <1>2, <1>4
  <2>3. BookOK(ledger', hour', sent') /\ \A q \in Commands : SpenderOK(spender'[q], hour', sent')
    BY <1>1, <1>2, <1>3
  <2>4. /\ observed' \in [Sessions -> [first : Nat, last : Nat]]
        /\ \A s \in Sessions : observed'[s].first <= observed'[s].last /\ observed'[s].last <= hour'
    BY <1>2
  <2> QED
    BY <2>1, <2>2, <2>3, <2>4 DEF LedgerTyped
<1>6. CopiesKept'
  <2> SUFFICES ASSUME NEW q \in Commands, NEW x \in spender'[q].copy.sends, hour - x.at < Hour
               PROVE  x \in book.sends \/ x.n \in lost'
    BY <1>2 DEF CopiesKept
  <2>1. q # p /\ x \in spender[q].copy.sends
    BY <1>3
  <2>2. x \in ledger.sends \/ x.n \in lost
    BY <2>1 DEF SendsInv, CopiesKept
  <2> QED
    BY <1>4, <2>2
<1>7. Delivered'
  <2> SUFFICES ASSUME NEW n \in Sends \ lost', sent[n] > 0, hour - sent[n] < Hour
               PROVE  (\E q \in Commands : Carries(spender'[q], n)) \/ \E x \in book.sends : x.n = n
    BY <1>2 DEF Delivered
  <2>1. (\E q \in Commands : Carries(spender[q], n)) \/ \E x \in ledger.sends : x.n = n
    BY <1>4 DEF SendsInv, Delivered
  <2>2. ASSUME NEW q \in Commands, Carries(spender[q], n)
        PROVE  Carries(spender'[q], n) \/ \E x \in book.sends : x.n = n
    <3>1. q = p => spender[p].phase = "record" /\ spender[p].what = n
      BY <2>2 DEF Carries
    <3> QED
      BY <1>3, <2>2, <3>1
  <2>3. ASSUME NEW x \in ledger.sends, x.n = n
        PROVE  x \in book.sends
    <3>1. x.at \in Nat /\ sent[n] \in Nat /\ sent[n] <= x.at
      BY <1>1, <2>3 DEF BookOK, Book, SendRow
    <3>2. hour - x.at < Hour
      <4>1. hour \in Nat /\ Hour \in Nat
        BY <1>1, Hours
      <4> QED
        BY <3>1, <4>1
    <3> QED
      BY <1>4, <2>3, <3>2
  <2> QED
    BY <2>1, <2>2, <2>3
<1>8. HourHolds'
  <2>1. Counted' \subseteq Counted \cup IF spender[p].phase = "record" THEN {spender[p].what} ELSE {}
    <3> SUFFICES ASSUME NEW n \in Sends \ lost', NEW x \in book.sends, hour - x.at < Hour, x.n = n
                 PROVE  n \in Counted \/ (spender[p].phase = "record" /\ n = spender[p].what)
      BY <1>2 DEF Counted
    <3>1. CASE x \in spender[p].copy.sends
      <4>1. x \in ledger.sends
        BY <1>4, <3>1 DEF SendsInv, CopiesKept
      <4> QED
        BY <1>4, <4>1 DEF Counted
    <3> QED
      BY <3>1
  <2>2. Busy' = IF spender[p].phase = "record" THEN Busy \ {p} ELSE Busy
    BY <1>3 DEF Busy, LetPass
  <2>3. /\ IsFiniteSet(Busy) /\ IsFiniteSet(Counted) /\ Cardinality(Counted) \in Nat
        /\ Cardinality(Busy) \in Nat /\ SpendLimit \in Nat /\ Cardinality(Commands) \in Nat
    BY Hours
  <2>4. Cardinality(Counted) + Cardinality(Busy) <= SpendLimit + Cardinality(Commands) - 1
    BY DEF SendsInv, HourHolds
  <2>5. CASE spender[p].phase = "record"
    <3>1. p \in Busy
      BY <2>5 DEF Busy, LetPass
    <3>2. Cardinality(Busy') = Cardinality(Busy) - 1
      BY <2>2, <2>3, <2>5, <3>1, FS_RemoveElement
    <3>3. Counted' \in SUBSET (Counted \cup {spender[p].what})
      BY <2>1, <2>5
    <3>4. /\ IsFiniteSet(Counted \cup {spender[p].what})
          /\ Cardinality(Counted \cup {spender[p].what}) <= Cardinality(Counted) + 1
      BY <2>3, OneMore
    <3>5. /\ Cardinality(Counted') <= Cardinality(Counted \cup {spender[p].what})
          /\ Cardinality(Counted') \in Nat /\ Cardinality(Counted \cup {spender[p].what}) \in Nat
      BY <3>3, <3>4, Fewer, FS_Subset, FS_CardinalityType
    <3> QED
      BY <2>3, <2>4, <3>2, <3>4, <3>5 DEF HourHolds
  <2>6. CASE spender[p].phase # "record"
    <3>1. Counted' \in SUBSET Counted /\ Busy' = Busy
      BY <2>1, <2>2, <2>6
    <3>2. Cardinality(Counted') <= Cardinality(Counted) /\ Cardinality(Counted') \in Nat
      BY <2>3, <3>1, Fewer, FS_Subset, FS_CardinalityType
    <3>3. Cardinality(Busy') = Cardinality(Busy)
      BY <3>1
    <3> QED
      BY <2>3, <2>4, <3>2, <3>3 DEF HourHolds
  <2> QED
    BY <2>5, <2>6
<1> QED
  BY <1>5, <1>6, <1>7, <1>8 DEF SendsInv

(* What a file or a copy b of it says of a session s that was first and last  *)
(* seen as o says: nothing, if it was not seen; that it is tracked; one span; *)
(* or nothing any more, a day later.                                        *)
NoSpan(b, s) == \A h \in b.history : h.id # s
OneSpan(b, o, s) ==
  \E h \in b.history : /\ h.id = s /\ h.from = o.first /\ o.last <= h.to
                       /\ \A g \in b.history : g.id = s => g = h
Lasts(b, o, t, s) ==
  \/ o.first = 0 /\ o.last = 0 /\ b.session.id # s /\ NoSpan(b, s)
  \/ /\ o.first > 0 /\ b.session.id = s /\ b.session.from = o.first /\ b.session.seen = o.last
     /\ NoSpan(b, s)
  \/ o.first > 0 /\ b.session.id # s /\ OneSpan(b, o, s)
  \/ o.first > 0 /\ b.session.id # s /\ NoSpan(b, s) /\ LedgerDay <= t - o.last
SessionsLast == \A s \in Sessions \ shuffled : Lasts(ledger, observed[s], hour, s)
LedgerInv == SendsInv /\ SessionsLast

(* A copy with the same records of a session says the same of it.            *)
LEMMA SameSaid ==
  ASSUME NEW b \in Book, NEW c \in Book, NEW s, NEW o, NEW t, Lasts(b, o, t, s),
         \A h \in Lg!Tracked(b) : h.id = s => h \in Lg!Tracked(c),
         \A h \in Lg!Tracked(c) : h.id = s => h \in Lg!Tracked(b)
  PROVE  Lasts(c, o, t, s)
<1>1. \A x \in SessionRow, y \in SpanRow : x # y
  <2> SUFFICES ASSUME NEW x \in SessionRow, NEW y \in SpanRow, x = y PROVE FALSE
    OBVIOUS
  <2>1. DOMAIN x = {"id", "from", "seen"} /\ DOMAIN y = {"id", "from", "to"}
    BY DEF SessionRow, SpanRow
  <2>2. "to" \in DOMAIN y /\ "to" \notin DOMAIN x
    BY <2>1
  <2> QED
    BY <2>2
<1>2. /\ b.session \in SessionRow /\ c.session \in SessionRow
      /\ b.history \subseteq SpanRow /\ c.history \subseteq SpanRow
  BY DEF Book
<1>3. (b.session.id = s => c.session = b.session) /\ (c.session.id = s => c.session = b.session)
  BY <1>1, <1>2 DEF Lg!Tracked
<1>4. /\ \A h \in b.history : h.id = s => h \in c.history
      /\ \A h \in c.history : h.id = s => h \in b.history
  BY <1>1, <1>2 DEF Lg!Tracked
<1>5. NoSpan(b, s) => NoSpan(c, s)
  BY <1>4 DEF NoSpan
<1>6. OneSpan(b, o, s) => OneSpan(c, o, s)
  BY <1>4 DEF OneSpan
<1> QED
  BY <1>3, <1>5, <1>6 DEF Lasts

(* Other sessions are tracked and archived, and a day passes.                *)
LEMMA OthersMove ==
  ASSUME NEW b \in Book, NEW d, NEW s, NEW o \in [first : Nat, last : Nat], NEW x,
         hour \in Nat, LedgerDay \in Nat, Lasts(b, o, hour, s), b.session.id # s, d.session.id # s, x.id # s,
         d.history = b.history \/ d.history = Lg!Kept(b.history) \cup {x}
  PROVE  Lasts(d, o, hour, s)
<1>1. NoSpan(b, s) => NoSpan(d, s)
  BY DEF NoSpan, Lg!Kept
<1>2. ASSUME OneSpan(b, o, s)
      PROVE  OneSpan(d, o, s) \/ (NoSpan(d, s) /\ LedgerDay <= hour - o.last)
  <2>1. PICK h \in b.history : /\ h.id = s /\ h.from = o.first /\ o.last <= h.to
                              /\ \A g \in b.history : g.id = s => g = h
    BY <1>2 DEF OneSpan
  <2>2. h.to \in Nat /\ o.last \in Nat
    BY DEF Book, SpanRow
  <2>3. \A g \in d.history : g.id = s => g = h
    BY <2>1 DEF Lg!Kept
  <2>4. CASE h \in d.history
    BY <2>1, <2>3, <2>4 DEF OneSpan
  <2>5. CASE h \notin d.history
    <3>1. ~(hour - h.to < LedgerDay)
      BY <2>5 DEF Lg!Kept
    <3>2. LedgerDay <= hour - o.last
      BY <2>1, <2>2, <3>1
    <3>3. NoSpan(d, s)
      BY <2>3, <2>5 DEF NoSpan
    <3> QED
      BY <3>2, <3>3
  <2> QED
    BY <2>4, <2>5
<1> QED
  BY <1>1, <1>2 DEF Lasts

(* The session tracked is archived.                                         *)
LEMMA Closes ==
  ASSUME NEW b \in Book, NEW d, NEW s, NEW o \in [first : Nat, last : Nat], NEW to \in Nat,
         Lasts(b, o, hour, s), b.session.id = s, d.session.id # s, b.session.seen <= to,
         d.history = Lg!Kept(b.history) \cup {Lg!Span(b.session, to)}
  PROVE  Lasts(d, o, hour, s)
<1> DEFINE h == Lg!Span(b.session, to)
<1>1. h.id = s /\ h.from = b.session.from /\ h.to = to
  BY DEF Lg!Span
<1>2. o.first > 0 /\ b.session.from = o.first /\ b.session.seen = o.last /\ NoSpan(b, s)
  BY DEF Lasts
<1>3. h \in d.history /\ \A g \in d.history : g.id = s => g = h
  BY <1>2 DEF NoSpan, Lg!Kept
<1> HIDE DEF h
<1>4. OneSpan(d, o, s)
  BY <1>1, <1>2, <1>3 DEF OneSpan
<1> QED
  BY <1>2, <1>4 DEF Lasts

LEMMA RowsAre ==
  ASSUME NEW i \in Sessions \cup {""}, NEW j \in Nat, NEW m \in Nat
  PROVE  [id |-> i, from |-> j, to |-> m] \in SpanRow /\ [id |-> i, from |-> j, seen |-> m] \in SessionRow
BY DEF SpanRow, SessionRow

(* What the tracked session becomes keeps the order of its times.            *)
LEMMA Spans ==
  ASSUME NEW when, NEW b, BookOK(b, hour, when), hour \in Nat, NEW s,
         NEW to \in Nat, to <= hour, b.session.seen <= to
  PROVE  /\ b \in Book /\ Lg!Span(b.session, to) \in SpanRow /\ b.history \subseteq SpanRow
         /\ \A h \in Lg!Kept(b.history) \cup {Lg!Span(b.session, to)} : h.from <= h.to /\ h.to <= hour
<1>1. /\ b \in Book /\ b.session \in SessionRow /\ b.history \subseteq SpanRow
      /\ b.session.id \in Sessions \cup {""} /\ b.session.from \in Nat /\ b.session.seen \in Nat
  BY DEF BookOK, Book, SessionRow
<1>2. Lg!Span(b.session, to) = [id |-> b.session.id, from |-> b.session.from, to |-> to]
  BY DEF Lg!Span
<1>3. Lg!Span(b.session, to) \in SpanRow
  <2> DEFINE i == b.session.id
             j == b.session.from
  <2>1. i \in Sessions \cup {""} /\ j \in Nat
    BY <1>1
  <2>2. Lg!Span(b.session, to) = [id |-> i, from |-> j, to |-> to]
    BY <1>2
  <2>3. [id |-> i, from |-> j, to |-> to] \in SpanRow
    <3> HIDE DEF i, j
    <3> QED
      BY <2>1, RowsAre
  <2> HIDE DEF i, j
  <2> QED
    BY <2>2, <2>3
<1>4. b.session.from <= to
  <2>1. b.session.from <= b.session.seen
    BY DEF BookOK
  <2>2. b.session.from \in Nat /\ b.session.seen \in Nat
    BY <1>1
  <2> DEFINE j == b.session.from
             m == b.session.seen
  <2>3. j \in Nat /\ m \in Nat /\ j <= m /\ m <= to
    BY <2>1, <2>2
  <2> HIDE DEF j, m
  <2>4. j <= to
    BY <2>3
  <2> QED
    BY <2>4 DEF j
<1>5. Lg!Span(b.session, to).from <= Lg!Span(b.session, to).to /\ Lg!Span(b.session, to).to <= hour
  BY <1>2, <1>4
<1>6. \A h \in Lg!Kept(b.history) : h.from <= h.to /\ h.to <= hour
  BY DEF Lg!Kept, BookOK
<1> QED
  BY <1>1, <1>3, <1>5, <1>6

(* A session that is not disturbed is in the copy as in the file.            *)
LEMMA CopyKept ==
  ASSUME LedgerInv, NEW p \in Commands, NEW s \in Sessions \ (shuffled \cup Lg!Disturbed(p))
  PROVE  Lasts(spender[p].copy, observed[s], hour, s)
<1>1. ledger \in Book /\ spender[p].copy \in Book
  BY DEF LedgerInv, SendsInv, LedgerTyped, SpenderOK, BookOK
<1>2. Lasts(ledger, observed[s], hour, s)
  BY DEF LedgerInv, SessionsLast
<1>3. /\ \A h \in Lg!Tracked(ledger) : h.id = s => h \in Lg!Tracked(spender[p].copy)
      /\ \A h \in Lg!Tracked(spender[p].copy) : h.id = s => h \in Lg!Tracked(ledger)
  BY DEF Lg!Disturbed
<1> QED
  BY <1>1, <1>2, <1>3, SameSaid

(* A command puts back what it had read, changed in one place.               *)
LEMMA SaveSendStep ==
  ASSUME Lg!LedgerAssumption, LedgerInv, NEW p \in Commands, Lg!SaveSend(p)
  PROVE  LedgerInv'
<1> DEFINE copy == spender[p].copy
           n == spender[p].what
           recent == Lg!Within(copy.sends)
           more == recent \cup {[n |-> n, at |-> hour]}
           sends == IF \E x \in recent : x.n = n THEN recent ELSE more
           book == [copy EXCEPT !.sends = sends]
<1>1. /\ spender[p].phase = "record" /\ Lg!Save(p, book) /\ observed' = observed
      /\ shuffled' = shuffled \cup Lg!Disturbed(p)
  BY DEF Lg!SaveSend
<1>2. /\ hour \in Nat \ {0} /\ BookOK(copy, hour, sent) /\ n \in Sends /\ sent[n] \in 1..hour
      /\ observed \in [Sessions -> [first : Nat, last : Nat]]
      /\ \A s \in Sessions : observed[s].first <= observed[s].last /\ observed[s].last <= hour
  BY <1>1 DEF LedgerInv, SendsInv, LedgerTyped, SpenderOK
<1>3. copy \in Book /\ recent \subseteq copy.sends /\ IsFiniteSet(copy.sends)
  BY <1>2 DEF BookOK, Lg!Within
<1>4. IsFiniteSet(recent) /\ IsFiniteSet(more)
  <2>1. IsFiniteSet(recent)
    BY <1>3, FS_Subset
  <2> HIDE DEF recent
  <2> QED
    BY <2>1, FS_AddElement
<1>5. /\ [n |-> n, at |-> hour] \in SendRow /\ [n |-> n, at |-> hour].n = n
      /\ [n |-> n, at |-> hour].at = hour
  BY <1>2 DEF SendRow
<1>6. /\ sends \subseteq more /\ IsFiniteSet(sends) /\ recent \subseteq sends
      /\ \E x \in sends : x.n = n
  BY <1>4, <1>5
<1>7. more \subseteq SendRow /\ \A x \in more : x.at <= hour /\ sent[x.n] \in 1..x.at
  <2>1. copy.sends \subseteq SendRow
    BY <1>3 DEF Book
  <2>2. \A x \in copy.sends : x.at <= hour /\ sent[x.n] \in 1..x.at
    BY <1>2 DEF BookOK
  <2> HIDE DEF recent
  <2> QED
    BY <1>2, <1>3, <1>5, <2>1, <2>2
<1>8. \A x \in sends : x \in copy.sends \/ x.n = n
  BY <1>3, <1>5, <1>6
<1> HIDE DEF sends, more, recent
<1>9. /\ book \in Book /\ book.sends = sends /\ book.session = copy.session
      /\ book.history = copy.history
  BY <1>3, <1>6, <1>7 DEF Book
<1> HIDE DEF book
<1>10. BookOK(book, hour, sent)
  BY <1>2, <1>6, <1>7, <1>9 DEF BookOK
<1>11. SendsInv'
  BY <1>1, <1>2, <1>6, <1>8, <1>9, <1>10, Saves DEF LedgerInv
<1>12. SessionsLast'
  <2> SUFFICES ASSUME NEW s \in Sessions \ shuffled' PROVE Lasts(book, observed[s], hour, s)
    BY <1>1 DEF SessionsLast, Lg!Save
  <2>1. Lasts(copy, observed[s], hour, s)
    BY <1>1, CopyKept DEF LedgerInv
  <2> QED
    BY <1>9, <2>1 DEF Lasts, NoSpan, OneSpan
<1> QED
  BY <1>11, <1>12 DEF LedgerInv

LEMMA SaveEndStep ==
  ASSUME Lg!LedgerAssumption, LedgerInv, NEW p \in Commands, Lg!SaveEnd(p),
         spender[p].copy.session.id = spender[p].what
  PROVE  LedgerInv'
<1> DEFINE copy == spender[p].copy
           w == spender[p].what
           spans == Lg!Kept(copy.history) \cup {Lg!Span(copy.session, hour)}
           book == [copy EXCEPT !.session = Lg!NoSession, !.history = spans]
<1>1. /\ spender[p].phase = "end" /\ Lg!Save(p, book) /\ observed' = observed
      /\ shuffled' = shuffled \cup Lg!Disturbed(p)
  BY DEF Lg!SaveEnd
<1>2. /\ hour \in Nat \ {0} /\ BookOK(copy, hour, sent) /\ w \in Sessions
      /\ observed \in [Sessions -> [first : Nat, last : Nat]]
      /\ \A s \in Sessions : observed[s].first <= observed[s].last /\ observed[s].last <= hour
  BY <1>1 DEF LedgerInv, SendsInv, LedgerTyped, SpenderOK
<1>3. /\ copy \in Book /\ Lg!Span(copy.session, hour) \in SpanRow /\ copy.history \subseteq SpanRow
      /\ copy.session.seen <= hour /\ \A h \in spans : h.from <= h.to /\ h.to <= hour
  <2>1. copy.session.seen <= hour
    BY <1>2 DEF BookOK
  <2> QED
    BY <1>2, <2>1, Spans
<1>4. /\ Lg!NoSession \in SessionRow /\ Lg!NoSession.from = 0 /\ Lg!NoSession.seen = 0
      /\ Lg!NoSession.id = "" /\ Lg!NoSession.id \notin Sessions
  <2>1. BookOK(Lg!Empty, hour, sent) /\ Lg!Empty.session = Lg!NoSession
    BY <1>2, EmptyBook
  <2>2. Lg!NoSession \in SessionRow
    BY <2>1 DEF BookOK, Book
  <2>3. Lg!NoSession.from = 0 /\ Lg!NoSession.seen = 0 /\ Lg!NoSession.id = ""
    BY DEF Lg!NoSession
  <2> QED
    BY <2>2, <2>3, Hours
<1>5. spans \subseteq SpanRow
  BY <1>3 DEF Lg!Kept
<1>6. /\ book \in Book /\ book.sends = copy.sends /\ book.session = Lg!NoSession
      /\ book.history = spans
  <2> HIDE DEF spans
  <2> QED
    BY <1>3, <1>4, <1>5 DEF Book
<1> HIDE DEF book
<1>7. BookOK(book, hour, sent)
  <2>1. book.session.from <= book.session.seen /\ book.session.seen <= hour
    <3>1. book.session.from = 0 /\ book.session.seen = 0
      BY <1>4, <1>6
    <3>2. 0 <= hour
      BY <1>2
    <3> QED
      BY <3>1, <3>2
  <2>2. \A h \in book.history : h.from <= h.to /\ h.to <= hour
    BY <1>3, <1>6
  <2>3. IsFiniteSet(book.sends) /\ \A x \in book.sends : x.at <= hour /\ sent[x.n] \in 1..x.at
    BY <1>2, <1>6 DEF BookOK
  <2> QED
    BY <1>6, <2>1, <2>2, <2>3 DEF BookOK
<1>8. SendsInv'
  BY <1>1, <1>2, <1>6, <1>7, Saves DEF LedgerInv
<1>9. SessionsLast'
  <2> SUFFICES ASSUME NEW s \in Sessions \ shuffled' PROVE Lasts(book, observed[s], hour, s)
    BY <1>1 DEF SessionsLast, Lg!Save
  <2>1. Lasts(copy, observed[s], hour, s)
    BY <1>1, CopyKept DEF LedgerInv
  <2>2. book.session.id # s /\ observed[s] \in [first : Nat, last : Nat]
    BY <1>2, <1>4, <1>6
  <2>3. CASE copy.session.id = s
    BY <1>2, <1>3, <1>6, <2>1, <2>2, <2>3, Closes
  <2>4. CASE copy.session.id # s
    <3>1. Lg!Span(copy.session, hour).id # s
      BY <2>4 DEF Lg!Span
    <3> QED
      BY <1>2, <1>3, <1>6, <2>1, <2>2, <2>4, <3>1, OthersMove, Hours, ZenonT(30)
  <2> QED
    BY <2>3, <2>4
<1> QED
  BY <1>8, <1>9 DEF LedgerInv

LEMMA SaveTouchStep ==
  ASSUME Lg!LedgerAssumption, LedgerInv, NEW p \in Commands, Lg!SaveTouch(p)
  PROVE  LedgerInv'
<1> DEFINE copy == spender[p].copy
           w == spender[p].what
           from == IF copy.session.id = w THEN copy.session.from ELSE hour
           fresh == [id |-> w, from |-> from, seen |-> hour]
           spans == Lg!Archived(copy, w)
           book == [copy EXCEPT !.session = fresh, !.history = spans]
           first == IF observed[w].first = 0 THEN hour ELSE observed[w].first
           view == [first |-> first, last |-> hour]
<1>1. /\ spender[p].phase = "touch" /\ Lg!Save(p, book) /\ observed' = [observed EXCEPT ![w] = view]
      /\ Lg!Disturbed(p) \subseteq shuffled' /\ shuffled \subseteq shuffled'
      /\ copy.session.id # w /\ observed[w].first # 0 => w \in shuffled'
  BY DEF Lg!SaveTouch
<1>2. /\ hour \in Nat \ {0} /\ BookOK(copy, hour, sent) /\ w \in Sessions
      /\ observed \in [Sessions -> [first : Nat, last : Nat]]
      /\ \A s \in Sessions : observed[s].first <= observed[s].last /\ observed[s].last <= hour
  BY <1>1 DEF LedgerInv, SendsInv, LedgerTyped, SpenderOK
<1>3. /\ copy \in Book /\ copy.session \in SessionRow /\ copy.session.from \in Nat
      /\ copy.session.seen \in Nat /\ copy.session.from <= hour /\ copy.session.seen <= hour
  <2>1. copy \in Book /\ copy.session \in SessionRow
    BY <1>2 DEF BookOK, Book
  <2>2. copy.session.from \in Nat /\ copy.session.seen \in Nat
    BY <2>1 DEF SessionRow
  <2>3. copy.session.from <= copy.session.seen /\ copy.session.seen <= hour
    BY <1>2 DEF BookOK
  <2> DEFINE i == copy.session.from
             j == copy.session.seen
  <2>4. i \in Nat /\ j \in Nat /\ i <= j /\ j <= hour
    BY <2>2, <2>3
  <2> HIDE DEF i, j
  <2>5. i <= hour
    BY <1>2, <2>4
  <2> QED
    BY <2>1, <2>2, <2>3, <2>5 DEF i
<1>4. /\ from \in Nat /\ from <= hour /\ fresh \in SessionRow
      /\ fresh.id = w /\ fresh.from = from /\ fresh.seen = hour
  <2>1. from \in Nat /\ from <= hour
    BY <1>2, <1>3
  <2> HIDE DEF from
  <2>2. fresh \in SessionRow
    BY <1>2, <2>1, RowsAre
  <2> QED
    BY <2>1, <2>2
<1>5. \/ copy.session.id \in {w, ""} /\ spans = copy.history
      \/ /\ copy.session.id \notin {w, ""}
         /\ spans = Lg!Kept(copy.history) \cup {Lg!Span(copy.session, copy.session.seen)}
  BY DEF Lg!Archived
<1>6. spans \subseteq SpanRow /\ \A h \in spans : h.from <= h.to /\ h.to <= hour
  <2>1. /\ Lg!Span(copy.session, copy.session.seen) \in SpanRow /\ copy.history \subseteq SpanRow
        /\ \A h \in Lg!Kept(copy.history) \cup {Lg!Span(copy.session, copy.session.seen)} :
             h.from <= h.to /\ h.to <= hour
    BY <1>2, <1>3, Spans
  <2>2. \A h \in copy.history : h.from <= h.to /\ h.to <= hour
    BY <1>2 DEF BookOK
  <2> HIDE DEF spans
  <2> QED
    BY <1>5, <2>1, <2>2 DEF Lg!Kept
<1> HIDE DEF spans, fresh, from
<1>7. /\ book \in Book /\ book.sends = copy.sends /\ book.session = fresh /\ book.history = spans
  BY <1>3, <1>4, <1>6 DEF Book
<1> HIDE DEF book
<1>8. BookOK(book, hour, sent)
  <2>1. book.session.from <= book.session.seen /\ book.session.seen <= hour
    BY <1>2, <1>4, <1>7
  <2>2. IsFiniteSet(book.sends) /\ \A x \in book.sends : x.at <= hour /\ sent[x.n] \in 1..x.at
    BY <1>2, <1>7 DEF BookOK
  <2> QED
    BY <1>6, <1>7, <2>1, <2>2 DEF BookOK
<1>9. /\ observed[w].first \in Nat /\ first \in Nat /\ first <= hour /\ first > 0
      /\ view.first = first /\ view.last = hour /\ view \in [first : Nat, last : Nat]
  <2>1. observed[w].first \in Nat /\ observed[w].last \in Nat
    BY <1>2
  <2>2. observed[w].first <= observed[w].last /\ observed[w].last <= hour
    BY <1>2
  <2>3. observed[w].first <= hour
    BY <1>2, <2>1, <2>2
  <2>4. first \in Nat /\ first <= hour /\ first > 0
    BY <1>2, <2>1, <2>3
  <2> HIDE DEF first
  <2> QED
    BY <1>2, <2>1, <2>4
<1>10. \A s \in Sessions : observed'[s] = IF s = w THEN view ELSE observed[s]
  BY <1>1, <1>2
<1>11. SendsInv'
  <2>1. /\ observed' \in [Sessions -> [first : Nat, last : Nat]]
        /\ \A s \in Sessions : observed'[s].first <= observed'[s].last /\ observed'[s].last <= hour
    <3> HIDE DEF view, first
    <3>1. observed' \in [Sessions -> [first : Nat, last : Nat]]
      BY <1>1, <1>2, <1>9
    <3>2. ASSUME NEW s \in Sessions
          PROVE  observed'[s].first <= observed'[s].last /\ observed'[s].last <= hour
      <4>1. CASE s = w
        <5>1. observed'[s].first = first /\ observed'[s].last = hour
          BY <1>9, <1>10, <4>1
        <5> QED
          BY <1>2, <1>9, <5>1
      <4> QED
        BY <1>2, <1>10, <4>1
    <3> QED
      BY <3>1, <3>2
  <2> QED
    BY <1>1, <1>7, <1>8, <2>1, Saves DEF LedgerInv
<1>12. SessionsLast'
  <2> SUFFICES ASSUME NEW s \in Sessions \ shuffled' PROVE Lasts(book, observed'[s], hour, s)
    BY <1>1 DEF SessionsLast, Lg!Save
  <2>1. Lasts(copy, observed[s], hour, s) /\ observed[s] \in [first : Nat, last : Nat] /\ s # ""
    BY <1>1, <1>2, CopyKept, Hours DEF LedgerInv
  <2> DEFINE was == observed[s]
             end == copy.session.seen
  <2>6. /\ hour \in Nat /\ LedgerDay \in Nat /\ end \in Nat /\ copy.session.seen <= end /\ copy \in Book
        /\ was \in [first : Nat, last : Nat] /\ Lasts(copy, was, hour, s)
    <3>1. hour \in Nat /\ LedgerDay \in Nat
      BY <1>2, Hours
    <3>2. end \in Nat /\ copy \in Book
      BY <1>3
    <3>3. \A x \in Nat : x <= x
      OBVIOUS
    <3>4. copy.session.seen <= end
      BY <3>2, <3>3
    <3> HIDE DEF end, copy
    <3> QED
      BY <2>1, <3>1, <3>2, <3>4
  <2>2. CASE s = w /\ copy.session.id = w
    <3>1. observed[w].first > 0 /\ copy.session.from = observed[w].first /\ NoSpan(copy, w)
      BY <2>1, <2>2 DEF Lasts
    <3>2. book.session.id = w /\ book.session.from = first /\ book.session.seen = hour /\ NoSpan(book, w)
      BY <1>4, <1>5, <1>7, <1>9, <2>2, <3>1 DEF from, NoSpan
    <3> HIDE DEF first, view
    <3> QED
      BY <1>9, <1>10, <2>2, <3>2 DEF Lasts
  <2>3. CASE s = w /\ copy.session.id # w
    <3>1. observed[w].first = 0 /\ NoSpan(copy, w)
      <4>1. observed[w].first = 0
        BY <1>1, <2>3
      <4>2. ~(observed[w].first > 0)
        BY <4>1
      <4> QED
        BY <2>1, <2>3, <4>1, <4>2 DEF Lasts
    <3>2. Lg!Span(copy.session, copy.session.seen).id # w
      BY <2>3 DEF Lg!Span
    <3>3. book.session.id = w /\ book.session.from = first /\ book.session.seen = hour /\ NoSpan(book, w)
      BY <1>4, <1>5, <1>7, <2>3, <3>1, <3>2 DEF from, NoSpan, Lg!Kept
    <3> HIDE DEF first, view
    <3> QED
      BY <1>9, <1>10, <2>3, <3>3 DEF Lasts
  <2>4. CASE s # w /\ copy.session.id = s
    <3>1. book.session.id # s
      BY <1>4, <1>7, <2>4
    <3>2. book.history = Lg!Kept(copy.history) \cup {Lg!Span(copy.session, copy.session.seen)}
      BY <1>5, <1>7, <2>1, <2>4
    <3>3. Lasts(book, was, hour, s)
      <4>1. book.history = Lg!Kept(copy.history) \cup {Lg!Span(copy.session, end)} /\ copy.session.id = s
        BY <2>4, <3>2
      <4> HIDE DEF copy, was, end
      <4> QED
        BY <2>6, <3>1, <4>1, Closes
    <3> QED
      BY <1>10, <2>4, <3>3
  <2>5. CASE s # w /\ copy.session.id # s
    <3>1. book.session.id # s /\ Lg!Span(copy.session, copy.session.seen).id # s
      BY <1>4, <1>7, <2>5 DEF Lg!Span
    <3>2. \/ book.history = copy.history
          \/ book.history = Lg!Kept(copy.history) \cup {Lg!Span(copy.session, copy.session.seen)}
      BY <1>5, <1>7
    <3>3. Lasts(book, was, hour, s)
      <4> DEFINE x == Lg!Span(copy.session, copy.session.seen)
      <4>1. /\ book.history = copy.history \/ book.history = Lg!Kept(copy.history) \cup {x}
            /\ x.id # s /\ copy.session.id # s
        BY <2>5, <3>1, <3>2
      <4> HIDE DEF copy, was, x
      <4> QED
        BY <2>6, <3>1, <4>1, OthersMove
    <3> QED
      BY <1>10, <2>5, <3>3
  <2> QED
    BY <2>2, <2>3, <2>4, <2>5
<1> QED
  BY <1>11, <1>12 DEF LedgerInv

(* A step that leaves file, clock and sessions alone leaves them said.       *)
LEMMA SaidStill ==
  ASSUME LedgerInv, UNCHANGED <<hour, ledger, observed, shuffled>>
  PROVE  SessionsLast'
BY DEF LedgerInv, SessionsLast

LEMMA StillLasts ==
  ASSUME NEW b, NEW o, NEW t, NEW u, NEW s, Lasts(b, o, t, s),
         LedgerDay <= t - o.last => LedgerDay <= u - o.last
  PROVE  Lasts(b, o, u, s)
BY DEF Lasts

LEMMA HourPasses == LedgerInv /\ Lg!Tick /\ Lg!LedgerAssumption => LedgerInv'
<1> SUFFICES ASSUME LedgerInv, Lg!Tick, Lg!LedgerAssumption PROVE LedgerInv'
  OBVIOUS
<1>1. /\ hour' = hour + 1 /\ hour \in Nat \ {0} /\ Hour \in Nat /\ LedgerDay \in Nat
      /\ UNCHANGED <<ledger, spender, spent, sent, observed, lost, shuffled>>
  BY Hours DEF Lg!Tick, LedgerInv, SendsInv, LedgerTyped
<1>2. /\ sent \in [Sends -> Nat] /\ spender \in [Commands -> Spender] /\ BookOK(ledger, hour, sent)
      /\ \A q \in Commands : SpenderOK(spender[q], hour, sent)
      /\ \A n \in Sends : sent[n] <= hour
      /\ observed \in [Sessions -> [first : Nat, last : Nat]]
      /\ \A s \in Sessions : observed[s].first <= observed[s].last /\ observed[s].last <= hour
  BY DEF LedgerInv, SendsInv, LedgerTyped
<1>3. LedgerTyped'
  <2>1. hour \in Nat /\ hour + 1 \in Nat /\ hour <= hour + 1
    BY <1>1
  <2>2. /\ \A b : BookOK(b, hour, sent) => BookOK(b, hour + 1, sent)
        /\ \A l : SpenderOK(l, hour, sent) => SpenderOK(l, hour + 1, sent)
    BY <1>2, <2>1, Later
  <2>3. BookOK(ledger', hour', sent') /\ \A q \in Commands : SpenderOK(spender'[q], hour', sent')
    BY <1>1, <1>2, <2>2
  <2>4. \A n \in Sends : sent'[n] <= hour'
    BY <1>1, <1>2
  <2>5. \A s \in Sessions : observed'[s].first <= observed'[s].last /\ observed'[s].last <= hour'
    <3> SUFFICES ASSUME NEW s \in Sessions PROVE observed[s].last <= hour + 1
      BY <1>1, <1>2
    <3>1. observed[s].last \in Nat /\ observed[s].last <= hour
      BY <1>2
    <3> QED
      BY <1>1, <3>1
  <2>6. hour' \in Nat \ {0} /\ lost' \subseteq Sends
    BY <1>1 DEF LedgerInv, SendsInv, LedgerTyped
  <2> QED
    BY <1>1, <1>2, <2>3, <2>4, <2>5, <2>6 DEF LedgerTyped
<1>4. ASSUME NEW when \in Nat, hour' - when < Hour
      PROVE  hour - when < Hour
  BY <1>1, <1>4
<1>5. CopiesKept'
  <2> SUFFICES ASSUME NEW q \in Commands, NEW x \in spender[q].copy.sends, hour' - x.at < Hour
               PROVE  x \in ledger.sends \/ x.n \in lost
    BY <1>1 DEF CopiesKept
  <2>1. x.at \in Nat
    BY <1>2 DEF SpenderOK, BookOK, Book, SendRow
  <2> QED
    BY <1>4, <2>1 DEF LedgerInv, SendsInv, CopiesKept
<1>6. Delivered'
  <2>1. \A n \in Sends : sent[n] \in Nat
    BY <1>2
  <2> QED
    BY <1>1, <1>4, <2>1 DEF LedgerInv, SendsInv, Delivered
<1>7. HourHolds'
  <2>1. Counted' \in SUBSET Counted
    <3>1. \A x \in ledger.sends : x.at \in Nat
      BY <1>2 DEF BookOK, Book, SendRow
    <3> QED
      BY <1>1, <1>4, <3>1 DEF Counted
  <2>2. Busy' = Busy
    BY <1>1 DEF Busy
  <2>3. /\ IsFiniteSet(Counted) /\ Cardinality(Counted) \in Nat /\ Cardinality(Busy) \in Nat
        /\ Cardinality(Commands) \in Nat /\ SpendLimit \in Nat
    BY Hours
  <2>4. Cardinality(Counted') <= Cardinality(Counted) /\ Cardinality(Counted') \in Nat
    BY <2>1, <2>3, Fewer, FS_Subset, FS_CardinalityType
  <2>5. Cardinality(Counted) + Cardinality(Busy) <= SpendLimit + Cardinality(Commands) - 1
    BY DEF LedgerInv, SendsInv, HourHolds
  <2>6. Cardinality(Busy') = Cardinality(Busy)
    BY <2>2
  <2> QED
    BY <2>3, <2>4, <2>5, <2>6 DEF HourHolds
<1>8. SessionsLast'
  <2> SUFFICES ASSUME NEW s \in Sessions \ shuffled PROVE Lasts(ledger, observed[s], hour + 1, s)
    BY <1>1 DEF SessionsLast
  <2>1. Lasts(ledger, observed[s], hour, s) /\ observed[s].last \in Nat
    BY <1>2 DEF LedgerInv, SessionsLast
  <2>2. LedgerDay <= hour - observed[s].last => LedgerDay <= (hour + 1) - observed[s].last
    BY <1>1, <2>1
  <2> QED
    <3> DEFINE o == observed[s]
               u == hour + 1
    <3>1. Lasts(ledger, o, hour, s) /\ (LedgerDay <= hour - o.last => LedgerDay <= u - o.last)
      BY <2>1, <2>2
    <3>2. Lasts(ledger, o, u, s)
      <4> HIDE DEF o, u
      <4> QED
        BY <3>1, StillLasts
    <3> QED
      BY <3>2
<1> QED
  BY <1>3, <1>5, <1>6, <1>7, <1>8 DEF LedgerInv, SendsInv

(* A command that is let pass, delivers, reads the file or stops.            *)
LEMMA SpenderStep ==
  ASSUME Lg!LedgerAssumption, LedgerInv, NEW p \in Commands,
         \/ Lg!CheckSend(p) \/ Lg!LoadSend(p) \/ Lg!Stop(p)
         \/ Lg!SaveEnd(p) /\ spender[p].copy.session.id # spender[p].what
         \/ \E n \in Sends : Lg!Deliver(p, n)
         \/ \E s \in Sessions : Lg!LoadSession(p, s, "touch") \/ Lg!LoadSession(p, s, "end")
  PROVE  LedgerInv'
<1>1. /\ hour \in Nat \ {0} /\ sent \in [Sends -> Nat] /\ BookOK(ledger, hour, sent)
      /\ SpenderOK(spender[p], hour, sent) /\ lost \subseteq Sends /\ \A n \in Sends : sent[n] <= hour
  BY DEF LedgerInv, SendsInv, LedgerTyped
<1>2. \A l : \A when : SpenderOK(l, hour, when) <=>
        /\ l \in Spender /\ BookOK(l.copy, hour, when)
        /\ l.phase \in {"delivered", "record"} => l.what \in Sends /\ when[l.what] \in 1..hour
        /\ l.phase \in {"touch", "end"} => l.what \in Sessions
  BY DEF SpenderOK
<1>3. \A when : BookOK(Lg!Empty, hour, when) /\ Lg!Empty.sends = {}
  BY <1>1, EmptyBook
<1>4. ASSUME NEW phase2 \in {"idle", "checked", "delivered", "record", "touch", "end"},
             NEW w \in Sends \cup Sessions \cup {""}, NEW c \in Book
      PROVE  /\ [phase |-> phase2, what |-> w, copy |-> c] \in Spender
             /\ [phase |-> phase2, what |-> w, copy |-> c].phase = phase2
             /\ [phase |-> phase2, what |-> w, copy |-> c].what = w
             /\ [phase |-> phase2, what |-> w, copy |-> c].copy = c
  BY DEF Spender
<1>5. Lg!Empty \in Book /\ ledger \in Book
  BY <1>1, <1>3 DEF BookOK
<1>6. CASE Lg!CheckSend(p)
  <2> DEFINE l == [phase |-> "checked", what |-> "", copy |-> Lg!Empty]
  <2>1. l \in Spender /\ l.phase = "checked" /\ l.copy = Lg!Empty
    BY <1>4, <1>5
  <2>2. /\ spender' = [spender EXCEPT ![p] = l] /\ UNCHANGED <<hour, ledger, observed, sent, lost, shuffled>>
        /\ spender[p].phase = "idle" /\ Cardinality(Lg!Within(ledger.sends)) < SpendLimit
    BY <1>6, LedgerCountsAre DEF Lg!CheckSend, Lg!Set, Lg!MaySend
  <2> HIDE DEF l
  <2>3. SpenderOK(l, hour, sent') /\ l.copy.sends \subseteq ledger.sends
    BY <1>2, <1>3, <2>1
  <2>4. SendsInv'
    <3>1. sent' \in [Sends -> Nat] /\ \A n \in Sends : sent'[n] = sent[n]
      BY <1>1, <2>2
    <3>2. \A n \in Sends : ~Carries(spender[p], n)
      BY <2>2 DEF Carries
    <3> QED
      BY <1>1, <2>2, <2>3, <3>1, <3>2, Turns DEF LedgerInv
  <2> QED
    BY <2>2, <2>4, SaidStill DEF LedgerInv
<1>7. CASE Lg!LoadSend(p)
  <2> DEFINE w == spender[p].what
             l == [phase |-> "record", what |-> w, copy |-> ledger]
  <2>1. /\ spender' = [spender EXCEPT ![p] = l] /\ UNCHANGED <<hour, ledger, observed, sent, lost, shuffled>>
        /\ spender[p].phase = "delivered"
    BY <1>7 DEF Lg!LoadSend, Lg!Set
  <2>2. w \in Sends /\ sent[w] \in 1..hour
    BY <1>1, <2>1 DEF SpenderOK
  <2>3. l \in Spender /\ l.phase = "record" /\ l.what = w /\ l.copy = ledger
    BY <1>4, <1>5, <2>2
  <2> HIDE DEF l
  <2>4. SpenderOK(l, hour, sent')
    BY <1>1, <1>2, <2>1, <2>2, <2>3
  <2>5. /\ \A n \in Sends : Carries(spender[p], n) => Carries(l, n)
        /\ LetPass(spender[p])
    BY <2>1, <2>3 DEF Carries, LetPass
  <2>6. SendsInv'
    <3>1. sent' \in [Sends -> Nat] /\ \A n \in Sends : sent'[n] = sent[n]
      BY <1>1, <2>1
    <3>2. l.copy.sends \subseteq ledger.sends
      BY <2>3
    <3> QED
      BY <1>1, <2>1, <2>4, <2>5, <3>1, <3>2, Turns DEF LedgerInv
  <2> QED
    BY <2>1, <2>6, SaidStill DEF LedgerInv
<1>8. ASSUME NEW s \in Sessions, NEW form \in {"touch", "end"}, Lg!LoadSession(p, s, form)
      PROVE  LedgerInv'
  <2> DEFINE l == [phase |-> form, what |-> s, copy |-> ledger]
  <2>1. /\ spender' = [spender EXCEPT ![p] = l] /\ UNCHANGED <<hour, ledger, observed, sent, lost, shuffled>>
        /\ spender[p].phase = "idle"
    BY <1>8 DEF Lg!LoadSession, Lg!Set
  <2>2. l \in Spender /\ l.phase = form /\ l.what = s /\ l.copy = ledger
    BY <1>4, <1>5
  <2> HIDE DEF l
  <2>3. SpenderOK(l, hour, sent')
    BY <1>1, <1>2, <2>1, <2>2
  <2>4. ~LetPass(l) /\ \A n \in Sends : ~Carries(spender[p], n)
    BY <2>1, <2>2 DEF Carries, LetPass
  <2>5. SendsInv'
    <3>1. sent' \in [Sends -> Nat] /\ \A n \in Sends : sent'[n] = sent[n]
      BY <1>1, <2>1
    <3>2. l.copy.sends \subseteq ledger.sends
      BY <2>2
    <3> QED
      BY <1>1, <2>1, <2>3, <2>4, <3>1, <3>2, Turns DEF LedgerInv
  <2> QED
    BY <2>1, <2>5, SaidStill DEF LedgerInv
<1>9. ASSUME NEW n \in Sends, Lg!Deliver(p, n)
      PROVE  LedgerInv'
  <2> DEFINE l == [phase |-> "delivered", what |-> n, copy |-> Lg!Empty]
  <2>1. /\ spender' = [spender EXCEPT ![p] = l] /\ UNCHANGED <<hour, ledger, observed, lost, shuffled>>
        /\ spender[p].phase = "checked" /\ sent' = [sent EXCEPT ![n] = IF sent[n] = 0 THEN hour ELSE sent[n]]
    BY <1>9 DEF Lg!Deliver, Lg!Set
  <2>2. l \in Spender /\ l.phase = "delivered" /\ l.what = n /\ l.copy = Lg!Empty
    BY <1>4, <1>5
  <2> HIDE DEF l
  <2>3. sent' \in [Sends -> Nat] /\ sent'[n] \in 1..hour
    BY <1>1, <2>1
  <2>4. \A m \in Sends : sent'[m] = sent[m] \/ (sent[m] = 0 /\ sent'[m] = hour /\ Carries(l, m))
    BY <1>1, <2>1, <2>2 DEF Carries
  <2>5. SpenderOK(l, hour, sent') /\ l.copy.sends \subseteq ledger.sends
    BY <1>2, <1>3, <2>2, <2>3
  <2>6. LetPass(spender[p]) /\ \A m \in Sends : ~Carries(spender[p], m)
    BY <2>1 DEF Carries, LetPass
  <2>7. SendsInv'
    BY <1>1, <2>1, <2>3, <2>4, <2>5, <2>6, Turns DEF LedgerInv
  <2> QED
    BY <2>1, <2>7, SaidStill DEF LedgerInv
<1>10. ASSUME spender' = [spender EXCEPT ![p] = Lg!Idle], UNCHANGED <<hour, ledger, observed, sent, shuffled>>,
              lost' = IF spender[p].phase \in {"delivered", "record"} THEN lost \cup {spender[p].what} ELSE lost
       PROVE  LedgerInv'
  <2>1. SpenderOK(Lg!Idle, hour, sent') /\ Lg!Idle.phase = "idle" /\ Lg!Idle.copy.sends \subseteq ledger.sends
    BY <1>1, <1>3, <1>10, IdleSpender
  <2>2. /\ lost \subseteq lost' /\ lost' \subseteq Sends /\ ~LetPass(Lg!Idle)
        /\ \A n \in Sends : Carries(spender[p], n) => n \in lost'
    <3>1. spender[p].phase \in {"delivered", "record"} => spender[p].what \in Sends
      BY <1>1 DEF SpenderOK
    <3>2. lost \subseteq lost' /\ lost' \subseteq Sends
      BY <1>1, <1>10, <3>1
    <3>3. ~LetPass(Lg!Idle)
      BY <2>1 DEF LetPass
    <3>4. \A n \in Sends : Carries(spender[p], n) => n \in lost'
      BY <1>10 DEF Carries
    <3> QED
      BY <3>2, <3>3, <3>4
  <2>3. SendsInv'
    BY <1>1, <1>10, <2>1, <2>2, Turns DEF LedgerInv
  <2> QED
    BY <1>10, <2>3, SaidStill DEF LedgerInv
<1>11. CASE Lg!Stop(p)
  BY <1>10, <1>11 DEF Lg!Stop, Lg!Set, Lg!Idle
<1>12. CASE Lg!SaveEnd(p) /\ spender[p].copy.session.id # spender[p].what
  BY <1>10, <1>12 DEF Lg!SaveEnd, Lg!Set, Lg!Idle
<1> QED
  BY <1>6, <1>7, <1>8, <1>9, <1>11, <1>12

LEMMA LedgerInvariant == ASSUME Lg!LedgerAssumption PROVE Lg!Spec => []LedgerInv
<1>1. Lg!Init => LedgerInv
  <2> SUFFICES ASSUME Lg!Init PROVE LedgerInv
    OBVIOUS
  <2>1. \A s \in Sessions : observed[s].first = 0 /\ observed[s].last = 0
    BY DEF Lg!Init
  <2>2. ledger.session.id = "" /\ ledger.history = {} /\ "" \notin Sessions
    BY EmptyBook, Hours DEF Lg!Init, Lg!Empty, Lg!NoSession
  <2>3. SessionsLast
    BY <2>1, <2>2 DEF SessionsLast, Lasts, NoSpan
  <2> QED
    BY <2>3, LedgerStarts DEF LedgerInv
<1>2. LedgerInv /\ [Lg!Next]_(Lg!ledgerVars) => LedgerInv'
  <2> SUFFICES ASSUME LedgerInv, [Lg!Next]_(Lg!ledgerVars) PROVE LedgerInv'
    OBVIOUS
  <2>1. CASE Lg!Tick
    BY <2>1, HourPasses
  <2>2. ASSUME NEW p \in Commands,
               \/ Lg!CheckSend(p) \/ Lg!LoadSend(p) \/ Lg!Stop(p)
               \/ \E n \in Sends : Lg!Deliver(p, n)
               \/ \E s \in Sessions : Lg!LoadSession(p, s, "touch") \/ Lg!LoadSession(p, s, "end")
        PROVE  LedgerInv'
    BY <2>2, SpenderStep
  <2>3. ASSUME NEW p \in Commands, Lg!SaveSend(p) PROVE LedgerInv'
    BY <2>3, SaveSendStep
  <2>4. ASSUME NEW p \in Commands, Lg!SaveTouch(p) PROVE LedgerInv'
    BY <2>4, SaveTouchStep
  <2>5. ASSUME NEW p \in Commands, Lg!SaveEnd(p) PROVE LedgerInv'
    BY <2>5, SaveEndStep, SpenderStep
  <2>6. CASE UNCHANGED Lg!ledgerVars
    <3>1. UNCHANGED <<hour, ledger, spender, sent, observed, lost, shuffled>>
      BY <2>6 DEF Lg!ledgerVars
    <3> QED
      BY <3>1 DEF LedgerInv, SendsInv, LedgerTyped, CopiesKept, Delivered, HourHolds, Counted, Busy, SessionsLast
  <2> QED
    BY <2>1, <2>2, <2>3, <2>4, <2>5, <2>6 DEF Lg!Next
<1> QED
  BY <1>1, <1>2, PTL DEF Lg!Spec

(* Messages of the last hour are no more than those lost, those counted and   *)
(* those of the commands let pass.                                          *)
LEMMA LatelySent ==
  ASSUME Lg!LedgerAssumption, SendsInv
  PROVE  Cardinality(Lg!SentLately) <= SpendLimit + Cardinality(lost) + Cardinality(Commands) - 1
<1> DEFINE f == [p \in Busy |-> spender[p].what]
           T == {f[p] : p \in Busy}
<1>1. /\ hour \in Nat /\ sent \in [Sends -> Nat] /\ BookOK(ledger, hour, sent) /\ lost \subseteq Sends
      /\ Hour \in Nat /\ SpendLimit \in Nat /\ IsFiniteSet(Sends) /\ IsFiniteSet(Busy) /\ IsFiniteSet(Counted)
      /\ Cardinality(Busy) \in Nat /\ Cardinality(Counted) \in Nat /\ Cardinality(Commands) \in Nat
  BY Hours DEF SendsInv, LedgerTyped
<1>2. Lg!SentLately \in SUBSET (lost \cup Counted \cup T)
  <2> SUFFICES ASSUME NEW n \in Sends \ lost, sent[n] > 0, hour - sent[n] < Hour
               PROVE  n \in Counted \cup T
    BY DEF Lg!SentLately
  <2>1. (\E p \in Commands : Carries(spender[p], n)) \/ \E x \in ledger.sends : x.n = n
    BY DEF SendsInv, Delivered
  <2>2. ASSUME NEW p \in Commands, Carries(spender[p], n)
        PROVE  n \in T
    <3>1. p \in Busy /\ spender[p].what = n
      BY <2>2 DEF Busy, LetPass, Carries
    <3> QED
      BY <3>1
  <2>3. ASSUME NEW x \in ledger.sends, x.n = n
        PROVE  n \in Counted
    <3>1. x.at \in Nat /\ sent[n] \in Nat /\ sent[n] <= x.at
      BY <1>1, <2>3 DEF BookOK, Book, SendRow
    <3>2. hour - x.at < Hour
      BY <1>1, <3>1
    <3> QED
      BY <2>3, <3>2 DEF Counted
  <2> QED
    BY <2>1, <2>2, <2>3
<1>3. f \in Surjection(Busy, T)
  BY DEF Surjection
<1> HIDE DEF f, T
<1>4. IsFiniteSet(T) /\ Cardinality(T) <= Cardinality(Busy) /\ Cardinality(T) \in Nat
  BY <1>1, <1>3, FS_Surjection, FS_CardinalityType
<1>5. IsFiniteSet(lost) /\ Cardinality(lost) \in Nat
  BY <1>1, FS_Subset, FS_CardinalityType
<1>6. /\ IsFiniteSet(lost \cup Counted)
      /\ Cardinality(lost \cup Counted) <= Cardinality(lost) + Cardinality(Counted)
      /\ Cardinality(lost \cup Counted) \in Nat
  BY <1>1, <1>5, JoinedCount
<1>7. /\ IsFiniteSet((lost \cup Counted) \cup T)
      /\ Cardinality((lost \cup Counted) \cup T) <= Cardinality(lost \cup Counted) + Cardinality(T)
      /\ Cardinality((lost \cup Counted) \cup T) \in Nat
  BY <1>4, <1>6, JoinedCount
<1>8. Cardinality(Lg!SentLately) <= Cardinality((lost \cup Counted) \cup T) /\ Cardinality(Lg!SentLately) \in Nat
  BY <1>2, <1>7, Fewer, FS_Subset, FS_CardinalityType
<1>9. Cardinality(Counted) + Cardinality(Busy) <= SpendLimit + Cardinality(Commands) - 1
  BY DEF SendsInv, HourHolds
<1> QED
  BY <1>1, <1>4, <1>5, <1>6, <1>7, <1>8, <1>9

(* The time of a session that the file says of it.                           *)
LEMMA TimeSaid ==
  ASSUME Lg!LedgerAssumption, LedgerInv, NEW s \in Sessions \ shuffled,
         hour - observed[s].last < LedgerDay
  PROVE  Lg!Elapsed(s) >= observed[s].last - observed[s].first
<1> DEFINE spans == {h \in Lg!Kept(ledger.history) : h.id = s}
           latest == {h \in spans : \A g \in spans : g.to <= h.to}
           o == observed[s]
<1>1. /\ hour \in Nat /\ LedgerDay \in Nat /\ o.first \in Nat /\ o.last \in Nat
      /\ ledger.history \subseteq SpanRow /\ Lasts(ledger, o, hour, s)
  BY Hours DEF LedgerInv, SendsInv, LedgerTyped, SessionsLast, BookOK, Book
<1>2. Lg!Elapsed(s) = IF ledger.session.id = s THEN ledger.session.seen - ledger.session.from
                      ELSE IF latest = {} THEN 0
                      ELSE (CHOOSE h \in latest : TRUE).to - (CHOOSE h \in latest : TRUE).from
  BY DEF Lg!Elapsed
<1>3. CASE ledger.session.id = s
  <2>1. ledger.session.from = o.first /\ ledger.session.seen = o.last
    BY <1>1, <1>3 DEF Lasts
  <2>2. Lg!Elapsed(s) = o.last - o.first
    BY <1>2, <1>3, <2>1
  <2> HIDE DEF o
  <2> QED
    BY <1>1, <2>2 DEF o
<1>4. CASE ledger.session.id # s /\ o.first = 0 /\ o.last = 0 /\ NoSpan(ledger, s)
  <2>1. latest = {}
    BY <1>4 DEF NoSpan, Lg!Kept
  <2>2. Lg!Elapsed(s) = 0
    BY <1>2, <1>4, <2>1
  <2> QED
    BY <1>4, <2>2
<1>5. CASE ledger.session.id # s /\ OneSpan(ledger, o, s)
  <2>1. PICK h \in ledger.history : /\ h.id = s /\ h.from = o.first /\ o.last <= h.to
                                   /\ \A g \in ledger.history : g.id = s => g = h
    BY <1>5 DEF OneSpan
  <2>2. h.to \in Nat /\ h.from \in Nat
    BY <1>1, <2>1 DEF SpanRow
  <2>3. hour - h.to < LedgerDay
    BY <1>1, <2>1, <2>2
  <2>4. spans = {h}
    BY <2>1, <2>3 DEF Lg!Kept
  <2>5. latest = {h}
    <3>1. h.to <= h.to
      BY <2>2
    <3> HIDE DEF spans
    <3> QED
      BY <2>4, <3>1
  <2>6. Lg!Elapsed(s) = h.to - h.from
    <3> HIDE DEF latest
    <3>1. (CHOOSE g \in latest : TRUE) = h /\ latest # {}
      BY <2>5
    <3> QED
      BY <1>2, <1>5, <3>1
  <2> HIDE DEF o
  <2> QED
    BY <1>1, <2>1, <2>2, <2>6 DEF o
<1>6. ~(LedgerDay <= hour - o.last)
  BY <1>1
<1> QED
  BY <1>1, <1>3, <1>4, <1>5, <1>6 DEF Lasts

(* A message of the last hour is counted or about to be, unless a command     *)
(* died or wrote an older copy of the file over it, and the time of a        *)
(* session stays there for a day (budget.js: recordSend, touchSession,      *)
(* recordSessionEnd, checkSessionBeginBudget).                              *)
THEOREM LedgerCorrect ==
  ASSUME Lg!LedgerAssumption
  PROVE  Lg!Spec => [](Lg!SendsCounted /\ Lg!TimeCounted /\ Lg!TypeOK)
<1>1. LedgerInv => Lg!SendsCounted
  <2> SUFFICES ASSUME LedgerInv PROVE Lg!SendsCounted
    OBVIOUS
  <2>1. ASSUME NEW n \in Lg!SentLately \ lost
        PROVE  Lg!Recording(n) \/ \E x \in ledger.sends : x.n = n
    <3>1. n \in Sends \ lost /\ sent[n] > 0 /\ hour - sent[n] < Hour
      BY DEF Lg!SentLately
    <3>2. (\E p \in Commands : Carries(spender[p], n)) \/ \E x \in ledger.sends : x.n = n
      BY <3>1 DEF LedgerInv, SendsInv, Delivered
    <3> QED
      BY <3>2 DEF Lg!Recording, Carries
  <2>2. Cardinality(Lg!SentLately) <= SpendLimit + Cardinality(lost) + Cardinality(Commands) - 1
    BY LatelySent DEF LedgerInv
  <2> QED
    BY <2>1, <2>2, LedgerCountsAre DEF Lg!SendsCounted
<1>2. LedgerInv => Lg!TimeCounted
  BY TimeSaid DEF Lg!TimeCounted
<1>3. LedgerInv => Lg!TypeOK
  <2> SUFFICES ASSUME LedgerInv PROVE Lg!TypeOK
    OBVIOUS
  <2>1. BookOK(ledger, hour, sent) /\ hour \in Nat
    BY DEF LedgerInv, SendsInv, LedgerTyped
  <2>2. ASSUME NEW x \in ledger.sends
        PROVE  x.at \in 1..hour /\ x.n \in Sends
    <3>1. x.at \in Nat /\ x.n \in Sends /\ x.at <= hour /\ sent[x.n] \in 1..x.at
      BY <2>1 DEF BookOK, Book, SendRow
    <3> QED
      BY <2>1, <3>1
  <2>3. ledger.session.id \in Sessions \cup {""} /\ ledger.session.from <= ledger.session.seen
    BY <2>1 DEF BookOK, Book, SessionRow
  <2>4. \A h \in ledger.history : h.from <= h.to /\ h.to <= hour
    BY <2>1 DEF BookOK
  <2> QED
    BY <2>2, <2>3, <2>4 DEF Lg!TypeOK
<1> QED
  BY <1>1, <1>2, <1>3, LedgerInvariant, PTL

(****************************************************************************)
(* The parts, as they run side by side (Parts)                                *)
(****************************************************************************)
(* The part that runs is the one that was chosen.                          *)
LEMMA StaysPut == [PartsNext]_partsVars => part' = part
BY DEF PartsNext, partsVars

(* A part runs by its own specification, or never.                         *)
LEMMA HomeRuns == PartsSpec => Hm!Spec \/ []~(part = "home")
<1>1. PartsInit /\ part = "home" => Hm!Init
  BY DEF PartsInit, Posting, Boarding
<1>2. part = "home" /\ [PartsNext]_partsVars => (part = "home")' /\ [Hm!Next]_(Hm!homeVars)
  BY DEF PartsNext, partsVars, slots, Hm!homeVars, Boarding
<1>3. ~(part = "home") /\ [PartsNext]_partsVars => ~(part = "home")'
  BY StaysPut DEF Boarding
<1> QED
  BY <1>1, <1>2, <1>3, PTL DEF PartsSpec, Hm!Spec

(* So does the setup of a machine.                                         *)
LEMMA SetupRuns == PartsSpec => St!Spec \/ []~(part = "setup")
<1>1. PartsInit /\ part = "setup" => St!Init
  BY DEF PartsInit, Posting, Boarding
<1>2. part = "setup" /\ [PartsNext]_partsVars => (part = "setup")' /\ [St!Next]_(St!setupVars)
  BY DEF PartsNext, partsVars, slots, St!setupVars, Boarding
<1>3. ~(part = "setup") /\ [PartsNext]_partsVars => ~(part = "setup")'
  BY StaysPut DEF Boarding
<1> QED
  BY <1>1, <1>2, <1>3, PTL DEF PartsSpec, St!Spec

(* So does the page of a room.                                             *)
LEMMA PageRuns == PartsSpec => Pg!PageSpec \/ []~(part = "page")
<1>1. PartsInit /\ part = "page" => Pg!PageInit
  BY DEF PartsInit, Posting, Boarding
<1>2. part = "page" /\ [PartsNext]_partsVars => (part = "page")' /\ [Pg!PageNext]_(Pg!pageVars)
  BY DEF PartsNext, partsVars, slots, Pg!pageVars, Boarding
<1>3. ~(part = "page") /\ [PartsNext]_partsVars => ~(part = "page")'
  BY StaysPut DEF Boarding
<1> QED
  BY <1>1, <1>2, <1>3, PTL DEF PartsSpec, Pg!PageSpec

(* So does the address of the shell.                                       *)
LEMMA RouteRuns == PartsSpec => Ct!RouteSpec \/ []~(part = "route")
<1>1. PartsInit /\ part = "route" => Ct!RouteInit
  BY DEF PartsInit, Posting, Boarding
<1>2. part = "route" /\ [PartsNext]_partsVars => (part = "route")' /\ [Ct!RouteNext]_(Ct!routeVars)
  BY DEF PartsNext, partsVars, slots, Ct!routeVars, Boarding
<1>3. ~(part = "route") /\ [PartsNext]_partsVars => ~(part = "route")'
  BY StaysPut DEF Boarding
<1> QED
  BY <1>1, <1>2, <1>3, PTL DEF PartsSpec, Ct!RouteSpec

(* So does the budget of the caller's machine.                             *)
LEMMA LedgerRuns == PartsSpec => Lg!Spec \/ []~(part = "ledger")
<1>1. PartsInit /\ part = "ledger" => Lg!Init
  BY DEF PartsInit, Posting, Boarding
<1>2. part = "ledger" /\ [PartsNext]_partsVars => (part = "ledger")' /\ [Lg!Next]_(Lg!ledgerVars)
  BY DEF PartsNext, partsVars, slots, Lg!ledgerVars, Boarding
<1>3. ~(part = "ledger") /\ [PartsNext]_partsVars => ~(part = "ledger")'
  BY StaysPut DEF Boarding
<1> QED
  BY <1>1, <1>2, <1>3, PTL DEF PartsSpec, Lg!Spec

(* So does a listener, whatever its commands are.                          *)
LEMMA ListeningRuns == PartsSpec => Ls!Spec \/ []~(part = "listening")
<1>1. PartsInit /\ part = "listening" => Ls!Init
  BY DEF PartsInit, Posting, Boarding
<1>2. part = "listening" /\ [PartsNext]_partsVars => (part = "listening")' /\ [Ls!Next]_(Ls!listenVars)
  BY DEF PartsNext, partsVars, slots, Ls!listenVars, Boarding
<1>3. ~(part = "listening") /\ [PartsNext]_partsVars => ~(part = "listening")'
  BY StaysPut DEF Boarding
<1> QED
  BY <1>1, <1>2, <1>3, PTL DEF PartsSpec, Ls!Spec

(* A retry is made under the key of its request, and a home holds one session*)
(* (state.js).                                                             *)
THEOREM RetriedOnceCorrect == PartsSpec => []RetriedOnce
<1>1. Hm!Spec => [](Hm!RetriedOnce /\ Hm!SessionWhole)
  BY RetriedCorrect
<1>2. (part = "home" => (Hm!RetriedOnce /\ Hm!SessionWhole)) => RetriedOnce
  BY DEF RetriedOnce
<1> QED
  BY <1>1, <1>2, HomeRuns, PTL

(* The owner's vault has every agent, and an agent's home is its own       *)
(* (init-apply.js).                                                        *)
THEOREM HomesHoldCorrect == PartsSpec => []HomesHold
<1>1. St!Spec => [](St!HomesHold /\ St!VaultHasAll /\ St!TypeOK)
  BY SetupCorrect
<1>2. (part = "setup" => (St!HomesHold /\ St!VaultHasAll /\ St!TypeOK)) => HomesHold
  BY DEF HomesHold
<1> QED
  BY <1>1, <1>2, SetupRuns, PTL

(* A web shell at rest shows what its URL says, and a room's screen messages*)
(* of that room and session (App.tsx).                                     *)
THEOREM ScreenIsTrueCorrect == PartsSpec => []ScreenIsTrue
<1>1. Ct!RouteSpec => [](Ct!ShownIsUrl /\ Ct!RouteTypeOK)
  BY RouteCorrect, PartsAssumption
<1>2. Pg!PageSpec => []Pg!ScreenIsTrue
  BY ScreenCorrect, PartsAssumption
<1>3. (part = "route" => (Ct!ShownIsUrl /\ Ct!RouteTypeOK)) /\ (part = "page" => Pg!ScreenIsTrue) => ScreenIsTrue
  BY DEF ScreenIsTrue
<1> QED
  BY <1>1, <1>2, <1>3, RouteRuns, PageRuns, PTL

(* An event a listener passes was printed or lost with the page it was on   *)
(* (cli.js listen).                                                         *)
THEOREM NothingMissedCorrect == PartsSpec => []NothingMissed
<1>1. Ls!Spec => []Ls!NothingMissed
  BY MissedCorrect, PartsAssumption
<1>2. (part = "listening" => Ls!NothingMissed) => NothingMissed
  BY DEF NothingMissed
<1> QED
  BY <1>1, <1>2, ListeningRuns, PTL

(* What the client sent and the time its sessions took are in the ledger    *)
(* (budget.js).                                                             *)
THEOREM LedgerCountsCorrect == PartsSpec => []LedgerCounts
<1>1. Lg!Spec => [](Lg!SendsCounted /\ Lg!TimeCounted /\ Lg!TypeOK)
  BY LedgerCorrect, PartsAssumption
<1>2. (part = "ledger" => (Lg!SendsCounted /\ Lg!TimeCounted /\ Lg!TypeOK)) => LedgerCounts
  BY DEF LedgerCounts
<1> QED
  BY <1>1, <1>2, LedgerRuns, PTL
==============================================================================
