------------------------ MODULE KnowledgeReviewProofs ------------------------
(***************************************************************************)
(* A version of a card is confirmed only on the word of Threshold          *)
(* independent owners, the canonical version only moves on, and the search *)
(* filter agrees with the card's status, for any set of agents and owners  *)
(* and any number of overlapping reviews, rollbacks and restrictions.      *)
(***************************************************************************)
EXTENDS KnowledgeReview, FiniteSetTheorems, WellFoundedInduction, TLAPS

(* The owner a review adds to those that vouched for its version.          *)
Adds(a) == IF tx[a].verdict = "confirm" /\ ~Affiliated(a) THEN {OwnerOf[a]} ELSE {}

(* Every confirmation by an independent agent is remembered; a review that *)
(* counted a quorum has the owners for it, its own among them.             *)
EarnedInv ==
  /\ TypeOK
  /\ CanonicalEarned
  /\ \A v \in Versions : OwnerOf[Author] \notin vouched[v]
  /\ \A v \in Versions, a \in Agents :
       verdicts[v][a] = "confirm" /\ ~Affiliated(a) => OwnerOf[a] \in vouched[v]
  /\ \A a \in Agents :
       tx[a].phase = "counted" /\ tx[a].quorum =>
         Cardinality(vouched[tx[a].version] \cup Adds(a)) >= Threshold
  /\ \A a \in Agents : tx[a].phase # "idle" => tx[a].version \in 1..latest

(* The type of tx.                                                         *)
Attempts == [Agents -> [phase: {"idle", "admitted", "counted"}, version: {0} \cup Versions,
                        verdict: Verdicts \cup {"none"}, quorum: BOOLEAN]]

USE ReviewAssumption DEF Versions, Verdicts

-----------------------------------------------------------------------------
(* A set of owners is no larger than a set of owners that contains it. *)
LEMMA MoreOwners ==
  ASSUME NEW S \in SUBSET Owners, NEW T \in SUBSET Owners, S \subseteq T
  PROVE  /\ Cardinality(S) \in Nat /\ Cardinality(T) \in Nat
         /\ Cardinality(S) <= Cardinality(T)
<1>1. IsFiniteSet(T) BY FS_Subset
<1>2. IsFiniteSet(S) BY FS_Subset
<1> QED BY <1>1, <1>2, FS_Subset, FS_CardinalityType

(* What a review counts is covered by what is remembered and by itself. *)
LEMMA CountedVouched ==
  ASSUME EarnedInv, NEW a \in Agents, tx[a].phase = "admitted"
  PROVE  LET rows == [verdicts[tx[a].version] EXCEPT ![a] = tx[a].verdict] IN
         Cardinality(Confirmers(rows)) >= Threshold =>
           Cardinality(vouched[tx[a].version] \cup Adds(a)) >= Threshold
<1> DEFINE v == tx[a].version
           rows == [verdicts[v] EXCEPT ![a] = tx[a].verdict]
           S == Confirmers(rows)
           T == vouched[v] \cup Adds(a)
<1>1. v \in Versions BY DEF EarnedInv, TypeOK
<1>2. S \subseteq T
  <2> SUFFICES ASSUME NEW o \in S PROVE o \in T OBVIOUS
  <2>1. PICK b \in Agents : rows[b] = "confirm" /\ ~Affiliated(b) /\ OwnerOf[b] = o
    BY DEF Confirmers, OwnersSaying, Counted
  <2>2. CASE b = a
    <3>1. tx[a].verdict = "confirm" BY <1>1, <2>1, <2>2 DEF EarnedInv, TypeOK
    <3> QED BY <2>1, <2>2, <3>1 DEF Adds
  <2>3. CASE b # a
    <3>1. verdicts[v][b] = "confirm" BY <1>1, <2>1, <2>3 DEF EarnedInv, TypeOK
    <3> QED BY <1>1, <2>1, <3>1 DEF EarnedInv
  <2> QED BY <2>2, <2>3
<1>3. T \in SUBSET Owners BY <1>1 DEF EarnedInv, TypeOK, Adds
<1>4. S \in SUBSET Owners BY <1>2, <1>3
<1> HIDE DEF S, T
<1>5. Cardinality(S) \in Nat /\ Cardinality(T) \in Nat /\ Cardinality(S) <= Cardinality(T)
  BY <1>2, <1>3, <1>4, MoreOwners
<1>6. Cardinality(S) >= Threshold => Cardinality(T) >= Threshold BY <1>5
<1> QED BY <1>6 DEF S, T

(* The start: nothing is confirmed, nothing is under way. *)
LEMMA EarnedInit == Init => EarnedInv
BY DEF Init, EarnedInv, TypeOK, CanonicalEarned, Idle

(* A step that leaves the rows alone and starts or drops reviews. *)
LEMMA QuietEarned ==
  ASSUME EarnedInv, UNCHANGED <<verdicts, confirmedAt, vouched>>,
         latest' \in Versions, latest <= latest',
         barredAgents' \subseteq Agents, barredOwners' \subseteq Owners,
         tx' \in Attempts,
         \A a \in Agents : \/ tx'[a] = tx[a]
                           \/ tx'[a].phase = "idle"
                           \/ tx'[a].phase = "admitted" /\ tx'[a].version \in 1..latest
  PROVE  EarnedInv'
<1>1. TypeOK'
  <2>1. \A v \in Versions : v <= latest => v <= latest' BY DEF EarnedInv, TypeOK
  <2> QED BY <2>1 DEF EarnedInv, TypeOK, Attempts
<1>2. CanonicalEarned' BY DEF EarnedInv, CanonicalEarned
<1>3. \A a \in Agents :
        tx'[a].phase = "counted" /\ tx'[a].quorum =>
          Cardinality(vouched[tx'[a].version] \cup Adds(a)') >= Threshold
  BY DEF EarnedInv, Adds, Affiliated
<1>4. \A a \in Agents : tx'[a].phase # "idle" => tx'[a].version \in 1..latest'
  BY DEF EarnedInv, TypeOK
<1>5. \A v \in Versions, a \in Agents :
       verdicts'[v][a] = "confirm" /\ ~Affiliated(a)' => OwnerOf[a] \in vouched'[v]
  BY DEF EarnedInv, Affiliated
<1> QED BY <1>1, <1>2, <1>3, <1>4, <1>5 DEF EarnedInv

(* A review that counts a quorum has it. *)
LEMMA CountEarned == ASSUME EarnedInv, NEW a \in Agents, Count(a) PROVE EarnedInv'
<1> DEFINE rows == [verdicts[tx[a].version] EXCEPT ![a] = tx[a].verdict]
<1>1. tx' = [tx EXCEPT ![a] = [@ EXCEPT !.phase = "counted",
                 !.quorum = Cardinality(Confirmers(rows)) >= Threshold]]
      /\ tx[a].phase = "admitted"
      /\ UNCHANGED <<latest, verdicts, confirmedAt, barredAgents, barredOwners, vouched>>
  BY DEF Count
<1>2. Cardinality(Confirmers(rows)) >= Threshold =>
        Cardinality(vouched[tx[a].version] \cup Adds(a)) >= Threshold
  BY <1>1, CountedVouched
<1> HIDE DEF rows
<1>3. tx'[a].quorum = (Cardinality(Confirmers(rows)) >= Threshold)
      /\ tx'[a].version = tx[a].version /\ tx'[a].verdict = tx[a].verdict
  BY <1>1 DEF EarnedInv, TypeOK
<1>4. \A b \in Agents : b # a => tx'[b] = tx[b] BY <1>1 DEF EarnedInv, TypeOK
<1>5. TypeOK'
  <2> DEFINE q == Cardinality(Confirmers(rows)) >= Threshold
  <2>1. q \in BOOLEAN OBVIOUS
  <2>2. tx' = [tx EXCEPT ![a] = [@ EXCEPT !.phase = "counted", !.quorum = q]]
    BY <1>1
  <2> HIDE DEF q
  <2>3. tx' \in Attempts BY <2>1, <2>2, ZenonT(30) DEF Attempts, EarnedInv, TypeOK
  <2> QED BY <1>1, <2>3 DEF EarnedInv, TypeOK, Attempts
<1>6. CanonicalEarned' BY <1>1 DEF EarnedInv, CanonicalEarned
<1>7. \A b \in Agents : Adds(b)' = Adds(b)
  BY <1>3, <1>4 DEF Adds, Affiliated
<1>8. \A b \in Agents :
        tx'[b].phase = "counted" /\ tx'[b].quorum =>
          Cardinality(vouched'[tx'[b].version] \cup Adds(b)') >= Threshold
  BY <1>1, <1>2, <1>3, <1>4, <1>7, ZenonT(30) DEF EarnedInv
<1>9. \A b \in Agents : tx'[b].phase # "idle" => tx'[b].version \in 1..latest'
  BY <1>1, <1>3, <1>4 DEF EarnedInv
<1> QED BY <1>1, <1>5, <1>6, <1>8, <1>9 DEF EarnedInv, Affiliated

(* The commit records the verdict and, on a quorum, the confirmation. *)
LEMMA CommitEarned == ASSUME EarnedInv, NEW a \in Agents, Commit(a) PROVE EarnedInv'
<1> DEFINE v == tx[a].version
<1>1. v \in Versions /\ v \in 1..latest /\ tx[a].verdict \in Verdicts \cup {"none"}
  BY DEF Commit, EarnedInv, TypeOK
<1>2. \A w \in Versions : vouched'[w] = IF w = v THEN vouched[w] \cup Adds(a) ELSE vouched[w]
  BY <1>1 DEF Commit, EarnedInv, TypeOK, Adds
<1>3. Adds(a) \subseteq Owners /\ OwnerOf[Author] \notin Adds(a) BY DEF Adds, Affiliated
<1>4. vouched' \in [Versions -> SUBSET Owners]
  <2>1. vouched' = IF tx[a].verdict = "confirm" /\ ~Affiliated(a)
                   THEN [vouched EXCEPT ![v] = @ \cup {OwnerOf[a]}] ELSE vouched
    BY DEF Commit
  <2> QED BY <1>1, <2>1 DEF EarnedInv, TypeOK
<1>5. \A w \in Versions : vouched[w] \subseteq vouched'[w] BY <1>2
<1>6. verdicts' = [verdicts EXCEPT ![v] = [@ EXCEPT ![a] = tx[a].verdict]] BY DEF Commit
<1>7. confirmedAt' = IF tx[a].quorum THEN confirmedAt \cup {v} ELSE confirmedAt BY DEF Commit
<1>8. tx' = [tx EXCEPT ![a] = Idle] /\ UNCHANGED <<latest, barredAgents, barredOwners>>
      /\ tx[a].phase = "counted"
  BY DEF Commit
<1>9. TypeOK'
  <2>1. verdicts' \in [Versions -> [Agents -> Verdicts \cup {"none"}]]
    <3> DEFINE row == [verdicts[v] EXCEPT ![a] = tx[a].verdict]
    <3>1. row \in [Agents -> Verdicts \cup {"none"}] BY <1>1 DEF EarnedInv, TypeOK
    <3>2. verdicts' = [verdicts EXCEPT ![v] = row] BY <1>6
    <3> HIDE DEF row
    <3> QED BY <1>1, <3>1, <3>2 DEF EarnedInv, TypeOK
  <2>2. tx' \in Attempts BY <1>8 DEF Attempts, EarnedInv, TypeOK, Idle
  <2>3. \A w \in Versions : w # v => verdicts'[w] = verdicts[w]
    <3> HIDE DEF v
    <3> QED BY <1>6 DEF EarnedInv, TypeOK
  <2>4. \A w \in Versions : (\E b \in Agents : verdicts'[w][b] # "none") => w <= latest
    BY <1>1, <2>3 DEF EarnedInv, TypeOK
  <2>5. confirmedAt' \subseteq Versions /\ \A w \in confirmedAt' : w <= latest
    <3>1. confirmedAt \subseteq Versions /\ \A w \in confirmedAt : w <= latest
      BY DEF EarnedInv, TypeOK
    <3>2. v \in Versions /\ v <= latest BY <1>1 DEF EarnedInv, TypeOK
    <3>3. confirmedAt' = confirmedAt \/ confirmedAt' = confirmedAt \cup {v} BY <1>7
    <3> HIDE DEF v
    <3> QED BY <3>1, <3>2, <3>3
  <2> QED BY <1>4, <1>8, <2>1, <2>2, <2>4, <2>5 DEF EarnedInv, TypeOK, Attempts
<1>10. \A w \in Versions : OwnerOf[Author] \notin vouched'[w]
  BY <1>2, <1>3 DEF EarnedInv
<1>11. \A w \in Versions : Cardinality(vouched[w]) >= Threshold => Cardinality(vouched'[w]) >= Threshold
  <2> SUFFICES ASSUME NEW w \in Versions, Cardinality(vouched[w]) >= Threshold
               PROVE  Cardinality(vouched'[w]) >= Threshold
    OBVIOUS
  <2>1. vouched[w] \in SUBSET Owners /\ vouched'[w] \in SUBSET Owners
    BY <1>4 DEF EarnedInv, TypeOK
  <2>2. vouched[w] \subseteq vouched'[w] BY <1>5
  <2> HIDE DEF v
  <2> QED BY <2>1, <2>2, MoreOwners
<1>12. CanonicalEarned'
  <2> SUFFICES ASSUME NEW w \in confirmedAt'
               PROVE  OwnerOf[Author] \notin vouched'[w] /\ Cardinality(vouched'[w]) >= Threshold
    BY DEF CanonicalEarned
  <2>1. w \in Versions BY <1>1, <1>7 DEF EarnedInv, TypeOK
  <2>2. CASE w \in confirmedAt
    BY <1>10, <1>11, <2>1, <2>2 DEF EarnedInv, CanonicalEarned
  <2>3. CASE w = v /\ tx[a].quorum
    <3>1. Cardinality(vouched[v] \cup Adds(a)) >= Threshold
      BY <1>8, <2>3 DEF EarnedInv
    <3>2. vouched'[v] = vouched[v] \cup Adds(a) BY <1>1, <1>2
    <3> QED BY <1>10, <2>1, <2>3, <3>1, <3>2
  <2> QED BY <1>7, <2>2, <2>3
<1>13. \A w \in Versions, b \in Agents :
         verdicts'[w][b] = "confirm" /\ ~Affiliated(b) => OwnerOf[b] \in vouched'[w]
  <2> SUFFICES ASSUME NEW w \in Versions, NEW b \in Agents,
                      verdicts'[w][b] = "confirm", ~Affiliated(b)
               PROVE  OwnerOf[b] \in vouched'[w]
    OBVIOUS
  <2>1. CASE w = v /\ b = a
    <3>1. tx[a].verdict = "confirm" BY <1>1, <1>6, <2>1 DEF EarnedInv, TypeOK
    <3>2. OwnerOf[a] \in Adds(a) BY <2>1, <3>1 DEF Adds
    <3> QED BY <1>2, <2>1, <3>2
  <2>2. CASE w # v \/ b # a
    <3>1. verdicts[w][b] = "confirm" BY <1>1, <1>6, <2>2 DEF EarnedInv, TypeOK
    <3> QED BY <1>5, <3>1 DEF EarnedInv
  <2> QED BY <2>1, <2>2
<1>14. \A b \in Agents : b # a => tx'[b] = tx[b] BY <1>8 DEF EarnedInv, TypeOK
<1>15. tx'[a].phase = "idle" BY <1>8 DEF EarnedInv, TypeOK, Idle
<1>16. ASSUME NEW b \in Agents, tx'[b].phase = "counted", tx'[b].quorum
       PROVE  Cardinality(vouched'[tx'[b].version] \cup Adds(b)') >= Threshold
  <2>1. b # a /\ tx'[b] = tx[b] BY <1>14, <1>15, <1>16
  <2> DEFINE w == tx[b].version
             S == vouched[w] \cup Adds(b)
             T == vouched'[w] \cup Adds(b)
  <2>2. w \in Versions BY <1>16, <2>1 DEF EarnedInv, TypeOK
  <2>3. Adds(b)' = Adds(b) BY <2>1 DEF Adds, Affiliated
  <2>4. Cardinality(S) >= Threshold BY <1>16, <2>1 DEF EarnedInv
  <2>5. S \subseteq T BY <1>5, <2>2
  <2>6. S \in SUBSET Owners /\ T \in SUBSET Owners
    BY <1>4, <2>2 DEF EarnedInv, TypeOK, Adds
  <2>7. vouched'[tx'[b].version] \cup Adds(b)' = T BY <2>1, <2>3
  <2> HIDE DEF S, T
  <2>8. Cardinality(T) >= Threshold BY <2>4, <2>5, <2>6, MoreOwners
  <2> QED BY <2>7, <2>8
<1>17. \A b \in Agents : tx'[b].phase # "idle" => tx'[b].version \in 1..latest'
  BY <1>8, <1>14, <1>15 DEF EarnedInv
<1> QED BY <1>9, <1>10, <1>12, <1>13, <1>16, <1>17 DEF EarnedInv, Affiliated

(* Every step keeps the invariant. *)
LEMMA EarnedNext == ASSUME EarnedInv, [Next]_vars PROVE EarnedInv'
<1>0. /\ tx \in Attempts /\ latest \in Versions
      /\ barredAgents \subseteq Agents /\ barredOwners \subseteq Owners
  BY DEF EarnedInv, TypeOK, Attempts
<1>1. CASE UNCHANGED vars BY <1>0, <1>1, QuietEarned DEF vars
<1>2. ASSUME NEW a \in Agents, NEW v \in Versions, NEW verdict \in Verdicts,
             Admit(a, v, verdict)
      PROVE  EarnedInv'
  <2> DEFINE t == [Idle EXCEPT !.phase = "admitted", !.version = v, !.verdict = verdict]
  <2>1. t \in [phase: {"idle", "admitted", "counted"}, version: {0} \cup Versions,
               verdict: Verdicts \cup {"none"}, quorum: BOOLEAN]
        /\ t.phase = "admitted" /\ t.version = v
    BY DEF Idle
  <2>2. tx' = [tx EXCEPT ![a] = t] BY <1>2 DEF Admit
  <2> HIDE DEF t
  <2>3. tx' \in Attempts BY <1>0, <2>1, <2>2 DEF Attempts
  <2>4. \A b \in Agents : tx'[b] = IF b = a THEN t ELSE tx[b] BY <1>0, <2>2 DEF Attempts
  <2>5. v \in 1..latest BY <1>0, <1>2 DEF Admit
  <2> QED BY <1>0, <1>2, <2>1, <2>3, <2>4, <2>5, QuietEarned DEF Admit
<1>3. ASSUME NEW a \in Agents, Count(a) PROVE EarnedInv' BY <1>3, CountEarned
<1>4. ASSUME NEW a \in Agents, Commit(a) PROVE EarnedInv' BY <1>4, CommitEarned
<1>5. ASSUME NEW a \in Agents, Rollback(a) PROVE EarnedInv'
  <2>1. tx' = [tx EXCEPT ![a] = Idle] BY <1>5 DEF Rollback
  <2>2. tx' \in Attempts BY <1>0, <2>1 DEF Attempts, Idle
  <2>3. \A b \in Agents : tx'[b] = tx[b] \/ tx'[b].phase = "idle"
    BY <1>0, <2>1 DEF Attempts, Idle
  <2> QED BY <1>0, <1>5, <2>2, <2>3, QuietEarned DEF Rollback
<1>6. ASSUME NEW a \in Agents, BarAgent(a) PROVE EarnedInv'
  <2>1. barredAgents' \subseteq Agents BY <1>0, <1>6 DEF BarAgent
  <2> QED BY <1>0, <1>6, <2>1, QuietEarned DEF BarAgent
<1>7. ASSUME NEW o \in Owners, BarOwner(o) PROVE EarnedInv'
  <2>1. barredOwners' \subseteq Owners BY <1>0, <1>7 DEF BarOwner
  <2> QED BY <1>0, <1>7, <2>1, QuietEarned DEF BarOwner
<1>8. CASE NewVersion
  <2>1. latest' \in Versions /\ latest <= latest' BY <1>0, <1>8 DEF NewVersion
  <2> QED BY <1>0, <1>8, <2>1, QuietEarned DEF NewVersion
<1> QED BY <1>1, <1>2, <1>3, <1>4, <1>5, <1>6, <1>7, <1>8 DEF Next

(* A version becomes canonical only when Threshold independent owners have *)
(* each confirmed it. *)
THEOREM CanonicalEarnedCorrect == Spec => []CanonicalEarned
<1>1. Init => EarnedInv BY EarnedInit
<1>2. EarnedInv /\ [Next]_vars => EarnedInv' BY EarnedNext
<1>3. EarnedInv => CanonicalEarned BY DEF EarnedInv
<1> QED BY <1>1, <1>2, <1>3, PTL DEF Spec

-----------------------------------------------------------------------------
(* A set of version numbers that is not empty has a latest one. *)
LEMMA LatestExists ==
  ASSUME NEW S \in SUBSET Versions, S # {}
  PROVE  \E v \in S : \A w \in S : w <= v
<1> DEFINE older == OpToRel(<, Nat)
           below == {n \in Nat : MaxVersion - n \in S}
<1>1. \A v \in S : MaxVersion - v \in below
  OBVIOUS
<1>2. below # {} /\ below \subseteq Nat
  BY <1>1
<1>3. IsWellFoundedOn(older, Nat)
  BY NatLessThanWellFounded
<1>4. PICK n \in below : \A m \in below : ~(<<m, n>> \in older)
  <2> HIDE DEF older, below
  <2> QED
    BY <1>2, <1>3, WFMin
<1>5. \A m \in below : ~(m < n)
  BY <1>4 DEF OpToRel
<1>6. MaxVersion - n \in S /\ n \in Nat
  OBVIOUS
<1>7. \A w \in S : w <= MaxVersion - n
  BY <1>1, <1>5, <1>6
<1> QED
  BY <1>6, <1>7

(* The canonical version is the latest confirmed one. *)
CanonicalLatest ==
  /\ Canonical \in {0} \cup Versions
  /\ Canonical = 0 <=> confirmedAt = {}
  /\ \A w \in confirmedAt : w <= Canonical
  /\ confirmedAt # {} => Canonical \in confirmedAt

(* It is so whenever the rows have their types.                            *)
LEMMA CanonicalIsLatest == TypeOK => CanonicalLatest
<1> SUFFICES ASSUME TypeOK PROVE CanonicalLatest
  OBVIOUS
<1>1. CASE confirmedAt = {}
  BY <1>1 DEF Canonical, CanonicalLatest
<1>2. CASE confirmedAt # {}
  <2>1. confirmedAt \subseteq Versions
    BY DEF TypeOK
  <2>2. \E v \in confirmedAt : \A w \in confirmedAt : w <= v
    BY <1>2, <2>1, LatestExists
  <2>3. Canonical \in confirmedAt /\ \A w \in confirmedAt : w <= Canonical
    BY <1>2, <2>2 DEF Canonical
  <2> QED
    BY <1>2, <2>1, <2>3 DEF CanonicalLatest
<1> QED
  BY <1>1, <1>2

(* No step takes a confirmation back. *)
LEMMA ConfirmedGrows == [Next]_vars => confirmedAt \subseteq confirmedAt'
BY DEF Next, Admit, Count, Commit, Rollback, BarAgent, NewVersion, BarOwner, vars

(* No step makes an older version canonical again. *)
LEMMA CanonicalStep ==
  ASSUME TypeOK, TypeOK', [Next]_vars
  PROVE  Canonical' >= Canonical
<1> DEFINE old == Canonical
           new == Canonical'
<1>1. /\ old \in {0} \cup Versions
      /\ old = 0 \/ old \in confirmedAt
  BY CanonicalIsLatest DEF CanonicalLatest
<1>a. CanonicalLatest'
  BY CanonicalIsLatest, PTL
<1>2. /\ new \in {0} \cup Versions
      /\ \A w \in confirmedAt' : w <= new
  BY <1>a DEF CanonicalLatest
<1>3. confirmedAt \subseteq confirmedAt'
  BY ConfirmedGrows
<1> HIDE DEF old, new
<1>4. new >= old
  BY <1>1, <1>2, <1>3
<1> QED
  BY <1>4 DEF old, new

(* In every behaviour the canonical version of the card only moves on.     *)
THEOREM AdvanceCorrect == Spec => CanonicalAdvances
<1>1. Init => EarnedInv
  BY EarnedInit
<1>2. EarnedInv /\ [Next]_vars => EarnedInv'
  BY EarnedNext
<1>3. EarnedInv /\ EarnedInv' /\ [Next]_vars => [Canonical' >= Canonical]_vars
  BY CanonicalStep DEF EarnedInv
<1> QED
  BY <1>1, <1>2, <1>3, PTL DEF Spec, CanonicalAdvances

-----------------------------------------------------------------------------
(* The search and the card count the same confirmations, unless a          *)
(* restricted agent refutes what another agent of its owner confirms: an   *)
(* owner the SQL leaves out and the quorum keeps has such a refuter.       *)
LEMMA SameConfirmers ==
  ASSUME NEW rows, ~Split(rows)
  PROVE  SqlConfirmers(rows) = Confirmers(rows)
<1>1. ASSUME NEW o \in SqlConfirmers(rows) PROVE o \in Confirmers(rows)
  <2>1. o \in OwnersSaying(rows, "confirm")
    BY <1>1 DEF SqlConfirmers
  <2>2. o \notin OwnersSaying(rows, "refute")
    BY <1>1 DEF SqlConfirmers, OwnersSaying, Counted
  <2> QED
    BY <2>1, <2>2 DEF Confirmers, Refuters
<1>2. ASSUME NEW o \in Confirmers(rows) PROVE o \in SqlConfirmers(rows)
  <2>1. o \in OwnersSaying(rows, "confirm") /\ o \notin OwnersSaying(rows, "refute")
    BY <1>2 DEF Confirmers, Refuters
  <2>2. PICK a \in Counted(rows) : rows[a] = "confirm" /\ OwnerOf[a] = o
    BY <2>1 DEF OwnersSaying
  <2>3. a \in Agents /\ ~Affiliated(a)
    BY <2>2 DEF Counted
  <2>4. ASSUME NEW b \in Agents, OwnerOf[b] = o, rows[b] = "refute" PROVE FALSE
    <3>1. b \notin Counted(rows)
      BY <2>1, <2>4 DEF OwnersSaying
    <3>2. ~Affiliated(b)
      BY <2>2, <2>3, <2>4 DEF Affiliated
    <3>3. Barred(b)
      BY <2>4, <3>1, <3>2 DEF Counted
    <3> QED
      BY <2>2, <2>3, <2>4, <3>3 DEF Split
  <2> QED
    BY <2>1, <2>4 DEF SqlConfirmers
<1> QED
  BY <1>1, <1>2

(* In every state the filter and the card's status agree on what is        *)
(* refuted, up to that case.                                               *)
LEMMA FilterHolds == TypeOK => FilterAgrees
<1> SUFFICES ASSUME TypeOK, ~Split(verdicts[latest])
             PROVE  Evicted <=> CardStatus = "refuted"
  BY DEF FilterAgrees
<1> DEFINE refuters == Refuters(verdicts[latest])
           confirmers == Confirmers(verdicts[latest])
<1>1. SqlConfirmers(verdicts[latest]) = confirmers
  BY SameConfirmers
<1>2. Canonical = 0 <=> confirmedAt = {}
  BY CanonicalIsLatest DEF CanonicalLatest
<1>3. VersionStatus(latest) = "refuted" <=>
        RefutedBy(Cardinality(refuters), Cardinality(confirmers))
  BY DEF VersionStatus
<1>4. CardStatus = "refuted" <=> Canonical = 0 /\ VersionStatus(latest) = "refuted"
  BY DEF CardStatus
<1>5. Evicted <=> confirmedAt = {} /\ RefutedBy(Cardinality(refuters), Cardinality(confirmers))
  BY <1>1 DEF Evicted
<1> QED
  BY <1>2, <1>3, <1>4, <1>5

(* In every behaviour the default search hides a card exactly when the     *)
(* card's own status says refuted, unless a restricted agent's refutation  *)
(* faces a confirmation by another agent of its owner.                     *)
THEOREM FilterCorrect == Spec => []FilterAgrees
<1>1. Init => EarnedInv
  BY EarnedInit
<1>2. EarnedInv /\ [Next]_vars => EarnedInv'
  BY EarnedNext
<1>3. EarnedInv => FilterAgrees
  BY FilterHolds DEF EarnedInv
<1> QED
  BY <1>1, <1>2, <1>3, PTL DEF Spec
=============================================================================
