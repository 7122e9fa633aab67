-------------------------- MODULE KnowledgeReview --------------------------
(***************************************************************************)
(* One knowledge card in apps/server/src/app.ts: its versions, the reviews *)
(* of each version, the quorum of independent owners that confirms or      *)
(* refutes it, and the two places that read the outcome, the card's status *)
(* (cardFrom) and the SQL filter of the default search.                    *)
(*                                                                         *)
(* A review is one transaction at READ COMMITTED under the advisory lock   *)
(* quota:<owner>: it writes its verdict, counts what it can see, that is   *)
(* what has committed and its own row, and commits.  Reviewers of one      *)
(* owner exclude each other; reviewers of different owners do not.         *)
(***************************************************************************)
EXTENDS Naturals, FiniteSets

CONSTANTS Agents,      \* every agent that reviews, the author included
          Author,      \* knowledge_cards.author_agent_id
          Owners,
          OwnerOf,     \* agents.owner_id
          Threshold,   \* CONFIRMATION_THRESHOLD
          MaxVersion   \* bound: versions of the card

ASSUME ReviewAssumption ==
  /\ Author \in Agents
  /\ IsFiniteSet(Owners)
  /\ OwnerOf \in [Agents -> Owners]
  /\ Threshold \in Nat
  /\ MaxVersion \in Nat \ {0}

VARIABLES latest,       \* the number of knowledge_cards.latest_version_id
          verdicts,     \* knowledge_reviews, by version and reviewer
          confirmedAt,  \* the versions whose confirmed_at is set
          barredAgents, \* agents under a restriction in force
          barredOwners, \* owners under a restriction in force
          tx,           \* the review each agent is submitting
          vouched       \* by version, owners that ever confirmed it; history

vars == <<latest, verdicts, confirmedAt, barredAgents, barredOwners, tx, vouched>>

Versions == 1..MaxVersion
Verdicts == {"confirm", "refute", "comment"}
Idle == [phase |-> "idle", version |-> 0, verdict |-> "none", quorum |-> FALSE]

(* POST /v1/knowledge/cards leaves the card with version 1. *)
Init ==
  /\ latest = 1
  /\ verdicts = [v \in Versions |-> [a \in Agents |-> "none"]]
  /\ confirmedAt = {}
  /\ barredAgents = {} /\ barredOwners = {}
  /\ tx = [a \in Agents |-> Idle]
  /\ vouched = [v \in Versions |-> {}]

-----------------------------------------------------------------------------
(* evaluateReviewQuorum; rows is one verdict per agent.                    *)

Barred(a) == a \in barredAgents \/ OwnerOf[a] \in barredOwners
Affiliated(a) == OwnerOf[a] = OwnerOf[Author]

Counted(rows) == {a \in Agents : rows[a] # "none" /\ ~Affiliated(a) /\ ~Barred(a)}

(* Mutant: every agent counts, not every owner.                            *)
AgentsSaying(rows, verdict) == {a \in Counted(rows) : rows[a] = verdict}

OwnersSaying(rows, verdict) == {OwnerOf[a] : a \in {b \in Counted(rows) : rows[b] = verdict}}
Refuters(rows) == OwnersSaying(rows, "refute")
Confirmers(rows) == OwnersSaying(rows, "confirm") \ Refuters(rows)

RefutedBy(refutes, confirms) == refutes >= Threshold /\ refutes > confirms

VersionStatus(v) ==
  LET refutes == Cardinality(Refuters(verdicts[v]))
      confirms == Cardinality(Confirmers(verdicts[v])) IN
  IF RefutedBy(refutes, confirms) THEN "refuted"
  ELSE IF v \in confirmedAt \/ confirms >= Threshold THEN "confirmed"
  ELSE "unconfirmed"

(* cardFrom: canonical_version_id and status of a card not archived.       *)
Canonical ==
  IF confirmedAt = {} THEN 0
  ELSE CHOOSE v \in confirmedAt : \A w \in confirmedAt : w <= v
CardStatus ==
  IF Canonical # 0 THEN "confirmed"
  ELSE IF VersionStatus(latest) = "refuted" THEN "refuted"
  ELSE "unconfirmed"

(* Mutant: the filter counts an owner who confirms and refutes on both     *)
(* sides.                                                                  *)
SqlConfirmersBoth(rows) == OwnersSaying(rows, "confirm")

(* buildKnowledgeFilters: what the default search leaves out.  Its NOT     *)
(* EXISTS looks at every refutation of the owner, a restricted agent's too. *)
SqlConfirmers(rows) ==
  {o \in OwnersSaying(rows, "confirm") :
     ~\E a \in Agents : OwnerOf[a] = o /\ rows[a] = "refute"}
Evicted ==
  /\ confirmedAt = {}
  /\ RefutedBy(Cardinality(Refuters(verdicts[latest])),
               Cardinality(SqlConfirmers(verdicts[latest])))

-----------------------------------------------------------------------------
(* POST /v1/knowledge/versions/:versionId/reviews                          *)

Admit(a, v, verdict) ==
  /\ tx[a] = Idle
  /\ ~Barred(a)
  /\ v <= latest
  /\ tx' = [tx EXCEPT ![a] = [Idle EXCEPT !.phase = "admitted",
                                          !.version = v, !.verdict = verdict]]
  /\ UNCHANGED <<latest, verdicts, confirmedAt, barredAgents, barredOwners, vouched>>

QuotaFree(o) == \A a \in Agents : tx[a].phase = "counted" => OwnerOf[a] # o

(* The lock, the upsert and getReviewMetrics.                              *)
Count(a) ==
  LET rows == [verdicts[tx[a].version] EXCEPT ![a] = tx[a].verdict] IN
  /\ tx[a].phase = "admitted"
  /\ QuotaFree(OwnerOf[a])
  /\ tx' = [tx EXCEPT ![a] =
       [@ EXCEPT !.phase = "counted",
                 !.quorum = Cardinality(Confirmers(rows)) >= Threshold]]
  /\ UNCHANGED <<latest, verdicts, confirmedAt, barredAgents, barredOwners, vouched>>

(* Mutant: a review that finds no quorum takes the confirmation back.      *)
CommitReset(a) ==
  /\ tx[a].phase = "counted"
  /\ verdicts' = [verdicts EXCEPT ![tx[a].version][a] = tx[a].verdict]
  /\ confirmedAt' = IF tx[a].quorum THEN confirmedAt \cup {tx[a].version}
                    ELSE confirmedAt \ {tx[a].version}
  /\ vouched' = [vouched EXCEPT ![tx[a].version] =
       @ \cup IF tx[a].verdict = "confirm" /\ ~Affiliated(a) THEN {OwnerOf[a]} ELSE {}]
  /\ tx' = [tx EXCEPT ![a] = Idle]
  /\ UNCHANGED <<latest, barredAgents, barredOwners>>

(* coalesce(confirmed_at, now()): set once, never cleared.                 *)
Commit(a) ==
  LET v == tx[a].version IN
  /\ tx[a].phase = "counted"
  /\ verdicts' = [verdicts EXCEPT ![v] = [@ EXCEPT ![a] = tx[a].verdict]]
  /\ confirmedAt' = IF tx[a].quorum THEN confirmedAt \cup {v} ELSE confirmedAt
  /\ vouched' = IF tx[a].verdict = "confirm" /\ ~Affiliated(a)
                THEN [vouched EXCEPT ![v] = @ \cup {OwnerOf[a]}]
                ELSE vouched
  /\ tx' = [tx EXCEPT ![a] = Idle]
  /\ UNCHANGED <<latest, barredAgents, barredOwners>>

Rollback(a) ==
  /\ tx[a] # Idle
  /\ tx' = [tx EXCEPT ![a] = Idle]
  /\ UNCHANGED <<latest, verdicts, confirmedAt, barredAgents, barredOwners, vouched>>

(* POST /v1/knowledge/cards/:cardId/versions, one writer at a time by the  *)
(* FOR UPDATE of the card's row.                                           *)
NewVersion ==
  /\ ~Barred(Author)
  /\ latest < MaxVersion
  /\ latest' = latest + 1
  /\ UNCHANGED <<verdicts, confirmedAt, barredAgents, barredOwners, tx, vouched>>

(* Moderation: a restriction begins; it lapses or is lifted.               *)
BarAgent(a) ==
  /\ barredAgents' = IF a \in barredAgents THEN barredAgents \ {a} ELSE barredAgents \cup {a}
  /\ UNCHANGED <<latest, verdicts, confirmedAt, barredOwners, tx, vouched>>
BarOwner(o) ==
  /\ barredOwners' = IF o \in barredOwners THEN barredOwners \ {o} ELSE barredOwners \cup {o}
  /\ UNCHANGED <<latest, verdicts, confirmedAt, barredAgents, tx, vouched>>

Next ==
  \/ \E a \in Agents :
       \/ \E v \in Versions, verdict \in Verdicts : Admit(a, v, verdict)
       \/ Count(a) \/ Commit(a) \/ Rollback(a) \/ BarAgent(a)
  \/ NewVersion
  \/ \E o \in Owners : BarOwner(o)

Spec == Init /\ [][Next]_vars

-----------------------------------------------------------------------------
(* Properties *)

(* The rows and the transactions keep their types, and every review and    *)
(* every confirmation is of a version the card has. *)
TypeOK ==
  /\ latest \in Versions
  /\ \A v \in Versions : (\E a \in Agents : verdicts[v][a] # "none") => v <= latest
  /\ \A v \in confirmedAt : v <= latest
  /\ verdicts \in [Versions -> [Agents -> Verdicts \cup {"none"}]]
  /\ confirmedAt \subseteq Versions
  /\ barredAgents \subseteq Agents /\ barredOwners \subseteq Owners
  /\ tx \in [Agents -> [phase: {"idle", "admitted", "counted"}, version: {0} \cup Versions,
                        verdict: Verdicts \cup {"none"}, quorum: BOOLEAN]]
  /\ vouched \in [Versions -> SUBSET Owners]

(* However reviews, changes of mind and restrictions interleave, a version *)
(* becomes canonical only after Threshold distinct owners, none of them    *)
(* the author's, have each submitted a confirmation of it.                 *)
CanonicalEarned ==
  \A v \in confirmedAt :
    /\ OwnerOf[Author] \notin vouched[v]
    /\ Cardinality(vouched[v]) >= Threshold

(* The canonical version of a card never goes back to an older one, and a  *)
(* card that has one never loses it.                                       *)
CanonicalAdvances == [][Canonical' >= Canonical]_vars

(* The SQL filter of the search and the status computed for the card agree *)
(* on what is refuted, as long as no restricted agent's refutation faces   *)
(* a confirmation by another agent of its owner.                           *)
Split(rows) ==
  \E a, b \in Agents : /\ OwnerOf[a] = OwnerOf[b] /\ a \in Counted(rows)
                       /\ rows[a] = "confirm" /\ rows[b] = "refute" /\ Barred(b)
FilterAgrees == (Evicted <=> CardStatus = "refuted") \/ Split(verdicts[latest])

(* "When independent owners reach CONFIRMATION_THRESHOLD, confirmed_at is  *)
(* persisted": with no review under way and nobody ever restricted, a      *)
(* version with a quorum of confirmations has its confirmed_at.            *)
QuorumIsRecorded ==
  (\A a \in Agents : tx[a] = Idle) =>
    \A v \in Versions : Cardinality(Confirmers(verdicts[v])) >= Threshold => v \in confirmedAt

=============================================================================
