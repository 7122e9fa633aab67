-------------------------- MODULE IdempotencyProofs --------------------------
(***************************************************************************)
(* The wrapper keeps the promise of the key for every number of clients,   *)
(* attempts and deaths of the server, under the assumptions of Reliable.   *)
(***************************************************************************)
EXTENDS Idempotency, FiniteSetTheorems, TLAPS

(* The handlers that keep the promise, and on what condition: the effect   *)
(* commits with the stored response, which outlives the retries, or the    *)
(* row carries the key and tells the bodies apart.  Those whose response   *)
(* bears a credential are not promised anything but a valid one.           *)
Reliable ==
  /\ Kinds \subseteq {"joined", "message", "version", "token", "session"}
  /\ "joined" \in Kinds => MaxPrunes["joined"] = 0
  /\ "message" \in Kinds => \A b, c \in Bodies : RowPart[b] = RowPart[c] => b = c

RowOf(r) == [id |-> req[r].id, body |-> BodyOf[r]]

(* What an attempt inside idem() knows.                                    *)
Knows(r) ==
  /\ req[r].at = "working" /\ kind = "joined" => rows = {}
  /\ req[r].at = "done" => IF Joined THEN kind = "joined" => rows = {}
                           ELSE RowOf(r) \in rows
  /\ req[r].at = "stored" => RowOf(r) \in rows

OnceInv ==
  /\ TypeOK
  /\ IsFiniteSet(rows)
  /\ OneEffect
  /\ AnswersTrue
  /\ \A stored \in record : [id |-> stored.id, body |-> stored.body] \in rows
  /\ kind = "joined" /\ rows # {} => record # {}
  /\ \A r \in Requests : Knows(r)

-----------------------------------------------------------------------------
(* The identity of an effect is a number, that of the first one is 1. *)
LEMMA FirstId == ASSUME rows = {} PROVE NextId = 1
<1>1. Cardinality({}) = 0 BY FS_EmptySet
<1> QED BY <1>1 DEF NextId

(* Every effect has a number.                                              *)
LEMMA IdType == ASSUME IsFiniteSet(rows) PROVE NextId \in Nat
BY FS_CardinalityType DEF NextId

(* Where true answers are all that OneEffect asks for.                     *)
LEMMA TrueSuffices ==
  ASSUME AnswersTrue, CredentialBearing \/ \A x, y \in rows : x = y
  PROVE  OneEffect
BY DEF AnswersTrue, OneEffect

(* The invariant holds at the start. *)
LEMMA OnceInit == Init => OnceInv
BY IdempotencyAssumption, FS_EmptySet
DEF Init, OnceInv, TypeOK, OneEffect, AnswersTrue, Knows, Phases, Away, Outcomes, Inside

(* An attempt that leaves with an answer the table bears out. *)
LEMMA ReplyOnce ==
  ASSUME OnceInv, NEW r \in Requests, NEW outcome \in Outcomes, NEW id \in Nat,
         Reply(r, outcome, id), UNCHANGED <<kind, record, rows, tries, prunes>>,
         outcome = "ok" => [id |-> id, body |-> BodyOf[r]] \in rows,
         outcome = "conflict" => \E row \in rows : row.body # BodyOf[r]
  PROVE  OnceInv'
<1> USE IdempotencyAssumption DEF OnceInv, TypeOK, Reply, Away, Phases
<1>1. TypeOK'
  <2>1. answers' \subseteq [body : Bodies, outcome : Outcomes, id : Nat]
    <3>1. [body |-> BodyOf[r], outcome |-> outcome, id |-> id]
            \in [body : Bodies, outcome : Outcomes, id : Nat] OBVIOUS
    <3> QED BY <3>1
  <2>2. req' \in [Requests -> [at : Phases, id : Nat]] OBVIOUS
  <2>3. \A s \in Requests : Inside(s)' => Inside(s) BY DEF Inside
  <2> QED BY <2>1, <2>2, <2>3
<1>2. AnswersTrue'
  <2> SUFFICES ASSUME NEW x \in answers'
               PROVE  /\ x.outcome = "ok" => [id |-> x.id, body |-> x.body] \in rows
                      /\ x.outcome = "conflict" => \E row \in rows : row.body # x.body
    BY DEF AnswersTrue
  <2>1. CASE x \in answers BY <2>1 DEF AnswersTrue
  <2>2. CASE x = [body |-> BodyOf[r], outcome |-> outcome, id |-> id] BY <2>2
  <2> QED BY <2>1, <2>2
<1>3. OneEffect' BY <1>2 DEF OneEffect, AnswersTrue, CredentialBearing
<1>4. \A s \in Requests : Knows(s)' BY DEF Knows, RowOf, Joined
<1> QED BY <1>1, <1>2, <1>3, <1>4

(* An attempt that only advances, to where nothing is known of it. *)
LEMMA AdvanceOnce ==
  ASSUME OnceInv, NEW r \in Requests, NEW phase \in {"arrived", "waiting"},
         At(r, phase), UNCHANGED <<kind, record, rows, prunes, answers>>,
         tries' \in [Requests -> Nat]
  PROVE  OnceInv'
<1> USE IdempotencyAssumption DEF OnceInv, TypeOK, At, Away, Phases
<1>1. TypeOK' BY DEF Inside
<1>2. OneEffect' BY DEF OneEffect, CredentialBearing
<1>3. AnswersTrue' BY DEF AnswersTrue
<1>4. \A s \in Requests : Knows(s)' BY DEF Knows, RowOf, Joined
<1> QED BY <1>1, <1>2, <1>3, <1>4

(* Each step of the handler keeps the invariant. *)
LEMMA WorkOnce ==
  ASSUME Reliable, OnceInv, NEW r \in Requests, Work(r)
  PROVE  OnceInv'
<1> USE IdempotencyAssumption DEF OnceInv, TypeOK, Phases
<1>0. kind \in {"joined", "message", "version", "token", "session"} BY DEF Reliable
<1>1. req[r].at = "working" /\ UNCHANGED <<kind, record, tries, prunes>> BY DEF Work
<1>n. NextId \in Nat BY IdType
<1>2. CASE /\ Joined
           /\ req' = [req EXCEPT ![r] = [@ EXCEPT !.at = "done", !.id = NextId]]
           /\ UNCHANGED <<rows, answers>>
  <2>1. kind = "joined" => rows = {} BY <1>1 DEF Knows
  <2>2. TypeOK'
    <3>1. req' \in [Requests -> [at : Phases, id : Nat]] BY <1>2, <1>n
    <3>2. \A s \in Requests : Inside(s)' <=> Inside(s) BY <1>1, <1>2 DEF Inside
    <3> QED BY <1>1, <1>2, <3>1, <3>2
  <2>3. OneEffect' /\ AnswersTrue'
    BY <1>1, <1>2 DEF OneEffect, AnswersTrue, CredentialBearing
  <2>4. \A s \in Requests : Knows(s)' BY <1>1, <1>2, <2>1 DEF Knows, RowOf, Joined
  <2> QED BY <1>1, <1>2, <2>2, <2>3, <2>4
<1>3. CASE /\ ~Joined
           /\ CredentialBearing \/ rows = {}
           /\ rows' = rows \cup {[id |-> NextId, body |-> BodyOf[r]]}
           /\ req' = [req EXCEPT ![r] = [@ EXCEPT !.at = "done", !.id = NextId]]
           /\ UNCHANGED answers
  <2>1. rows \subseteq rows' /\ [id |-> NextId, body |-> BodyOf[r]] \in rows' BY <1>3
  <2>2. IsFiniteSet(rows') BY <1>3, FS_AddElement
  <2>3. TypeOK'
    <3>1. rows' \subseteq [id : Nat, body : Bodies] BY <1>3, <1>n
    <3>2. req' \in [Requests -> [at : Phases, id : Nat]] BY <1>3, <1>n
    <3>3. \A s \in Requests : Inside(s)' <=> Inside(s) BY <1>1, <1>3 DEF Inside
    <3> QED BY <1>1, <1>3, <3>1, <3>2, <3>3
  <2>4. AnswersTrue' BY <1>3, <2>1 DEF AnswersTrue
  <2>5. OneEffect'
    <3>1. CASE CredentialBearing
      BY <1>1, <2>4, <3>1 DEF OneEffect, AnswersTrue, CredentialBearing
    <3>2. CASE ~CredentialBearing
      <4>1. rows' = {[id |-> NextId, body |-> BodyOf[r]]} BY <1>3, <3>2
      <4> QED BY <1>1, <3>2, <4>1 DEF OneEffect, CredentialBearing
    <3> QED BY <3>1, <3>2
  <2>6. \A s \in Requests : Knows(s)'
    BY <1>1, <1>3, <2>1 DEF Knows, RowOf, Joined
  <2>7. record = {} \/ \A stored \in record :
                         [id |-> stored.id, body |-> stored.body] \in rows'
    BY <2>1
  <2> QED BY <1>1, <1>3, <2>2, <2>3, <2>4, <2>5, <2>6, <2>7 DEF Joined
<1>4. CASE /\ UNCHANGED rows
           /\ \E row \in rows :
                /\ kind = "message"
                /\ IF RowPart[row.body] = RowPart[BodyOf[r]]
                   THEN /\ req' = [req EXCEPT ![r] = [@ EXCEPT !.at = "done", !.id = row.id]]
                        /\ UNCHANGED answers
                   ELSE Reply(r, "conflict", 0)
  <2>1. PICK row \in rows :
          /\ kind = "message"
          /\ IF RowPart[row.body] = RowPart[BodyOf[r]]
             THEN /\ req' = [req EXCEPT ![r] = [@ EXCEPT !.at = "done", !.id = row.id]]
                  /\ UNCHANGED answers
             ELSE Reply(r, "conflict", 0)
    BY <1>4
  <2>2. CASE RowPart[row.body] = RowPart[BodyOf[r]]
    <3>0. req' = [req EXCEPT ![r] = [@ EXCEPT !.at = "done", !.id = row.id]]
      BY <2>1, <2>2
    <3>1. row.body = BodyOf[r] /\ row.id \in Nat BY <2>1, <2>2 DEF Reliable
    <3>2. row = [id |-> row.id, body |-> BodyOf[r]]
      <4>1. row \in [id : Nat, body : Bodies] OBVIOUS
      <4> QED BY <3>1, <4>1
    <3>3. TypeOK'
      <4>1. req' \in [Requests -> [at : Phases, id : Nat]] BY <3>0, <3>1
      <4>2. \A s \in Requests : Inside(s)' <=> Inside(s) BY <1>1, <3>0 DEF Inside
      <4> QED BY <1>1, <1>4, <2>1, <2>2, <4>1, <4>2
    <3>4. OneEffect' /\ AnswersTrue'
      BY <1>1, <1>4, <2>1, <2>2 DEF OneEffect, AnswersTrue, CredentialBearing
    <3>5. \A s \in Requests : Knows(s)'
      <4>1. kind = "message" BY <2>1
      <4>2. ASSUME NEW s \in Requests, s # r PROVE req'[s] = req[s] BY <3>0, <4>2
      <4>3. Knows(r)'
        <5>1. req'[r] = [req[r] EXCEPT !.at = "done", !.id = row.id] BY <3>0
        <5>2. req'[r].at = "done" /\ req'[r].id = row.id BY <5>1
        <5> QED BY <1>1, <1>4, <3>2, <4>1, <5>2 DEF Knows, RowOf, Joined
      <4> QED BY <1>1, <1>4, <4>1, <4>2, <4>3 DEF Knows, RowOf, Joined
    <3> QED BY <1>1, <1>4, <2>1, <2>2, <3>3, <3>4, <3>5
  <2>3. CASE RowPart[row.body] # RowPart[BodyOf[r]]
    <3>1. row.body # BodyOf[r] BY <2>3
    <3>2. Reply(r, "conflict", 0) BY <2>1, <2>3
    <3> QED BY <1>1, <1>4, <3>1, <3>2, ReplyOnce DEF Outcomes
  <2> QED BY <2>2, <2>3
<1>5. kind \in {"apart", "session"} => CredentialBearing /\ ~Joined
  BY <1>0 DEF CredentialBearing, Joined
<1> QED BY <1>1, <1>2, <1>3, <1>4, <1>5 DEF Work, Reliable

(* Storing the response keeps the invariant. *)
LEMMA StoreOnce ==
  ASSUME Reliable, OnceInv, NEW r \in Requests, Store(r)
  PROVE  OnceInv'
<1> USE IdempotencyAssumption DEF OnceInv, TypeOK, Phases
<1>1. rows' = IF Joined THEN rows \cup {RowOf(r)} ELSE rows BY DEF Store, RowOf
<1>0. kind = "joined" => rows = {} BY DEF Store, Knows, Joined
<1>2. RowOf(r) \in rows' BY <1>1 DEF Store, Knows
<1>3. rows \subseteq rows' BY <1>1
<1>4. TypeOK'
  <2>1. BodyOf[r] \in Bodies /\ req[r].id \in Nat OBVIOUS
  <2>2. rows' \subseteq [id : Nat, body : Bodies] BY <1>1, <2>1 DEF RowOf
  <2>3. record' \subseteq [body : Bodies, id : Nat] BY <2>1 DEF Store
  <2>4. req' \in [Requests -> [at : Phases, id : Nat]] BY DEF Store
  <2>5. \A s \in Requests : Inside(s)' => Inside(s) BY DEF Store, Inside
  <2> QED BY <2>2, <2>3, <2>4, <2>5 DEF Store
<1>6. AnswersTrue' BY <1>3 DEF AnswersTrue, Store
<1>5. OneEffect'
  <2>1. kind' = kind BY DEF Store
  <2>2. CASE CredentialBearing
    BY <1>6, <2>1, <2>2 DEF OneEffect, AnswersTrue, CredentialBearing
  <2>3. CASE ~CredentialBearing
    <3>1. rows' = {RowOf(r)} \/ rows' = rows
      BY <1>0, <1>1, <2>3 DEF Joined, CredentialBearing
    <3> QED BY <2>1, <2>3, <3>1 DEF OneEffect, CredentialBearing
  <2> QED BY <2>2, <2>3
<1>a. IsFiniteSet(rows') BY <1>1, FS_AddElement
<1>7. \A stored \in record' : [id |-> stored.id, body |-> stored.body] \in rows'
  <2>1. record' = record \/ record' = {[body |-> BodyOf[r], id |-> req[r].id]} BY DEF Store
  <2>2. CASE record' = record BY <1>3, <2>2
  <2>3. CASE record' = {[body |-> BodyOf[r], id |-> req[r].id]} BY <1>2, <2>3 DEF RowOf
  <2> QED BY <2>1, <2>2, <2>3
<1>8. kind' = "joined" => record' # {} BY DEF Store, CredentialBearing
<1>9. \A s \in Requests : Knows(s)'
  <2> SUFFICES ASSUME NEW s \in Requests PROVE Knows(s)' OBVIOUS
  <2>1. CASE s = r BY <1>2, <2>1 DEF Knows, RowOf, Store
  <2>2. CASE s # r
    <3>1. req'[s] = req[s] BY <2>2 DEF Store
    <3>2. ~Inside(s) BY <2>2 DEF Store, Inside
    <3> QED BY <1>3, <3>1, <3>2 DEF Knows, RowOf, Inside
  <2> QED BY <2>1, <2>2
<1> QED BY <1>4, <1>5, <1>6, <1>7, <1>8, <1>9, <1>a

(* Every step keeps the invariant. *)
LEMMA OnceNext == ASSUME Reliable, OnceInv, [Next]_vars PROVE OnceInv'
<1> USE IdempotencyAssumption
<1>1. CASE UNCHANGED vars
  BY <1>1 DEF vars, OnceInv, TypeOK, OneEffect, AnswersTrue, Knows, RowOf, Inside, Joined,
             CredentialBearing
<1>2. ASSUME NEW r \in Requests, Send(r) PROVE OnceInv'
  <2>1. tries' \in [Requests -> Nat] BY <1>2 DEF Send, OnceInv, TypeOK
  <2>2. At(r, "arrived") \/ At(r, "waiting") BY <1>2 DEF Send
  <2> QED BY <1>2, <2>1, <2>2, AdvanceOnce DEF Send
<1>3. ASSUME NEW r \in Requests, LookForVersion(r) PROVE OnceInv'
  <2>1. CASE rows = {}
    <3>1. tries' \in [Requests -> Nat] BY <1>3 DEF LookForVersion, OnceInv, TypeOK
    <3> QED BY <1>3, <2>1, <3>1, AdvanceOnce DEF LookForVersion
  <2>2. CASE rows # {}
    <3>1. PICK row \in rows :
            IF row.body = BodyOf[r] THEN Reply(r, "ok", row.id) ELSE Reply(r, "conflict", 0)
      BY <1>3, <2>2 DEF LookForVersion
    <3>2. row = [id |-> row.id, body |-> row.body] /\ row.id \in Nat
      BY DEF OnceInv, TypeOK
    <3>3. CASE row.body = BodyOf[r]
      BY <1>3, <3>1, <3>2, <3>3, ReplyOnce DEF LookForVersion, Outcomes
    <3>4. CASE row.body # BodyOf[r]
      BY <1>3, <3>1, <3>2, <3>4, ReplyOnce DEF LookForVersion, Outcomes
    <3> QED BY <3>3, <3>4
  <2> QED BY <2>1, <2>2
<1>4. ASSUME NEW r \in Requests, Acquire(r) PROVE OnceInv'
  <2>1. TypeOK' BY <1>4 DEF Acquire, LockFree, At, OnceInv, TypeOK, Inside, Phases, Away
  <2>2. OneEffect' /\ AnswersTrue' BY <1>4 DEF Acquire, OnceInv, OneEffect, AnswersTrue, CredentialBearing
  <2>3. \A s \in Requests : Knows(s)'
    BY <1>4 DEF Acquire, At, OnceInv, TypeOK, Knows, RowOf, Away, Joined
  <2> QED BY <1>4, <2>1, <2>2, <2>3 DEF Acquire, OnceInv
<1>5. ASSUME NEW r \in Requests, Replay(r) PROVE OnceInv'
  <2>1. PICK stored \in record :
          IF stored.body = BodyOf[r] THEN Reply(r, "ok", stored.id) ELSE Reply(r, "conflict", 0)
    BY <1>5 DEF Replay
  <2>2. [id |-> stored.id, body |-> stored.body] \in rows /\ stored.id \in Nat
    BY DEF OnceInv, TypeOK
  <2>3. CASE stored.body = BodyOf[r]
    BY <1>5, <2>1, <2>2, <2>3, ReplyOnce DEF Replay, Outcomes
  <2>4. CASE stored.body # BodyOf[r]
    BY <1>5, <2>1, <2>2, <2>4, ReplyOnce DEF Replay, Outcomes
  <2> QED BY <2>3, <2>4
<1>6. ASSUME NEW r \in Requests, Work(r) PROVE OnceInv' BY <1>6, WorkOnce
<1>7. ASSUME NEW r \in Requests, Fail(r) PROVE OnceInv'
  BY <1>7, ReplyOnce DEF Fail, Outcomes
<1>8. ASSUME NEW r \in Requests, Store(r) PROVE OnceInv' BY <1>8, StoreOnce
<1>9. ASSUME NEW r \in Requests, Answer(r) PROVE OnceInv'
  <2>1. RowOf(r) \in rows /\ req[r].id \in Nat
    BY <1>9 DEF Answer, OnceInv, Knows, TypeOK
  <2> QED BY <1>9, <2>1, ReplyOnce DEF Answer, RowOf, Outcomes
<1>10. CASE Crash
  BY <1>10 DEF Crash, Away, OnceInv, TypeOK, OneEffect, AnswersTrue, Knows, RowOf, Inside, Phases,
               Joined, CredentialBearing
<1>11. CASE Prune
  <2>1. kind # "joined"
    BY <1>11, SMT DEF Prune, Reliable, OnceInv, TypeOK
  <2> QED BY <1>11, <2>1
      DEF Prune, OnceInv, TypeOK, OneEffect, AnswersTrue, Knows, RowOf, Inside, Joined,
          CredentialBearing
<1> QED BY <1>1, <1>2, <1>3, <1>4, <1>5, <1>6, <1>7, <1>8, <1>9, <1>10, <1>11 DEF Next

(* The invariant of the wrapper is an invariant of every behaviour. *)
THEOREM OnceCorrect == ASSUME Reliable PROVE Spec => []OnceInv
<1>1. Init => OnceInv BY OnceInit
<1>2. OnceInv /\ [Next]_vars => OnceInv' BY OnceNext
<1> QED BY <1>1, <1>2, PTL DEF Spec

(* At most one request with the key takes effect, and where each of them   *)
(* does, what a client was answered is a credential that was committed.    *)
THEOREM OneEffectCorrect == ASSUME Reliable PROVE Spec => []OneEffect
<1>1. OnceInv => OneEffect BY DEF OnceInv
<1> QED BY <1>1, OnceCorrect, PTL

-----------------------------------------------------------------------------
(* The choice from a set of one is its element. *)
LEMMA OnlyOne ==
  ASSUME NEW S, NEW x \in S, \A a, b \in S : a = b
  PROVE  (CHOOSE y \in S : TRUE) = x
OBVIOUS

(* With at most one row, the row is the effect. *)
LEMMA EffectOf ==
  ASSUME OneEffect, ~CredentialBearing, NEW row \in rows PROVE effect = row.body
BY DEF OneEffect, effect

(* A step that leaves the table alone leaves the effect. *)
LEMMA SameEffect == ASSUME rows' = rows, kind' = kind PROVE effect' = effect
BY DEF effect, CredentialBearing

(* A true answer is one the promise tells. *)
LEMMA ReplyTells ==
  ASSUME OnceInv, NEW r \in Requests, NEW outcome \in Outcomes, NEW id \in Nat,
         Reply(r, outcome, id), rows' = rows, kind' = kind, ~CredentialBearing,
         outcome = "ok" => [id |-> id, body |-> BodyOf[r]] \in rows,
         outcome = "conflict" => \E row \in rows : row.body # BodyOf[r]
  PROVE  Promise!Tell(BodyOf[r])
<1>1. effect' = effect BY SameEffect
<1>2. told' = told \cup {[content |-> BodyOf[r], outcome |-> outcome]}
  <2> DEFINE given == [body |-> BodyOf[r], outcome |-> outcome, id |-> id]
             View(x) == [content |-> x.body, outcome |-> x.outcome]
  <2>1. answers' = answers \cup {given} BY DEF Reply
  <2>2. View(given) = [content |-> BodyOf[r], outcome |-> outcome] OBVIOUS
  <2>3. told = {View(x) : x \in answers} /\ told' = {View(x) : x \in answers'}
    BY DEF told, CredentialBearing
  <2> HIDE DEF given, View
  <2>4. told' = told \cup {View(given)} BY <2>1, <2>3
  <2> QED BY <2>2, <2>4
<1>3. CASE outcome = "error" BY <1>1, <1>2, <1>3 DEF Promise!Tell
<1>4. CASE outcome = "ok"
  <2>1. effect = BodyOf[r]
    <3>1. PICK row \in rows : row = [id |-> id, body |-> BodyOf[r]] BY <1>4
    <3> QED BY <3>1, EffectOf DEF OnceInv
  <2>2. BodyOf[r] # NoBody BY IdempotencyAssumption
  <2> QED BY <1>1, <1>2, <1>4, <2>1, <2>2 DEF Promise!Tell
<1>5. CASE outcome = "conflict"
  <2>1. PICK row \in rows : row.body # BodyOf[r] BY <1>5
  <2>2. effect = row.body BY EffectOf DEF OnceInv
  <2>3. row.body # NoBody BY IdempotencyAssumption DEF OnceInv, TypeOK
  <2> QED BY <1>1, <1>2, <1>5, <2>1, <2>2, <2>3 DEF Promise!Tell
<1> QED BY <1>3, <1>4, <1>5 DEF Outcomes

(* A first row is the effect the promise takes. *)
LEMMA RowTakes ==
  ASSUME NEW r \in Requests, NEW id \in Nat, rows = {},
         rows' = {[id |-> id, body |-> BodyOf[r]]}, answers' = answers,
         kind' = kind, ~CredentialBearing
  PROVE  Promise!Take(BodyOf[r])
<1>1. effect = NoBody BY DEF effect
<1>2. effect' = BodyOf[r]
  <2> DEFINE new == [id |-> id, body |-> BodyOf[r]]
             table == {new}
  <2>1. (CHOOSE row \in table : TRUE) = new BY OnlyOne
  <2>2. table # {} OBVIOUS
  <2>3. effect' = IF rows' = {} THEN NoBody ELSE (CHOOSE row \in rows' : TRUE).body
    BY DEF effect, CredentialBearing
  <2>4. rows' = table OBVIOUS
  <2>5. new.body = BodyOf[r] OBVIOUS
  <2> HIDE DEF new, table
  <2> QED BY <2>1, <2>2, <2>3, <2>4, <2>5
<1>3. told' = told BY DEF told, CredentialBearing
<1> QED BY <1>1, <1>2, <1>3 DEF Promise!Take

(* The handler is the same throughout.                                     *)
LEMMA SameKind == [Next]_vars => kind' = kind
BY DEF Next, vars, Send, LookForVersion, Acquire, Replay, Work, Fail, Store, Answer, Crash, Prune

(* Every step of the wrapper is a step of the promise or leaves it as it is. *)
LEMMA PromiseNext ==
  ASSUME Reliable, OnceInv, [Next]_vars PROVE [Promise!Next]_(Promise!vars)
<1> USE IdempotencyAssumption
<1> DEFINE Stutter == effect' = effect /\ told' = told
<1>a. kind' = kind BY SameKind
<1>b. CASE CredentialBearing
  BY <1>a, <1>b DEF effect, told, CredentialBearing, Promise!vars
<1>c. SUFFICES ASSUME ~CredentialBearing PROVE [Promise!Next]_(Promise!vars) BY <1>b
<1>d. kind # "session" /\ (Joined => kind = "joined") /\ (kind = "joined" => Joined)
  BY <1>c DEF CredentialBearing, Joined
<1>0. ASSUME rows' = rows, answers' = answers PROVE Stutter
  BY <1>0, <1>a, SameEffect DEF told, CredentialBearing
<1>1. CASE UNCHANGED vars BY <1>0, <1>1 DEF vars, Promise!vars
<1>2. ASSUME NEW r \in Requests, Send(r) \/ Acquire(r) PROVE Stutter
  BY <1>0, <1>2 DEF Send, Acquire
<1>3. ASSUME NEW r \in Requests, LookForVersion(r)
      PROVE  Stutter \/ Promise!Tell(BodyOf[r])
  <2>1. CASE rows = {} BY <1>0, <1>3, <2>1 DEF LookForVersion
  <2>2. CASE rows # {}
    <3>1. PICK row \in rows :
            IF row.body = BodyOf[r] THEN Reply(r, "ok", row.id) ELSE Reply(r, "conflict", 0)
      BY <1>3, <2>2 DEF LookForVersion
    <3>2. row = [id |-> row.id, body |-> row.body] /\ row.id \in Nat
      BY DEF OnceInv, TypeOK
    <3>3. rows' = rows BY <1>3 DEF LookForVersion
    <3>4. CASE row.body = BodyOf[r] BY <3>1, <3>2, <3>3, <3>4, <1>a, <1>c, ReplyTells DEF Outcomes
    <3>5. CASE row.body # BodyOf[r] BY <3>1, <3>2, <3>3, <3>5, <1>a, <1>c, ReplyTells DEF Outcomes
    <3> QED BY <3>4, <3>5
  <2> QED BY <2>1, <2>2
<1>4. ASSUME NEW r \in Requests, Replay(r) PROVE Promise!Tell(BodyOf[r])
  <2>1. PICK stored \in record :
          IF stored.body = BodyOf[r] THEN Reply(r, "ok", stored.id) ELSE Reply(r, "conflict", 0)
    BY <1>4 DEF Replay
  <2>2. [id |-> stored.id, body |-> stored.body] \in rows /\ stored.id \in Nat
    BY DEF OnceInv, TypeOK
  <2>3. rows' = rows BY <1>4 DEF Replay
  <2>4. CASE stored.body = BodyOf[r] BY <2>1, <2>2, <2>3, <2>4, <1>a, <1>c, ReplyTells DEF Outcomes
  <2>5. CASE stored.body # BodyOf[r] BY <2>1, <2>2, <2>3, <2>5, <1>a, <1>c, ReplyTells DEF Outcomes
  <2> QED BY <2>4, <2>5
<1>5. ASSUME NEW r \in Requests, Work(r)
      PROVE  Stutter \/ Promise!Take(BodyOf[r]) \/ Promise!Tell(BodyOf[r])
  <2>1. CASE rows' = rows /\ answers' = answers BY <1>0, <2>1
  <2>2. CASE /\ rows = {} /\ answers' = answers
             /\ rows' = rows \cup {[id |-> NextId, body |-> BodyOf[r]]}
    <3>1. NextId = 1 BY <2>2, FirstId
    <3> QED BY <2>2, <3>1, <1>a, <1>c, RowTakes
  <2>3. CASE rows' = rows /\ \E row \in rows :
                RowPart[row.body] # RowPart[BodyOf[r]] /\ Reply(r, "conflict", 0)
    <3>1. \E row \in rows : row.body # BodyOf[r] BY <2>3
    <3> QED BY <2>3, <3>1, <1>a, <1>c, ReplyTells DEF Outcomes
  <2>4. \/ rows' = rows /\ answers' = answers
        \/ /\ rows = {} /\ answers' = answers
           /\ rows' = rows \cup {[id |-> NextId, body |-> BodyOf[r]]}
        \/ rows' = rows /\ \E row \in rows :
                RowPart[row.body] # RowPart[BodyOf[r]] /\ Reply(r, "conflict", 0)
    <3>1. kind # "apart" BY DEF Reliable, OnceInv, TypeOK
    <3> HIDE DEF Reply, NextId
    <3> QED BY <1>5, <1>d, <3>1, Zenon DEF Work
  <2> QED BY <2>1, <2>2, <2>3, <2>4
<1>6. ASSUME NEW r \in Requests, Fail(r) PROVE Promise!Tell(BodyOf[r])
  BY <1>6, <1>a, <1>c, ReplyTells DEF Fail, Outcomes
<1>7. ASSUME NEW r \in Requests, Store(r) PROVE Stutter \/ Promise!Take(BodyOf[r])
  <2>1. answers' = answers BY <1>7 DEF Store
  <2>2. CASE kind # "joined" BY <1>0, <1>7, <1>d, <2>1, <2>2 DEF Store
  <2>3. CASE kind = "joined"
    <3>1. rows = {} BY <1>7, <1>d, <2>3 DEF Store, OnceInv, Knows
    <3>2. rows' = {[id |-> req[r].id, body |-> BodyOf[r]]}
      BY <1>7, <1>d, <2>3, <3>1 DEF Store
    <3>3. req[r].id \in Nat BY DEF OnceInv, TypeOK
    <3> QED BY <2>1, <3>1, <3>2, <3>3, <1>a, <1>c, RowTakes
  <2> QED BY <2>2, <2>3
<1>8. ASSUME NEW r \in Requests, Answer(r) PROVE Promise!Tell(BodyOf[r])
  <2>1. RowOf(r) \in rows /\ req[r].id \in Nat
    BY <1>8 DEF Answer, OnceInv, Knows, TypeOK
  <2> QED BY <1>8, <2>1, <1>a, <1>c, ReplyTells DEF Answer, RowOf, Outcomes
<1>9. CASE Crash \/ Prune BY <1>0, <1>9 DEF Crash, Prune, Promise!vars
<1>10. \A r \in Requests : BodyOf[r] \in Bodies OBVIOUS
<1>11. Stutter => UNCHANGED Promise!vars BY DEF Promise!vars
<1>12. ASSUME NEW r \in Requests, Promise!Take(BodyOf[r]) \/ Promise!Tell(BodyOf[r])
       PROVE  Promise!Next
  BY <1>10, <1>12 DEF Promise!Next
<1> HIDE DEF Stutter
<1> QED BY <1>1, <1>2, <1>3, <1>4, <1>5, <1>6, <1>7, <1>8, <1>9, <1>11, <1>12 DEF Next

(* The wrapper implements the promise of the Idempotency-Key. *)
THEOREM PromiseKept == ASSUME Reliable PROVE Spec => KeepsPromise
<1>1. Init => Promise!Init
  <2> SUFFICES ASSUME Init PROVE Promise!Init OBVIOUS
  <2>1. effect = NoBody BY DEF Init, effect
  <2>2. told = {} BY DEF Init, told
  <2> QED BY <2>1, <2>2 DEF Promise!Init
<1>2. OnceInv /\ [Next]_vars => [Promise!Next]_(Promise!vars) BY PromiseNext
<1> QED BY <1>1, <1>2, OnceCorrect, PTL DEF Spec, KeepsPromise, Promise!Spec
=============================================================================
