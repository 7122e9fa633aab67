----------------------------- MODULE Idempotency -----------------------------
(***************************************************************************)
(* The Idempotency-Key wrapper idem() of apps/server/src/app.ts and the    *)
(* handlers it wraps, for one actor and one key.                           *)
(*                                                                         *)
(* idem() takes an advisory lock on (actor, key) in a transaction of its   *)
(* own pool, looks for a stored response, runs the handler and stores the  *)
(* handler's response, unless the response bears a credential.  The        *)
(* handlers are of six kinds:                                              *)
(*   joined   the effect is in the transaction of the stored response      *)
(*            (tasks, rooms, members, subscriptions, stop, reports)        *)
(*   apart    the effect commits first, in a transaction of its own        *)
(*            (knowledge cards and reviews)                                *)
(*   message  apart, but the row carries the key and ON CONFLICT finds it  *)
(*   version  apart, the row carries the key, looked for before idem()     *)
(*   token    joined, the response bears a credential (enrollment tokens;  *)
(*            enroll also, but there the spent token stops a second one)   *)
(*   session  apart, the response bears a credential (sessions; register   *)
(*            also, but there the address is unique)                       *)
(*                                                                         *)
(* The server may die at any point; the client then sends the request      *)
(* again, as it does when an answer is lost.                               *)
(***************************************************************************)
EXTENDS Naturals, FiniteSets

CONSTANTS Requests,  \* clients that send a request with the key
          Bodies,    \* method, path and body of a request, as bodyHash sees it
          BodyOf,
          RowPart,   \* what ON CONFLICT compares of a body: text, reply, recipient
          Kinds,     \* the kinds of handlers the key may be used with
          MaxTries,  \* bound: attempts of each client
          MaxPrunes, \* bound, by kind: times retention deletes the stored response
          NoBody     \* no request's body

ASSUME IdempotencyAssumption ==
  /\ BodyOf \in [Requests -> Bodies]
  /\ Kinds \subseteq {"joined", "apart", "message", "version", "token", "session"}
  /\ MaxTries \in Nat /\ MaxPrunes \in [Kinds -> Nat]
  /\ NoBody \notin Bodies

VARIABLES kind,     \* the kind of the handler
          record,   \* the row of idempotency_keys: a set of at most one
          rows,     \* what the handlers have committed: [id, body]
          req,      \* the attempt each client has in flight
          tries, prunes,
          answers   \* the answers the server has sent; history

vars == <<kind, record, rows, req, tries, prunes, answers>>

Phases == {"away", "arrived", "waiting", "working", "done", "stored"}
Away == [at |-> "away", id |-> 0]
Outcomes == {"ok", "conflict", "error"}

Init ==
  /\ kind \in Kinds
  /\ record = {}
  /\ rows = {}
  /\ req = [r \in Requests |-> Away]
  /\ tries = [r \in Requests |-> 0]
  /\ prunes = 0
  /\ answers = {}

-----------------------------------------------------------------------------
Inside(r) == req[r].at \in {"working", "done"}
LockFree == \A r \in Requests : ~Inside(r)
At(r, phase) == req' = [req EXCEPT ![r] = [Away EXCEPT !.at = phase]]

(* reply.code(..).send(..); the attempt is over, its lock is released.     *)
Reply(r, outcome, id) ==
  /\ req' = [req EXCEPT ![r] = Away]
  /\ answers' = answers \cup {[body |-> BodyOf[r], outcome |-> outcome, id |-> id]}

NextId == Cardinality(rows) + 1

Joined == kind \in {"joined", "token"}
(* credentialBearing: the response has an access, agent, session or        *)
(* enrollment token in it.                                                 *)
CredentialBearing == kind \in {"token", "session"}

(* The client sends the request, for the first time or again.              *)
Send(r) ==
  /\ req[r] = Away
  /\ tries[r] < MaxTries
  /\ tries' = [tries EXCEPT ![r] = @ + 1]
  /\ At(r, IF kind = "version" THEN "arrived" ELSE "waiting")
  /\ UNCHANGED <<kind, record, rows, prunes, answers>>

(* POST /v1/knowledge/cards/:cardId/versions, before idem(): a version     *)
(* with the key answers at once.                                           *)
LookForVersion(r) ==
  /\ req[r].at = "arrived"
  /\ IF rows = {}
     THEN At(r, "waiting") /\ UNCHANGED answers
     ELSE \E row \in rows :
            IF row.body = BodyOf[r] THEN Reply(r, "ok", row.id) ELSE Reply(r, "conflict", 0)
  /\ UNCHANGED <<kind, record, rows, tries, prunes>>

(* The lock is granted and nothing is stored.                              *)
Acquire(r) ==
  /\ req[r].at = "waiting"
  /\ LockFree
  /\ record = {}
  /\ At(r, "working")
  /\ UNCHANGED <<kind, record, rows, tries, prunes, answers>>

(* Mutant: a stored response with another body is not answered.            *)
ReplaySame(r) ==
  /\ req[r].at = "waiting"
  /\ LockFree
  /\ \E stored \in record : stored.body = BodyOf[r] /\ Reply(r, "ok", stored.id)
  /\ UNCHANGED <<kind, record, rows, tries, prunes>>

(* The lock is granted and a response is stored.                           *)
Replay(r) ==
  /\ req[r].at = "waiting"
  /\ LockFree
  /\ \E stored \in record :
       IF stored.body = BodyOf[r] THEN Reply(r, "ok", stored.id)
       ELSE Reply(r, "conflict", 0)
  /\ UNCHANGED <<kind, record, rows, tries, prunes>>

(* Mutant: the key of the row is not looked for.                           *)
WorkAgain(r) ==
  /\ req[r].at = "working"
  /\ rows' = rows \cup {[id |-> NextId, body |-> BodyOf[r]]}
  /\ req' = [req EXCEPT ![r] = [@ EXCEPT !.at = "done", !.id = NextId]]
  /\ UNCHANGED <<kind, record, tries, prunes, answers>>

(* The handler.  Apart, it commits its effect here; joined, its effect     *)
(* waits for the stored response.                                          *)
Work(r) ==
  /\ req[r].at = "working"
  /\ \/ /\ Joined
        /\ req' = [req EXCEPT ![r] = [@ EXCEPT !.at = "done", !.id = NextId]]
        /\ UNCHANGED <<rows, answers>>
     \/ /\ kind \in {"apart", "session"} \/ (~Joined /\ rows = {})
        /\ rows' = rows \cup {[id |-> NextId, body |-> BodyOf[r]]}
        /\ req' = [req EXCEPT ![r] = [@ EXCEPT !.at = "done", !.id = NextId]]
        /\ UNCHANGED answers
     \/ \E row \in rows :                       \* ON CONFLICT DO UPDATE .. WHERE
          /\ kind = "message"
          /\ IF RowPart[row.body] = RowPart[BodyOf[r]]
             THEN /\ req' = [req EXCEPT ![r] = [@ EXCEPT !.at = "done", !.id = row.id]]
                  /\ UNCHANGED answers
             ELSE Reply(r, "conflict", 0)
          /\ UNCHANGED rows
  /\ UNCHANGED <<kind, record, tries, prunes>>

(* The handler throws or refuses, idem() rolls back.  A version whose key  *)
(* is taken always ends here: its expected_latest_version_id is no longer  *)
(* the latest.                                                             *)
Fail(r) ==
  /\ req[r].at = "working"
  /\ Reply(r, "error", 0)
  /\ UNCHANGED <<kind, record, rows, tries, prunes>>

(* Mutant: the response is not stored.                                     *)
StoreUnsaved(r) ==
  /\ req[r].at = "done"
  /\ rows' = IF Joined THEN rows \cup {[id |-> req[r].id, body |-> BodyOf[r]]}
             ELSE rows
  /\ req' = [req EXCEPT ![r] = [@ EXCEPT !.at = "stored"]]
  /\ UNCHANGED <<kind, record, tries, prunes, answers>>

(* INSERT INTO idempotency_keys, if the response bears no credential, and  *)
(* COMMIT, which releases the lock.                                        *)
Store(r) ==
  /\ req[r].at = "done"
  /\ record' = IF CredentialBearing THEN record
               ELSE {[body |-> BodyOf[r], id |-> req[r].id]}
  /\ rows' = IF Joined THEN rows \cup {[id |-> req[r].id, body |-> BodyOf[r]]}
             ELSE rows
  /\ req' = [req EXCEPT ![r] = [@ EXCEPT !.at = "stored"]]
  /\ UNCHANGED <<kind, tries, prunes, answers>>

(* The answer, after the commit.                                           *)
Answer(r) ==
  /\ req[r].at = "stored"
  /\ Reply(r, "ok", req[r].id)
  /\ UNCHANGED <<kind, record, rows, tries, prunes>>

(* The server dies: every transaction in flight is rolled back.            *)
Crash ==
  /\ \E r \in Requests : req[r] # Away
  /\ req' = [r \in Requests |-> Away]
  /\ UNCHANGED <<kind, record, rows, tries, prunes, answers>>

(* retention.ts deletes stored responses by their age.                     *)
Prune ==
  /\ record # {}
  /\ prunes < MaxPrunes[kind]
  /\ prunes' = prunes + 1
  /\ record' = {}
  /\ UNCHANGED <<kind, rows, req, tries, answers>>

Next ==
  \/ \E r \in Requests :
       \/ Send(r) \/ LookForVersion(r) \/ Acquire(r) \/ Replay(r)
       \/ Work(r) \/ Fail(r) \/ Store(r) \/ Answer(r)
  \/ Crash \/ Prune

Spec == Init /\ [][Next]_vars

(* The server goes on with the attempts it has, and the advisory lock is   *)
(* granted in the order of its queue.                                      *)
Fairness ==
  \A r \in Requests :
    /\ WF_vars(LookForVersion(r)) /\ WF_vars(Work(r) \/ Fail(r)) /\ WF_vars(Store(r))
    /\ WF_vars(Answer(r))
    /\ SF_vars(Acquire(r) \/ Replay(r))

FairSpec == Spec /\ Fairness
-----------------------------------------------------------------------------
(* Properties *)

(* The tables and the attempts keep their types, and at most one attempt   *)
(* is inside the lock. *)
TypeOK ==
  /\ kind \in Kinds
  /\ record \subseteq [body : Bodies, id : Nat]
  /\ rows \subseteq [id : Nat, body : Bodies]
  /\ req \in [Requests -> [at : Phases, id : Nat]]
  /\ tries \in [Requests -> Nat] /\ prunes \in Nat
  /\ answers \subseteq [body : Bodies, outcome : Outcomes, id : Nat]
  /\ \A r, s \in Requests : Inside(r) /\ Inside(s) => r = s

(* At most one request with the key takes effect, however the attempts     *)
(* overlap, the server dies and answers are lost.  A key of a handler that *)
(* issues a credential gives no such promise, since idem() keeps no        *)
(* credential for replay: there each attempt that commits takes effect,    *)
(* and what is promised is that a credential that was answered is valid.   *)
OneEffect ==
  IF CredentialBearing
  THEN \A x \in answers :
         x.outcome = "ok" => [id |-> x.id, body |-> x.body] \in rows
  ELSE \A x, y \in rows : x = y

(* Every success is about a row that exists with the content asked for,    *)
(* every conflict has a row with another content.                          *)
AnswersTrue ==
  \A x \in answers :
    /\ x.outcome = "ok" => [id |-> x.id, body |-> x.body] \in rows
    /\ x.outcome = "conflict" => \E row \in rows : row.body # x.body

(* An attempt the server has accepted does not wait forever: it is         *)
(* answered, or lost with the server.                                      *)
AttemptEnds == \A r \in Requests : req[r].at # "away" ~> req[r].at = "away"

(* The wrapper implements the promise of the key, which is one about the   *)
(* handlers whose response it may store: of those that issue a credential  *)
(* the promise says nothing, and shows nothing of them.                    *)
effect == IF rows = {} \/ CredentialBearing THEN NoBody
          ELSE (CHOOSE row \in rows : TRUE).body
told == IF CredentialBearing THEN {}
        ELSE {[content |-> x.body, outcome |-> x.outcome] : x \in answers}
Promise == INSTANCE ExactlyOnce WITH Contents <- Bodies, None <- NoBody
KeepsPromise == Promise!Spec

=============================================================================
