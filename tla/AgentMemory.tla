------------------------------ MODULE AgentMemory ------------------------------
(* The private memory of one agent (apps/server/src/memory.ts) and the persona *)
(* of its participant (packages/client/src/state.js, cli.js): writes, archive, *)
(* consolidation, and a rollback of the persona that takes the personality     *)
(* influences of later revisions with it, on this machine first and on the     *)
(* server when its owner is logged in, or later.                             *)
(*                                                                          *)
(* The server's operations hold the lock memory:<agent>; a command may die at *)
(* any point and its request may be served though it is not answered.        *)
(* Left out: texts, tags, the hourly rates, lists, the stored answers of      *)
(* idem() but for the one of a rollback, and influences.json, which is        *)
(* changed by a rollback and filled by no command.                           *)
EXTENDS Integers, FiniteSets

CONSTANTS
  Memories,      \* memories, each made by one write at most
  Texts,         \* summaries, as their fingerprints tell them apart
  KnowledgeLimit, InfluenceLimit,
  Day,           \* ticks within which a repeated write is the same
  MaxTime,       \* bound: ticks of the clock
  MaxRevision    \* bound: revisions of the persona

MemoryAssumption ==
  /\ IsFiniteSet(Memories)
  /\ KnowledgeLimit \in Nat /\ InfluenceLimit \in Nat /\ MaxRevision \in Nat \ {0}

Revisions == 1..MaxRevision
Kinds == {"knowledge", "influence"}
VARIABLES
  mem,           \* the rows: [state, kind, text, rev, born]; rev 0 is null
  covered,       \* covered_until of the last summary, 0 without one
  now,           \* the clock of the server, which the participant shares
  persona,       \* persona.json: its revision
  file,          \* persona-revisions/: [born, reverted, since, sync, applied], and
                 \* history: what was archived already when it was applied
  revived        \* history: what was reactivated, and by whom: <<id, who>>
memoryVars == <<mem, covered, now, persona, file, revived>>

None == [state |-> "none", kind |-> "knowledge", text |-> "", rev |-> 0, born |-> 0]
NoFile == [born |-> 0, reverted |-> {}, since |-> 0, sync |-> "none", applied |-> 0,
           spared |-> {}]
Active(m) == mem[m].state = "active"
ActiveOf(kind) == {m \in Memories : Active(m) /\ mem[m].kind = kind}
Latest == CHOOSE r \in 0..MaxRevision :
            /\ r = 0 \/ file[r].born > 0
            /\ \A q \in Revisions : file[q].born > 0 => q <= r

Init ==
  /\ mem = [m \in Memories |-> None] /\ revived = {}
  /\ covered = 0 /\ now = 1 /\ persona = 1
  /\ file = [r \in Revisions |-> IF r = 1 THEN [NoFile EXCEPT !.born = 1] ELSE NoFile]

------------------------------------------------------------------------------
(* What created_at may be: the clock of a write is read under the lock.     *)
(* Mutant: the row has the time at which its transaction began.             *)
StampAtBegin == 1..now
Stamp == {now + 1}

LimitOf(kind) == IF kind = "influence" THEN InfluenceLimit ELSE KnowledgeLimit
(* Mutant: a full memory takes one more.                                    *)
HasRoomOneMore(kind) == Cardinality(ActiveOf(kind)) <= LimitOf(kind)
HasRoom(kind) == Cardinality(ActiveOf(kind)) < LimitOf(kind)
(* computeMemoryFingerprint(): an influence is one of its revision.         *)
Same(m, kind, text, rev) ==
  /\ Active(m) /\ mem[m].kind = kind /\ mem[m].text = text
  /\ mem[m].born + Day > now + 1 /\ (kind = "influence" => mem[m].rev = rev)

(* writeMemory(): the row of a new memory, and the one it supersedes.       *)
Write(m, kind, text, rev, state) ==
  /\ mem[m].state = "none" /\ now < MaxTime
  /\ ~\E d \in Memories : Same(d, kind, text, rev)
  /\ state = "active" => HasRoom(kind)
  /\ now' = now + 1
  /\ \E born \in Stamp :
       mem' = [mem EXCEPT ![m] = [state |-> state, kind |-> kind, text |-> text,
                                  rev |-> rev, born |-> born]]
  /\ UNCHANGED <<covered, persona, file, revived>>

Supersede(m, old, text, rev) ==
  /\ mem[m].state = "none" /\ now < MaxTime /\ Active(old)
  /\ now' = now + 1
  /\ \E born \in Stamp :
       mem' = [mem EXCEPT ![old].state = "superseded",
         ![m] = [state |-> "active", kind |-> mem[old].kind, text |-> text,
                 rev |-> rev, born |-> born]]
  /\ UNCHANGED <<covered, persona, file, revived>>

(* setActive()                                                              *)
Archive(m) ==
  /\ Active(m) /\ mem' = [mem EXCEPT ![m].state = "manual"]
  /\ UNCHANGED <<covered, now, persona, file, revived>>

(* What was rolled back its owner alone may take back.                      *)
MayReactivate(m, who) ==
  mem[m].state = "manual" \/ (mem[m].state = "rollback" /\ who = "owner")
Reactivate(m, who) ==
  /\ MayReactivate(m, who) /\ HasRoom(mem[m].kind)
  /\ mem' = [mem EXCEPT ![m].state = "active"]
  /\ revived' = revived \cup {<<m, who>>}
  /\ UNCHANGED <<covered, now, persona, file>>

(* consolidate(): never before the previous one and never in the future.    *)
Consolidate(until) ==
  /\ now < MaxTime /\ until \in covered..(now + 1)
  /\ now' = now + 1 /\ covered' = until
  /\ mem' = [m \in Memories |->
       IF m \in ActiveOf("knowledge") /\ mem[m].born <= until
       THEN [mem[m] EXCEPT !.state = "consolidated"] ELSE mem[m]]
  /\ UNCHANGED <<persona, file, revived>>

(* rollbackInfluences(), once for a key: the stored answer of a repeated one. *)
Reverts(r, m) ==
  /\ m \in ActiveOf("influence")
  /\ mem[m].rev \in file[r].reverted \/ (mem[m].rev = 0 /\ mem[m].born > file[r].since)
Applied(r) == [m \in Memories |->
  IF file[r].applied = 0 /\ Reverts(r, m) THEN [mem[m] EXCEPT !.state = "rollback"] ELSE mem[m]]
Settled(r) ==
  IF file[r].applied # 0 THEN file[r]
  ELSE [file[r] EXCEPT !.applied = now,
                       !.spared = {m \in Memories : mem[m].state \notin {"none", "active"}}]

------------------------------------------------------------------------------
(* savePersona(): the revision's file first; the command may die before     *)
(* persona.json has it.                                                     *)
Save(record, dies) ==
  /\ Latest < MaxRevision /\ now < MaxTime
  /\ now' = now + 1
  /\ file' = [file EXCEPT ![Latest + 1] = [record EXCEPT !.born = now + 1]]
  /\ persona' = IF dies THEN persona ELSE Latest + 1
  /\ UNCHANGED <<mem, covered, revived>>
SavePersona == \E dies \in BOOLEAN : Save(NoFile, dies)

(* persona rollback REVISION: what is later than the revision is reverted.  *)
RollbackPersona(r) ==
  \E dies \in BOOLEAN : Save(
    [NoFile EXCEPT !.reverted = (r + 1)..Latest, !.since = file[r].born,
                   !.sync = IF dies THEN "lost" ELSE "local"], dies)

Sync(r, from, to, served) ==
  /\ file[r].sync \in from
  /\ mem' = IF served THEN Applied(r) ELSE mem
  /\ file' = [file EXCEPT ![r] = [(IF served THEN Settled(r) ELSE @) EXCEPT !.sync = to]]
  /\ UNCHANGED <<covered, now, persona, revived>>

(* Right after it the server is asked, if the owner is logged in; without   *)
(* an answer the rollback is kept in pending-memory-rollbacks.json.         *)
Ask(r) == \/ Sync(r, {"local"}, "done", TRUE)
          \/ \E served \in BOOLEAN : Sync(r, {"local"}, "pending", served)
Die(r) == \E served \in BOOLEAN : Sync(r, {"local"}, "lost", served)

(* memory rollback --sync: an answer 400, 403, 404, 409 or 422 drops it.    *)
Retry(r) == \/ Sync(r, {"pending"}, "done", TRUE)
            \/ Sync(r, {"pending"}, "lost", FALSE)
            \/ \E served \in BOOLEAN : Sync(r, {"pending"}, "pending", served)

Unwritten == {m \in Memories : now < MaxTime /\ mem[m].state = "none"}
Next ==
  \/ \E m \in Unwritten, text \in Texts :
       \/ \E kind \in Kinds, state \in {"active", "manual"} :
            \E rev \in IF kind = "knowledge" THEN {0} ELSE {0} \cup 1..persona :
              Write(m, kind, text, rev, state)
       \/ \E old \in Memories, rev \in {0, persona} : Supersede(m, old, text, rev)
  \/ \E m \in Memories : Archive(m) \/ \E who \in {"agent", "owner"} : Reactivate(m, who)
  \/ \E until \in 1..MaxTime : Consolidate(until)
  \/ SavePersona
  \/ \E r \in Revisions : \/ file[r].born > 0 /\ RollbackPersona(r)
                          \/ Ask(r) \/ Die(r) \/ Retry(r)
Spec == Init /\ [][Next]_memoryVars

------------------------------------------------------------------------------
States == {"active", "manual", "superseded", "consolidated", "rollback"}
TypeOK ==
  /\ \A m \in Memories : mem[m] = None \/ (mem[m].state \in States /\ mem[m].born \in 1..now)
  /\ covered \in 0..now /\ persona \in 1..Latest
  /\ Cardinality(ActiveOf("knowledge")) <= KnowledgeLimit
  /\ Cardinality(ActiveOf("influence")) <= InfluenceLimit

(* buildMemoryBootstrap() shows the summary and what is newer than it: no    *)
(* active knowledge is older, unless somebody took it back from the archive. *)
NoneForgotten ==
  \A m \in ActiveOf("knowledge") : mem[m].born > covered \/ \E act \in revived : act[1] = m

(* An influence of a reverted revision is active only while the rollback is  *)
(* still owed to the server, was lost to a death or dropped for a final      *)
(* error, or after the owner took it back, or if it was written later or was *)
(* in the archive already, from where anybody takes it back.                *)
RollbackArrives ==
  \A r \in Revisions, m \in ActiveOf("influence") :
    mem[m].rev \in file[r].reverted =>
      \/ file[r].sync \in {"local", "pending", "lost"}
      \/ mem[m].born > file[r].applied \/ m \in file[r].spared \/ <<m, "owner">> \in revived
==============================================================================
