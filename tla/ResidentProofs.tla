---------------------------- MODULE ResidentProofs ----------------------------
(***************************************************************************)
(* Proofs about Resident, for any number of decisions and any budgets: no  *)
(* message is forgotten, what is done was delivered and counted, and the   *)
(* reservations of an experiment are as many as messagesSent says.         *)
(***************************************************************************)
EXTENDS Resident, FiniteSetTheorems, TLAPS

Carrying == {"receipt", "check", "post", "posted", "save", "count", "complete", "refused"}

(* A command that carries out a decision has it as the pending action,     *)
(* which has no outcome yet and a turn left to have one.                   *)
Working ==
  /\ phase \in {"lock", "connect", "decide"} => action \in Actions
  /\ phase \in Carrying => action = pending /\ action \in Actions
  /\ phase \in Carrying \ {"complete", "refused"} => action \in Replies
  /\ pending \in Actions => results[Key(pending)] = "none" /\ turns < MaxTurns

(* What the files say by the phase of the reply.                           *)
Evidence ==
  /\ phase = "save" => Key(action) \in delivered
  /\ phase = "count" => Key(action) \in receipts
  /\ phase = "complete" /\ action \in Replies => Key(action) \in counted

(* Nothing is known of the experiments to come.                            *)
Fresh ==
  \A k \in Keys : k[1] > experiment => results[k] = "none" /\ k \notin flying \cup delivered

(* The decisions that messagesSent counts.                                 *)
Reserved == {a \in Replies : results[Key(a)] = "done" \/ a = pending}
Counting == sent = Cardinality(Reserved) /\ sent <= MaxMessages

Facts == Working /\ Evidence /\ Fresh /\ NothingForgotten /\ DoneIsTrue
Inv == TypeOK /\ Facts /\ Counting

-----------------------------------------------------------------------------
LEMMA KeyFacts ==
  ASSUME TypeOK
  PROVE  /\ \A a \in Actions : Key(a) \in Keys /\ Key(a)[1] = experiment /\ Key(a)[2] = a
         /\ \A a, b : Key(a) = Key(b) => a = b
         /\ Key(NoAction) \notin Keys
<1>1. experiment \in 1..MaxExperiments
  BY DEF TypeOK
<1>2. \A a : Key(a) = <<experiment, a>>
  BY DEF Key
<1>3. \A a \in Actions : Key(a) \in Keys
  BY <1>1, <1>2 DEF Keys
<1>4. Key(NoAction) \notin Keys
  <2> SUFFICES ASSUME Key(NoAction) \in Keys
               PROVE  FALSE
    OBVIOUS
  <2>1. PICK x \in 1..MaxExperiments, a \in Actions : <<experiment, NoAction>> = <<x, a>>
    BY <1>2 DEF Keys
  <2>2. a = NoAction
    BY <2>1
  <2> QED BY <2>2, ResidentAssumption
<1>5. \A a : Key(a)[1] = experiment /\ Key(a)[2] = a
  BY <1>2
<1>6. \A a, b : Key(a) = Key(b) => a = b
  BY <1>5
<1> QED BY <1>3, <1>4, <1>5, <1>6

LEMMA ReservedFinite == IsFiniteSet(Reserved)
BY ResidentAssumption, FS_Subset DEF Reserved

LEMMA InitInv == Init => Inv
<1> SUFFICES ASSUME Init
             PROVE  Inv
  OBVIOUS
<1>1. TypeOK
  <2>1. results \in [Keys -> {"none", "done", "refused"}]
    BY DEF Init
  <2>2. UNION {receipts, counted, flying, delivered} \subseteq (1..MaxExperiments) \X Replies
    BY DEF Init
  <2>3. experiment \in 1..MaxExperiments /\ sent \in 0..MaxMessages /\ turns \in 0..MaxTurns
    BY ResidentAssumption DEF Init
  <2>4. /\ pending \in Actions \cup {NoAction} /\ action \in Actions \cup {NoAction}
        /\ ended \in BOOLEAN /\ failed \in BOOLEAN /\ wedged \in BOOLEAN
        /\ phase \in Phases
    BY DEF Init, Phases
  <2> QED BY <2>1, <2>2, <2>3, <2>4 DEF TypeOK
<1>2. Facts
  BY ResidentAssumption, <1>1, KeyFacts
     DEF Init, Facts, Working, Evidence, Fresh, NothingForgotten, DoneIsTrue, Carrying, Keys
<1>3. Reserved = {}
  BY ResidentAssumption, <1>1, KeyFacts DEF Init, Reserved, Actions
<1>4. Counting
  BY <1>3, FS_EmptySet, ResidentAssumption DEF Counting, Init
<1> QED BY <1>1, <1>2, <1>4 DEF Inv

(* The steps that neither reserve nor resolve keep the count.              *)
Still == UNCHANGED <<experiment, sent, turns, pending, results>>

LEMMA StillCounting ==
  ASSUME Counting, Still
  PROVE  Counting'
<1>1. Reserved' = Reserved
  BY DEF Still, Reserved, Key
<1> QED BY <1>1 DEF Still, Counting

(* Steps before and around the decision, which touch neither the files nor *)
(* the server.                                                             *)
LEMMA QuietStep ==
  ASSUME Inv, Still, UNCHANGED <<files, server>>,
         ended' \in BOOLEAN, failed' \in BOOLEAN, wedged' \in BOOLEAN,
         \/ phase' = "idle" /\ action' \in Actions \cup {NoAction}
         \/ phase' = "lock" /\ action' \in Actions
         \/ phase = "lock" /\ phase' = "connect" /\ action' = action
         \/ phase = "connect" /\ phase' = "decide" /\ action' = action
         \/ phase = "idle" /\ phase' = "idle" /\ action' = action
  PROVE  Inv'
<1>1. TypeOK'
  BY DEF Inv, TypeOK, Still, files, server, Phases
<1>2. Facts'
  BY DEF Inv, Facts, Still, files, server, Working, Evidence, Fresh, NothingForgotten,
         DoneIsTrue, Carrying, Key
<1> QED BY <1>1, <1>2, StillCounting DEF Inv

-----------------------------------------------------------------------------
(* Carrying a decision out.                                                *)
LEMMA FilesType ==
  ASSUME TypeOK, NEW k \in (1..MaxExperiments) \X Replies,
         receipts' \subseteq receipts \cup {k}, counted' \subseteq counted \cup {k},
         flying' \subseteq flying \cup {k}, delivered' \subseteq delivered \cup {k}
  PROVE  UNION {receipts', counted', flying', delivered'} \subseteq (1..MaxExperiments) \X Replies
BY DEF TypeOK

LEMMA KeyReply ==
  ASSUME TypeOK, action \in Replies
  PROVE  Key(action) \in (1..MaxExperiments) \X Replies
BY DEF TypeOK, Key

LEMMA ServerInv ==
  ASSUME Inv, NEW k \in Keys, Deliver(k) \/ LoseRequest(k)
  PROVE  Inv'
<1>1. /\ UNCHANGED <<state, files, command, fate>> /\ k \in flying
      /\ flying' \subseteq flying /\ delivered \subseteq delivered'
      /\ delivered' \subseteq delivered \cup {k}
  BY DEF Deliver, LoseRequest
<1>2. k \in (1..MaxExperiments) \X Replies
  BY <1>1 DEF Inv, TypeOK
<1>3. TypeOK'
  <2>1. UNION {receipts', counted', flying', delivered'} \subseteq (1..MaxExperiments) \X Replies
    BY <1>1, <1>2, FilesType DEF files, Inv
  <2> QED BY <1>1, <2>1 DEF Inv, TypeOK, state, command, fate
<1>4. Still
  BY <1>1 DEF Still, state
<1>5. Facts'
  BY <1>1 DEF Inv, Facts, state, files, command, Working, Evidence, Fresh, NothingForgotten,
              DoneIsTrue, Key
<1> QED BY <1>3, <1>4, <1>5, StillCounting DEF Inv

LEMMA ResumeInv ==
  ASSUME Inv, Resume
  PROVE  Inv'
<1>1. /\ UNCHANGED <<state, files, server, action, fate>>
      /\ pending = action /\ phase = "decide" /\ phase' = AfterDecision
  BY DEF Resume, Goto
<1>2. TypeOK'
  BY <1>1 DEF Inv, TypeOK, state, files, server, fate, Phases, AfterDecision
<1>3. Facts'
  BY <1>1, ResidentAssumption
     DEF Inv, Facts, state, files, server, Working, Evidence, Fresh, NothingForgotten,
         DoneIsTrue, Key, Carrying, AfterDecision, Actions
<1>4. Still
  BY <1>1 DEF Still, state
<1> QED BY <1>2, <1>3, <1>4, StillCounting DEF Inv

(* The steps of reply: each leaves the evidence that the next one needs.   *)
LEMMA ReplyInv ==
  ASSUME Inv,
         Receipt \/ Check \/ Post \/ Answered \/ PostRefused \/ SaveReceipt \/ Count
  PROVE  Inv'
<1>1. /\ UNCHANGED <<state, action, fate>>
      /\ phase \in Carrying \ {"complete", "refused"} /\ phase' \in Carrying
  BY DEF Receipt, Check, CheckPasses, CheckRefuses, Post, Answered, PostRefused, SaveReceipt,
         Count, Goto, Carrying
<1>2. action = pending /\ action \in Replies
  BY <1>1 DEF Inv, Facts, Working
<1> DEFINE k == Key(action)
<1>3. k \in (1..MaxExperiments) \X Replies /\ k \in Keys /\ k[1] = experiment
  BY <1>2, KeyReply, KeyFacts DEF Inv, Actions
<1>4. /\ receipts' \subseteq receipts \cup {k} /\ counted' \subseteq counted \cup {k}
      /\ flying' \subseteq flying \cup {k} /\ delivered' = delivered
  BY DEF Receipt, Check, CheckPasses, CheckRefuses, Post, Answered, PostRefused, SaveReceipt,
         Count, files, server
<1>5. TypeOK'
  <2>1. UNION {receipts', counted', flying', delivered'} \subseteq (1..MaxExperiments) \X Replies
    BY <1>3, <1>4, FilesType DEF Inv
  <2> QED BY <1>1, <2>1 DEF Inv, TypeOK, state, fate, Carrying, Phases
<1>6. Still
  BY <1>1 DEF Still, state
<1>7. Working'
  BY <1>1, <1>2 DEF Inv, Facts, Working, state, Key, Carrying, Actions
<1>8. Fresh' /\ NothingForgotten'
  <2>1. \A j \in flying' \cup delivered' : j \in flying \cup delivered \/ j = Key(pending)
    BY <1>2, <1>4
  <2>2. Fresh'
    BY <1>3, <1>4, <1>6 DEF Inv, Facts, TypeOK, Fresh, Still
  <2>3. NothingForgotten'
    BY <2>1, <1>6 DEF Inv, Facts, NothingForgotten, Still, Key
  <2> QED BY <2>2, <2>3
<1>9. Evidence' /\ DoneIsTrue'
  <2>1. k' = k
    BY <1>1 DEF state, Key
  <2>2. CASE Receipt
    BY <2>1, <2>2, <1>1 DEF Inv, Facts, Receipt, Evidence, DoneIsTrue, state, files, server
  <2>3. CASE Check
    BY <2>1, <2>3, <1>1
       DEF Inv, Facts, Check, CheckPasses, CheckRefuses, Goto, Evidence, DoneIsTrue, state, files,
           server
  <2>4. CASE Post \/ Answered \/ PostRefused
    BY <2>1, <2>4, <1>1
       DEF Inv, Facts, Post, Answered, PostRefused, Goto, Evidence, DoneIsTrue, state, files, server
  <2>5. CASE SaveReceipt
    BY <2>1, <2>5, <1>1
       DEF Inv, Facts, SaveReceipt, Goto, Evidence, DoneIsTrue, state, files, server
  <2>6. CASE Count
    BY <2>1, <2>6, <1>1
       DEF Inv, Facts, Count, Goto, Evidence, DoneIsTrue, state, files, server
  <2> QED BY <2>2, <2>3, <2>4, <2>5, <2>6
<1> QED BY <1>5, <1>6, <1>7, <1>8, <1>9, StillCounting DEF Inv, Facts

-----------------------------------------------------------------------------
(* Reserving and resolving.                                                *)
LEMMA ReserveInv ==
  ASSUME Inv, Reserve
  PROVE  Inv'
<1>1. /\ UNCHANGED <<experiment, ended, turns, results, files, server, action, fate>>
      /\ phase = "decide" /\ phase' = AfterDecision
      /\ results[Key(action)] = "none" /\ pending = NoAction /\ turns < MaxTurns
      /\ action \in Replies => sent < MaxMessages
      /\ pending' = action
      /\ sent' = IF action \in Replies THEN sent + 1 ELSE sent
  BY DEF Reserve, Goto
<1>2. action \in Actions
  BY <1>1 DEF Inv, Facts, Working
<1>3. TypeOK'
  <2>1. sent' \in 0..MaxMessages
    BY <1>1, ResidentAssumption DEF Inv, TypeOK
  <2>2. UNCHANGED <<receipts, counted, flying, delivered, failed, wedged>>
    BY <1>1 DEF files, server, fate
  <2> QED BY <1>1, <1>2, <2>1, <2>2 DEF Inv, TypeOK, AfterDecision, Phases
<1>4. Facts'
  <2>1. NothingForgotten'
    <3>1. Key(pending) \notin Keys
      BY <1>1, KeyFacts DEF Inv
    <3>2. flying \cup delivered \subseteq Keys
      BY DEF Inv, TypeOK, Keys, Actions
    <3> QED BY <1>1, <3>1, <3>2 DEF Inv, Facts, NothingForgotten, server
  <2>2. Working' /\ Evidence' /\ Fresh' /\ DoneIsTrue'
    BY <1>1, <1>2, ResidentAssumption
       DEF Inv, Facts, Working, Evidence, Fresh, DoneIsTrue, files, server, AfterDecision, Carrying,
           Key, Actions
  <2> QED BY <2>1, <2>2 DEF Facts
<1>5. Counting'
  <2>1. CASE action \in Replies
    <3>1. Reserved' = Reserved \cup {action}
      BY <2>1, <1>1, ResidentAssumption DEF Reserved, Key, Actions
    <3>2. action \notin Reserved
      BY <1>1, <2>1, ResidentAssumption DEF Reserved, Actions
    <3>3. Cardinality(Reserved') = Cardinality(Reserved) + 1
      BY <3>1, <3>2, ReservedFinite, FS_AddElement
    <3> QED BY <2>1, <3>3, <1>1, <1>3 DEF Inv, Counting, TypeOK
  <2>2. CASE action \notin Replies
    <3>1. Reserved' = Reserved
      BY <2>2, <1>1, ResidentAssumption DEF Reserved, Key, Actions
    <3> QED BY <2>2, <3>1, <1>1 DEF Inv, Counting
  <2> QED BY <2>1, <2>2
<1> QED BY <1>3, <1>4, <1>5 DEF Inv

LEMMA OutcomeInv ==
  ASSUME Inv, Outcome
  PROVE  Inv'
<1>1. PICK result \in {"done", "refused"} :
        /\ Resolve(result)
        /\ sent' = IF result = "refused" /\ action \in Replies THEN sent - 1 ELSE sent
        /\ result = "done" => phase = "complete"
        /\ phase \in {"complete", "refused"}
  BY DEF Outcome, Complete, Refuse
<1>2. /\ UNCHANGED <<experiment, ended, files, server, fate>>
      /\ results' = [results EXCEPT ![Key(action)] = result]
      /\ pending' = NoAction /\ turns' = turns + 1
      /\ phase' = "idle" /\ action' = NoAction
  BY <1>1 DEF Resolve, Leave
<1>3. /\ action = pending /\ action \in Actions /\ action # NoAction
      /\ results[Key(action)] = "none" /\ turns < MaxTurns
  BY <1>1, ResidentAssumption DEF Inv, Facts, Working, Carrying
<1>4. Key(action) \in Keys /\ Key(action)[1] = experiment /\ Key(action)[2] = action
  BY <1>3, KeyFacts DEF Inv
<1>5. /\ results' \in [Keys -> {"none", "done", "refused"}]
      /\ results'[Key(action)] = result
      /\ \A k \in Keys : k # Key(action) => results'[k] = results[k]
  BY <1>2, <1>4 DEF Inv, TypeOK
<1>6. Facts'
  <2>1. Working' /\ Evidence'
    BY <1>2, ResidentAssumption DEF Working, Evidence, Carrying
  <2>2. Fresh'
    BY <1>2, <1>4, <1>5, ResidentAssumption DEF Inv, Facts, TypeOK, Fresh, server
  <2>3. NothingForgotten'
    <3>1. flying \cup delivered \subseteq Keys
      BY DEF Inv, TypeOK, Keys, Actions
    <3>2. Key(pending) = Key(action)
      BY <1>3
    <3> QED BY <1>1, <1>2, <1>5, <3>1, <3>2 DEF Inv, Facts, NothingForgotten, server
  <2>4. DoneIsTrue'
    <3>1. ASSUME NEW k \in Keys, results'[k] = "done", k[2] \in Replies
          PROVE  k \in counted
      <4>1. CASE k = Key(action)
        BY <4>1, <3>1, <1>1, <1>4, <1>5 DEF Inv, Facts, Evidence
      <4>2. CASE k # Key(action)
        BY <4>2, <3>1, <1>5 DEF Inv, Facts, DoneIsTrue
      <4> QED BY <4>1, <4>2
    <3> QED BY <3>1, <1>2 DEF Inv, Facts, DoneIsTrue, files, server
  <2> QED BY <2>1, <2>2, <2>3, <2>4 DEF Facts
<1>7. \A a \in Replies : a # action => results'[Key(a)'] = results[Key(a)]
  <2> SUFFICES ASSUME NEW a \in Replies, a # action
               PROVE  results'[Key(a)] = results[Key(a)]
    BY <1>2 DEF Key
  <2>1. Key(a) \in Keys /\ Key(a) # Key(action)
    BY KeyFacts DEF Inv, Actions
  <2> QED BY <2>1, <1>5
<1>8. Key(action)' = Key(NoAction) /\ results'[<<experiment', action>>] = result
  BY <1>2, <1>5 DEF Key
<1>9. Counting' /\ sent' \in 0..MaxMessages
  <2>1. Cardinality(Reserved) \in Nat /\ sent \in Nat
    BY ReservedFinite, FS_CardinalityType DEF Inv, TypeOK
  <2>2. CASE action \in Replies /\ result = "refused"
    <3>1. Reserved' = Reserved \ {action}
      <4>1. \A a \in Replies : a \in Reserved' <=> a \in Reserved /\ a # action
        <5> SUFFICES ASSUME NEW a \in Replies
                     PROVE  a \in Reserved' <=> a \in Reserved /\ a # action
          OBVIOUS
        <5>1. a # NoAction
          BY ResidentAssumption DEF Actions
        <5>2. CASE a = action
          <6>1. results'[Key(a)'] = "refused"
            BY <5>2, <2>2, <1>8 DEF Key
          <6> QED BY <6>1, <5>1, <5>2, <1>2 DEF Reserved
        <5>3. CASE a # action
          BY <5>1, <5>3, <1>2, <1>3, <1>7 DEF Reserved
        <5> QED BY <5>2, <5>3
      <4> QED BY <4>1 DEF Reserved
    <3>2. action \in Reserved
      BY <2>2, <1>3 DEF Reserved
    <3>3. Cardinality(Reserved') = Cardinality(Reserved) - 1
      BY <3>1, <3>2, ReservedFinite, FS_RemoveElement
    <3>4. IsFiniteSet(Reserved')
      BY <3>1, ReservedFinite, FS_RemoveElement
    <3>5. Cardinality(Reserved') \in Nat
      BY <3>4, FS_CardinalityType
    <3> QED BY <3>3, <3>5, <2>1, <2>2, <1>1, ResidentAssumption DEF Inv, Counting
  <2>3. CASE ~(action \in Replies /\ result = "refused")
    <3>1. \A a \in Replies : a \in Reserved' <=> a \in Reserved
      <4> SUFFICES ASSUME NEW a \in Replies
                   PROVE  a \in Reserved' <=> a \in Reserved
        OBVIOUS
      <4>1. a # NoAction
        BY ResidentAssumption DEF Actions
      <4>2. CASE a = action
        <5>1. results'[Key(a)'] = "done"
          BY <4>2, <2>3, <1>1, <1>8 DEF Key
        <5> QED BY <5>1, <4>2, <1>3 DEF Reserved
      <4>3. CASE a # action
        BY <4>1, <4>3, <1>2, <1>3, <1>7 DEF Reserved
      <4> QED BY <4>2, <4>3
    <3>2. Reserved' = Reserved
      BY <3>1 DEF Reserved
    <3> QED BY <3>2, <2>1, <2>3, <1>1, ResidentAssumption DEF Inv, Counting, TypeOK
  <2> QED BY <2>2, <2>3
<1>10. TypeOK'
  <2>1. UNCHANGED <<receipts, counted, flying, delivered, failed, wedged>>
    BY <1>2 DEF files, server, fate
  <2>2. turns' \in 0..MaxTurns
    BY <1>2, <1>3, ResidentAssumption DEF Inv, TypeOK
  <2> QED BY <1>2, <1>5, <1>9, <2>1, <2>2 DEF Inv, TypeOK, Phases
<1> QED BY <1>6, <1>9, <1>10 DEF Inv

(* A new experiment starts when nothing is pending, so that nothing of its *)
(* predecessor is left without an outcome.                                 *)
LEMMA NewExperimentInv ==
  ASSUME Inv, NewExperiment
  PROVE  Inv'
<1>1. /\ phase = "idle" /\ pending = NoAction /\ experiment' = experiment + 1
      /\ experiment < MaxExperiments
      /\ ended' = FALSE /\ sent' = 0 /\ turns' = 0
      /\ UNCHANGED <<pending, results, files, server, command, fate>>
  BY DEF NewExperiment
<1>2. experiment' \in 1..MaxExperiments
  BY <1>1, ResidentAssumption DEF Inv, TypeOK
<1>3. TypeOK'
  <2>1. UNCHANGED <<receipts, counted, flying, delivered, failed, wedged, phase, action>>
    BY <1>1 DEF files, server, command, fate
  <2>2. sent' \in 0..MaxMessages /\ turns' \in 0..MaxTurns
    BY <1>1, ResidentAssumption
  <2> QED BY <1>1, <1>2, <2>1, <2>2 DEF Inv, TypeOK
<1>4. Facts'
  <2>1. Working' /\ Evidence' /\ DoneIsTrue'
    BY <1>1, ResidentAssumption
       DEF Inv, Facts, Working, Evidence, DoneIsTrue, files, server, command, Carrying
  <2>2. Fresh'
    BY <1>1 DEF Inv, Facts, TypeOK, Fresh, server, Keys
  <2>3. NothingForgotten'
    <3>1. flying \cup delivered \subseteq Keys /\ Key(pending) \notin Keys
      BY <1>1, KeyFacts DEF Inv, TypeOK, Keys, Actions
    <3> QED BY <1>1, <3>1 DEF Inv, Facts, NothingForgotten, server
  <2> QED BY <2>1, <2>2, <2>3 DEF Facts
<1>5. Reserved' = {}
  <2> SUFFICES ASSUME NEW a \in Replies
               PROVE  results'[Key(a)'] # "done" /\ a # pending'
    BY DEF Reserved
  <2>1. Key(a)' \in Keys /\ Key(a)'[1] > experiment
    BY <1>1, <1>2 DEF Key, Keys, Actions, Inv, TypeOK
  <2>2. results'[Key(a)'] = "none"
    BY <2>1, <1>1 DEF Inv, Facts, Fresh
  <2> QED BY <2>2, <1>1, ResidentAssumption DEF Actions
<1>6. Counting'
  BY <1>1, <1>5, FS_EmptySet, ResidentAssumption DEF Counting
<1> QED BY <1>3, <1>4, <1>6 DEF Inv

LEMMA OtherInv ==
  ASSUME Inv,
         \/ \E a \in Actions : Command(a)
         \/ Locked \/ Connect \/ Terminal \/ Decline \/ TurnBudget \/ Timeout \/ Die \/ End
  PROVE  Inv'
<1>1. Still /\ UNCHANGED <<files, server>>
  BY DEF Command, Locked, Connect, Terminal, Decline, TurnBudget, Timeout, Die, End, state, Still
<1>2. ended' \in BOOLEAN
  BY DEF Command, Locked, Connect, Terminal, Decline, TurnBudget, Timeout, Die, End, state, Inv,
     TypeOK
<1>3. failed' \in BOOLEAN /\ wedged' \in BOOLEAN
  BY DEF Command, Locked, Connect, Terminal, Decline, TurnBudget, Timeout, Die, End, fate, Inv,
     TypeOK
<1>4. \/ phase' = "idle" /\ action' \in Actions \cup {NoAction}
      \/ phase' = "lock" /\ action' \in Actions
      \/ phase = "lock" /\ phase' = "connect" /\ action' = action
      \/ phase = "connect" /\ phase' = "decide" /\ action' = action
      \/ phase = "idle" /\ phase' = "idle" /\ action' = action
  BY DEF Command, Locked, Connect, Terminal, Decline, TurnBudget, Timeout, Die, End, command, Goto,
     Leave
<1> QED BY <1>1, <1>2, <1>3, <1>4, QuietStep

LEMMA NextInv == Inv /\ [Next]_vars => Inv'
<1> SUFFICES ASSUME Inv, [Next]_vars
             PROVE  Inv'
  OBVIOUS
<1>1. CASE (\E a \in Actions : Command(a)) \/ Die \/ End
  BY <1>1, OtherInv
<1>2. CASE Step
  BY <1>2, OtherInv, ReserveInv, ResumeInv, ReplyInv, OutcomeInv DEF Step, Decide
<1>3. CASE Server
  BY <1>3, ServerInv DEF Server
<1>4. CASE NewExperiment
  BY <1>4, NewExperimentInv
<1>5. CASE UNCHANGED vars
  <2>1. TypeOK' /\ Facts'
    BY <1>5 DEF vars, state, files, server, command, fate, Inv, TypeOK, Facts, Working, Evidence,
                Fresh, NothingForgotten, DoneIsTrue, Key
  <2>2. Still
    BY <1>5 DEF vars, state, Still
  <2> QED BY <2>1, <2>2, StillCounting DEF Inv
<1> QED BY <1>1, <1>2, <1>3, <1>4, <1>5 DEF Next

LEMMA SpecInv == Spec => []Inv
BY InitInv, NextInv, PTL DEF Spec

(* The messages of the experiment that were not reported refused are among *)
(* those that messagesSent counts.                                         *)
LEMMA InvCap == Inv => CapHolds
<1> SUFFICES ASSUME Inv
             PROVE  CapHolds
  OBVIOUS
<1> DEFINE kept == {a \in Messages : results[Key(a)] # "refused"}
<1>1. kept \subseteq Reserved
  <2> SUFFICES ASSUME NEW a \in kept
               PROVE  a \in Reserved
    OBVIOUS
  <2>1. a \in Replies /\ Key(a) \in flying \cup delivered /\ results[Key(a)] # "refused"
    BY DEF Messages
  <2>2. results[Key(a)] # "none" \/ a = pending
    BY <2>1, KeyFacts DEF Inv, Facts, NothingForgotten
  <2>3. results[Key(a)] \in {"none", "done", "refused"}
    BY <2>1, KeyFacts DEF Inv, TypeOK, Actions
  <2> QED BY <2>1, <2>2, <2>3 DEF Reserved
<1>2. Cardinality(kept) <= Cardinality(Reserved) /\ IsFiniteSet(kept)
  BY <1>1, ReservedFinite, FS_Subset
<1>3. Cardinality(kept) \in Nat /\ Cardinality(Reserved) \in Nat
  BY <1>2, ReservedFinite, FS_CardinalityType
<1>4. Cardinality(Reserved) <= MaxMessages
  BY DEF Inv, Counting
<1>5. Cardinality(kept) <= MaxMessages
  <2> HIDE DEF kept
  <2> QED BY <1>2, <1>3, <1>4, ResidentAssumption
<1> QED BY <1>5 DEF CapHolds

(* At any death, retry and late delivery, with any number of decisions, no *)
(* more messages of an experiment than its cap reach the server, except    *)
(* those that were reported refused.                                       *)
THEOREM CapCorrect == Spec => []CapHolds
BY SpecInv, InvCap, PTL

(* Every message that the server has or may get belongs to a decision with *)
(* an outcome or to the one that is still pending.                         *)
THEOREM NothingForgottenCorrect == Spec => []NothingForgotten
<1>1. Inv => NothingForgotten
  BY DEF Inv, Facts
<1> QED BY <1>1, SpecInv, PTL

(* A reply that is reported done was delivered, has its receipt and is     *)
(* counted; nothing is counted that was not delivered.                     *)
THEOREM DoneCorrect == Spec => []DoneIsTrue
<1>1. Inv => DoneIsTrue
  BY DEF Inv, Facts
<1> QED BY <1>1, SpecInv, PTL

(* The state of a participant keeps its types and its budgets.             *)
THEOREM TypeCorrect == Spec => []TypeOK
<1>1. Inv => TypeOK
  BY DEF Inv
<1> QED BY <1>1, SpecInv, PTL
=============================================================================
