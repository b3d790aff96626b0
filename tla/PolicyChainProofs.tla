------------------------- MODULE PolicyChainProofs --------------------------
(***************************************************************************)
(* Proofs about PolicyChain, for any scripts and any number of them.       *)
(***************************************************************************)
EXTENDS PolicyChain, TLAPS

(* What one script's run amounts to (outcome_from_run) is always a well      *)
(* formed outcome.                                                           *)
LEMMA OutcomeShape ==
    ASSUME NEW script \in Seq(Actions)
    PROVE  OutcomeFromRun(script) \in Outcomes
<1>1. EngineOutcome(script) \in {"keep", "discard", "reject"}
  <2>1. CASE \E i \in DOMAIN script : Decisive(script, i)
    BY <2>1 DEF EngineOutcome, Decisive
  <2>2. CASE ~ \E i \in DOMAIN script : Decisive(script, i)
    BY <2>2 DEF EngineOutcome
  <2> QED BY <2>1, <2>2
<1>2. Contains(script, "archive") \in BOOLEAN /\ Contains(script, "no-dkim") \in BOOLEAN
      /\ Contains(script, "munge-from") \in BOOLEAN
  BY DEF Contains
<1> QED BY <1>1, <1>2 DEF OutcomeFromRun, Outcomes, Decisions

(* The three scripts a built-in gate can amount to.                          *)
LEMMA GateScripts ==
    /\ <<>> \in Seq(Actions) /\ <<"reject">> \in Seq(Actions) /\ <<"no-dkim">> \in Seq(Actions)
    /\ OutcomeFromRun(<<"reject">>).decision = "reject"
    /\ OutcomeFromRun(<<"no-dkim">>).noDkim = TRUE
<1>1. <<>> \in Seq(Actions) /\ <<"reject">> \in Seq(Actions) /\ <<"no-dkim">> \in Seq(Actions)
  BY DEF Actions
<1>2. EngineOutcome(<<"reject">>) = "reject"
  <2>1. Decisive(<<"reject">>, 1)
    BY DEF Decisive
  <2>2. \A i \in DOMAIN <<"reject">> : i = 1
    OBVIOUS
  <2> QED BY <2>1, <2>2 DEF EngineOutcome
<1>3. Contains(<<"no-dkim">>, "no-dkim")
  BY DEF Contains
<1> QED BY <1>1, <1>2, <1>3 DEF OutcomeFromRun

(* Folding an outcome in keeps the Accumulator well formed.                  *)
LEMMA MergeShape ==
    ASSUME NEW so_far \in Outcomes, NEW out \in Outcomes
    PROVE  Merge(so_far, out) \in Outcomes
BY DEF Merge, Outcomes, Decisions

-----------------------------------------------------------------------------
(* A run of one more script keeps acc and ran well formed; stated once for   *)
(* the gates, the drop-ins and the list policy.                              *)
LEMMA RunShape ==
    ASSUME TypeOK, NEW script \in Seq(Actions), RunScript(OutcomeFromRun(script))
    PROVE  /\ acc' \in Outcomes /\ ran' \in Seq(Outcomes)
           /\ Len(ran') = Len(ran) + 1
           /\ ran' = Append(ran, OutcomeFromRun(script))
           /\ acc' = Merge(acc, OutcomeFromRun(script))
           /\ OutcomeFromRun(script) \in Outcomes
BY OutcomeShape, MergeShape DEF RunScript, TypeOK

(* Every variable of the chain keeps its shape, and no half runs past its    *)
(* scripts (evaluate_before, evaluate_after).                                *)
THEOREM ChainTypeCorrect == Spec => []TypeOK
<1>1. Init => TypeOK
  BY ChainAssumption DEF Init, TypeOK, Fresh, NotSent, Verdicts, Outcomes, Decisions
<1>2. TypeOK /\ [Next]_vars => TypeOK'
  <2> SUFFICES ASSUME TypeOK, [Next]_vars PROVE TypeOK'
    OBVIOUS
  <2> USE ChainAssumption
  <2>1. CASE GateBefore
    <3>1. PICK script \in Seq(Actions) : RunScript(OutcomeFromRun(script))
      BY <2>1, GateScripts DEF GateBefore
    <3> QED BY <2>1, <3>1, RunShape DEF GateBefore, TypeOK, RunScript
  <2>2. CASE GateAfter
    <3>1. PICK script \in Seq(Actions) : RunScript(OutcomeFromRun(script))
      BY <2>2, GateScripts DEF GateAfter
    <3> QED BY <2>2, <3>1, RunShape DEF GateAfter, TypeOK, RunScript
  <2>3. CASE DropIn
    <3>1. PICK script \in Seq(Actions) : RunScript(OutcomeFromRun(script))
      BY <2>3 DEF DropIn
    <3> QED BY <2>3, <3>1, RunShape DEF DropIn, TypeOK, RunScript
  <2>4. CASE ListPolicy
    <3>1. PICK script \in Seq(Actions) : RunScript(OutcomeFromRun(script))
      BY <2>4 DEF ListPolicy
    <3> QED BY <2>4, <3>1, RunShape DEF ListPolicy, TypeOK, RunScript
  <2>5. CASE ScriptError
    BY <2>5 DEF ScriptError, TypeOK, Ends
  <2>6. CASE DecideBefore
    <3>1. CASE acc.decision = "approve"
      <4>1. archived' \in Nat /\ asked' \in Nat
        BY <2>6 DEF DecideBefore, TypeOK, Archive, Asked
      <4>2. StartAfter /\ passed' = ran /\ UNCHANGED <<approvals, sent>>
        BY <2>6, <3>1 DEF DecideBefore
      <4> QED BY <4>1, <4>2 DEF TypeOK, StartAfter, Fresh, Outcomes, Decisions
    <3>2. CASE acc.decision # "approve"
      <4>1. archived' \in Nat /\ asked' \in Nat
        BY <2>6 DEF DecideBefore, TypeOK, Archive, Asked
      <4>2. /\ stage = "before" /\ stage' = DispositionOf(acc.decision)
            /\ UNCHANGED <<pos, verdict, acc, approvals, sent, ran, passed>>
        BY <2>6, <3>2 DEF DecideBefore
      <4>3. acc.decision \in {"moderate", "discard", "reject"}
        BY <3>2 DEF TypeOK, Outcomes, Decisions
      <4>4. stage' \in {"held", "discarded", "rejected"}
        BY <4>2, <4>3 DEF DispositionOf
      <4>5. pos' \in 0..(IF stage' = "after" THEN AfterCount + 1
                   ELSE IF BeforeCount > AfterCount THEN BeforeCount + 2 ELSE AfterCount + 2)
        BY <4>2, <4>4 DEF TypeOK
      <4> QED BY <4>1, <4>2, <4>4, <4>5 DEF TypeOK, Ends
    <3> QED BY <3>1, <3>2
  <2>7. CASE DecideAfter
    <3>1. CASE acc.decision = "approve"
      <4>1. archived' \in Nat /\ asked' \in Nat
        BY <2>7 DEF DecideAfter, TypeOK, Archive, Asked
      <4>2. /\ stage' = "distributed" /\ stage = "after"
            /\ sent' = [dkim |-> ~acc.noDkim, dkim2 |-> Dkim2Chain /\ ~acc.noDkim, munged |-> acc.munge]
            /\ UNCHANGED <<pos, verdict, acc, approvals, ran, passed>>
        BY <2>7, <3>1 DEF DecideAfter
      <4>3. acc.munge \in BOOLEAN
        BY DEF TypeOK, Outcomes
      <4>4. sent' \in [dkim : BOOLEAN, dkim2 : BOOLEAN, munged : BOOLEAN]
        BY <4>2, <4>3
      <4>5. pos' \in 0..(IF stage' = "after" THEN AfterCount + 1
                   ELSE IF BeforeCount > AfterCount THEN BeforeCount + 2 ELSE AfterCount + 2)
        BY <4>2 DEF TypeOK
      <4> QED BY <4>1, <4>2, <4>4, <4>5 DEF TypeOK, Ends
    <3>2. CASE acc.decision # "approve"
      <4>1. archived' \in Nat /\ asked' \in Nat
        BY <2>7 DEF DecideAfter, TypeOK, Archive, Asked
      <4>2. /\ stage = "after" /\ stage' = DispositionOf(acc.decision)
            /\ UNCHANGED <<pos, verdict, acc, approvals, sent, ran, passed>>
        BY <2>7, <3>2 DEF DecideAfter
      <4>3. acc.decision \in {"moderate", "discard", "reject"}
        BY <3>2 DEF TypeOK, Outcomes, Decisions
      <4>4. stage' \in {"held", "discarded", "rejected"}
        BY <4>2, <4>3 DEF DispositionOf
      <4>5. pos' \in 0..(IF stage' = "after" THEN AfterCount + 1
                   ELSE IF BeforeCount > AfterCount THEN BeforeCount + 2 ELSE AfterCount + 2)
        BY <4>2, <4>4 DEF TypeOK
      <4> QED BY <4>1, <4>2, <4>4, <4>5 DEF TypeOK, Ends
    <3> QED BY <3>1, <3>2
  <2>8. CASE Approve
    BY <2>8 DEF Approve, TypeOK, StartAfter, Fresh, Outcomes, Decisions
  <2>9. CASE UNCHANGED vars
    BY <2>9 DEF vars, TypeOK
  <2> QED BY <2>1, <2>2, <2>3, <2>4, <2>5, <2>6, <2>7, <2>8, <2>9 DEF Next
<1> QED BY <1>1, <1>2, PTL DEF Spec

-----------------------------------------------------------------------------
(* What the gate of a half leaves in the Accumulator, and no later script    *)
(* takes away: a refusal ends the half, and flags only add up.               *)
GateHeld ==
    /\ stage = "before" /\ pos > 0 /\ Failing(verdict) => acc.decision = "reject"
    /\ stage \in {"after", "distributed"} /\ pos > 0 =>
           /\ Failing(verdict) => acc.decision = "reject"
           /\ ~verdict.pass => acc.noDkim = TRUE \/ acc.decision = "reject"
    /\ stage = "held" /\ approvals = 0 => ~Failing(verdict)
    /\ stage = "distributed" =>
           /\ pos > 0 /\ acc.decision = "approve"
           /\ sent.dkim = TRUE => acc.noDkim # TRUE
           /\ sent.dkim2 = TRUE => acc.noDkim # TRUE

(* A further script that runs leaves the gate's work in place.               *)
LEMMA GateStands ==
    ASSUME TypeOK, GateHeld, stage \in {"before", "after"}, pos > 0, ~IsTerminal(acc.decision),
           NEW script \in Seq(Actions), RunScript(OutcomeFromRun(script)),
           UNCHANGED <<stage, verdict>>
    PROVE  GateHeld'
<1>1. acc' = Merge(acc, OutcomeFromRun(script)) /\ pos' > 0
  BY DEF RunScript, TypeOK
<1>2. ~Failing(verdict)
  BY DEF GateHeld, IsTerminal
<1>3. stage = "after" /\ ~verdict.pass => acc'.noDkim = TRUE
  BY <1>1 DEF GateHeld, IsTerminal, Merge
<1> QED BY <1>1, <1>2, <1>3 DEF GateHeld, Failing

(* ReputationProtected: nothing that fails an enforcing DMARC policy is      *)
(* distributed, nothing that does not pass is signed by the list, and        *)
(* nothing failing is put before a moderator by intake (dmarc-before.sieve,  *)
(* dmarc-after.sieve, merge, is_terminal).                                   *)
THEOREM SignedOnlyIfPassing == Spec => []ReputationProtected
<1>1. Init => GateHeld
  BY DEF Init, GateHeld
<1>2. TypeOK /\ GateHeld /\ [Next]_vars => GateHeld'
  <2> SUFFICES ASSUME TypeOK, GateHeld, [Next]_vars PROVE GateHeld'
    OBVIOUS
  <2>1. CASE GateBefore
    <3>1. Failing(verdict) => acc' = Merge(acc, OutcomeFromRun(<<"reject">>))
      BY <2>1 DEF GateBefore, RunScript
    <3>2. Failing(verdict) => acc'.decision = "reject"
      BY <3>1, GateScripts DEF Merge
    <3> QED BY <2>1, <3>2 DEF GateBefore, GateHeld, Failing
  <2>2. CASE GateAfter
    <3>1. Failing(verdict) => acc' = Merge(acc, OutcomeFromRun(<<"reject">>))
      BY <2>2 DEF GateAfter, RunScript, Failing
    <3>2. Failing(verdict) => acc'.decision = "reject"
      BY <3>1, GateScripts DEF Merge
    <3>3. ~verdict.pass /\ ~verdict.enforced => acc' = Merge(acc, OutcomeFromRun(<<"no-dkim">>))
      BY <2>2 DEF GateAfter, RunScript
    <3>4. ~verdict.pass /\ ~verdict.enforced => acc'.noDkim = TRUE
      <4>1. OutcomeFromRun(<<"no-dkim">>) \in Outcomes /\ acc \in Outcomes
        BY GateScripts, OutcomeShape DEF TypeOK
      <4>2. OutcomeFromRun(<<"no-dkim">>).noDkim
        BY GateScripts
      <4> QED BY <3>3, <4>1, <4>2 DEF Merge, Outcomes
    <3> QED BY <2>2, <3>2, <3>4 DEF GateAfter, GateHeld, Failing
  <2>3. CASE DropIn
    <3>1. PICK script \in Seq(Actions) : RunScript(OutcomeFromRun(script))
      BY <2>3, ChainAssumption DEF DropIn
    <3> QED BY <2>3, <3>1, GateStands DEF DropIn, TypeOK
  <2>4. CASE ListPolicy
    <3>1. PICK script \in Seq(Actions) : RunScript(OutcomeFromRun(script))
      BY <2>4, ChainAssumption DEF ListPolicy
    <3>2. pos > 0 /\ ~IsTerminal(acc.decision) /\ stage = "before" /\ UNCHANGED <<stage, verdict>>
      BY <2>4, ChainAssumption DEF ListPolicy, IsTerminal
    <3> QED BY <3>1, <3>2, GateStands
  <2>5. CASE ScriptError
    <3>1. stage' \in {"held", "failed"} /\ (stage' = "held" => approvals' # 0)
      BY <2>5 DEF ScriptError, TypeOK
    <3> QED BY <3>1 DEF GateHeld
  <2>6. CASE DecideBefore
    <3>1. CASE acc.decision = "approve"
      BY <2>6, <3>1 DEF DecideBefore, StartAfter, GateHeld
    <3>2. CASE acc.decision # "approve"
      <4>1. stage' = DispositionOf(acc.decision) /\ UNCHANGED <<verdict, approvals>>
        BY <2>6, <3>2 DEF DecideBefore
      <4>2. stage' \in {"held", "discarded", "rejected"} /\ (stage' = "held" => acc.decision = "moderate")
        BY <3>2, <4>1 DEF DispositionOf, TypeOK, Outcomes, Decisions
      <4>3. stage' = "held" => ~Failing(verdict)
        BY <2>6, <4>2 DEF DecideBefore, GateHeld
      <4> QED BY <4>1, <4>2, <4>3 DEF GateHeld, Failing
    <3> QED BY <3>1, <3>2
  <2>7. CASE DecideAfter
    <3>1. CASE acc.decision = "approve"
      <4>1. /\ stage' = "distributed" /\ stage = "after" /\ pos > 0
            /\ sent' = [dkim |-> ~acc.noDkim, dkim2 |-> Dkim2Chain /\ ~acc.noDkim, munged |-> acc.munge]
            /\ UNCHANGED <<pos, verdict, acc, approvals>>
        BY <2>7, <3>1 DEF DecideAfter
      <4>2. sent'.dkim = TRUE \/ sent'.dkim2 = TRUE => acc.noDkim # TRUE
        BY <4>1
      <4> QED BY <3>1, <4>1, <4>2 DEF GateHeld, Failing
    <3>2. CASE acc.decision # "approve"
      <4>1. stage' = DispositionOf(acc.decision) /\ UNCHANGED <<verdict, approvals>>
        BY <2>7, <3>2 DEF DecideAfter
      <4>2. stage' \in {"held", "discarded", "rejected"} /\ (stage' = "held" => acc.decision = "moderate")
        BY <3>2, <4>1 DEF DispositionOf, TypeOK, Outcomes, Decisions
      <4>3. stage' = "held" => ~Failing(verdict)
        BY <2>7, <4>2 DEF DecideAfter, GateHeld
      <4> QED BY <4>1, <4>2, <4>3 DEF GateHeld, Failing
    <3> QED BY <3>1, <3>2
  <2>8. CASE Approve
    BY <2>8 DEF Approve, StartAfter, GateHeld
  <2>9. CASE UNCHANGED vars
    BY <2>9 DEF vars, GateHeld, Failing
  <2> QED BY <2>1, <2>2, <2>3, <2>4, <2>5, <2>6, <2>7, <2>8, <2>9 DEF Next
<1>3. TypeOK /\ GateHeld => ReputationProtected
  <2> SUFFICES ASSUME TypeOK, GateHeld PROVE ReputationProtected
    OBVIOUS
  <2>1. stage = "held" /\ approvals = 0 => ~Failing(verdict)
    BY DEF GateHeld
  <2>2. ASSUME stage = "distributed" PROVE ~Failing(verdict) /\ (sent.dkim \/ sent.dkim2 => verdict.pass)
    <3>1. sent.dkim \in BOOLEAN /\ sent.dkim2 \in BOOLEAN
      BY DEF TypeOK
    <3>2. sent.dkim = TRUE \/ sent.dkim2 = TRUE => verdict.pass
      BY <2>2 DEF GateHeld
    <3> QED BY <2>2, <3>1, <3>2 DEF GateHeld
  <2> QED BY <2>1, <2>2 DEF ReputationProtected
<1> QED BY <1>1, <1>2, <1>3, ChainTypeCorrect, PTL DEF Spec

-----------------------------------------------------------------------------
AllKeep(outcomes) == \A i \in DOMAIN outcomes : outcomes[i].decision = "approve"

(* An approval so far is the approval of every script so far, and the list   *)
(* of outcomes is as long as the half has run.                               *)
InOrder ==
    /\ stage \in {"before", "after", "distributed"} =>
           Len(ran) = pos /\ (acc.decision = "approve" => AllKeep(ran))
    /\ stage = "distributed" => pos = AfterCount + 1 /\ acc.decision = "approve"

(* Running one more script keeps that.                                       *)
LEMMA RunInOrder ==
    ASSUME TypeOK, InOrder, stage \in {"before", "after"},
           NEW script \in Seq(Actions), RunScript(OutcomeFromRun(script)),
           UNCHANGED stage
    PROVE  InOrder'
<1> DEFINE out == OutcomeFromRun(script)
<1>1. ran' = Append(ran, out) /\ acc' = Merge(acc, out) /\ pos' = pos + 1 /\ Len(ran') = Len(ran) + 1
  BY RunShape DEF RunScript
<1>2. acc'.decision = "approve" => acc.decision = "approve" /\ out.decision = "approve"
  BY <1>1 DEF Merge
<1>3. acc'.decision = "approve" => AllKeep(ran')
  <2> SUFFICES ASSUME acc'.decision = "approve", NEW i \in DOMAIN ran' PROVE ran'[i].decision = "approve"
    BY DEF AllKeep
  <2>1. ran \in Seq(Outcomes) /\ out \in Outcomes
    BY RunShape DEF TypeOK
  <2>2. CASE i = Len(ran) + 1
    BY <1>1, <1>2, <2>1, <2>2
  <2>3. CASE i # Len(ran) + 1
    <3>1. i \in DOMAIN ran /\ ran'[i] = ran[i]
      BY <1>1, <2>1, <2>3
    <3> QED BY <1>2, <3>1 DEF InOrder, AllKeep
  <2> QED BY <2>2, <2>3
<1>4. Len(ran') = pos'
  BY <1>1 DEF InOrder, TypeOK
<1> QED BY <1>3, <1>4 DEF InOrder

(* Every step of the chain keeps InOrder.                                     *)
LEMMA InOrderStep == ASSUME TypeOK, InOrder, [Next]_vars PROVE InOrder'
<1>1. CASE GateBefore \/ GateAfter \/ DropIn \/ ListPolicy
  <2>1. PICK script \in Seq(Actions) : RunScript(OutcomeFromRun(script))
    BY <1>1, GateScripts, ChainAssumption DEF GateBefore, GateAfter, DropIn, ListPolicy
  <2>2. stage \in {"before", "after"} /\ UNCHANGED stage
    BY <1>1 DEF GateBefore, GateAfter, DropIn, ListPolicy
  <2> QED BY <2>1, <2>2, RunInOrder
<1>2. CASE ScriptError
  BY <1>2 DEF ScriptError, InOrder
<1>3. CASE DecideBefore
  <2>1. CASE acc.decision = "approve"
    BY <1>3, <2>1 DEF DecideBefore, StartAfter, InOrder, AllKeep
  <2>2. CASE acc.decision # "approve"
    <3>1. stage' \in {"held", "discarded", "rejected"}
      BY <1>3, <2>2 DEF DecideBefore, DispositionOf, TypeOK, Outcomes, Decisions
    <3> QED BY <3>1 DEF InOrder
  <2> QED BY <2>1, <2>2
<1>4. CASE DecideAfter
  <2>1. CASE acc.decision = "approve"
    <3>1. pos = AfterCount + 1
      BY <1>4, <2>1 DEF DecideAfter, AfterDone, IsTerminal
    <3>2. Len(ran) = pos /\ AllKeep(ran) /\ stage' = "distributed" /\ UNCHANGED <<pos, acc, ran>>
      BY <1>4, <2>1 DEF DecideAfter, InOrder
    <3> QED BY <2>1, <3>1, <3>2 DEF InOrder, AllKeep
  <2>2. CASE acc.decision # "approve"
    <3>1. stage' \in {"held", "discarded", "rejected"}
      BY <1>4, <2>2 DEF DecideAfter, DispositionOf, TypeOK, Outcomes, Decisions
    <3> QED BY <3>1 DEF InOrder
  <2> QED BY <2>1, <2>2
<1>5. CASE Approve
  BY <1>5 DEF Approve, StartAfter, InOrder, AllKeep
<1>6. CASE UNCHANGED vars
  BY <1>6 DEF vars, InOrder, AllKeep
<1> QED BY <1>1, <1>2, <1>3, <1>4, <1>5, <1>6 DEF Next

-----------------------------------------------------------------------------
(* The rule of LastWordDecides without its exception: what the code does.    *)
LastWord ==
    /\ \/ /\ acc.decision = "approve"
          /\ \A i \in DOMAIN ran : ran[i].decision = "approve"
       \/ \E i \in DOMAIN ran :
             /\ ran[i].decision # "approve" /\ acc.decision = ran[i].decision
             /\ \A j \in DOMAIN ran : j > i => ran[j].decision = "approve"
    /\ \A i \in DOMAIN ran : ran[i].decision \in {"discard", "reject"} => i = Len(ran)

(* Running one more script keeps the last word in the Accumulator.           *)
LEMMA RunLastWord ==
    ASSUME TypeOK, InOrder, LastWord, stage \in {"before", "after"},
           pos = 0 \/ ~IsTerminal(acc.decision),
           NEW script \in Seq(Actions), RunScript(OutcomeFromRun(script))
    PROVE  LastWord'
<1> DEFINE out == OutcomeFromRun(script)
<1>1. /\ ran \in Seq(Outcomes) /\ out \in Outcomes /\ acc \in Outcomes
      /\ ran' = Append(ran, out) /\ acc' = Merge(acc, out)
  BY RunShape DEF TypeOK
<1> HIDE DEF out
<1>2. /\ DOMAIN ran' = 1..(Len(ran) + 1) /\ DOMAIN ran = 1..Len(ran) /\ Len(ran) \in Nat
      /\ Len(ran') = Len(ran) + 1 /\ ran'[Len(ran) + 1] = out
      /\ \A i \in 1..Len(ran) : ran'[i] = ran[i]
  BY <1>1
<1>3. acc'.decision = IF out.decision = "approve" THEN acc.decision ELSE out.decision
  BY <1>1 DEF Merge
<1>4. \A i \in DOMAIN ran : ran[i].decision \notin {"discard", "reject"}
  <2> SUFFICES ASSUME NEW i \in DOMAIN ran, ran[i].decision \in {"discard", "reject"} PROVE FALSE
    OBVIOUS
  <2>1. i = Len(ran) /\ Len(ran) > 0
    BY <1>2 DEF LastWord
  <2>2. acc.decision = ran[i].decision
    BY <1>2, <2>1 DEF LastWord
  <2> QED BY <2>1, <2>2 DEF InOrder, IsTerminal
<1>5. \A i \in DOMAIN ran' : ran'[i].decision \in {"discard", "reject"} => i = Len(ran')
  BY <1>2, <1>4
<1>6. CASE out.decision = "approve"
  <2>1. CASE acc.decision = "approve" /\ \A i \in DOMAIN ran : ran[i].decision = "approve"
    <3>1. acc'.decision = "approve" /\ \A i \in DOMAIN ran' : ran'[i].decision = "approve"
      BY <1>2, <1>3, <1>6, <2>1
    <3> QED BY <1>5, <3>1 DEF LastWord
  <2>2. ASSUME NEW i \in DOMAIN ran, ran[i].decision # "approve", acc.decision = ran[i].decision,
               \A j \in DOMAIN ran : j > i => ran[j].decision = "approve"
        PROVE  LastWord'
    <3>1. /\ i \in DOMAIN ran' /\ ran'[i].decision # "approve" /\ acc'.decision = ran'[i].decision
          /\ \A j \in DOMAIN ran' : j > i => ran'[j].decision = "approve"
      BY <1>2, <1>3, <1>6, <2>2
    <3> QED BY <1>5, <3>1 DEF LastWord
  <2> QED BY <2>1, <2>2 DEF LastWord
<1>7. CASE out.decision # "approve"
  <2> DEFINE i == Len(ran) + 1
  <2>1. /\ i \in DOMAIN ran' /\ ran'[i].decision # "approve" /\ acc'.decision = ran'[i].decision
        /\ \A j \in DOMAIN ran' : ~(j > i)
    BY <1>2, <1>3, <1>7
  <2> QED BY <1>5, <2>1 DEF LastWord
<1> QED BY <1>6, <1>7

(* Every step of the chain keeps LastWord.                                   *)
LEMMA LastWordStep == ASSUME TypeOK, InOrder, LastWord, [Next]_vars PROVE LastWord'
<1>1. CASE GateBefore \/ GateAfter \/ DropIn \/ ListPolicy
  <2>1. PICK script \in Seq(Actions) : RunScript(OutcomeFromRun(script))
    BY <1>1, GateScripts, ChainAssumption DEF GateBefore, GateAfter, DropIn, ListPolicy
  <2>2. stage \in {"before", "after"} /\ (pos = 0 \/ ~IsTerminal(acc.decision))
    BY <1>1 DEF GateBefore, GateAfter, DropIn, ListPolicy, IsTerminal
  <2> QED BY <2>1, <2>2, RunLastWord
<1>2. CASE StartAfter
  BY <1>2 DEF StartAfter, Fresh, LastWord
<1>3. CASE UNCHANGED <<acc, ran>>
  BY <1>3 DEF LastWord
<1>4. ScriptError \/ DecideAfter => UNCHANGED <<acc, ran>>
  BY DEF ScriptError, DecideAfter
<1>5. DecideBefore \/ Approve => StartAfter \/ UNCHANGED <<acc, ran>>
  BY DEF DecideBefore, Approve
<1> QED BY <1>1, <1>2, <1>3, <1>4, <1>5 DEF Next, vars

(* LastWordDecides: what a half decides is the last explicit decision of its *)
(* scripts, and no script runs after a discard or reject (merge,             *)
(* is_terminal, run_scripts).                                                *)
THEOREM LastWordStands == Spec => []LastWordDecides
<1>1. Init => InOrder /\ LastWord
  BY DEF Init, InOrder, AllKeep, LastWord, Fresh
<1>2. TypeOK /\ InOrder /\ LastWord /\ [Next]_vars => InOrder' /\ LastWord'
  BY InOrderStep, LastWordStep
<1>3. LastWord => LastWordDecides
  BY DEF LastWord, LastWordDecides
<1> QED BY <1>1, <1>2, <1>3, ChainTypeCorrect, PTL DEF Spec

-----------------------------------------------------------------------------
(* A first half that was not refused: its gate and all its drop-ins ran, and *)
(* the list's own policy unless one of them held the message.                *)
Unrefused(outcomes) ==
    /\ Len(outcomes) \in {BeforeCount + 1, BeforeCount + 2}
    /\ \A i \in DOMAIN outcomes : outcomes[i].decision \in {"approve", "moderate"}
    /\ Len(outcomes) = BeforeCount + 1 => \E i \in DOMAIN outcomes : outcomes[i].decision = "moderate"

(* What lets a message into the second half, and what is in the queue.       *)
Through ==
    /\ passed # <<>> => Unrefused(passed)
    /\ stage = "before" => passed = <<>> /\ approvals = 0
    /\ stage = "held" /\ passed = <<>> => Unrefused(ran)
    /\ stage \in {"after", "distributed"} => passed # <<>>
    /\ stage \in {"after", "distributed"} /\ approvals = 0 =>
           Len(passed) = BeforeCount + 2 /\ AllKeep(passed)

(* A half whose decision is not a refusal had no script refuse.              *)
LEMMA NoneRefused ==
    ASSUME TypeOK, LastWord, acc.decision \in {"approve", "moderate"}
    PROVE  /\ \A i \in DOMAIN ran : ran[i].decision \in {"approve", "moderate"}
           /\ acc.decision = "moderate" => \E i \in DOMAIN ran : ran[i].decision = "moderate"
<1>1. ran \in Seq(Outcomes) /\ DOMAIN ran = 1..Len(ran) /\ Len(ran) \in Nat
  BY DEF TypeOK
<1>2. ASSUME NEW i \in DOMAIN ran PROVE ran[i].decision \in {"approve", "moderate"}
  <2>1. ran[i].decision \in Decisions
    <3>1. ran[i] \in Outcomes
      BY <1>1
    <3> QED BY <3>1 DEF Outcomes
  <2>2. ASSUME ran[i].decision \in {"discard", "reject"} PROVE FALSE
    <3>1. i = Len(ran)
      BY <2>2 DEF LastWord
    <3>2. PICK k \in DOMAIN ran : acc.decision = ran[k].decision
                                   /\ \A j \in DOMAIN ran : j > k => ran[j].decision = "approve"
      BY <2>2 DEF LastWord
    <3>3. k # i /\ k \in 1..Len(ran)
      BY <1>1, <2>2, <3>2
    <3> QED BY <1>1, <2>2, <3>1, <3>2, <3>3
  <2> QED BY <2>1, <2>2 DEF Decisions
<1>3. acc.decision = "moderate" => \E i \in DOMAIN ran : ran[i].decision = "moderate"
  BY DEF LastWord
<1> QED BY <1>2, <1>3

(* Every step of the chain keeps Through.                                    *)
LEMMA ThroughStep == ASSUME TypeOK, InOrder, LastWord, Through, [Next]_vars PROVE Through'
<1> USE ChainAssumption
<1>1. CASE GateBefore \/ GateAfter \/ DropIn \/ ListPolicy
  <2>1. stage \in {"before", "after"} /\ UNCHANGED <<stage, approvals, passed>>
    BY <1>1 DEF GateBefore, GateAfter, DropIn, ListPolicy
  <2> QED BY <2>1 DEF Through, Unrefused, AllKeep
<1>2. CASE ScriptError
  <2>1. stage \in {"before", "after"} /\ UNCHANGED <<approvals, passed, ran>>
    BY <1>2 DEF ScriptError
  <2>2. stage' = "failed" \/ (stage' = "held" /\ stage = "after")
    BY <1>2, <2>1 DEF ScriptError, Through, TypeOK
  <2> QED BY <2>1, <2>2 DEF Through, Unrefused
<1>3. CASE DecideBefore
  <2>1. stage = "before" /\ BeforeDone /\ approvals' = approvals /\ Len(ran) = pos
    BY <1>3 DEF DecideBefore, InOrder
  <2>2. CASE acc.decision = "approve"
    <3>1. pos = BeforeCount + 2 /\ AllKeep(ran)
      BY <2>1, <2>2 DEF BeforeDone, IsTerminal, InOrder
    <3>2. stage' = "after" /\ passed' = ran
      BY <1>3, <2>2 DEF DecideBefore, StartAfter
    <3>3. ran # <<>>
      BY <2>1, <3>1
    <3> QED BY <2>1, <3>1, <3>2, <3>3 DEF Through, Unrefused, AllKeep
  <2>3. CASE acc.decision # "approve"
    <3>1. stage' = DispositionOf(acc.decision) /\ UNCHANGED <<passed, ran>>
      BY <1>3, <2>3 DEF DecideBefore
    <3>2. /\ stage' \in {"held", "discarded", "rejected"}
          /\ stage' = "held" => acc.decision = "moderate"
      BY <2>3, <3>1 DEF DispositionOf, TypeOK, Outcomes, Decisions
    <3>3. stage' = "held" => Unrefused(ran)
      <4> SUFFICES ASSUME stage' = "held" PROVE Unrefused(ran)
        OBVIOUS
      <4>1. pos \in {BeforeCount + 1, BeforeCount + 2}
        BY <2>1, <3>2 DEF BeforeDone, IsTerminal
      <4> QED BY <2>1, <3>2, <4>1, NoneRefused DEF Unrefused
    <3> QED BY <2>1, <3>1, <3>2, <3>3 DEF Through, Unrefused
  <2> QED BY <2>2, <2>3
<1>4. CASE DecideAfter
  <2>1. stage = "after" /\ UNCHANGED <<approvals, ran, passed>>
    BY <1>4 DEF DecideAfter
  <2>2. stage' \in {"distributed", "held", "discarded", "rejected"}
    BY <1>4 DEF DecideAfter, DispositionOf, TypeOK, Outcomes, Decisions
  <2> QED BY <2>1, <2>2 DEF Through, Unrefused, AllKeep
<1>5. CASE Approve
  <2>1. /\ stage = "held" /\ stage' = "after" /\ approvals' # 0
        /\ passed' = IF passed = <<>> THEN ran ELSE passed
    BY <1>5 DEF Approve, StartAfter, TypeOK
  <2>2. Unrefused(passed')
    BY <2>1 DEF Through
  <2>3. passed' # <<>>
    <3>1. Len(passed') # 0
      BY <2>2 DEF Unrefused
    <3> QED BY <3>1
  <2> QED BY <2>1, <2>2, <2>3 DEF Through, Unrefused
<1>6. CASE UNCHANGED vars
  BY <1>6 DEF vars, Through, Unrefused, AllKeep
<1> QED BY <1>1, <1>2, <1>3, <1>4, <1>5, <1>6 DEF Next

(* NoForcedApproval: what goes on to the second half passed the gate and all *)
(* the drop-ins of the first without a refusal, and the list's own policy    *)
(* unless a drop-in held it and a moderator approved; without an approval    *)
(* all of them approved, and so did every "after" script of what is          *)
(* distributed (evaluate_before, evaluate_after, merge, moderate).           *)
THEOREM NothingForced == Spec => []NoForcedApproval
<1>1. Init => InOrder /\ LastWord /\ Through
  BY DEF Init, InOrder, AllKeep, LastWord, Fresh, Through
<1>2. TypeOK /\ InOrder /\ LastWord /\ Through /\ [Next]_vars => InOrder' /\ LastWord' /\ Through'
  BY InOrderStep, LastWordStep, ThroughStep
<1>3. InOrder /\ Through => NoForcedApproval
  BY DEF InOrder, Through, Unrefused, NoForcedApproval, AllKeep
<1> QED BY <1>1, <1>2, <1>3, ChainTypeCorrect, PTL DEF Spec

-----------------------------------------------------------------------------
(* The Accumulator asks for the archive exactly if a script of this half     *)
(* did, and what was archived so far is what was asked for.                  *)
ArchiveKept ==
    /\ stage \in {"before", "after"} => (acc.archive = TRUE <=> \E i \in DOMAIN ran : ran[i].archive)
    /\ ArchivedAsAsked

(* Running one more script keeps that.                                       *)
LEMMA RunArchive ==
    ASSUME TypeOK, ArchiveKept, stage \in {"before", "after"},
           NEW script \in Seq(Actions), RunScript(OutcomeFromRun(script)),
           UNCHANGED <<stage, archived, asked>>
    PROVE  ArchiveKept'
<1> DEFINE out == OutcomeFromRun(script)
<1>1. /\ ran \in Seq(Outcomes) /\ out \in Outcomes /\ acc \in Outcomes
      /\ ran' = Append(ran, out) /\ acc' = Merge(acc, out)
  BY RunShape DEF TypeOK
<1> HIDE DEF out
<1>2. /\ DOMAIN ran' = 1..(Len(ran) + 1) /\ DOMAIN ran = 1..Len(ran) /\ Len(ran) \in Nat
      /\ ran'[Len(ran) + 1] = out
      /\ \A i \in 1..Len(ran) : ran'[i] = ran[i]
  BY <1>1
<1>3. out.archive \in BOOLEAN /\ acc.archive \in BOOLEAN
  BY <1>1 DEF Outcomes
<1>4. acc'.archive = (acc.archive \/ out.archive)
  BY <1>1 DEF Merge
<1>5. acc'.archive = TRUE <=> acc.archive = TRUE \/ out.archive = TRUE
  BY <1>3, <1>4
<1>6. (\E i \in DOMAIN ran' : ran'[i].archive) <=> (\E i \in DOMAIN ran : ran[i].archive) \/ out.archive
  BY <1>2
<1>7. out.archive = TRUE <=> out.archive
  BY <1>3
<1> QED BY <1>5, <1>6, <1>7 DEF ArchiveKept, ArchivedAsAsked

(* ArchivedAsAsked: a message is archived once for every half that ended and *)
(* in which some script asked for it (merge, hold, finalize,                 *)
(* archive_message).                                                         *)
THEOREM ArchivesWhatIsAsked == Spec => []ArchivedAsAsked
<1>1. Init => ArchiveKept
  BY DEF Init, ArchiveKept, ArchivedAsAsked, Fresh
<1>2. TypeOK /\ ArchiveKept /\ [Next]_vars => ArchiveKept'
  <2> SUFFICES ASSUME TypeOK, ArchiveKept, [Next]_vars PROVE ArchiveKept'
    OBVIOUS
  <2>1. CASE GateBefore \/ GateAfter \/ DropIn \/ ListPolicy
    <3>1. PICK script \in Seq(Actions) : RunScript(OutcomeFromRun(script))
      BY <2>1, GateScripts, ChainAssumption DEF GateBefore, GateAfter, DropIn, ListPolicy
    <3>2. stage \in {"before", "after"} /\ UNCHANGED <<stage, archived, asked>>
      BY <2>1 DEF GateBefore, GateAfter, DropIn, ListPolicy
    <3> QED BY <3>1, <3>2, RunArchive
  <2>2. CASE ScriptError
    BY <2>2 DEF ScriptError, ArchiveKept, ArchivedAsAsked
  <2>3. ASSUME Archive, Asked, stage \in {"before", "after"} PROVE ArchivedAsAsked'
    <3>1. acc.archive \in BOOLEAN
      BY DEF TypeOK, Outcomes
    <3> QED BY <2>3, <3>1 DEF ArchiveKept, ArchivedAsAsked, Archive, Asked
  <2>4. ASSUME StartAfter PROVE ~(acc'.archive = TRUE) /\ DOMAIN ran' = {}
    BY <2>4 DEF StartAfter, Fresh
  <2>5. CASE DecideBefore
    <3>1. ArchivedAsAsked'
      BY <2>3, <2>5 DEF DecideBefore
    <3>2. CASE StartAfter
      BY <2>4, <3>1, <3>2 DEF ArchiveKept
    <3>3. CASE stage' = DispositionOf(acc.decision) /\ acc.decision # "approve"
      <4>1. stage' \in {"held", "discarded", "rejected"}
        BY <3>3 DEF DispositionOf, TypeOK, Outcomes, Decisions
      <4> QED BY <3>1, <4>1 DEF ArchiveKept
    <3> QED BY <2>5, <3>2, <3>3 DEF DecideBefore
  <2>6. CASE DecideAfter
    <3>1. ArchivedAsAsked'
      BY <2>3, <2>6 DEF DecideAfter
    <3>2. stage' \in {"distributed", "held", "discarded", "rejected"}
      BY <2>6 DEF DecideAfter, DispositionOf, TypeOK, Outcomes, Decisions
    <3> QED BY <3>1, <3>2 DEF ArchiveKept
  <2>7. CASE Approve
    <3>1. ArchivedAsAsked'
      BY <2>7 DEF Approve, ArchiveKept, ArchivedAsAsked
    <3> QED BY <2>4, <2>7, <3>1 DEF Approve, ArchiveKept
  <2>8. CASE UNCHANGED vars
    BY <2>8 DEF vars, ArchiveKept, ArchivedAsAsked
  <2> QED BY <2>1, <2>2, <2>5, <2>6, <2>7, <2>8 DEF Next
<1>3. ArchiveKept => ArchivedAsAsked
  BY DEF ArchiveKept
<1> QED BY <1>1, <1>2, <1>3, ChainTypeCorrect, PTL DEF Spec
=============================================================================
