---------------------------- MODULE PolicyChain -----------------------------
(***************************************************************************)
(* The Sieve policy chain around one message: the "before" half that       *)
(* intake evaluates, the wait in the moderation queue, and the "after"     *)
(* half that finalize evaluates on its own, with DMARC facts of its own,   *)
(* just before the message is signed (policy.rs, sieve_engine.rs,          *)
(* pipeline.rs, sign.rs, dmarc-before.sieve, dmarc-after.sieve).           *)
(*                                                                         *)
(* What an administrator's script does is open: each run takes any of the  *)
(* sequences of actions in Scripts.                                        *)
(***************************************************************************)
EXTENDS Naturals, Sequences, SequencesExt

CONSTANTS
    Scripts,      \* sequences of Actions a configured script may take
    BeforeCount,  \* drop-in scripts ahead of the list policy
    AfterCount,   \* drop-in scripts of the "after" half
    Dkim2Chain,   \* the message carries a DKIM2 chain
    MaxApprovals  \* bound: approvals by a moderator

Actions == {"keep", "discard", "reject", "moderate", "archive", "no-dkim", "munge-from"}

ASSUME ChainAssumption ==
    /\ Scripts \subseteq Seq(Actions)
    /\ BeforeCount \in Nat /\ AfterCount \in Nat /\ MaxApprovals \in Nat
    /\ Dkim2Chain \in BOOLEAN

(* AuthVerdict, as far as the gates look at it. *)
Verdicts == [pass : BOOLEAN, enforced : BOOLEAN]
Failing(v) == ~v.pass /\ v.enforced

VARIABLES
    stage,     \* "before", "after", "held", or the disposition reached
    pos,       \* scripts of this half that ran, the gate included
    verdict,   \* the DMARC facts of this half
    acc,       \* the Accumulator
    archived,  \* copies handed to archive_message, whose failure changes nothing
    approvals, \* approvals so far
    sent,      \* what left, if anything did
    ran,       \* history: the outcome of every script of this half, in order
    passed,    \* history: the outcomes of the first half, once the second began
    asked      \* history: halves that ended and had a script ask for the archive

vars == <<stage, pos, verdict, acc, archived, approvals, sent, ran, passed, asked>>

Ends == {"distributed", "discarded", "rejected", "failed"}
NotSent == [dkim |-> FALSE, dkim2 |-> FALSE, munged |-> FALSE]
Fresh == [decision |-> "approve", archive |-> FALSE, noDkim |-> FALSE, munge |-> FALSE]

Init ==
    /\ stage = "before" /\ pos = 0
    /\ verdict \in Verdicts
    /\ acc = Fresh
    /\ archived = 0 /\ approvals = 0 /\ sent = NotSent
    /\ ran = <<>> /\ passed = <<>> /\ asked = 0

-----------------------------------------------------------------------------
(* One script: sieve_engine::run and outcome_from_run. *)

(* The first discard or reject of a script stands; fileinto never ends it. *)
Decisive(script, i) ==
    /\ script[i] \in {"discard", "reject"}
    /\ \A j \in 1..(i - 1) : script[j] \notin {"discard", "reject"}

EngineOutcome(script) ==
    IF \E i \in DOMAIN script : Decisive(script, i)
    THEN script[CHOOSE i \in DOMAIN script : Decisive(script, i)]
    ELSE "keep"

(* fileinto destinations are side effects, and "moderate" a decision only   *)
(* for a script that neither discards nor rejects.                          *)
OutcomeFromRun(script) ==
    [decision |-> IF EngineOutcome(script) # "keep" THEN EngineOutcome(script)
                  ELSE IF Contains(script, "moderate") THEN "moderate" ELSE "approve",
     archive |-> Contains(script, "archive"),
     noDkim |-> Contains(script, "no-dkim"),
     munge |-> Contains(script, "munge-from")]

(* Broken variant: the flags of the last script replace those before it. *)
MergeReplacing(so_far, out) ==
    [out EXCEPT !.decision = IF @ = "approve" THEN so_far.decision ELSE @]

(* An implicit keep carries the decision so far through; flags add up. *)
Merge(so_far, out) ==
    [decision |-> IF out.decision = "approve" THEN so_far.decision ELSE out.decision,
     archive |-> so_far.archive \/ out.archive,
     noDkim |-> so_far.noDkim \/ out.noDkim,
     munge |-> so_far.munge \/ out.munge]

(* Broken variant: a discard does not stop the chain. *)
TerminalReject(decision) == decision = "reject"

IsTerminal(decision) == decision \in {"discard", "reject"}

-----------------------------------------------------------------------------
(* run_scripts and the two halves. *)

RunScript(out) ==
    /\ acc' = Merge(acc, out)
    /\ ran' = Append(ran, out)
    /\ pos' = pos + 1

(* dmarc-before.sieve, ahead of every configured script. *)
GateBefore ==
    /\ stage = "before" /\ pos = 0
    /\ RunScript(OutcomeFromRun(IF Failing(verdict) THEN <<"reject">> ELSE <<>>))
    /\ UNCHANGED <<stage, verdict, archived, approvals, sent, passed, asked>>

(* Broken variant: what was checked at intake is trusted. *)
GateAfterTrusting ==
    /\ stage = "after" /\ pos = 0
    /\ RunScript(OutcomeFromRun(IF verdict.pass \/ approvals > 0 THEN <<>> ELSE <<"no-dkim">>))
    /\ UNCHANGED <<stage, verdict, archived, approvals, sent, passed, asked>>

(* dmarc-after.sieve: refuse again, or withhold the list's own signature. *)
GateAfter ==
    /\ stage = "after" /\ pos = 0
    /\ RunScript(OutcomeFromRun(
           IF verdict.pass THEN <<>> ELSE IF verdict.enforced THEN <<"reject">> ELSE <<"no-dkim">>))
    /\ UNCHANGED <<stage, verdict, archived, approvals, sent, passed, asked>>

(* A drop-in script, while nothing terminal was decided. *)
DropIn ==
    /\ \/ stage = "before" /\ pos \in 1..BeforeCount
       \/ stage = "after" /\ pos \in 1..AfterCount
    /\ ~IsTerminal(acc.decision)
    /\ \E script \in Scripts : RunScript(OutcomeFromRun(script))
    /\ UNCHANGED <<stage, verdict, archived, approvals, sent, passed, asked>>

(* Broken variant: the list policy runs once more for every approval. *)
ListPolicyAgain ==
    /\ stage = "before" /\ pos > BeforeCount
    /\ acc.decision = "approve"
    /\ \E script \in Scripts : RunScript(OutcomeFromRun(script))
    /\ UNCHANGED <<stage, verdict, archived, approvals, sent, passed, asked>>

(* The list's own policy, only while the decision is still an approval. *)
ListPolicy ==
    /\ stage = "before" /\ pos = BeforeCount + 1
    /\ acc.decision = "approve"
    /\ \E script \in Scripts : RunScript(OutcomeFromRun(script))
    /\ UNCHANGED <<stage, verdict, archived, approvals, sent, passed, asked>>

(* A script that ends with a runtime error fails the whole evaluation, and  *)
(* nothing is archived; a message under approval stays in the queue.        *)
ScriptError ==
    /\ \/ stage = "before" /\ pos \in 1..(BeforeCount + 1)
       \/ stage = "after" /\ pos \in 1..AfterCount
    /\ stage = "before" /\ pos = BeforeCount + 1 => acc.decision = "approve"
    /\ ~IsTerminal(acc.decision)
    /\ stage' = IF approvals > 0 THEN "held" ELSE "failed"
    /\ UNCHANGED <<pos, verdict, acc, archived, approvals, sent, ran, passed, asked>>

(* Broken variant: the half ends with the last drop-in. *)
BeforeDoneEarly ==
    \/ IsTerminal(acc.decision)
    \/ pos = BeforeCount + 1

(* Nothing is left to run in the first half. *)
BeforeDone ==
    \/ IsTerminal(acc.decision)
    \/ pos = BeforeCount + 1 /\ acc.decision # "approve"
    \/ pos = BeforeCount + 2

AfterDone == IsTerminal(acc.decision) \/ pos = AfterCount + 1

(* archive_message, whatever the decision. *)
Archive == archived' = IF acc.archive THEN archived + 1 ELSE archived

Asked == asked' = IF \E i \in DOMAIN ran : ran[i].archive THEN asked + 1 ELSE asked

(* finalize starts with DMARC facts and an Accumulator of its own. *)
StartAfter ==
    /\ stage' = "after"
    /\ pos' = 0
    /\ verdict' \in Verdicts
    /\ acc' = Fresh
    /\ ran' = <<>>

DispositionOf(decision) ==
    CASE decision = "moderate" -> "held"
      [] decision = "discard" -> "discarded"
      [] decision = "reject" -> "rejected"

(* The rest of intake. *)
DecideBefore ==
    /\ stage = "before" /\ pos > 0 /\ BeforeDone
    /\ Archive /\ Asked
    /\ IF acc.decision = "approve"
       THEN StartAfter /\ passed' = ran
       ELSE /\ stage' = DispositionOf(acc.decision)
            /\ UNCHANGED <<pos, verdict, acc, ran, passed>>
    /\ UNCHANGED <<approvals, sent>>

(* The rest of finalize: transforms, sign_and_seal, should_sign_dkim2. *)
DecideAfter ==
    /\ stage = "after" /\ pos > 0 /\ AfterDone
    /\ Archive /\ Asked
    /\ IF acc.decision = "approve"
       THEN /\ stage' = "distributed"
            /\ sent' = [dkim |-> ~acc.noDkim, dkim2 |-> Dkim2Chain /\ ~acc.noDkim,
                        munged |-> acc.munge]
       ELSE stage' = DispositionOf(acc.decision) /\ UNCHANGED sent
    /\ UNCHANGED <<pos, verdict, acc, approvals, ran, passed>>

(* A moderator approves the held message: finalize, from the start. *)
Approve ==
    /\ stage = "held"
    /\ approvals < MaxApprovals
    /\ approvals' = approvals + 1
    /\ StartAfter
    /\ passed' = IF passed = <<>> THEN ran ELSE passed
    /\ UNCHANGED <<archived, sent, asked>>

Next ==
    \/ GateBefore \/ GateAfter \/ DropIn \/ ListPolicy \/ ScriptError
    \/ DecideBefore \/ DecideAfter \/ Approve

Spec == Init /\ [][Next]_vars

-----------------------------------------------------------------------------
(* Properties. *)

Decisions == {"approve", "moderate", "discard", "reject"}
Outcomes == [decision : Decisions, archive : BOOLEAN, noDkim : BOOLEAN, munge : BOOLEAN]

(* The chain never runs past its scripts, and every outcome is well formed. *)
TypeOK ==
    /\ stage \in {"before", "after", "held"} \cup Ends
    /\ pos \in 0..(IF stage = "after" THEN AfterCount + 1
                   ELSE IF BeforeCount > AfterCount THEN BeforeCount + 2 ELSE AfterCount + 2)
    /\ verdict \in Verdicts
    /\ acc \in Outcomes
    /\ archived \in Nat
    /\ approvals \in 0..MaxApprovals
    /\ sent \in [dkim : BOOLEAN, dkim2 : BOOLEAN, munged : BOOLEAN]
    /\ ran \in Seq(Outcomes)
    /\ passed \in Seq(Outcomes)
    /\ asked \in Nat

(* Nothing leaves that fails DMARC against an enforcing domain, and the      *)
(* list's own signatures only go on mail that passes, by the facts of the    *)
(* last evaluation: however long the message was held, whatever the DNS said *)
(* at intake, and whatever the scripts after the gate file it into. What     *)
(* intake hands to the moderators passed the same gate.                      *)
ReputationProtected ==
    /\ stage = "distributed" =>
           /\ ~Failing(verdict)
           /\ sent.dkim \/ sent.dkim2 => verdict.pass
    /\ stage = "held" /\ approvals = 0 => ~Failing(verdict)

(* A drop-in of the first half held the message and a later one refused it.  *)
RefusedAfterHold ==
    passed = <<>> /\ \E i, j \in DOMAIN ran :
        i < j /\ ran[i].decision = "moderate" /\ ran[j].decision \in {"discard", "reject"}

(* The decision of a half is the last explicit one, and a discard or reject  *)
(* is always the last: the fold of merge and is_terminal against the rule    *)
(* the documentation gives. Nothing is said of a drop-in that refuses what   *)
(* an earlier one held: the code lets it, but the README has it both that a  *)
(* refusal is final and that a hold "skips straight to holding".             *)
LastWordDecides ==
    /\ \/ RefusedAfterHold
       \/ /\ acc.decision = "approve"
          /\ \A i \in DOMAIN ran : ran[i].decision = "approve"
       \/ \E i \in DOMAIN ran :
             /\ ran[i].decision # "approve" /\ acc.decision = ran[i].decision
             /\ \A j \in DOMAIN ran : j > i => ran[j].decision = "approve"
    /\ \A i \in DOMAIN ran : ran[i].decision \in {"discard", "reject"} => i = Len(ran)

(* Nothing gets to the second half past a script of the first: the gate and  *)
(* all the drop-ins ran and none refused it, approved by a moderator or not. *)
(* Without an approval the list's own policy ran too and all were content;   *)
(* with one it may have been left out, but only for a message that a drop-in *)
(* held. And what is distributed had every "after" script run, by the last   *)
(* approval, each of them content.                                           *)
NoForcedApproval ==
    /\ stage \in {"after", "distributed"} =>
           /\ Len(passed) \in {BeforeCount + 1, BeforeCount + 2}
           /\ \A i \in DOMAIN passed : passed[i].decision \in {"approve", "moderate"}
           /\ approvals = 0 =>
                  Len(passed) = BeforeCount + 2 /\ \A i \in DOMAIN passed : passed[i].decision = "approve"
           /\ Len(passed) = BeforeCount + 1 =>
                  \E i \in DOMAIN passed : passed[i].decision = "moderate"
    /\ stage = "distributed" =>
           /\ Len(ran) = AfterCount + 1
           /\ \A i \in DOMAIN ran : ran[i].decision = "approve"

(* A message is archived once for every half that ended and in which some    *)
(* script asked for it, whichever script that was and however the half ended *)
(* ("including posts later rejected").                                       *)
ArchivedAsAsked == archived = asked
=============================================================================
