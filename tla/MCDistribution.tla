--------------------------- MODULE MCDistribution ---------------------------
(***************************************************************************)
(* Small instances of Distribution for TLC: constants the configurations   *)
(* assign, one group per question.                                         *)
(***************************************************************************)
EXTENDS Distribution, TLC

CONSTANTS dev, announce, m1, m2, w1, w2, c1, c2, ann, bob

TwoTasks == {w1, w2}
OneTask == {w1}
TwoCommands == {c1, c2}
OneCommand == {c1}

SmallMembers == {ann, bob}
MCSubscribers == (dev :> {ann, bob}) @@ (announce :> {ann})

(* One message cross-posted to two lists. *)
CrossPosts == {<<dev, m1>>, <<announce, m1>>}
CrossBefore ==
    (<<dev, m1>> :> {"approve", "moderate", "reject"})
    @@ (<<announce, m1>> :> {"approve", "discard"})
CrossAfter ==
    (<<dev, m1>> :> {"approve", "moderate"})
    @@ (<<announce, m1>> :> {"approve", "discard", "reject"})

(* One post that is always held. *)
HeldPosts == {<<dev, m1>>}
HeldBefore == <<dev, m1>> :> {"moderate"}
HeldAfter == <<dev, m1>> :> {"approve", "moderate", "reject"}

(* A post that may be held, one without a Message-ID, and one that loops. *)
QueuePosts == {<<dev, m1>>, <<dev, m2>>, <<announce, m1>>}
QueueLooped == {<<announce, m1>>}
QueueBefore == [p \in QueuePosts |-> IF p = <<dev, m1>> THEN {"approve", "moderate"} ELSE {"approve"}]
QueueAfter == [p \in QueuePosts |->
                  IF p = <<dev, m1>> THEN {"approve", "moderate", "reject"} ELSE {"approve"}]

(* One post that may be rejected. *)
RejectBefore == <<dev, m1>> :> {"approve", "reject"}
PlainAfter == <<dev, m1>> :> {"approve"}
=============================================================================
