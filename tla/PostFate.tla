------------------------------ MODULE PostFate ------------------------------
(***************************************************************************)
(* What the intake of carriers promises about a post that can be           *)
(* identified, whatever the store, the retries of the front MTA and the    *)
(* crashes do: one pass over it at most, which either sends copies to      *)
(* distinct recipients, or hands it to the moderators, or drops it.        *)
(***************************************************************************)
EXTENDS Naturals

CONSTANTS
    Tracked,    \* the posts
    Everyone,   \* all addresses
    Barred,     \* those no pass may begin on (mail loops)
    Recipients  \* [Tracked -> SUBSET Everyone], who may get a copy

VARIABLES
    fate,   \* what has become of each post
    sent    \* copies sent, per address

fateVars == <<fate, sent>>

Fates == {"new", "pending", "distributed", "held", "dropped", "lost"}
Untouched(p) == \A r \in Everyone : sent[p][r] = 0

Init ==
    /\ fate = [p \in Tracked |-> "new"]
    /\ sent = [p \in Tracked |-> [r \in Everyone |-> 0]]

(* The one pass over p begins. *)
Begin(p) ==
    /\ p \notin Barred
    /\ fate[p] = "new"
    /\ fate' = [fate EXCEPT ![p] = "pending"]
    /\ UNCHANGED sent

SendCopy(p, r) ==
    /\ fate[p] = "pending"
    /\ sent[p][r] = 0
    /\ sent' = [sent EXCEPT ![p][r] = 1]
    /\ UNCHANGED fate

Distributed(p) ==
    /\ fate[p] = "pending"
    /\ fate' = [fate EXCEPT ![p] = "distributed"]
    /\ UNCHANGED sent

(* Nothing of a post that is held or dropped has gone out. *)
Withhold(p, f) ==
    /\ fate[p] = "pending"
    /\ Untouched(p)
    /\ fate' = [fate EXCEPT ![p] = f]
    /\ UNCHANGED sent

(* An error or a crash ends the passes over S, and no other will begin. *)
Lose(S) ==
    /\ \A p \in S : fate[p] = "pending"
    /\ fate' = [p \in Tracked |-> IF p \in S THEN "lost" ELSE fate[p]]
    /\ UNCHANGED sent

Next ==
    \/ \E p \in Tracked :
         \/ Begin(p) \/ Distributed(p)
         \/ \E r \in Recipients[p] : SendCopy(p, r)
         \/ \E f \in {"held", "dropped"} : Withhold(p, f)
    \/ \E S \in SUBSET Tracked : Lose(S)

Spec == Init /\ [][Next]_fateVars
=============================================================================
