---------------------------- MODULE MCMembership ----------------------------
(***************************************************************************)
(* A small instance of Membership: one address on two lists. The weights   *)
(* keep the proportions of the defaults: one permanent failure does not    *)
(* disable, two do.                                                        *)
(***************************************************************************)
EXTENDS Membership

CONSTANTS dev, ops, ann

MCRoles == {[subscribed |-> TRUE, poster |-> FALSE, moderator |-> FALSE],
            [subscribed |-> FALSE, poster |-> TRUE, moderator |-> FALSE]}

(* Only one of the lists has a members file. *)
FileForDev == [l \in Lists |-> IF l = dev THEN {ann} ELSE {}]
=============================================================================
