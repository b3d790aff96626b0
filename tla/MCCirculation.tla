---------------------------- MODULE MCCirculation ----------------------------
(* Instances of Circulation for TLC. *)
EXTENDS Circulation, TLC

CONSTANTS dev, web, ops, ann, bob

Starters == {<<ann, dev>>, <<ann, ops>>, <<bob, dev>>}
AnnOnWeb == {<<ann, web>>}

(* Two lists that send each other everything, and one that is fed by both:   *)
(* circles, and two ways to the same list.                                   *)
Web == dev :> {ops, web} @@ ops :> {web, ann} @@ web :> {dev, bob}
WebIds == dev :> <<"dev", ".org">> @@ ops :> <<"ops", ".org">> @@ web :> <<"web", ".org">>
WebTags == dev :> "[dev]" @@ ops :> "[ops]" @@ web :> NoTag

(* A post as most are, one that lacks all it may lack, one that answers what *)
(* was read in an archive of ops, after it had come there from dev, and an   *)
(* unsigned one from a host outside the author's domain.                     *)
PlainPost == [identified |-> TRUE, named |-> TRUE, subject |-> <<Text>>, chained |-> TRUE,
              dkim |-> TRUE, spf |-> TRUE]
BarePost == [identified |-> FALSE, named |-> FALSE, subject |-> <<>>, chained |-> FALSE,
             dkim |-> FALSE, spf |-> TRUE]
LatePost == [PlainPost EXCEPT !.identified = FALSE, !.subject = <<Marker, "[ops]", "[dev]", Text>>]
StrayPost == [PlainPost EXCEPT !.dkim = FALSE, !.spf = FALSE]
PostForms == {PlainPost, BarePost, LatePost, StrayPost}

(* ann's domain enforces DMARC, bob's does not, and ops is a list of bob's. *)
Domains == ann :> "a" @@ bob :> "b" @@ ops :> "b" @@ dev :> "l" @@ web :> "l"

(* web publishes what ops does not, and dev does.                            *)
Publishing == dev :> {"List-Help", "List-Archive"} @@ ops :> {"List-Help"} @@ web :> {"List-Archive"}

(* The id of dev is the end of the id of web. *)
Nested == dev :> {ann} @@ web :> {dev, bob}
NestedIds == dev :> <<"dev", ".org">> @@ web :> <<"web", "dev", ".org">>
NestedTags == dev :> NoTag @@ web :> NoTag
NestedHeaders == dev :> {"List-Help"} @@ web :> {}
=============================================================================
