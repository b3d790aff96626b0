------------------------------ MODULE Routing -------------------------------
(***************************************************************************)
(* How an envelope address finds its list: the VERP return path of each    *)
(* copy, and what classify_recipient makes of an address that comes in     *)
(* (state.rs, list.rs, pipeline.rs verp and decode_verp, smtp.rs           *)
(* classify_recipient). Deployment has the tables these operators look     *)
(* into.                                                                   *)
(*                                                                         *)
(* An address is a sequence of symbols: "@", "=", "+bounce", and letters.  *)
(* Upper-case letters are those Lower changes.                             *)
(***************************************************************************)
EXTENDS Naturals, Sequences

Lower(s) == [i \in DOMAIN s |-> IF s[i] = "D" THEN "d" ELSE s[i]]

Nobody == [kind |-> "none"]

Positions(s, c) == {i \in DOMAIN s : s[i] = c}
FirstOf(S) == CHOOSE i \in S : \A j \in S : i <= j
LastOf(S) == CHOOSE i \in S : \A j \in S : j <= i

UpTo(s, i) == SubSeq(s, 1, i)
After(s, i) == SubSeq(s, i + 1, Len(s))

(* Where "+bounce=" starts. *)
Markers(s) == {i \in Positions(s, "+bounce") : i < Len(s) /\ s[i + 1] = "="}

(* posting_address.split('@').next(), and rsplit('@').next(), which from_config *)
(* refuses when nothing is before or after it.                                  *)
LocalPart(address) ==
    IF Positions(address, "@") = {} THEN address
    ELSE UpTo(address, FirstOf(Positions(address, "@")) - 1)
Domain(address) == After(address, LastOf(Positions(address, "@")))
ValidPosting(address) == Positions(address, "@") # {} /\ Domain(address) # <<>>

(* Broken variant: every @ is replaced. *)
VerpReplacingAll(local, domain, recipient) ==
    local \o <<"+bounce", "=">>
          \o [i \in DOMAIN recipient |-> IF recipient[i] = "@" THEN "=" ELSE recipient[i]]
          \o <<"@">> \o domain

(* The first @ of the recipient becomes =. *)
Verp(local, domain, recipient) ==
    LET ats == Positions(recipient, "@")
        encoded == IF ats = {} THEN recipient ELSE [recipient EXCEPT ![FirstOf(ats)] = "="]
    IN  local \o <<"+bounce", "=">> \o encoded \o <<"@">> \o domain

NotVerp == [ok |-> FALSE]

(* The last @ ends the local part, the first "+bounce=" the list's name, and *)
(* the last = of the rest was an @.                                          *)
DecodeVerp(address) ==
    IF Positions(address, "@") = {} THEN NotVerp ELSE
    LET at == LastOf(Positions(address, "@"))
        local == UpTo(address, at - 1)
    IN  IF Markers(local) = {} THEN NotVerp ELSE
    LET marker == FirstOf(Markers(local))
        encoded == After(local, marker + 1)
    IN  IF Positions(encoded, "=") = {} THEN NotVerp ELSE
    LET eq == LastOf(Positions(encoded, "="))
    IN  [ok |-> TRUE,
         base |-> UpTo(local, marker - 1) \o SubSeq(address, at, Len(address)),
         recipient |-> [encoded EXCEPT ![eq] = "@"]]

-----------------------------------------------------------------------------
(* list_for_address: lists is keyed by lowercased posting address. *)
HasList(lists, address) == Lower(address) \in DOMAIN lists
ListOf(lists, address) == lists[Lower(address)].file

(* Broken variant: what looks like a bounce is nothing else. *)
ClassifyStrict(lists, address) ==
    LET decoded == DecodeVerp(address) IN
    IF decoded.ok
    THEN IF HasList(lists, decoded.base)
         THEN [kind |-> "bounce", list |-> ListOf(lists, decoded.base), recipient |-> decoded.recipient]
         ELSE Nobody
    ELSE IF HasList(lists, address) THEN [kind |-> "post", list |-> ListOf(lists, address)]
    ELSE Nobody

(* A bounce address of a list that exists, else a posting address. *)
Classify(lists, address) ==
    LET decoded == DecodeVerp(address) IN
    IF decoded.ok /\ HasList(lists, decoded.base)
    THEN [kind |-> "bounce", list |-> ListOf(lists, decoded.base), recipient |-> decoded.recipient]
    ELSE IF HasList(lists, address) THEN [kind |-> "post", list |-> ListOf(lists, address)]
    ELSE Nobody
=============================================================================
