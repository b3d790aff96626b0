---------------------------- MODULE MCDeployment ----------------------------
(***************************************************************************)
(* Small instances of Deployment: every recipient of up to five symbols,   *)
(* list addresses with the separators of VERP in them, a twin of a list    *)
(* in another spelling, an invalid address, and scripts that do not load.  *)
(***************************************************************************)
EXTENDS Deployment

Symbols == {"u", "@", "=", "+bounce"}
MCRecipients == UNION {[1..n -> Symbols] : n \in 1..5}
MCLasting == {<<"u", "@", "u">>, <<"u", "=", "u", "@", "u">>, <<"u">>}
MCReports == {<<own, quoted>> : own \in {"2", "4", "5"}, quoted \in {"2", "4", "5"}} \cup {<<>>, <<"text">>}

Conf(posting, policy) == [posting |-> posting, policy |-> policy]
Dev == <<"d", "@", "h">>
Nested == <<"d", "+bounce", "=", "u", "=", "u", "@", "h">>
Lookalike == <<"u", "+bounce", "=", "u", "=", "u", "@", "h">>
MCConfs == [
    dev    |-> {Conf(Dev, "open"), Conf(<<"d", "=", "@", "h">>, "custom")},
    twin   |-> {Conf(<<"D", "@", "h">>, "custom"), Conf(<<"d", "@">>, "open")},
    nested |-> {Conf(Nested, "custom"), Conf(Lookalike, "open")}]
MCFirstFiles == [dev |-> Conf(Dev, "open"), nested |-> Conf(Nested, "custom")]

Custom == [folder |-> "moderation_policies", name |-> "custom", compiles |-> TRUE]
Reserved == [folder |-> "moderation_policies", name |-> "open", compiles |-> TRUE]
DropIn == [folder |-> "before.d", name |-> "open", compiles |-> TRUE]
Unfinished == [folder |-> "after.d", name |-> "custom", compiles |-> FALSE]
MCScriptFiles == {Custom, Reserved, DropIn, Unfinished}
MCFirstScripts == {Custom}

MCKeyFile == <<"dkim.der", "arc.der", "dkim2.der">>
=============================================================================
