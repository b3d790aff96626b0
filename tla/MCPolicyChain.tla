--------------------------- MODULE MCPolicyChain ----------------------------
(***************************************************************************)
(* A small instance of PolicyChain: the scripts that differ in what the    *)
(* chain makes of them, contradictory and repeated actions included.       *)
(***************************************************************************)
EXTENDS PolicyChain

MCScripts ==
    {<<>>, <<"moderate">>, <<"discard">>, <<"archive", "reject">>, <<"archive", "moderate">>,
     <<"moderate", "reject", "discard">>, <<"no-dkim">>, <<"munge-from", "archive">>}
=============================================================================
