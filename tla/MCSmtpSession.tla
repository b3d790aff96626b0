---------------------------- MODULE MCSmtpSession -----------------------------
(***************************************************************************)
(* A small instance of SmtpSession: a list, a VERP bounce address and an   *)
(* address the daemon does not know.                                       *)
(***************************************************************************)
EXTENDS SmtpSession, TLC

CONSTANTS dev, verp, nobody

MCClass == (dev :> "post") @@ (verp :> "bounce") @@ (nobody :> "unknown")
=============================================================================
