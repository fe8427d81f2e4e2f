----------------------------- MODULE MCLogState -----------------------------
(***************************************************************************)
(* A ring of two messages wraps and overflows with the third message.      *)
(***************************************************************************)
EXTENDS LogState
=============================================================================
