--------------------------- MODULE MCHttpsClient ---------------------------
(***************************************************************************)
(* Counters that wrap after four values, a response of up to three pieces, *)
(* a DNS wait that may give up after two sleeps.                           *)
(***************************************************************************)
EXTENDS HttpsClient
=============================================================================
