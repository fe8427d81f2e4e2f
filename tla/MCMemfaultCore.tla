--------------------------- MODULE MCMemfaultCore ---------------------------
(***************************************************************************)
(* One instance of everything: the interleavings come from the threads.    *)
(* Two DNS polls let the wait succeed at once, after a retry, and time out.*)
(***************************************************************************)
EXTENDS MemfaultCore
=============================================================================
