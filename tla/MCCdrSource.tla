---------------------------- MODULE MCCdrSource ----------------------------
(***************************************************************************)
(* Two chunks can be torn.  Three collections: one that is persisted, one  *)
(* that overlaps its restore, and one after both.                          *)
(***************************************************************************)
EXTENDS CdrSource
=============================================================================
