--------------------------- MODULE MCOtaTriggers ---------------------------
(***************************************************************************)
(* Both listeners, and enough notifications that each of them meets the    *)
(* thread in every state, twice over.                                      *)
(***************************************************************************)
EXTENDS OtaTriggers

const_Triggers == {"button", "connect"}
=============================================================================
