---------------------------- MODULE OtaRequests ----------------------------
(***************************************************************************)
(* What the flag word, the semaphore and the context string of the OTA     *)
(* trigger module promise together: requests for a check gather in a set,  *)
(* a check serves every request gathered so far, and the set then starts   *)
(* again from nothing.  No request is dropped, none is served twice.       *)
(***************************************************************************)
CONSTANT Requests

VARIABLES
    wanted,     \* requests no check has been started for
    serving     \* requests the running check is for

vars == <<wanted, serving>>

Init ==
    /\ wanted = {}
    /\ serving = {}

Request(r) ==
    /\ wanted' = wanted \cup {r}
    /\ UNCHANGED serving

BeginCheck ==
    /\ serving = {}
    /\ serving' = wanted
    /\ wanted' = {}

EndCheck ==
    /\ serving' = {}
    /\ UNCHANGED wanted

Next ==
    \/ \E r \in Requests : Request(r)
    \/ BeginCheck
    \/ EndCheck

Spec == Init /\ [][Next]_vars
=============================================================================
