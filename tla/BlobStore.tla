------------------------------ MODULE BlobStore ------------------------------
(***************************************************************************)
(* What the log-state and the CDR partition each promise: a durable        *)
(* one-place store that changes atomically.  It holds one whole image or   *)
(* none; an image appears only in an empty store and is never altered,     *)
(* only discarded, whatever fails and whenever the device resets.          *)
(***************************************************************************)
CONSTANT Image  \* the whole images: of the log ring, of the statistics

VARIABLE blob   \* the images held: at most one

Init == blob = {}

Commit ==
    /\ blob = {}
    /\ \E i \in Image : blob' = {i}

Discard == blob' = {}

Next == Commit \/ Discard

Spec == Init /\ [][Next]_blob
=============================================================================
