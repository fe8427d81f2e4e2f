--------------------------- MODULE LogStateProofs ---------------------------
(***************************************************************************)
(* Proofs about LogState, for a ring of any size and any number of         *)
(* messages: the header-last order makes the partition an atomic store.    *)
(***************************************************************************)
EXTENDS LogState, TLAPS

\* The types that the flash operations depend on.
DataTyped ==
    /\ ctx \in Context
    /\ storage \in [Slot -> Message \cup {Empty}]
    /\ pending \in Seq(Message)
    /\ logged \in 0..MaxLogs
    /\ hdr \in {"erased", "torn", "valid", "foreign"}
    /\ fctx \in Context \cup {ErasedContext}
    /\ fstorage \in [Slot -> Message \cup {Empty, Erased}]
    /\ pos \in Slot

\* How far the current persist has come; a restore reads a valid image only.
CommitInv ==
    /\ hdr = "valid" => Whole
    /\ pc \in {"p_ctx", "p_storage", "p_header"} => hdr = "erased"
    /\ pc = "p_storage" => fctx \in Context /\ \A s \in Slot : s < pos => fstorage[s] # Erased
    /\ pc = "p_header" => Whole
    /\ pc \in {"r_ctx", "r_storage"} => hdr = "valid"

StoreInv == DataTyped /\ CommitInv

\* A position taken modulo the ring size is a slot.
LEMMA ModSlot == \A x \in Nat : x % N \in Slot
  BY NAssumption DEF Slot

\* The successor of a slot, modulo the ring size.
LEMMA NextSlot ==
  ASSUME NEW p \in Slot
  PROVE  /\ (p + 1) % N \in Slot
         /\ (p + 1) % N = 0 => \A s \in Slot : s < p \/ s = p
         /\ (p + 1) % N # 0 => (p + 1) % N = p + 1
  <1>1. CASE p + 1 = N
    <2>1. (p + 1) % N = 0
      BY <1>1, NAssumption DEF Slot
    <2>2. QED
      BY <1>1, <2>1, NAssumption DEF Slot
  <1>2. CASE p + 1 # N
    <2>1. (p + 1) % N = p + 1
      BY <1>2, NAssumption DEF Slot
    <2>2. QED
      BY <1>2, <2>1, NAssumption DEF Slot
  <1>3. QED
    BY <1>1, <1>2

\* The distinguished values are different from the messages and from each other.
LEMMA Distinct ==
  /\ Erased \notin Message \cup {Empty}
  /\ ErasedContext \notin Context
  /\ EmptyContext \in Context
  /\ EmptyStorage \in [Slot -> Message \cup {Empty}]
  /\ ErasedStorage \in [Slot -> Message \cup {Empty, Erased}]
  /\ 0 \in Slot
  <1>1. Erased \notin Message \cup {Empty}
    BY MaxLogsAssumption DEF Erased, Message, Empty, PersistMsg, Marker
  <1>2. ErasedContext \notin Context
    BY NAssumption DEF ErasedContext, Context, Erased, Slot
  <1>3. EmptyContext \in Context /\ 0 \in Slot
    BY NAssumption DEF EmptyContext, Context, Slot
  <1>4. QED
    BY <1>1, <1>2, <1>3 DEF EmptyStorage, ErasedStorage


\* Every step keeps the types and the commit order.
LEMMA StoreStep == StoreInv /\ [Next]_vars => StoreInv'
  <1> SUFFICES ASSUME StoreInv, [Next]_vars PROVE StoreInv'
    OBVIOUS
  <1> USE DEF StoreInv, DataTyped, CommitInv, Whole
  <1>1. CASE PersistBegin
    <2>1. PersistMsg \in Message
      BY <1>1, MaxLogsAssumption DEF PersistBegin, Message
    <2>2. QED
      BY <1>1, <2>1, MaxLogsAssumption DEF PersistBegin, Log, ring, flash
  <1>2. CASE PersistGiveUp
    BY <1>2, Distinct DEF PersistGiveUp, EraseFails, NoSnapshot, ring, flash
  <1>3. CASE PersistErase
    BY <1>3, Distinct DEF PersistErase, EraseDone, NoSnapshot, ring, flash
  <1>4. CASE PersistContext
    BY <1>4, Distinct DEF PersistContext, ring, flash
  <1>5. CASE PersistStorage
    BY <1>5, NextSlot, Distinct DEF PersistStorage, ring, flash
  <1>6. CASE PersistHeader
    BY <1>6, Distinct DEF PersistHeader, ring, flash
  <1>7. CASE PersistWriteFails
    BY <1>7, Distinct DEF PersistWriteFails, NoSnapshot, ring, flash
  <1>8. CASE RestoreNothing
    BY <1>8, Distinct DEF RestoreNothing, ring, flash
  <1>9. CASE RestoreMismatch
    BY <1>9, Distinct DEF RestoreMismatch, ring, flash
  <1>10. CASE RestoreBegin
    BY <1>10, Distinct DEF RestoreBegin, ring, flash
  <1>11. CASE RestoreContext
    BY <1>11, Distinct DEF RestoreContext, ring, flash
  <1>12. CASE RestoreStorage
    BY <1>12, NextSlot, Distinct DEF RestoreStorage, ring, flash
  <1>13. CASE RestoreReadFails
    BY <1>13, Distinct DEF RestoreReadFails, ring, flash
  <1>14. CASE RestoreErase
    BY <1>14, Distinct DEF RestoreErase, EraseDone, EraseFails, NoSnapshot, ring, flash
  <1>15. CASE RestoreMarker
    <2>1. Marker \in Message
      BY <1>15, MaxLogsAssumption DEF RestoreMarker, Message
    <2>2. QED
      BY <1>15, <2>1, MaxLogsAssumption DEF RestoreMarker, Log, ring, flash
  <1>16. CASE RestoreFlush
    BY <1>16, Distinct DEF RestoreFlush, TriggerCollection, ring, flash
  <1>17. CASE Post
    BY <1>17, Distinct DEF Post, ring, flash
  <1>18. CASE AppLog
    <2>1. logged + 1 \in Message
      BY <1>18, MaxLogsAssumption DEF AppLog, Message
    <2>2. QED
      BY <1>18, <2>1, MaxLogsAssumption DEF AppLog, Log, ring, flash
  <1>19. CASE LogProcess
    <2>1. Head(pending) \in Message /\ Tail(pending) \in Seq(Message)
      BY <1>19 DEF LogProcess
    <2> DEFINE w == (ctx.read + ctx.count) % N
    <2>2. w \in Slot /\ (ctx.read + 1) % N \in Slot
      <3>1. ctx.read \in Slot /\ ctx.count \in 0..N
        BY DEF Context
      <3>2. ctx.read + ctx.count \in Nat /\ ctx.read + 1 \in Nat
        BY <3>1, NAssumption DEF Slot
      <3>3. QED
        BY <3>2, ModSlot
    <2>3. ctx' \in Context
      <3>1. CASE ctx.count = N
        BY <1>19, <2>2, <3>1 DEF LogProcess, ring, Context
      <3>2. CASE ctx.count # N
        <4>1. ctx.count + 1 \in 0..N
          BY <3>2, NAssumption DEF Context
        <4>2. QED
          BY <1>19, <3>2, <4>1 DEF LogProcess, ring, Context
      <3>3. QED
        BY <3>1, <3>2
    <2>4. storage' \in [Slot -> Message \cup {Empty}]
      BY <1>19, <2>1, <2>2 DEF LogProcess, ring
    <2>5. QED
      BY <1>19, <2>1, <2>3, <2>4 DEF LogProcess, flash
  <1>20. CASE PeriodicTrigger
    BY <1>20, Distinct DEF PeriodicTrigger, TriggerCollection, ring, flash
  <1>21. CASE PeriodicUpload
    BY <1>21, Distinct DEF PeriodicUpload, ring, flash
  <1>22. CASE Reset
    BY <1>22, Distinct DEF Reset, NoSnapshot, ring, flash
  <1>23. CASE UNCHANGED vars
    BY <1>23 DEF vars, ring, flash
  <1>24. QED
    BY <1>1, <1>2, <1>3, <1>4, <1>5, <1>6, <1>7, <1>8, <1>9, <1>10, <1>11, <1>12, <1>13,
       <1>14, <1>15, <1>16, <1>17, <1>18, <1>19, <1>20, <1>21, <1>22, <1>23
       DEF Next, Persist, OnConnect, Logging

\* A partition that was never written satisfies the invariant.
LEMMA StoreInit == Init => StoreInv
  BY Distinct, MaxLogsAssumption
     DEF Init, StoreInv, DataTyped, CommitInv

\* For a ring of any size: a header that restore accepts stands only before an
\* image that was written to the end.
THEOREM HeaderCommits == Spec => []HeaderMeansWhole
  <1>1. StoreInv => HeaderMeansWhole
    BY DEF StoreInv, CommitInv, HeaderMeansWhole
  <1>2. QED
    BY <1>1, StoreInit, StoreStep, PTL DEF Spec

-----------------------------------------------------------------------------
(* The types of the rest.                                                  *)

FlagsTyped ==
    /\ triggered \in BOOLEAN
    /\ torn \in BOOLEAN
    /\ mixed \in BOOLEAN
    /\ retriggered \in BOOLEAN

RestTyped ==
    /\ Len(pending) <= MaxPending
    /\ pc \in {"idle", "r_ctx", "r_storage", "r_erase", "r_discard", "r_marker", "r_flush",
               "post"} \cup Persisting
    /\ snap \in Seq(Message \cup {Empty})
    /\ marker \in {"none", "queued", "kept", "dropped"}
    /\ origin \in {"none", "fresh", "old", "restored", "stuck"}
    /\ overwritten \subseteq Message \cup {Empty, Erased}

\* Every step keeps the flags truth values.
LEMMA FlagsStep == FlagsTyped /\ [Next]_vars => FlagsTyped'
  <1> SUFFICES ASSUME FlagsTyped, [Next]_vars PROVE FlagsTyped'
    OBVIOUS
  <1> USE DEF FlagsTyped
  <1>1. CASE PersistGiveUp \/ PersistErase \/ PersistContext \/ PersistWriteFails
    BY <1>1, Zenon DEF PersistGiveUp, PersistErase, PersistContext, PersistWriteFails,
                       EraseDone, EraseFails, NoSnapshot, snapshot, restore
  <1>2. CASE PersistBegin \/ PersistStorage \/ PersistHeader
    BY <1>2, Zenon DEF PersistBegin, PersistStorage, PersistHeader, snapshot, restore
  <1>3. CASE \/ RestoreNothing \/ RestoreMismatch \/ RestoreBegin \/ RestoreContext
             \/ RestoreStorage \/ RestoreReadFails
    BY <1>3, Zenon DEF RestoreNothing, RestoreMismatch, RestoreBegin, RestoreContext,
                       RestoreStorage, RestoreReadFails, snapshot, restore
  <1>4. CASE RestoreErase
    BY <1>4, Zenon DEF RestoreErase, EraseDone, EraseFails, NoSnapshot, snapshot
  <1>5. CASE RestoreMarker \/ RestoreFlush \/ Post
    BY <1>5, Zenon DEF RestoreMarker, RestoreFlush, Post, TriggerCollection, snapshot, restore
  <1>6. CASE AppLog \/ PeriodicTrigger \/ PeriodicUpload
    BY <1>6, Zenon DEF AppLog, PeriodicTrigger, PeriodicUpload, TriggerCollection, snapshot,
                       restore
  <1>7. CASE LogProcess
    BY <1>7, Zenon DEF LogProcess
  <1>8. CASE Reset
    BY <1>8, Zenon DEF Reset, NoSnapshot, snapshot
  <1>9. CASE UNCHANGED vars
    BY <1>9, Zenon DEF vars, snapshot, restore
  <1>10. QED
    BY <1>1, <1>2, <1>3, <1>4, <1>5, <1>6, <1>7, <1>8, <1>9
       DEF Next, Persist, OnConnect, Logging

\* The content of a ring is a sequence of what its slots hold.
LEMMA ContentType ==
  ASSUME NEW c \in Context, NEW S, NEW st \in [Slot -> S]
  PROVE  /\ Content(c, st) \in Seq(S)
         /\ Range(Content(c, st)) \subseteq S
  <1>1. c.read \in Nat /\ c.count \in Nat
    BY NAssumption DEF Context, Slot
  <1>2. \A i \in 1..c.count : st[(c.read + i - 1) % N] \in S
    <2> TAKE i \in 1..c.count
    <2>1. c.read + i - 1 \in Nat
      BY <1>1
    <2>2. QED
      BY <2>1, ModSlot
  <1>3. Content(c, st) \in [1..c.count -> S]
    BY <1>2 DEF Content
  <1>4. QED
    BY <1>1, <1>3 DEF Range

\* The empty snapshot.
LEMMA EmptySnap == <<>> \in Seq(Message \cup {Empty})
  OBVIOUS

\* Every step keeps the rest of the types.
LEMMA RestStep == StoreInv /\ RestTyped /\ [Next]_vars => RestTyped'
  <1> SUFFICES ASSUME StoreInv, RestTyped, [Next]_vars PROVE RestTyped'
    OBVIOUS
  <1>p. pending \in Seq(Message)
    BY DEF StoreInv, DataTyped
  <1> USE DEF RestTyped, Persisting
  <1>1. CASE PersistGiveUp \/ PersistErase \/ PersistWriteFails
    BY <1>1, EmptySnap DEF PersistGiveUp, PersistErase, PersistWriteFails, EraseDone, EraseFails,
                NoSnapshot, snapshot, restore
  <1>2. CASE PersistBegin
    BY <1>2, <1>p, MaxPendingAssumption DEF PersistBegin, Log, snapshot, restore
  <1>3. CASE PersistStorage \/ PersistHeader
    BY <1>3 DEF PersistStorage, PersistHeader, snapshot, restore
  <1>4. CASE PersistContext
    <2>1. snap' \in Seq(Message \cup {Empty})
      BY <1>4, ContentType DEF PersistContext, StoreInv, DataTyped
    <2>2. QED
      BY <1>4, <2>1 DEF PersistContext, restore
  <1>5. CASE \/ RestoreNothing \/ RestoreMismatch \/ RestoreBegin \/ RestoreStorage
             \/ RestoreReadFails
    BY <1>5 DEF RestoreNothing, RestoreMismatch, RestoreBegin, RestoreStorage,
                RestoreReadFails, snapshot, restore
  <1>6. CASE RestoreContext
    <2>1. Range(Content(ctx, storage)) \subseteq Message \cup {Empty}
      BY ContentType DEF StoreInv, DataTyped
    <2>2. overwritten' \subseteq Message \cup {Empty, Erased}
      BY <1>6, <2>1 DEF RestoreContext
    <2>3. QED
      BY <1>6, <2>2 DEF RestoreContext, snapshot
  <1>7. CASE RestoreErase
    BY <1>7, EmptySnap DEF RestoreErase, EraseDone, EraseFails, NoSnapshot, snapshot
  <1>8. CASE RestoreMarker
    BY <1>8, <1>p, MaxPendingAssumption DEF RestoreMarker, Log, snapshot
  <1>9. CASE RestoreFlush \/ Post
    BY <1>9 DEF RestoreFlush, Post, snapshot, restore
  <1>10. CASE AppLog
    BY <1>10, <1>p, MaxPendingAssumption DEF AppLog, Log, snapshot, restore
  <1>11. CASE LogProcess
    <2>1. Len(pending') <= MaxPending
      BY <1>11, <1>p, MaxPendingAssumption DEF LogProcess
    <2>2. marker' \in {"none", "queued", "kept", "dropped"}
      BY <1>11, Zenon DEF LogProcess
    <2>3. QED
      BY <1>11, <2>1, <2>2 DEF LogProcess
  <1>12. CASE PeriodicTrigger \/ PeriodicUpload
    BY <1>12 DEF PeriodicTrigger, PeriodicUpload, snapshot, restore
  <1>13. CASE Reset
    <2>1. snap' \in Seq(Message \cup {Empty})
      BY <1>13, EmptySnap DEF Reset, NoSnapshot, snapshot
    <2>2. pending' = <<>> /\ pc' = "idle" /\ marker' = "none" /\ overwritten' = {}
      BY <1>13 DEF Reset
    <2>3. origin' \in {"none", "old"}
      BY <1>13 DEF Reset
    <2>4. QED
      BY <2>1, <2>2, <2>3, MaxPendingAssumption
  <1>14. CASE UNCHANGED vars
    BY <1>14 DEF vars, snapshot, restore
  <1>15. QED
    BY <1>1, <1>2, <1>3, <1>4, <1>5, <1>6, <1>7, <1>8, <1>9, <1>10, <1>11, <1>12, <1>13, <1>14
       DEF Next, Persist, OnConnect, Logging

\* For every ring: no byte of erased flash reaches the live ring, and every other
\* variable keeps its type.
THEOREM TypesHold == Spec => []TypeOK
  <1>1. Init => FlagsTyped /\ RestTyped
    <2>1. Init => FlagsTyped
      BY Zenon DEF Init, FlagsTyped
    <2>2. Init => RestTyped
      BY EmptySnap, MaxPendingAssumption DEF Init, RestTyped
    <2>3. QED
      BY <2>1, <2>2
  <1>2. StoreInv /\ FlagsTyped /\ RestTyped => TypeOK
    BY DEF StoreInv, DataTyped, FlagsTyped, RestTyped, TypeOK
  <1>3. QED
    BY <1>1, <1>2, StoreInit, StoreStep, FlagsStep, RestStep, PTL DEF Spec

-----------------------------------------------------------------------------
(* The partition is an atomic store.                                       *)

\* A whole image in flash is an image of the abstract store.
LEMMA WholeIsImage ==
  ASSUME StoreInv, Whole
  PROVE  <<fctx, fstorage>> \in Context \X [Slot -> Message \cup {Empty}]
  <1>1. fctx \in Context
    BY DEF StoreInv, DataTyped, Whole
  <1>2. fstorage \in [Slot -> Message \cup {Empty}]
    BY DEF StoreInv, DataTyped, Whole
  <1>3. QED
    BY <1>1, <1>2

\* Every step commits a whole image to an empty store, discards, or changes
\* nothing that the store shows.
LEMMA StoreSimulates == StoreInv /\ [Next]_vars => [Store!Next]_blob
  <1> SUFFICES ASSUME StoreInv, [Next]_vars PROVE Store!Next \/ blob' = blob
    OBVIOUS
  <1>1. CASE PersistHeader
    <2>1. hdr = "erased" /\ Whole
      BY <1>1 DEF PersistHeader, StoreInv, CommitInv
    <2>2. blob = {} /\ blob' = {<<fctx, fstorage>>}
      BY <1>1, <2>1 DEF PersistHeader, blob
    <2>3. QED
      BY <2>1, <2>2, WholeIsImage DEF Store!Next, Store!Commit
  <1>2. CASE PersistErase \/ PersistGiveUp \/ RestoreErase
    <2>1. UNCHANGED flash \/ hdr' = "erased" \/ UNCHANGED <<hdr, fctx, fstorage>>
      BY <1>2 DEF PersistErase, PersistGiveUp, RestoreErase, EraseDone, EraseFails
    <2>2. blob' = blob \/ blob' = {}
      BY <2>1 DEF flash, blob
    <2>3. QED
      BY <2>2 DEF Store!Next, Store!Discard
  <1>3. CASE PersistContext \/ PersistStorage \/ PersistWriteFails
    <2>1. hdr # "valid" /\ hdr' # "valid"
      BY <1>3 DEF PersistContext, PersistStorage, PersistWriteFails, StoreInv, CommitInv
    <2>2. QED
      BY <2>1 DEF blob
  <1>4. CASE Reset
    <2>1. hdr' = hdr \/ hdr' = "foreign"
      BY <1>4 DEF Reset
    <2>2. blob' = blob \/ blob' = {}
      BY <1>4, <2>1 DEF Reset, blob
    <2>3. QED
      BY <2>2 DEF Store!Next, Store!Discard
  <1>5. CASE Logging
    BY <1>5 DEF Logging, AppLog, LogProcess, PeriodicTrigger, PeriodicUpload, flash, blob
  <1>6. CASE \/ PersistBegin \/ RestoreNothing \/ RestoreMismatch \/ RestoreBegin
             \/ RestoreContext \/ RestoreStorage \/ RestoreReadFails \/ RestoreMarker
             \/ RestoreFlush \/ Post
    BY <1>6 DEF PersistBegin, RestoreNothing, RestoreMismatch, RestoreBegin, RestoreContext,
                RestoreStorage, RestoreReadFails, RestoreMarker, RestoreFlush, Post, flash, blob
  <1>7. CASE UNCHANGED vars
    BY <1>7 DEF vars, flash, blob
  <1>8. QED
    BY <1>1, <1>2, <1>3, <1>4, <1>5, <1>6, <1>7 DEF Next, Persist, OnConnect

\* The persist and restore of this file, with failing flash operations and resets
\* anywhere, implement the atomic one-place store.
THEOREM StoreImplemented == Spec => StoreIsAtomic
  <1>1. Init => Store!Init
    BY DEF Init, Store!Init, blob
  <1>2. QED
    BY <1>1, StoreInit, StoreStep, StoreSimulates, PTL DEF Spec, StoreIsAtomic, Store!Spec

-----------------------------------------------------------------------------
(* An image is restored once.                                              *)

\* After a restore whose erase succeeded there is no image, until a persist
\* commits a new one.
OnceInv == origin = "restored" => hdr \in {"erased", "torn"}

LEMMA OnceStep == StoreInv /\ OnceInv /\ [Next]_vars => OnceInv'
  <1> SUFFICES ASSUME StoreInv, OnceInv, [Next]_vars PROVE OnceInv'
    OBVIOUS
  <1> USE DEF OnceInv
  <1>1. CASE PersistErase \/ PersistGiveUp
    BY <1>1 DEF PersistErase, PersistGiveUp, EraseDone, EraseFails
  <1>2. CASE PersistWriteFails
    BY <1>2 DEF PersistWriteFails, StoreInv, CommitInv
  <1>3. CASE PersistHeader
    BY <1>3 DEF PersistHeader
  <1>4. CASE RestoreErase
    BY <1>4 DEF RestoreErase, EraseDone
  <1>5. CASE Reset
    BY <1>5 DEF Reset
  <1>6. CASE PersistBegin \/ PersistContext \/ PersistStorage
    BY <1>6 DEF PersistBegin, PersistContext, PersistStorage, flash
  <1>7. CASE \/ RestoreNothing \/ RestoreMismatch \/ RestoreBegin \/ RestoreContext
             \/ RestoreStorage \/ RestoreReadFails \/ RestoreMarker \/ RestoreFlush \/ Post
    BY <1>7 DEF RestoreNothing, RestoreMismatch, RestoreBegin, RestoreContext,
                RestoreStorage, RestoreReadFails, RestoreMarker, RestoreFlush, Post, flash
  <1>8. CASE Logging
    BY <1>8 DEF Logging, AppLog, LogProcess, PeriodicTrigger, PeriodicUpload, flash
  <1>9. CASE UNCHANGED vars
    BY <1>9 DEF vars, flash
  <1>10. QED
    BY <1>1, <1>2, <1>3, <1>4, <1>5, <1>6, <1>7, <1>8, <1>9 DEF Next, Persist, OnConnect

\* For every ring: an image that was restored and erased never comes back, whatever
\* fails in later persists and whenever the device resets.
THEOREM RestoredOnce == Spec => []OneShot
  <1>1. Init => OnceInv
    BY DEF Init, OnceInv
  <1>2. StoreInv /\ OnceInv => OneShot
    BY DEF StoreInv, CommitInv, OnceInv, OneShot
  <1>3. QED
    BY <1>1, <1>2, StoreInit, StoreStep, OnceStep, PTL DEF Spec

-----------------------------------------------------------------------------
(* The separator reaches the ring.                                         *)

\* The separator waits for the log thread only while log_flush() does, and until a
\* periodic upload comes in between, nothing has triggered collection since then.
MarkerInv ==
    /\ \A i \in 1..Len(pending) : pending[i] = Marker => pc = "r_flush"
    /\ pc = "r_flush" /\ triggered => retriggered
    /\ MarkerKept

\* A message is not the separator unless it was logged as that.
LEMMA NotMarker == PersistMsg # Marker /\ \A n \in Nat : n + 1 # Marker
  BY DEF PersistMsg, Marker

LEMMA MarkerStep == StoreInv /\ MarkerInv /\ [Next]_vars => MarkerInv'
  <1> SUFFICES ASSUME StoreInv, MarkerInv, [Next]_vars PROVE MarkerInv'
    OBVIOUS
  <1>p. pending \in Seq(Message)
    BY DEF StoreInv, DataTyped
  <1> USE DEF MarkerInv, MarkerKept
  <1>1. CASE PersistBegin
    <2>1. pc # "r_flush" /\ pc' # "r_flush" /\ pending' = Append(pending, PersistMsg)
      BY <1>1 DEF PersistBegin, Log
    <2>2. \A i \in 1..Len(pending') : pending'[i] # Marker
      BY <1>p, <2>1, NotMarker
    <2>3. QED
      BY <1>1, <2>1, <2>2 DEF PersistBegin, restore
  <1>2. CASE AppLog
    <2>1. pending' = Append(pending, logged + 1) /\ logged \in Nat
      BY <1>2, MaxLogsAssumption DEF AppLog, Log, StoreInv, DataTyped
    <2>2. \A i \in 1..Len(pending') : pending'[i] = Marker => pc = "r_flush"
      BY <1>p, <2>1, NotMarker
    <2>3. QED
      BY <1>2, <2>2 DEF AppLog, restore
  <1>3. CASE LogProcess
    <2>1. pending # <<>> /\ pending' = Tail(pending) /\ UNCHANGED <<pc, triggered, retriggered>>
      BY <1>3 DEF LogProcess
    <2>2. \A i \in 1..Len(pending') : pending'[i] = Marker => pc = "r_flush"
      BY <1>p, <2>1
    <2>3. marker' = "dropped" => marker = "dropped" \/ (Head(pending) = Marker /\ triggered)
      <3>1. marker' = IF Head(pending) # Marker THEN marker
                      ELSE IF ctx.count = N /\ triggered THEN "dropped" ELSE "kept"
        BY <1>3, Zenon DEF LogProcess
      <3>2. CASE Head(pending) # Marker
        <4>1. marker' = marker
          BY <3>1, <3>2, Zenon
        <4>2. QED
          BY <4>1, Zenon
      <3>3. CASE Head(pending) = Marker /\ ~(ctx.count = N /\ triggered)
        <4>1. marker' = "kept"
          BY <3>1, <3>3, Zenon
        <4>2. QED
          BY <4>1
      <3>4. CASE Head(pending) = Marker /\ triggered
        BY <3>4
      <3>5. QED
        BY <3>2, <3>3, <3>4, Zenon
    <2>4. Head(pending) = Marker => pc = "r_flush"
      BY <1>p, <2>1
    <2>5. QED
      BY <2>1, <2>2, <2>3, <2>4
  <1>4. CASE PeriodicTrigger
    BY <1>4 DEF PeriodicTrigger, TriggerCollection
  <1>5. CASE PeriodicUpload
    BY <1>5 DEF PeriodicUpload, restore
  <1>6. CASE RestoreMarker
    BY <1>6 DEF RestoreMarker
  <1>7. CASE RestoreFlush
    <2>1. pending' = <<>> /\ pc' = "post" /\ UNCHANGED restore
      BY <1>7 DEF RestoreFlush
    <2>2. QED
      BY <2>1 DEF restore
  <1>8. CASE Post
    BY <1>8 DEF Post
  <1>9. CASE Reset
    BY <1>9 DEF Reset
  <1>10. CASE \/ PersistGiveUp \/ PersistErase \/ PersistContext \/ PersistStorage
              \/ PersistHeader \/ PersistWriteFails
    BY <1>10 DEF PersistGiveUp, PersistErase, PersistContext, PersistStorage, PersistHeader,
                 PersistWriteFails, restore
  <1>11. CASE \/ RestoreNothing \/ RestoreMismatch \/ RestoreBegin \/ RestoreContext
              \/ RestoreStorage \/ RestoreReadFails \/ RestoreErase
    BY <1>11 DEF RestoreNothing, RestoreMismatch, RestoreBegin, RestoreContext, RestoreStorage,
                 RestoreReadFails, RestoreErase, restore
  <1>12. CASE UNCHANGED vars
    BY <1>12 DEF vars, restore
  <1>13. QED
    BY <1>1, <1>2, <1>3, <1>4, <1>5, <1>6, <1>7, <1>8, <1>9, <1>10, <1>11, <1>12
       DEF Next, Persist, OnConnect, Logging

\* For every ring and every backlog of deferred messages: only a periodic upload
\* that triggers collection before log_flush() is done can drop the separator.
THEOREM SeparatorKept == Spec => []MarkerKept
  <1>1. Init => MarkerInv
    BY DEF Init, MarkerInv, MarkerKept
  <1>2. MarkerInv => MarkerKept
    BY DEF MarkerInv
  <1>3. QED
    BY <1>1, <1>2, StoreInit, StoreStep, MarkerStep, PTL DEF Spec

-----------------------------------------------------------------------------
(* A restore gives back what was persisted.                                *)

\* The storage that a persist in progress is about to have in flash: the slots
\* below pos are written, the others are still to be taken from the live ring.
InProgress == [s \in Slot |-> IF s < pos THEN fstorage[s] ELSE storage[s]]

\* The image behind a valid header, the one that waits for its header and the one
\* in progress are the snapshot.  While the slots are written the live ring has
\* grown at its end only, or is full: then every message expires another one.  A
\* restore leaves in the live ring what it has read.
CopyInv ==
    /\ hdr = "valid" /\ ~torn => Content(fctx, fstorage) = snap
    /\ pc = "p_header" /\ ~torn => Content(fctx, fstorage) = snap
    /\ pc = "p_storage" /\ ~torn => Content(fctx, InProgress) = snap
    /\ pc = "p_storage" => \/ ctx.count = N
                           \/ ctx.read = fctx.read /\ ctx.count >= fctx.count
    /\ pc \in {"r_storage", "r_erase"} /\ ~mixed => ctx = fctx
    /\ pc = "r_storage" /\ ~mixed => \A s \in Slot : s < pos => storage[s] = fstorage[s]
    /\ pc = "r_erase" /\ ~mixed => storage = fstorage
    /\ pc = "r_erase" => hdr = "valid"

\* Two messages of a ring are in different slots.
LEMMA SlotsDiffer ==
  ASSUME NEW r \in Slot, NEW a \in Slot, NEW b \in Slot, a # b
  PROVE  (r + a) % N # (r + b) % N
  <1>1. \A x \in Slot : (r + x) % N = IF r + x < N THEN r + x ELSE r + x - N
    <2> TAKE x \in Slot
    <2>1. CASE r + x < N
      BY <2>1, NAssumption DEF Slot
    <2>2. CASE r + x >= N
      <3>1. r + x - N \in 0..(N - 1) /\ r + x = (r + x - N) + N
        BY <2>2, NAssumption DEF Slot
      <3>2. QED
        BY <2>2, <3>1, NAssumption DEF Slot
    <2>3. QED
      BY <2>1, <2>2, NAssumption DEF Slot
  <1>2. QED
    BY <1>1, NAssumption DEF Slot

\* Two storages that agree on the slots of a ring hold the same messages.
LEMMA SameContent ==
  ASSUME NEW c \in Context, NEW st, NEW su,
         \A i \in 1..c.count : st[(c.read + i - 1) % N] = su[(c.read + i - 1) % N]
  PROVE  Content(c, st) = Content(c, su)
  BY DEF Content

\* A message that is put into a ring that is not full leaves its older messages alone.
LEMMA FreeSlot ==
  ASSUME NEW c \in Context, NEW k \in 0..(N - 1), k >= c.count, NEW i \in 1..c.count
  PROVE  (c.read + i - 1) % N # (c.read + k) % N
  <1>1. c.read \in Slot /\ i - 1 \in Slot /\ k \in Slot /\ i - 1 # k
    BY NAssumption DEF Context, Slot
  <1>2. (c.read + (i - 1)) % N # (c.read + k) % N
    BY <1>1, SlotsDiffer
  <1>3. c.read + (i - 1) = c.read + i - 1
    BY <1>1 DEF Slot
  <1>4. QED
    BY <1>2, <1>3

\* The log thread puts a message into the ring beside a copy.
LEMMA CopyLogProcess == StoreInv /\ CopyInv /\ LogProcess => CopyInv'
  <1> SUFFICES ASSUME StoreInv, CopyInv, LogProcess PROVE CopyInv'
    OBVIOUS
  <1> DEFINE w == (ctx.read + ctx.count) % N
  <1>1. UNCHANGED <<hdr, fctx, fstorage, pc, pos, snap>>
    BY DEF LogProcess, flash
  <1>2. ctx \in Context /\ storage \in [Slot -> Message \cup {Empty}] /\ pos \in Slot
    BY DEF StoreInv, DataTyped
  <1>3. CASE ctx.count = N /\ triggered
    <2>1. UNCHANGED <<ctx, storage, torn, mixed>>
      BY <1>3 DEF LogProcess, ring
    <2>2. InProgress' = InProgress
      BY <1>1, <2>1 DEF InProgress
    <2>3. QED
      BY <1>1, <2>1, <2>2 DEF CopyInv
  <1>4. CASE ~(ctx.count = N /\ triggered)
    <2>1. storage' = [storage EXCEPT ![w] = Head(pending)]
      BY <1>4 DEF LogProcess
    <2>2. /\ torn' = (torn \/ (ctx.count = N /\ pc = "p_storage" /\ w >= pos))
          /\ mixed' = (mixed \/ pc \in {"r_storage", "r_erase"})
      BY <1>4, Zenon DEF LogProcess
    <2>3. ctx.count = N => ctx' = [ctx EXCEPT !.read = (ctx.read + 1) % N]
      BY <1>4 DEF LogProcess
    <2>4. ctx.count # N => ctx' = [ctx EXCEPT !.count = ctx.count + 1]
      BY <1>4 DEF LogProcess
    <2>5. ~torn' => ~torn
      BY <2>2
    <2>6. pc = "p_storage" /\ ~torn' => Content(fctx', InProgress') = snap'
      <3> SUFFICES ASSUME pc = "p_storage", ~torn' PROVE Content(fctx, InProgress') = snap
        BY <1>1
      <3>1. Content(fctx, InProgress) = snap /\ fctx \in Context
        BY <2>5 DEF CopyInv, StoreInv, CommitInv
      <3>2. \A s \in Slot : s # w => InProgress'[s] = InProgress[s]
        BY <1>1, <1>2, <2>1 DEF InProgress
      <3>3. CASE ctx.count = N
        <4>1. w < pos /\ w \in Slot
          <5>1. ctx.read + ctx.count \in Nat
            BY <1>2, NAssumption DEF Context, Slot
          <5>2. w \in Slot
            BY <5>1, ModSlot
          <5>3. ~(w >= pos)
            BY <2>2, <3>3, Zenon
          <5>4. QED
            BY <1>2, <5>2, <5>3 DEF Slot
        <4>2. InProgress' = InProgress
          BY <1>1, <3>2, <4>1 DEF InProgress
        <4>3. QED
          BY <3>1, <4>2
      <3>4. CASE ctx.count # N
        <4>1. ctx.read = fctx.read /\ ctx.count >= fctx.count /\ ctx.count \in 0..(N - 1)
          BY <1>2, <3>4, NAssumption DEF CopyInv, Context
        <4>2. \A i \in 1..fctx.count : (fctx.read + i - 1) % N # w
          BY <3>1, <4>1, FreeSlot
        <4>3. \A i \in 1..fctx.count : (fctx.read + i - 1) % N \in Slot
          <5> TAKE i \in 1..fctx.count
          <5>1. fctx.read + i - 1 \in Nat
            BY <3>1, NAssumption DEF Context, Slot
          <5>2. QED
            BY <5>1, ModSlot
        <4>4. Content(fctx, InProgress') = Content(fctx, InProgress)
          BY <3>1, <3>2, <4>2, <4>3, SameContent
        <4>5. QED
          BY <3>1, <4>4
      <3>5. QED
        BY <3>3, <3>4
    <2>7. pc = "p_storage" => \/ ctx'.count = N
                              \/ ctx'.read = fctx'.read /\ ctx'.count >= fctx'.count
      <3>1. CASE ctx.count = N
        BY <1>2, <2>3, <3>1 DEF Context
      <3>2. CASE ctx.count # N
        <4>1. ctx'.read = ctx.read /\ ctx'.count = ctx.count + 1
          BY <1>2, <2>4, <3>2 DEF Context
        <4>2. QED
          BY <1>1, <1>2, <3>2, <4>1, NAssumption DEF CopyInv, StoreInv, CommitInv, Context
      <3>3. QED
        BY <3>1, <3>2
    <2>8. pc \in {"r_storage", "r_erase"} => mixed'
      BY <2>2
    <2>9. QED
      BY <1>1, <2>5, <2>6, <2>7, <2>8 DEF CopyInv
  <1>5. QED
    BY <1>3, <1>4

\* Every step keeps the copies faithful.
LEMMA CopyStep == StoreInv /\ CopyInv /\ [Next]_vars => CopyInv'
  <1> SUFFICES ASSUME StoreInv, CopyInv, [Next]_vars PROVE CopyInv'
    OBVIOUS
  <1>1. CASE PersistErase
    BY <1>1 DEF PersistErase, EraseDone, CopyInv
  <1>2. CASE PersistGiveUp
    BY <1>2 DEF PersistGiveUp, EraseFails, NoSnapshot, snapshot, CopyInv
  <1>3. CASE PersistContext
    <2>1. hdr = "erased" /\ UNCHANGED <<hdr, storage, ctx, fstorage>> /\ pc' = "p_storage" /\ pos' = 0
      BY <1>3 DEF PersistContext, StoreInv, CommitInv, ring
    <2>2. fctx' = ctx /\ ctx \in Context /\ snap' = Content(ctx, storage)
      BY <1>3 DEF PersistContext, StoreInv, DataTyped
    <2>3. InProgress' = storage
      BY <2>1 DEF InProgress, StoreInv, DataTyped, Slot
    <2>4. ctx.count \in Nat
      BY <2>2, NAssumption DEF Context
    <2>5. QED
      BY <2>1, <2>2, <2>3, <2>4 DEF CopyInv
  <1>4. CASE PersistStorage
    <2>1. hdr = "erased" /\ UNCHANGED <<hdr, storage, ctx, fctx, snap, torn>> /\ pc = "p_storage"
      BY <1>4 DEF PersistStorage, StoreInv, CommitInv, ring, snapshot
    <2>2. fstorage' = [fstorage EXCEPT ![pos] = storage[pos]] /\ pos' = (pos + 1) % N
          /\ pos \in Slot /\ fstorage \in [Slot -> Message \cup {Empty, Erased}]
      BY <1>4 DEF PersistStorage, StoreInv, DataTyped
    <2>3. CASE pos' = 0
      <3>1. pc' = "p_header"
        BY <1>4, <2>3 DEF PersistStorage
      <3>2. fstorage' = InProgress
        <4>1. \A s \in Slot : s < pos \/ s = pos
          BY <2>2, <2>3, NextSlot
        <4>2. \A s \in Slot : s < pos => s # pos
          BY <2>2 DEF Slot
        <4>3. QED
          BY <2>2, <4>1, <4>2 DEF InProgress
      <3>3. QED
        BY <2>1, <3>1, <3>2 DEF CopyInv
    <2>4. CASE pos' # 0
      <3>1. pc' = "p_storage" /\ pos' = pos + 1
        BY <1>4, <2>2, <2>4, NextSlot DEF PersistStorage
      <3>2. InProgress' = InProgress
        BY <2>1, <2>2, <3>1 DEF InProgress, Slot
      <3>3. QED
        BY <2>1, <3>1, <3>2 DEF CopyInv
    <2>5. QED
      BY <2>3, <2>4
  <1>5. CASE PersistHeader
    BY <1>5 DEF PersistHeader, snapshot, CopyInv
  <1>6. CASE PersistWriteFails
    BY <1>6 DEF PersistWriteFails, StoreInv, CommitInv, CopyInv
  <1>7. CASE PersistBegin \/ RestoreNothing \/ RestoreMismatch \/ RestoreBegin
    BY <1>7 DEF PersistBegin, RestoreNothing, RestoreMismatch, RestoreBegin, ring, flash,
                snapshot, CopyInv
  <1>8. CASE RestoreContext
    BY <1>8 DEF RestoreContext, flash, snapshot, CopyInv, Slot
  <1>9. CASE RestoreStorage
    <2>1. pc = "r_storage" /\ hdr = "valid" /\ UNCHANGED <<hdr, fctx, fstorage, ctx, snap, torn, mixed>>
      BY <1>9 DEF RestoreStorage, StoreInv, CommitInv, flash, snapshot, restore
    <2>2. storage' = [storage EXCEPT ![pos] = fstorage[pos]] /\ pos' = (pos + 1) % N
          /\ pos \in Slot /\ storage \in [Slot -> Message \cup {Empty}]
          /\ fstorage \in [Slot -> Message \cup {Empty, Erased}]
      BY <1>9 DEF RestoreStorage, StoreInv, DataTyped
    <2>3. CASE pos' = 0
      <3>1. pc' = "r_erase"
        BY <1>9, <2>3 DEF RestoreStorage
      <3>2. ~mixed => storage' = fstorage
        BY <2>1, <2>2, <2>3, NextSlot DEF CopyInv
      <3>3. QED
        BY <2>1, <3>1, <3>2 DEF CopyInv
    <2>4. CASE pos' # 0
      <3>1. pc' = "r_storage" /\ pos' = pos + 1
        BY <1>9, <2>2, <2>4, NextSlot DEF RestoreStorage
      <3>2. ~mixed => \A s \in Slot : s < pos' => storage'[s] = fstorage[s]
        BY <2>1, <2>2, <3>1 DEF CopyInv, Slot
      <3>3. QED
        BY <2>1, <3>1, <3>2 DEF CopyInv
    <2>5. QED
      BY <2>3, <2>4
  <1>10. CASE RestoreReadFails
    BY <1>10 DEF RestoreReadFails, ring, flash, snapshot, restore, CopyInv
  <1>11. CASE RestoreErase
    BY <1>11 DEF RestoreErase, EraseDone, EraseFails, NoSnapshot, snapshot, CopyInv
  <1>12. CASE RestoreMarker \/ RestoreFlush \/ Post
    BY <1>12 DEF RestoreMarker, RestoreFlush, Post, ring, flash, snapshot, CopyInv
  <1>13. CASE AppLog \/ PeriodicTrigger \/ PeriodicUpload
    <2>1. UNCHANGED <<ctx, storage, hdr, fctx, fstorage, pc, pos, snap, torn, mixed>>
      BY <1>13 DEF AppLog, PeriodicTrigger, PeriodicUpload, ring, flash, snapshot, restore
    <2>2. InProgress' = InProgress
      BY <2>1 DEF InProgress
    <2>3. QED
      BY <2>1, <2>2 DEF CopyInv
  <1>14. CASE LogProcess
    BY <1>14, CopyLogProcess
  <1>15. CASE Reset
    BY <1>15 DEF Reset, NoSnapshot, snapshot, CopyInv
  <1>16. CASE UNCHANGED vars
    <2>1. UNCHANGED <<ctx, storage, hdr, fctx, fstorage, pc, pos, snap, torn, mixed>>
      BY <1>16 DEF vars, ring, flash, snapshot, restore
    <2>2. InProgress' = InProgress
      BY <2>1 DEF InProgress
    <2>3. QED
      BY <2>1, <2>2 DEF CopyInv
  <1>17. QED
    BY <1>1, <1>2, <1>3, <1>4, <1>5, <1>6, <1>7, <1>8, <1>9, <1>10, <1>11, <1>12, <1>13,
       <1>14, <1>15, <1>16 DEF Next, Persist, OnConnect, Logging

\* For a ring of any size, any messages and any interleaving with the log thread: a
\* restore gives back the ring that was persisted, unless a message whose slot was
\* not saved yet had expired or the log thread wrote during the restore.
THEOREM RestoredAsPersisted == Spec => []RoundTrip
  <1>1. Init => CopyInv
    BY DEF Init, CopyInv
  <1>2. CopyInv => RoundTrip
    BY DEF CopyInv, RoundTrip
  <1>3. QED
    BY <1>1, <1>2, StoreInit, StoreStep, CopyStep, PTL DEF Spec
=============================================================================
