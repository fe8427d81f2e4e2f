------------------------------- MODULE LogState -------------------------------
(***************************************************************************)
(* Persist and restore of the Memfault log ring                            *)
(* (app_memfault_log_state_restore.c), with the log processing thread that *)
(* keeps writing to the live ring meanwhile.                               *)
(*                                                                         *)
(* Both functions work on live pointers into the SDK's ring: there is no   *)
(* copy and no lock.  Every LOG_* call is deferred: it only queues its     *)
(* message, the log thread puts it into the ring later.  Messages other    *)
(* than the two a property is about are AppLog steps of any thread.        *)
(*                                                                         *)
(* Persist and restore never overlap here: MemfaultCore shows that their   *)
(* callers keep them apart.                                                *)
(***************************************************************************)
EXTENDS Integers, Sequences, Functions

CONSTANTS
    N,          \* messages the ring holds (CONFIG_MEMFAULT_LOGGING_RAM_SIZE)
    MaxLogs,    \* bound: messages logged by the application
    MaxPending  \* bound: messages waiting for the log thread

ASSUME NAssumption == N \in Nat \ {0}
ASSUME MaxLogsAssumption == MaxLogs \in Nat
ASSUME MaxPendingAssumption == MaxPending \in Nat

VARIABLES
    ctx,        \* live ring context: oldest slot and number of messages
    storage,    \* live ring storage, by slot
    pending,    \* deferred messages
    triggered,  \* the SDK's log data source: collection triggered, expiry blocked
    logged,     \* application messages so far
    hdr,        \* log_state_hdr in flash
    fctx,       \* context bytes in flash
    fstorage,   \* storage bytes in flash
    pc,         \* where persist or on_connect() is
    pos,        \* next slot of a storage transfer
    snap,       \* history: the ring when the context in flash was captured
    torn,       \* history: since then a slot not yet saved was overwritten
    mixed,      \* history: the log thread wrote to the ring since the restore began
    marker,     \* history: fate of the LOG RESTORE marker
    retriggered,\* history: an upload triggered collection before the marker was in
    origin,     \* history: what became of the image in flash
    overwritten \* history: messages a restore in the same boot took out of the ring

ring == <<ctx, storage>>
flash == <<hdr, fctx, fstorage>>
snapshot == <<snap, torn>>
restore == <<mixed, marker, retriggered, overwritten>>
vars == <<ring, pending, triggered, logged, flash, pc, pos, snapshot, restore, origin>>

Slot == 0..(N - 1)
Empty == 0              \* a slot of the RAM ring never written
Erased == -1            \* 0xFF...
PersistMsg == -2        \* "Persisting Memfault disconnect log state..."
Marker == -3            \* "=== [LOG RESTORE] ... ==="
Message == (1..MaxLogs) \cup {PersistMsg, Marker}

Context == [read : Slot, count : 0..N]
EmptyContext == [read |-> 0, count |-> 0]
EmptyStorage == [s \in Slot |-> Empty]
ErasedContext == [read |-> Erased, count |-> Erased]
ErasedStorage == [s \in Slot |-> Erased]

\* The messages of a ring, oldest first.
Content(c, st) == [i \in 1..c.count |-> st[(c.read + i - 1) % N]]

Persisting == {"p_erase", "p_ctx", "p_storage", "p_header"}

Init ==
    /\ ctx = EmptyContext
    /\ storage = EmptyStorage
    /\ pending = <<>>
    /\ triggered = FALSE
    /\ pc = "idle"
    /\ pos = 0
    /\ logged = 0
    /\ hdr = "erased"
    /\ fctx = ErasedContext
    /\ fstorage = ErasedStorage
    /\ snap = <<>>
    /\ torn = FALSE
    /\ mixed = FALSE
    /\ marker = "none"
    /\ retriggered = FALSE
    /\ origin = "none"
    /\ overwritten = {}

-----------------------------------------------------------------------------
(* Deferred logging and the SDK's ring (external).                         *)

\* LOG_INF() and its kin.
Log(m) ==
    /\ Len(pending) < MaxPending
    /\ pending' = Append(pending, m)

AppLog ==
    /\ logged < MaxLogs
    /\ logged' = logged + 1
    /\ Log(logged + 1)
    /\ UNCHANGED <<ring, triggered, flash, pc, pos, snapshot, restore, origin>>

\* The log thread, or log_flush(), hands the oldest message to the ring.  A full
\* ring expires its oldest message, unless collection is triggered: then the new
\* message is dropped.
LogProcess ==
    LET m == Head(pending)
        full == ctx.count = N
        dropped == full /\ triggered
        w == (ctx.read + ctx.count) % N
    IN  /\ pending # <<>>
        /\ pending' = Tail(pending)
        /\ IF dropped
           THEN UNCHANGED <<ring, torn, mixed>>
           ELSE /\ storage' = [storage EXCEPT ![w] = m]
                /\ ctx' = IF full THEN [ctx EXCEPT !.read = (ctx.read + 1) % N]
                                  ELSE [ctx EXCEPT !.count = ctx.count + 1]
                /\ torn' = (torn \/ (full /\ pc = "p_storage" /\ w >= pos))
                /\ mixed' = (mixed \/ pc \in {"r_storage", "r_erase"})
        /\ marker' = IF m # Marker THEN marker ELSE IF dropped THEN "dropped" ELSE "kept"
        /\ UNCHANGED <<triggered, logged, flash, pc, pos, snap, retriggered, overwritten, origin>>

\* memfault_log_trigger_collection()
TriggerCollection == triggered' = (triggered \/ ctx.count > 0)

\* The SDK's periodic upload, on a thread of its own, triggers collection ...
PeriodicTrigger ==
    /\ TriggerCollection
    /\ retriggered' = (retriggered \/ pc = "r_flush")
    /\ UNCHANGED <<ring, pending, logged, flash, pc, pos, snapshot, mixed, marker, overwritten,
                   origin>>

\* ... and its upload ends; one that fails leaves the trigger set.
PeriodicUpload ==
    /\ triggered
    /\ triggered' = FALSE
    /\ UNCHANGED <<ring, pending, logged, flash, pc, pos, snapshot, restore, origin>>

-----------------------------------------------------------------------------
(* Flash (external): an operation may fail half way.                       *)

\* History: there is no image any more that a snapshot could be compared with.
NoSnapshot == snap' = <<>> /\ torn' = FALSE

\* Sectors are erased in order, the one with the header first.
EraseDone ==
    /\ hdr' = "erased"
    /\ fctx' = ErasedContext
    /\ fstorage' = ErasedStorage
    /\ NoSnapshot

EraseFails ==
    /\ \/ UNCHANGED <<hdr, fctx, snapshot>>
       \/ hdr' = "erased" /\ fctx' = ErasedContext /\ NoSnapshot
    /\ UNCHANGED fstorage

-----------------------------------------------------------------------------
(* memfault_log_state_persist_now()                                        *)

PersistBegin ==
    /\ pc = "idle"
    /\ pc' = "p_erase"
    /\ Log(PersistMsg)
    /\ UNCHANGED <<ring, triggered, logged, flash, pos, snapshot, restore, origin>>

\* The partition cannot be opened, is too small, or cannot be erased.
PersistGiveUp ==
    /\ pc = "p_erase"
    /\ pc' = "idle"
    /\ EraseFails
    /\ UNCHANGED <<ring, pending, triggered, logged, pos, restore, origin>>

\* Mutant: the new image is written over the old one.
PersistNoErase ==
    /\ pc = "p_erase"
    /\ pc' = "p_ctx"
    /\ UNCHANGED <<ring, pending, triggered, logged, flash, pos, snapshot, restore, origin>>

PersistErase ==
    /\ pc = "p_erase"
    /\ pc' = "p_ctx"
    /\ EraseDone
    /\ UNCHANGED <<ring, pending, triggered, logged, pos, restore, origin>>

\* The live context is written.
PersistContext ==
    /\ pc = "p_ctx"
    /\ pc' = "p_storage"
    /\ fctx' = ctx
    /\ pos' = 0
    /\ snap' = Content(ctx, storage)
    /\ torn' = FALSE
    /\ UNCHANGED <<ring, pending, triggered, logged, hdr, fstorage, restore, origin>>

\* The live storage is written, part after part, as it is at that moment.
PersistStorage ==
    /\ pc = "p_storage"
    /\ fstorage' = [fstorage EXCEPT ![pos] = storage[pos]]
    /\ pos' = (pos + 1) % N
    /\ pc' = IF pos' = 0 THEN "p_header" ELSE "p_storage"
    /\ UNCHANGED <<ring, pending, triggered, logged, hdr, fctx, snapshot, restore, origin>>

\* The header goes last.
PersistHeader ==
    /\ pc = "p_header"
    /\ pc' = "idle"
    /\ hdr' = "valid"
    /\ origin' = "fresh"
    /\ UNCHANGED <<ring, pending, triggered, logged, fctx, fstorage, pos, snapshot, restore>>

\* Mutant: the header is written although a payload write failed.
PersistWriteFailsUnchecked ==
    /\ pc \in {"p_ctx", "p_storage", "p_header"}
    /\ pc' = "idle"
    /\ hdr' \in {hdr, "torn", "valid"}
    /\ pos' = 0
    /\ NoSnapshot
    /\ UNCHANGED <<ring, pending, triggered, logged, fctx, fstorage, restore, origin>>

\* A write fails.  Nothing follows it; a header may be left half written.
PersistWriteFails ==
    /\ pc \in {"p_ctx", "p_storage", "p_header"}
    /\ pc' = "idle"
    /\ hdr' \in IF pc = "p_header" THEN {hdr, "torn"} ELSE {hdr}
    /\ pos' = 0
    /\ NoSnapshot
    /\ UNCHANGED <<ring, pending, triggered, logged, fctx, fstorage, restore, origin>>

-----------------------------------------------------------------------------
(* on_connect(): memfault_log_state_restore_on_connect(), then the upload. *)

\* No partition, no readable header, no valid header, or another version's.
RestoreNothing ==
    /\ pc = "idle"
    /\ pc' = "post"
    /\ UNCHANGED <<ring, pending, triggered, logged, flash, pos, snapshot, restore, origin>>

\* The lengths are not those of the live ring (another firmware, a torn header).
RestoreMismatch ==
    /\ pc = "idle"
    /\ hdr \in {"torn", "foreign"}
    /\ pc' = "r_discard"
    /\ UNCHANGED <<ring, pending, triggered, logged, flash, pos, snapshot, restore, origin>>

\* Mutant: the header is not checked.
RestoreBeginUnchecked ==
    /\ pc = "idle"
    /\ pc' = "r_ctx"
    /\ UNCHANGED <<ring, pending, triggered, logged, flash, pos, snapshot, restore, origin>>

RestoreBegin ==
    /\ pc = "idle"
    /\ hdr = "valid"
    /\ pc' = "r_ctx"
    /\ UNCHANGED <<ring, pending, triggered, logged, flash, pos, snapshot, restore, origin>>

\* The context in flash replaces the live one.
RestoreContext ==
    /\ pc = "r_ctx"
    /\ pc' = "r_storage"
    /\ ctx' = fctx
    /\ pos' = 0
    /\ mixed' = FALSE
    /\ overwritten' = IF origin = "fresh"
                      THEN Range(Content(ctx, storage)) \ Range(Content(fctx, fstorage))
                      ELSE {}
    /\ UNCHANGED <<storage, pending, triggered, logged, flash, snapshot, marker, retriggered,
                   origin>>

\* Mutant: the last part of the storage is not read back.
RestoreStorageShort ==
    /\ pc = "r_storage"
    /\ storage' = [storage EXCEPT ![pos] = fstorage[pos]]
    /\ pos' = (pos + 1) % N
    /\ pc' = IF pos' \in {0, N - 1} THEN "r_erase" ELSE "r_storage"
    /\ UNCHANGED <<ctx, pending, triggered, logged, flash, snapshot, restore, origin>>

\* The storage in flash replaces the live one, part after part.
RestoreStorage ==
    /\ pc = "r_storage"
    /\ storage' = [storage EXCEPT ![pos] = fstorage[pos]]
    /\ pos' = (pos + 1) % N
    /\ pc' = IF pos' = 0 THEN "r_erase" ELSE "r_storage"
    /\ UNCHANGED <<ctx, pending, triggered, logged, flash, snapshot, restore, origin>>

RestoreReadFails ==
    /\ pc \in {"r_ctx", "r_storage"}
    /\ pc' = "r_discard"
    /\ pos' = 0
    /\ UNCHANGED <<ring, pending, triggered, logged, flash, snapshot, restore, origin>>

\* Mutant: the image is kept when it was restored.
RestoreKeepsBlob ==
    /\ pc \in {"r_erase", "r_discard"}
    /\ pc' = IF pc = "r_erase" THEN "r_marker" ELSE "post"
    /\ origin' = "restored"
    /\ mixed' = FALSE
    /\ overwritten' = {}
    /\ UNCHANGED <<ring, pending, triggered, logged, flash, pos, snapshot, marker, retriggered>>

\* One-shot: erase, whether the restore succeeded or not; the result is ignored.
RestoreErase ==
    /\ pc \in {"r_erase", "r_discard"}
    /\ pc' = IF pc = "r_erase" THEN "r_marker" ELSE "post"
    /\ \/ EraseDone /\ origin' = "restored"
       \/ EraseFails /\ origin' = "stuck"
    /\ mixed' = FALSE
    /\ overwritten' = {}
    /\ UNCHANGED <<ring, pending, triggered, logged, pos, marker, retriggered>>

\* Mutant: the data source's stale trigger is not cleared first.
RestoreMarkerNoReset ==
    /\ pc = "r_marker"
    /\ pc' = "r_flush"
    /\ Log(Marker)
    /\ marker' = "queued"
    /\ retriggered' = FALSE
    /\ UNCHANGED <<ring, triggered, logged, flash, pos, snapshot, mixed, overwritten, origin>>

\* memfault_log_data_source_reset(), then the separator is logged.
RestoreMarker ==
    /\ pc = "r_marker"
    /\ pc' = "r_flush"
    /\ triggered' = FALSE
    /\ Log(Marker)
    /\ marker' = "queued"
    /\ retriggered' = FALSE
    /\ UNCHANGED <<ring, logged, flash, pos, snapshot, mixed, overwritten, origin>>

\* log_flush() returns once nothing is pending; on_connect() then marks the
\* restored messages for upload.
RestoreFlush ==
    /\ pc = "r_flush"
    /\ pending = <<>>
    /\ pc' = "post"
    /\ TriggerCollection
    /\ UNCHANGED <<ring, pending, logged, flash, pos, snapshot, restore, origin>>

\* memfault_zephyr_port_post_data() succeeds or fails.
Post ==
    /\ pc = "post"
    /\ pc' = "idle"
    /\ triggered' \in {triggered, FALSE}
    /\ marker' = "none"
    /\ retriggered' = FALSE
    /\ UNCHANGED <<ring, pending, logged, flash, pos, snapshot, mixed, overwritten, origin>>

-----------------------------------------------------------------------------
(* Resets.                                                                 *)

\* The device resets at any point; it may come back with another firmware, for
\* whose ring the image does not fit.
Reset ==
    /\ ctx' = EmptyContext
    /\ storage' = EmptyStorage
    /\ pending' = <<>>
    /\ triggered' = FALSE
    /\ pc' = "idle"
    /\ pos' = 0
    /\ \/ UNCHANGED <<hdr, snapshot>>
       \/ hdr = "valid" /\ hdr' = "foreign" /\ NoSnapshot
    /\ mixed' = FALSE
    /\ marker' = "none"
    /\ retriggered' = FALSE
    /\ origin' = IF hdr = "valid" THEN "old" ELSE "none"
    /\ overwritten' = {}
    /\ UNCHANGED <<logged, fctx, fstorage>>

Persist ==
    \/ PersistBegin
    \/ PersistGiveUp
    \/ PersistErase
    \/ PersistContext
    \/ PersistStorage
    \/ PersistHeader
    \/ PersistWriteFails

OnConnect ==
    \/ RestoreNothing
    \/ RestoreMismatch
    \/ RestoreBegin
    \/ RestoreContext
    \/ RestoreStorage
    \/ RestoreReadFails
    \/ RestoreErase
    \/ RestoreMarker
    \/ RestoreFlush
    \/ Post

Logging ==
    \/ AppLog
    \/ LogProcess
    \/ PeriodicTrigger
    \/ PeriodicUpload

Next ==
    \/ Persist
    \/ OnConnect
    \/ Logging
    \/ Reset

Spec == Init /\ [][Next]_vars

-----------------------------------------------------------------------------
(* Properties.                                                             *)

\* Every variable keeps its type; in particular the live ring never holds bytes
\* of erased flash, neither in its context nor in its storage.
TypeOK ==
    /\ ctx \in Context
    /\ storage \in [Slot -> Message \cup {Empty}]
    /\ pending \in Seq(Message)
    /\ Len(pending) <= MaxPending
    /\ triggered \in BOOLEAN
    /\ logged \in 0..MaxLogs
    /\ hdr \in {"erased", "torn", "valid", "foreign"}
    /\ fctx \in Context \cup {ErasedContext}
    /\ fstorage \in [Slot -> Message \cup {Empty, Erased}]
    /\ pc \in {"idle", "r_ctx", "r_storage", "r_erase", "r_discard", "r_marker", "r_flush",
               "post"} \cup Persisting
    /\ pos \in Slot
    /\ snap \in Seq(Message \cup {Empty})
    /\ torn \in BOOLEAN
    /\ mixed \in BOOLEAN
    /\ marker \in {"none", "queued", "kept", "dropped"}
    /\ retriggered \in BOOLEAN
    /\ origin \in {"none", "fresh", "old", "restored", "stuck"}
    /\ overwritten \subseteq Message \cup {Empty, Erased}

\* The image bytes are all written.
Whole == fctx # ErasedContext /\ \A s \in Slot : fstorage[s] # Erased

\* A header that restore would accept stands only before a whole image: the
\* header-last order survives failed erases and writes and a reset between any
\* two flash operations, so 0xFF bytes are never restored.
HeaderMeansWhole == hdr = "valid" => Whole

\* Restoring gives back the ring of the moment the context was captured, also
\* after resets and failed flash operations, unless the log thread expired a
\* message whose slot was not saved yet or wrote to the ring during the restore:
\* messages logged during the persist into free slots do no harm.
RoundTrip == pc = "r_erase" /\ ~torn /\ ~mixed => Content(ctx, storage) = snap

\* The separator reaches the ring although a failed upload left it full and
\* triggered; only an upload that triggers again in between can drop it.
MarkerKept == marker = "dropped" => retriggered

\* An image that was restored, and whose erase then succeeded, is never restored
\* again: not after a later persist that failed, nor after another connect.
OneShot == pc = "r_ctx" => origin # "restored"

\* Refinement mapping: the store holds the image behind a valid header.
blob == IF hdr = "valid" THEN {<<fctx, fstorage>>} ELSE {}
Store == INSTANCE BlobStore WITH Image <- Context \X [Slot -> Message \cup {Empty}]

\* The partition implements an atomic one-place store: failed erases and writes,
\* and a reset between any two flash operations, show an image, none, and nothing
\* in between to memfault_log_state_restore_on_connect().
StoreIsAtomic == Store!Spec

\* app_memfault_log_state_restore.c:86: "Log BEFORE capturing ring buffer state
\* so this message is included in the persisted blob".
PersistMessageInBlob ==
    hdr = "valid" => PersistMsg \in Range(Content(fctx, fstorage))

\* app-memfault-module.md:119: "normal reconnects (no reboot) upload the full ring
\* buffer as-is": a restore without a reboot takes nothing out of the ring.
ReconnectKeepsLogs == overwritten = {}
=============================================================================
