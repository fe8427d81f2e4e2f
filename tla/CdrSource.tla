------------------------------ MODULE CdrSource ------------------------------
(***************************************************************************)
(* The custom data recording (CDR) of the Wi-Fi chip's statistics          *)
(* (app_memfault_nrf70_fw_stats_cdr.c).                                    *)
(*                                                                         *)
(* One RAM buffer with a size and a ready flag is filled by the button     *)
(* listener and by the persist work item, which share the system work      *)
(* queue; filled by the restore on the upload thread; and emptied by the   *)
(* SDK's packetizer on whatever thread posts data.  Nothing orders the     *)
(* three threads.  The queue's thread is cooperative: it runs until it     *)
(* waits, for the Wi-Fi driver or for the flash.  s_read_offset is written *)
(* and never used.                                                         *)
(*                                                                         *)
(* A collection is a number; the buffer has K chunks, each of which holds  *)
(* the number of the collection it comes from.                             *)
(***************************************************************************)
EXTENDS Integers, Sequences

CONSTANTS
    K,          \* chunks of the buffer
    MaxGen      \* bound: collections

ASSUME KAssumption == K \in Nat \ {0}
ASSUME MaxGenAssumption == MaxGen \in Nat

VARIABLES
    buffer,     \* s_nrf70_fw_stats_blob, by chunk
    size,       \* s_nrf70_fw_stats_blob_size, in chunks
    ready,      \* s_cdr_data_ready
    gen,        \* collections so far
    pc,         \* where each thread is
    pos,        \* next chunk of the restore's read
    len,        \* the size that the flash write about to be done was called with
    hdr,        \* cdr_state_hdr in flash: is there one that restore accepts
    image,      \* the blob in flash, by chunk
    sent,       \* chunks the packetizer has read
    announced,  \* the size has_cdr_cb told the packetizer
    met         \* history: a restore and a persist overlapped

Threads == {"queue", "restore", "upload"}
\* Why the queue collects, and the places of a work item with its collection done.
Jobs == {"collect", "persist"}
Persisting == {"erase", "write", "header"}
Chunk == 0..(K - 1)
Unfilled == 0
Erased == -1
Collection == 1..MaxGen

ram == <<buffer, size, ready>>
flash == <<hdr, image>>
packet == <<sent, announced>>
vars == <<ram, gen, pc, pos, len, flash, packet, met>>

ErasedImage == [c \in Chunk |-> Erased]

Init ==
    /\ buffer = [c \in Chunk |-> Unfilled]
    /\ size = 0
    /\ ready = FALSE
    /\ gen = 0
    /\ pc = [t \in Threads |-> "idle"]
    /\ pos = 0
    /\ len = 0
    /\ hdr = FALSE
    /\ image = ErasedImage
    /\ sent = <<>>
    /\ announced = 0
    /\ met = FALSE

Goto(t, from, to) ==
    /\ pc[t] = from
    /\ pc' = [pc EXCEPT ![t] = to]

\* The flash driver does one operation at a time; a caller waits for its turn, and
\* other threads run meanwhile.
FlashFree == pos = 0

-----------------------------------------------------------------------------
(* The system work queue: mflt_nrf70_fw_stats_cdr_collect() on a button    *)
(* click, and mflt_nrf70_fw_stats_cdr_persist_to_flash().                  *)

\* Mutant: the work item saves what is ready already, and collects only when
\* nothing is.
CollectClearUnlessReady(job) ==
    /\ Goto("queue", "idle", IF job = "persist" /\ ready THEN "erase" ELSE job)
    /\ ready' = (job = "persist" /\ ready)
    /\ size' = IF job = "persist" /\ ready THEN size ELSE 0
    /\ UNCHANGED <<buffer, gen, pos, len, flash, packet, met>>

\* Whatever was ready to be sent is dropped; then the driver is asked.
CollectClear(job) ==
    /\ Goto("queue", "idle", job)
    /\ ready' = FALSE
    /\ size' = 0
    /\ UNCHANGED <<buffer, gen, pos, len, flash, packet, met>>

\* What an overlap did may still be in flash, in the buffer or on its way out.
OverlapLingers == hdr \/ pc["restore"] # "idle" \/ pc["upload"] # "idle"

\* Mutant: the size is added to, as if it were still zero.
CollectDoneAdds(job) ==
    /\ Goto("queue", job, IF job = "persist" THEN "erase" ELSE "idle")
    /\ gen < MaxGen
    /\ gen' = gen + 1
    /\ buffer' = [c \in Chunk |-> gen + 1]
    /\ size' = size + K
    /\ ready' = TRUE
    /\ met' = \/ met /\ OverlapLingers
              \/ job = "persist" /\ pc["restore"] # "idle"
    /\ UNCHANGED <<pos, len, flash, packet>>

\* The driver answers: copy, size and flag are set without waiting again, so the
\* size that is tested in between is not zero.
CollectDone(job) ==
    /\ Goto("queue", job, IF job = "persist" THEN "erase" ELSE "idle")
    /\ gen < MaxGen
    /\ gen' = gen + 1
    /\ buffer' = [c \in Chunk |-> gen + 1]
    /\ size' = K
    /\ ready' = TRUE
    /\ met' = \/ met /\ OverlapLingers
              \/ job = "persist" /\ pc["restore"] # "idle"
    /\ UNCHANGED <<pos, len, flash, packet>>

\* The driver is not there, or does not answer.
CollectFails(job) ==
    /\ Goto("queue", job, "idle")
    /\ UNCHANGED <<ram, gen, pos, len, flash, packet, met>>

EraseDone == hdr' = FALSE /\ image' = ErasedImage

\* The call of the payload write follows at once, with the size as it is now.
PersistErase ==
    /\ Goto("queue", "erase", "write")
    /\ FlashFree
    /\ EraseDone
    /\ len' = size
    /\ UNCHANGED <<ram, gen, pos, packet, met>>

\* The partition cannot be opened, is too small, or the erase fails: header and
\* blob share a sector.
PersistGiveUp ==
    /\ Goto("queue", "erase", "idle")
    /\ UNCHANGED flash \/ (FlashFree /\ EraseDone)
    /\ UNCHANGED <<ram, gen, pos, len, packet, met>>

\* The live buffer is written, unless it had been emptied before the call.  The
\* header is made up at once, with the size as it is now.
PersistWrite ==
    /\ Goto("queue", "write", "header")
    /\ FlashFree
    /\ image' = IF len = 0 THEN image ELSE buffer
    /\ len' = size
    /\ UNCHANGED <<ram, gen, pos, hdr, packet, met>>

\* Mutant: the header is written although the payload write failed.
PersistWriteFailsUnchecked ==
    /\ Goto("queue", "write", "header")
    /\ FlashFree
    /\ len' = size
    /\ UNCHANGED <<ram, gen, pos, flash, packet, met>>

\* Part of the payload is written, and nothing follows it.
PersistWriteFails ==
    /\ Goto("queue", "write", "idle")
    /\ FlashFree
    /\ \E n \in Chunk : image' = [c \in Chunk |-> IF c < n THEN buffer[c] ELSE image[c]]
    /\ UNCHANGED <<ram, gen, pos, len, hdr, packet, met>>

\* The header goes last; restore accepts no header with a size of zero.
PersistHeader ==
    /\ Goto("queue", "header", "idle")
    /\ FlashFree
    /\ hdr' = (len # 0)
    /\ UNCHANGED <<ram, gen, pos, len, image, packet, met>>

\* A torn header has a size of 0xFF bytes that restore refuses, unless only its
\* last word, reserved2, is missing.
PersistHeaderFails ==
    /\ Goto("queue", "header", "idle")
    /\ FlashFree
    /\ hdr' \in {hdr, len # 0}
    /\ UNCHANGED <<ram, gen, pos, len, image, packet, met>>

-----------------------------------------------------------------------------
(* The upload thread: mflt_nrf70_fw_stats_cdr_restore_from_flash(), called *)
(* by on_connect().                                                        *)

\* Mutant: the header is not checked.
RestoreBeginUnchecked ==
    /\ Goto("restore", "idle", "read")
    /\ met' = (met \/ pc["queue"] \in Persisting)
    /\ UNCHANGED <<ram, gen, pos, len, flash, packet>>

\* Without a valid header nothing happens.  A thread that has been waiting for the
\* name server since before the loss gets here while the work item runs.
RestoreBegin ==
    /\ Goto("restore", "idle", "read")
    /\ hdr
    /\ met' = (met \/ pc["queue"] \in Persisting)
    /\ UNCHANGED <<ram, gen, pos, len, flash, packet>>

\* The read is a flash operation of its own and goes straight to the buffer, which
\* the queue may fill at the same time.
RestoreRead ==
    /\ Goto("restore", "read", IF pos = K - 1 THEN "erase" ELSE "read")
    /\ pos' = (pos + 1) % K
    /\ buffer' = [buffer EXCEPT ![pos] = image[pos]]
    /\ UNCHANGED <<size, ready, gen, len, flash, packet, met>>

\* Mutant: the result of the read is not looked at.
RestoreReadFailsUnchecked ==
    /\ Goto("restore", "read", "erase")
    /\ pos' = 0
    /\ UNCHANGED <<ram, gen, len, flash, packet, met>>

RestoreReadFails ==
    /\ Goto("restore", "read", "discard")
    /\ pos' = 0
    /\ UNCHANGED <<ram, gen, len, flash, packet, met>>

\* One-shot; the result of the erase is ignored.
RestoreErase ==
    /\ \/ Goto("restore", "erase", "size")
       \/ Goto("restore", "discard", "idle")
    /\ EraseDone \/ UNCHANGED flash
    /\ UNCHANGED <<ram, gen, pos, len, packet, met>>

RestoreSize ==
    /\ Goto("restore", "size", "set")
    /\ size' = K
    /\ UNCHANGED <<buffer, ready, gen, pos, len, flash, packet, met>>

RestoreReady ==
    /\ Goto("restore", "set", "idle")
    /\ ready' = TRUE
    /\ UNCHANGED <<buffer, size, gen, pos, len, flash, packet, met>>

-----------------------------------------------------------------------------
(* The packetizer's callbacks; one upload is in progress at most.          *)

\* has_cdr_cb() returns TRUE.
HasCdr ==
    /\ Goto("upload", "idle", "read")
    /\ ready
    /\ size # 0
    /\ announced' = size
    /\ sent' = <<>>
    /\ UNCHANGED <<ram, gen, pos, len, flash, met>>

\* read_data_cb() returns TRUE.
ReadData ==
    /\ Goto("upload", "read", IF Len(sent) + 1 = announced THEN "mark" ELSE "read")
    /\ Len(sent) < announced
    /\ Len(sent) < size
    /\ sent' = Append(sent, buffer[Len(sent)])
    /\ UNCHANGED <<ram, gen, pos, len, flash, announced, met>>

\* read_data_cb() returns FALSE, or the upload fails: nothing is marked.
UploadFails ==
    /\ Goto("upload", "read", "idle")
    /\ sent' = <<>>
    /\ announced' = 0
    /\ UNCHANGED <<ram, gen, pos, len, flash, met>>

\* mark_cdr_read_cb()
MarkCdrRead ==
    /\ Goto("upload", "mark", "idle")
    /\ ready' = FALSE
    /\ size' = 0
    /\ sent' = <<>>
    /\ announced' = 0
    /\ UNCHANGED <<buffer, gen, pos, len, flash, met>>

-----------------------------------------------------------------------------
\* Only the flash survives.
Reset ==
    /\ buffer' = [c \in Chunk |-> Unfilled]
    /\ size' = 0
    /\ ready' = FALSE
    /\ pc' = [t \in Threads |-> "idle"]
    /\ pos' = 0
    /\ len' = 0
    /\ sent' = <<>>
    /\ announced' = 0
    /\ met' = (met /\ hdr)
    /\ UNCHANGED <<gen, flash>>

Collect(job) ==
    \/ CollectClear(job)
    \/ CollectDone(job)
    \/ CollectFails(job)

Persist ==
    \/ PersistErase
    \/ PersistGiveUp
    \/ PersistWrite
    \/ PersistWriteFails
    \/ PersistHeader
    \/ PersistHeaderFails

Restore ==
    \/ RestoreBegin
    \/ RestoreRead
    \/ RestoreReadFails
    \/ RestoreErase
    \/ RestoreSize
    \/ RestoreReady

Upload ==
    \/ HasCdr
    \/ ReadData
    \/ UploadFails
    \/ MarkCdrRead

Next ==
    \/ \E job \in Jobs : Collect(job)
    \/ Persist
    \/ Restore
    \/ Upload
    \/ Reset

Spec == Init /\ [][Next]_vars

-----------------------------------------------------------------------------
(* Properties.                                                             *)

\* Every variable keeps its type; in particular the size is never more than the
\* buffer holds, whichever thread set it last.
TypeOK ==
    /\ buffer \in [Chunk -> Collection \cup {Unfilled, Erased}]
    /\ size \in {0, K}
    /\ ready \in BOOLEAN
    /\ gen \in 0..MaxGen
    /\ pc \in [Threads -> {"idle", "read", "mark", "discard", "size", "set"}
                          \cup Jobs \cup Persisting]
    /\ pos \in Chunk
    /\ len \in {0, K}
    /\ hdr \in BOOLEAN
    /\ image \in [Chunk -> Collection \cup {Unfilled, Erased}]
    /\ sent \in Seq(Collection \cup {Unfilled, Erased})
    /\ announced \in {0, K}
    /\ met \in BOOLEAN

\* What is uploaded was collected.  A buffer that was never filled, or filled in
\* part by a read that failed, is not handed to the packetizer, whatever the three
\* threads do; erased flash is, but only after a restore and a persist overlapped.
UploadIsReal ==
    \A i \in 1..Len(sent) : sent[i] \in Collection \/ (met /\ sent[i] = Erased)

\* The image about to be committed is the newest collection, all of it: the one the
\* work item has just made, although the buffer is open to two other threads since.
\* Only a restore that overlaps can put something else there.
SnapshotIsFresh ==
    pc["queue"] = "header" /\ len # 0 /\ ~met => \A c \in Chunk : image[c] = gen

\* Refinement mapping: the store holds the image behind a valid header.
stored == IF hdr THEN {image} ELSE {}
Store == INSTANCE BlobStore WITH Image <- [Chunk -> Collection], blob <- stored

\* Every step of the partition is one of an atomic one-place store of whole
\* collections, although the buffer it is written from, and the size its header is
\* written with, change under the writer.  The comment at line 244 of the source
\* claims the atomic commit without the exemption: a restore that overlaps a persist
\* can erase the payload before the header is written.
StoreIsAtomic == Store!Init /\ [][met \/ Store!Next]_stored
=============================================================================
