--------------------------- MODULE CdrSourceProofs ---------------------------
(***************************************************************************)
(* Proofs about CdrSource, for a buffer of any number of chunks and any    *)
(* number of collections.                                                  *)
(***************************************************************************)
EXTENDS CdrSource, TLAPS

\* Chunks of the buffer below p were filled since the last reset.
Filled(p) == \A c \in Chunk : c < p => buffer[c] # Unfilled

\* Nothing unfilled leaves the buffer, overlap or not: a size other than zero
\* promises a full buffer, which only a reset takes back, and so does a persist or
\* a restore that has got past its own filling.  The read's position rests at zero.
FillInv ==
    /\ size # 0 \/ pc["queue"] \in Persisting => Filled(K)
    /\ pc["restore"] = "read" => Filled(pos)
    /\ pc["restore"] # "read" => pos = 0
    /\ pc["restore"] \in {"erase", "size"} => Filled(K)
    /\ \A c \in Chunk : image[c] # Unfilled
    /\ \A i \in 1..Len(sent) : sent[i] # Unfilled
    /\ pc["upload"] = "idle" => sent = <<>>

\* Without an overlap, no erased flash outside the partition or behind a header.
NotErased ==
    /\ \A c \in Chunk : buffer[c] # Erased
    /\ \A i \in 1..Len(sent) : sent[i] # Erased
    /\ hdr => \A c \in Chunk : image[c] # Erased
    /\ pc["restore"] = "read" => hdr

\* Without an overlap, how far a persist has come: the buffer is its collection
\* until it is written, and nobody puts a size back that the packetizer took away.
Progress ==
    /\ pc["queue"] \in Persisting => pc["restore"] = "idle"
    /\ pc["queue"] \in {"erase", "write"} => \A c \in Chunk : buffer[c] = gen
    /\ pc["queue"] \in {"write", "header"} => ~hdr
    /\ pc["queue"] = "write" /\ len = 0 => size = 0
    /\ pc["queue"] = "header" /\ len # 0 => \A c \in Chunk : image[c] = gen

CleanInv == ~met => NotErased /\ Progress

IInv == TypeOK /\ FillInv /\ CleanInv

\* The marks for unfilled and erased chunks are not collections, nor each other.
LEMMA Distinct ==
  /\ Unfilled \notin Collection
  /\ Erased \notin Collection
  /\ Unfilled # Erased
  /\ \A c \in Chunk : c < K /\ c \in Nat
  BY KAssumption, MaxGenAssumption DEF Unfilled, Erased, Collection, Chunk

\* What an erase leaves behind is typed.
LEMMA ErasedTyped == ErasedImage \in [Chunk -> Collection \cup {Unfilled, Erased}]
  BY DEF ErasedImage

\* The next chunk of the restore's read: the position wraps with the last one.
LEMMA NextChunk ==
  ASSUME NEW p \in Chunk
  PROVE  /\ (p + 1) % K \in Chunk
         /\ p # K - 1 => (p + 1) % K = p + 1
  <1>1. CASE p = K - 1
    <2>1. (p + 1) % K = 0
      BY <1>1, KAssumption DEF Chunk
    <2>2. QED
      BY <1>1, <2>1, KAssumption DEF Chunk
  <1>2. CASE p # K - 1
    <2>1. (p + 1) % K = p + 1
      BY <1>2, KAssumption DEF Chunk
    <2>2. QED
      BY <1>2, <2>1, KAssumption DEF Chunk
  <1>3. QED
    BY <1>1, <1>2

\* The initial state satisfies the invariant.
LEMMA InitInv == Init => IInv
  <1> SUFFICES ASSUME Init PROVE IInv
    OBVIOUS
  <1> USE KAssumption, MaxGenAssumption, Distinct
  <1>1. TypeOK
    BY DEF Init, TypeOK, Threads, ErasedImage, Chunk
  <1>2. FillInv
    BY DEF Init, FillInv, Filled, Threads, Persisting, ErasedImage
  <1>3. CleanInv
    BY DEF Init, CleanInv, NotErased, Progress, Threads, Persisting
  <1>4. QED
    BY <1>1, <1>2, <1>3 DEF IInv

\* Every step of a collection keeps the invariant.
LEMMA CollectStep ==
  ASSUME IInv, NEW job \in Jobs, Collect(job)
  PROVE  IInv'
  <1> USE KAssumption, MaxGenAssumption, Distinct DEF Threads, Jobs, Persisting
  <1>1. CASE CollectClear(job)
    BY <1>1 DEF CollectClear, Goto, IInv, TypeOK, FillInv, CleanInv, NotErased, Progress,
                flash, packet, Filled
  <1>2. CASE CollectDone(job)
    <2>1. gen + 1 \in Collection /\ gen + 1 # Unfilled /\ gen + 1 # Erased
      BY <1>2 DEF CollectDone, IInv, TypeOK, Collection, Unfilled, Erased
    <2>2. \A c \in Chunk : buffer'[c] = gen'
      BY <1>2 DEF CollectDone
    <2>3. TypeOK'
      <3>1. buffer' \in [Chunk -> Collection \cup {Unfilled, Erased}]
        BY <1>2, <2>1 DEF CollectDone
      <3>2. gen' \in 0..MaxGen
        BY <1>2, <2>1 DEF CollectDone, Collection
      <3>3. QED
        BY <1>2, <3>1, <3>2 DEF CollectDone, Goto, IInv, TypeOK, flash, packet
    <2>4. FillInv'
      BY <1>2, <2>1, <2>2 DEF CollectDone, Goto, IInv, TypeOK, FillInv, Filled, flash, packet
    <2>5. CleanInv'
      <3> SUFFICES ASSUME ~met' PROVE NotErased' /\ Progress'
        BY DEF CleanInv
      <3>1. NotErased'
        <4>1. CASE ~met
          BY <1>2, <2>1, <2>2, <4>1
             DEF CollectDone, Goto, IInv, TypeOK, CleanInv, NotErased, flash, packet
        <4>2. CASE met
          <5>1. ~hdr /\ pc["restore"] = "idle" /\ sent = <<>>
            BY <1>2, <4>2 DEF CollectDone, OverlapLingers, IInv, FillInv
          <5>2. QED
            BY <1>2, <2>1, <2>2, <5>1
               DEF CollectDone, Goto, IInv, TypeOK, NotErased, flash, packet
        <4>3. QED
          BY <4>1, <4>2
      <3>2. Progress'
        BY <1>2, <2>2 DEF CollectDone, Goto, IInv, TypeOK, Progress, flash
      <3>3. QED
        BY <3>1, <3>2
    <2>6. QED
      BY <2>3, <2>4, <2>5 DEF IInv
  <1>3. CASE CollectFails(job)
    BY <1>3 DEF CollectFails, Goto, IInv, TypeOK, FillInv, CleanInv, NotErased, Progress,
                ram, flash, packet, Filled
  <1>4. QED
    BY <1>1, <1>2, <1>3 DEF Collect

\* Every step of the persist keeps the invariant.
LEMMA PersistStep ==
  ASSUME IInv, Persist
  PROVE  IInv'
  <1> USE KAssumption, MaxGenAssumption, Distinct DEF Threads, Jobs, Persisting
  <1>1. CASE PersistErase \/ PersistGiveUp
    <2>1. TypeOK'
      <3>1. hdr' \in BOOLEAN /\ image' \in [Chunk -> Collection \cup {Unfilled, Erased}]
        BY <1>1, ErasedTyped DEF PersistErase, PersistGiveUp, EraseDone, IInv, TypeOK, flash
      <3>2. len' \in {0, K} /\ UNCHANGED <<ram, gen, pos, packet, met>>
        BY <1>1 DEF PersistErase, PersistGiveUp, IInv, TypeOK
      <3>3. pc' \in [Threads -> {"idle", "read", "mark", "discard", "size", "set"}
                                \cup Jobs \cup Persisting]
        BY <1>1 DEF PersistErase, PersistGiveUp, Goto, IInv, TypeOK
      <3>4. QED
        BY <3>1, <3>2, <3>3 DEF IInv, TypeOK, ram, packet
    <2>2. FillInv'
      BY <1>1 DEF PersistErase, PersistGiveUp, EraseDone, ErasedImage, Goto, IInv, TypeOK,
                  FillInv, Filled, ram, flash, packet
    <2>3. CleanInv'
      BY <1>1 DEF PersistErase, PersistGiveUp, EraseDone, Goto, IInv, TypeOK, CleanInv,
                  NotErased, Progress, ram, flash, packet
    <2>4. QED
      BY <2>1, <2>2, <2>3 DEF IInv
  <1>2. CASE PersistWrite
    <2>1. TypeOK'
      BY <1>2 DEF PersistWrite, Goto, IInv, TypeOK, ram, packet
    <2>2. FillInv'
      BY <1>2 DEF PersistWrite, Goto, IInv, TypeOK, FillInv, Filled, ram, packet
    <2>3. CleanInv'
      BY <1>2 DEF PersistWrite, Goto, IInv, TypeOK, CleanInv, NotErased, Progress, ram, packet
    <2>4. QED
      BY <2>1, <2>2, <2>3 DEF IInv
  <1>3. CASE PersistWriteFails
    <2>1. PICK n \in Chunk :
             image' = [c \in Chunk |-> IF c < n THEN buffer[c] ELSE image[c]]
      BY <1>3 DEF PersistWriteFails
    <2>2. TypeOK'
      BY <1>3, <2>1 DEF PersistWriteFails, Goto, IInv, TypeOK, ram, packet
    <2>3. FillInv'
      BY <1>3, <2>1 DEF PersistWriteFails, Goto, IInv, TypeOK, FillInv, Filled, ram, packet
    <2>4. CleanInv'
      BY <1>3, <2>1 DEF PersistWriteFails, Goto, IInv, TypeOK, CleanInv, NotErased, Progress,
                        ram, packet
    <2>5. QED
      BY <2>2, <2>3, <2>4 DEF IInv
  <1>4. CASE PersistHeader \/ PersistHeaderFails
    <2>1. TypeOK'
      <3>1. hdr' \in BOOLEAN
        BY <1>4 DEF PersistHeader, PersistHeaderFails, IInv, TypeOK
      <3>2. QED
        BY <1>4, <3>1 DEF PersistHeader, PersistHeaderFails, Goto, IInv, TypeOK, ram, packet
    <2>2. FillInv'
      BY <1>4 DEF PersistHeader, PersistHeaderFails, Goto, IInv, TypeOK, FillInv, Filled, ram,
                  packet
    <2>3. CleanInv'
      <3> SUFFICES ASSUME ~met PROVE NotErased' /\ Progress'
        BY <1>4 DEF PersistHeader, PersistHeaderFails, CleanInv
      <3>1. hdr' => \A c \in Chunk : image[c] = gen
        BY <1>4 DEF PersistHeader, PersistHeaderFails, Goto, IInv, CleanInv, Progress
      <3>2. gen # Erased
        BY DEF IInv, TypeOK, Erased
      <3>3. QED
        BY <1>4, <3>1, <3>2
           DEF PersistHeader, PersistHeaderFails, Goto, IInv, TypeOK, CleanInv, NotErased,
               Progress, ram, packet
    <2>4. QED
      BY <2>1, <2>2, <2>3 DEF IInv
  <1>5. QED
    BY <1>1, <1>2, <1>3, <1>4 DEF Persist

\* Every step of the restore keeps the invariant.
LEMMA RestoreStep ==
  ASSUME IInv, Restore
  PROVE  IInv'
  <1> USE KAssumption, MaxGenAssumption, Distinct DEF Threads, Jobs, Persisting
  <1>1. CASE RestoreBegin
    <2>1. TypeOK'
      BY <1>1 DEF RestoreBegin, Goto, IInv, TypeOK, ram, flash, packet
    <2>2. FillInv'
      <3>1. pos = 0
        BY <1>1 DEF RestoreBegin, Goto, IInv, FillInv
      <3>2. QED
        BY <1>1, <3>1 DEF RestoreBegin, Goto, IInv, TypeOK, FillInv, ram, flash, packet, Filled
    <2>3. CleanInv'
      BY <1>1 DEF RestoreBegin, Goto, IInv, TypeOK, CleanInv, NotErased, Progress, ram, flash,
                  packet
    <2>4. QED
      BY <2>1, <2>2, <2>3 DEF IInv
  <1>2. CASE RestoreRead
    <2>1. pos \in Chunk /\ pc["restore"] = "read"
      BY <1>2 DEF RestoreRead, Goto, IInv, TypeOK
    <2>2. /\ buffer'[pos] = image[pos]
          /\ \A c \in Chunk : c # pos => buffer'[c] = buffer[c]
      BY <1>2, <2>1 DEF RestoreRead, IInv, TypeOK
    <2>3. (pos + 1) % K \in Chunk /\ (pos # K - 1 => (pos + 1) % K = pos + 1)
      BY <2>1, NextChunk
    <2>4. TypeOK'
      BY <1>2, <2>1, <2>3 DEF RestoreRead, Goto, IInv, TypeOK, flash, packet
    <2>5. FillInv'
      <3>1. pos # K - 1 => pos' = pos + 1
        BY <1>2, <2>3 DEF RestoreRead
      <3>2. pos = K - 1 => pos' = 0
        BY <1>2, <2>1, KAssumption DEF RestoreRead
      <3>3. \A c \in Chunk : c < pos + 1 \/ buffer[c] # Unfilled => buffer'[c] # Unfilled
        BY <2>1, <2>2 DEF IInv, FillInv, Filled, Chunk
      <3>4. pos = K - 1 => Filled(K)'
        BY <3>3 DEF Filled, Chunk
      <3>5. pos # K - 1 => Filled(pos)'
        BY <3>1, <3>3 DEF Filled
      <3>6. Filled(K) => Filled(K)'
        BY <3>3 DEF Filled
      <3>7. /\ pc'["restore"] = IF pos = K - 1 THEN "erase" ELSE "read"
            /\ pc'["queue"] = pc["queue"] /\ pc'["upload"] = pc["upload"]
            /\ UNCHANGED <<size, image, sent>>
        BY <1>2 DEF RestoreRead, Goto, IInv, TypeOK, flash, packet
      <3>8. QED
        BY <3>4, <3>5, <3>6, <3>7, <3>2 DEF IInv, FillInv
    <2>6. CleanInv'
      BY <1>2, <2>1, <2>2 DEF RestoreRead, Goto, IInv, TypeOK, CleanInv, NotErased, Progress,
                              flash, packet
    <2>7. QED
      BY <2>4, <2>5, <2>6 DEF IInv
  <1>3. CASE RestoreReadFails
    BY <1>3 DEF RestoreReadFails, Goto, IInv, TypeOK, FillInv, CleanInv, NotErased, Progress,
                ram, flash, packet, Filled, Chunk
  <1>4. CASE RestoreErase
    <2>1. TypeOK'
      <3>1. hdr' \in BOOLEAN /\ image' \in [Chunk -> Collection \cup {Unfilled, Erased}]
        BY <1>4, ErasedTyped DEF RestoreErase, EraseDone, IInv, TypeOK, flash
      <3>2. pc' \in [Threads -> {"idle", "read", "mark", "discard", "size", "set"}
                                \cup Jobs \cup Persisting]
        BY <1>4 DEF RestoreErase, Goto, IInv, TypeOK
      <3>3. QED
        BY <1>4, <3>1, <3>2 DEF RestoreErase, IInv, TypeOK, ram, packet
    <2>2. FillInv'
      BY <1>4 DEF RestoreErase, EraseDone, ErasedImage, Goto, IInv, TypeOK, FillInv, Filled,
                  ram, flash, packet
    <2>3. CleanInv'
      BY <1>4 DEF RestoreErase, EraseDone, Goto, IInv, TypeOK, CleanInv, NotErased, Progress,
                  ram, flash, packet
    <2>4. QED
      BY <2>1, <2>2, <2>3 DEF IInv
  <1>5. CASE RestoreSize \/ RestoreReady
    <2>1. TypeOK'
      <3>1. ready' \in BOOLEAN /\ size' \in {0, K}
        BY <1>5 DEF RestoreSize, RestoreReady, IInv, TypeOK
      <3>2. buffer' = buffer /\ UNCHANGED <<gen, pos, len, flash, packet, met>>
        BY <1>5 DEF RestoreSize, RestoreReady
      <3>3. pc' \in [Threads -> {"idle", "read", "mark", "discard", "size", "set"}
                                \cup Jobs \cup Persisting]
        BY <1>5 DEF RestoreSize, RestoreReady, Goto, IInv, TypeOK
      <3>4. QED
        BY <3>1, <3>2, <3>3 DEF IInv, TypeOK, flash, packet
    <2>2. FillInv'
      BY <1>5 DEF RestoreSize, RestoreReady, Goto, IInv, TypeOK, FillInv, Filled, flash, packet
    <2>3. CleanInv'
      BY <1>5 DEF RestoreSize, RestoreReady, Goto, IInv, TypeOK, CleanInv, NotErased, Progress,
                  flash, packet
    <2>4. QED
      BY <2>1, <2>2, <2>3 DEF IInv
  <1>6. QED
    BY <1>1, <1>2, <1>3, <1>4, <1>5 DEF Restore

\* Every step of the packetizer keeps the invariant.
LEMMA UploadStep ==
  ASSUME IInv, Upload
  PROVE  IInv'
  <1> USE KAssumption, MaxGenAssumption, Distinct DEF Threads, Jobs, Persisting
  <1>1. CASE HasCdr \/ UploadFails \/ MarkCdrRead
    <2>1. TypeOK'
      <3>1. ready' \in BOOLEAN /\ size' \in {0, K} /\ announced' \in {0, K} /\ sent' = <<>>
        BY <1>1 DEF HasCdr, UploadFails, MarkCdrRead, IInv, TypeOK, ram
      <3>2. buffer' = buffer /\ UNCHANGED <<gen, pos, len, flash, met>>
        BY <1>1 DEF HasCdr, UploadFails, MarkCdrRead, ram
      <3>3. pc' \in [Threads -> {"idle", "read", "mark", "discard", "size", "set"}
                                \cup Jobs \cup Persisting]
        BY <1>1 DEF HasCdr, UploadFails, MarkCdrRead, Goto, IInv, TypeOK
      <3>4. QED
        BY <3>1, <3>2, <3>3 DEF IInv, TypeOK, flash
    <2>2. FillInv'
      BY <1>1 DEF HasCdr, UploadFails, MarkCdrRead, Goto, IInv, TypeOK, FillInv, Filled, ram,
                  flash
    <2>3. CleanInv'
      BY <1>1 DEF HasCdr, UploadFails, MarkCdrRead, Goto, IInv, TypeOK, CleanInv, NotErased,
                  Progress, ram, flash
    <2>4. QED
      BY <2>1, <2>2, <2>3 DEF IInv
  <1>2. CASE ReadData
    <2>1. Len(sent) \in Chunk /\ size # 0
      BY <1>2 DEF ReadData, IInv, TypeOK, Chunk
    <2>2. buffer[Len(sent)] # Unfilled /\ (~met => buffer[Len(sent)] # Erased)
      BY <2>1 DEF IInv, FillInv, Filled, CleanInv, NotErased
    <2>3. TypeOK'
      BY <1>2, <2>1 DEF ReadData, Goto, IInv, TypeOK, ram, flash
    <2>4. \A i \in 1..Len(sent') : sent'[i] = IF i = Len(sent) + 1 THEN buffer[Len(sent)]
                                              ELSE sent[i]
      BY <1>2, <2>1 DEF ReadData, IInv, TypeOK
    <2>5. Len(sent') = Len(sent) + 1 /\ Len(sent) \in Nat
      BY <1>2 DEF ReadData, IInv, TypeOK
    <2>6. /\ \A i \in 1..Len(sent') : sent'[i] # Unfilled
          /\ ~met => \A i \in 1..Len(sent') : sent'[i] # Erased
      BY <2>2, <2>4, <2>5 DEF IInv, FillInv, CleanInv, NotErased
    <2>7. FillInv' /\ CleanInv'
      BY <1>2, <2>6 DEF ReadData, Goto, IInv, TypeOK, FillInv, CleanInv, NotErased, Progress,
                        ram, flash, Filled
    <2>8. QED
      BY <2>3, <2>7 DEF IInv
  <1>3. QED
    BY <1>1, <1>2 DEF Upload

\* Every step keeps the invariant.
LEMMA InvStep == IInv /\ [Next]_vars => IInv'
  <1> SUFFICES ASSUME IInv, [Next]_vars PROVE IInv'
    OBVIOUS
  <1>1. CASE Reset
    <2> USE KAssumption, MaxGenAssumption, Distinct DEF Threads, Jobs, Persisting
    <2>1. TypeOK'
      <3>1. /\ buffer' \in [Chunk -> Collection \cup {Unfilled, Erased}]
            /\ pc' \in [Threads -> {"idle", "read", "mark", "discard", "size", "set"}
                                   \cup Jobs \cup Persisting]
        BY <1>1 DEF Reset
      <3>2. /\ size' = 0 /\ len' = 0 /\ announced' = 0
            /\ pos' \in Chunk /\ sent' = <<>>
            /\ UNCHANGED <<gen, hdr, image>>
        BY <1>1 DEF Reset, Chunk, flash
      <3>3. ready' \in BOOLEAN /\ met' \in BOOLEAN
        BY <1>1, Zenon DEF Reset
      <3>4. QED
        BY <3>1, <3>2, <3>3 DEF IInv, TypeOK
    <2>2. FillInv'
      BY <1>1 DEF Reset, IInv, FillInv, flash
    <2>3. CleanInv'
      <3> SUFFICES ASSUME ~met' PROVE NotErased' /\ Progress'
        BY DEF CleanInv
      <3>1. hdr => ~met
        BY <1>1 DEF Reset
      <3>2. NotErased'
        BY <1>1, <3>1 DEF Reset, IInv, CleanInv, NotErased, flash
      <3>3. Progress'
        BY <1>1 DEF Reset, Progress
      <3>4. QED
        BY <3>2, <3>3
    <2>4. QED
      BY <2>1, <2>2, <2>3 DEF IInv
  <1>2. CASE UNCHANGED vars
    BY <1>2 DEF vars, ram, flash, packet, IInv, TypeOK, FillInv, CleanInv, NotErased,
                Progress, Filled
  <1>3. QED
    BY <1>1, <1>2, CollectStep, PersistStep, RestoreStep, UploadStep DEF Next

\* For every instance: every variable keeps its type, and no thread leaves a size
\* that is more than the buffer holds.
THEOREM TypeCorrect == Spec => []TypeOK
  <1>1. IInv => TypeOK
    BY DEF IInv
  <1>2. QED
    BY <1>1, InitInv, InvStep, PTL DEF Spec

\* For every instance: the packetizer never gets unfilled memory, and gets erased
\* flash only after a restore and a persist overlapped.
THEOREM UploadsAreReal == Spec => []UploadIsReal
  <1>1. IInv => UploadIsReal
    <2> SUFFICES ASSUME IInv, NEW i \in 1..Len(sent)
                 PROVE  sent[i] \in Collection \/ (met /\ sent[i] = Erased)
      BY DEF UploadIsReal
    <2>1. sent[i] \in Collection \cup {Unfilled, Erased}
      BY DEF IInv, TypeOK
    <2>2. sent[i] # Unfilled /\ (~met => sent[i] # Erased)
      BY DEF IInv, FillInv, CleanInv, NotErased
    <2>3. QED
      BY <2>1, <2>2
  <1>2. QED
    BY <1>1, InitInv, InvStep, PTL DEF Spec

\* For every instance: without an overlap the image about to be committed is, all of
\* it, the collection that the work item has just made.
THEOREM SnapshotsAreFresh == Spec => []SnapshotIsFresh
  <1>1. IInv => SnapshotIsFresh
    BY DEF IInv, CleanInv, Progress, SnapshotIsFresh
  <1>2. QED
    BY <1>1, InitInv, InvStep, PTL DEF Spec

\* For every instance: outside an overlap every step of the partition is a step of
\* the atomic store.
THEOREM StoreImplemented == Spec => StoreIsAtomic
  <1>1. Init => Store!Init
    BY DEF Init, Store!Init, stored
  <1>2. IInv /\ [Next]_vars => [met \/ Store!Next]_stored
    <2> SUFFICES ASSUME IInv, [Next]_vars, ~met PROVE [Store!Next]_stored
      OBVIOUS
    <2> USE DEF Store!Next, Store!Discard, Store!Commit, stored
    <2>1. CASE PersistHeader \/ PersistHeaderFails
      <3>1. ~hdr /\ image' = image /\ (hdr' => \A c \in Chunk : image[c] = gen)
        BY <2>1 DEF PersistHeader, PersistHeaderFails, Goto, IInv, CleanInv, Progress
      <3>2. hdr' => image \in [Chunk -> Collection]
        <4> SUFFICES ASSUME hdr', NEW c \in Chunk PROVE image[c] \in Collection
          BY DEF IInv, TypeOK
        <4>1. image[c] \in Collection \cup {Unfilled, Erased} /\ image[c] # Unfilled
          BY DEF IInv, TypeOK, FillInv
        <4>2. image[c] # Erased
          BY <3>1 DEF IInv, TypeOK, Erased
        <4>3. QED
          BY <4>1, <4>2
      <3>3. QED
        BY <3>1, <3>2
    <2>2. CASE PersistErase \/ PersistGiveUp \/ RestoreErase
      BY <2>2 DEF PersistErase, PersistGiveUp, RestoreErase, EraseDone, flash
    <2>3. CASE PersistWrite \/ PersistWriteFails
      <3>1. ~hdr /\ ~hdr'
        BY <2>3 DEF PersistWrite, PersistWriteFails, Goto, IInv, CleanInv, Progress
      <3>2. QED
        BY <3>1
    <2>4. CASE UNCHANGED flash
      BY <2>4 DEF flash
    <2>5. CASE \E job \in Jobs : Collect(job)
      BY <2>4, <2>5 DEF Collect, CollectClear, CollectDone, CollectFails
    <2>6. CASE RestoreBegin \/ RestoreRead \/ RestoreReadFails \/ RestoreSize \/ RestoreReady
      BY <2>4, <2>6 DEF RestoreBegin, RestoreRead, RestoreReadFails, RestoreSize, RestoreReady
    <2>7. CASE Upload \/ Reset
      BY <2>4, <2>7 DEF Upload, HasCdr, ReadData, UploadFails, MarkCdrRead, Reset
    <2>8. CASE UNCHANGED vars
      BY <2>4, <2>8 DEF vars
    <2>9. QED
      BY <2>1, <2>2, <2>3, <2>5, <2>6, <2>7, <2>8 DEF Next, Persist, Restore
  <1>3. QED
    BY <1>1, <1>2, InitInv, InvStep, PTL DEF Spec, StoreIsAtomic
=============================================================================
