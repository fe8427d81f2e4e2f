------------------------- MODULE MemfaultCoreProofs -------------------------
(***************************************************************************)
(* Proofs about MemfaultCore, for every number of DNS polls and both       *)
(* settings of the coredump option.                                        *)
(***************************************************************************)
EXTENDS MemfaultCore, TLAPS

\* What keeps persist and restore apart while no loss notification is missed:
\* a pending persist means the link is down, so the upload thread cannot pass
\* its gate; a restore that is already past the gate delays the timer; and a
\* running persist has no valid header in flash until its image is whole.
Apart ==
    /\ ring # "garbage"
    /\ "header" \in flash => "image" \in flash
    /\ wpc \in {"image", "header"} => "header" \notin flash
    /\ wpc = "header" => "image" \in flash
    /\ upc = "read_image" => "image" \in flash
    /\ upc \in {"read_image", "erase"} => wpc \notin {"image", "header"}
    /\ "queued" \in work => upc \notin Restoring
    /\ "delayed" \in work /\ upc \in Restoring => restore_first
    /\ "delayed" \in work \/ "queued" \in work => ~wifi_connected
    /\ pub = "not_ready" => ~wifi_connected

ApartInv == ~lost_pub => Apart

\* The Boolean part of TypeOK.
Booleans ==
    /\ wifi_connected \in BOOLEAN
    /\ network_ever_connected \in BOOLEAN
    /\ log_freeze_scheduled \in BOOLEAN
    /\ coredump \in BOOLEAN
    /\ restore_first \in BOOLEAN
    /\ lost_pub \in BOOLEAN
    /\ owed \in BOOLEAN

\* What the persist-once guard of the listeners does to the state's types.
LEMMA ScheduleTyping ==
  ASSUME TypeOK, ScheduleFreeze
  PROVE  /\ log_freeze_scheduled' \in BOOLEAN
         /\ restore_first' \in BOOLEAN
         /\ work' \subseteq {"delayed", "queued", "running", "canceling"}
  <1>1. CASE network_ever_connected /\ ~log_freeze_scheduled
    <2>1. log_freeze_scheduled' = TRUE
      BY <1>1 DEF ScheduleFreeze
    <2>2. restore_first' = (upc \in Restoring)
      BY <1>1 DEF ScheduleFreeze
    <2>3. restore_first' \in BOOLEAN
      <3>1. CASE upc \in Restoring
        BY <2>2, <3>1
      <3>2. CASE upc \notin Restoring
        BY <2>2, <3>2
      <3>3. QED
        BY <3>1, <3>2
    <2>4. work' \subseteq {"delayed", "queued", "running", "canceling"}
      BY <1>1 DEF ScheduleFreeze, WorkSchedule, TypeOK
    <2>5. QED
      BY <2>1, <2>3, <2>4, Zenon
  <1>2. CASE ~(network_ever_connected /\ ~log_freeze_scheduled)
    BY <1>2 DEF ScheduleFreeze, TypeOK
  <1>3. QED
    BY <1>1, <1>2

\* Every step keeps the types, one case per action.
LEMMA Typing == TypeOK /\ [Next]_vars => TypeOK'
  <1> SUFFICES ASSUME TypeOK, [Next]_vars PROVE TypeOK'
    OBVIOUS
  <1>1. CASE PublishConnected
    <2>1. Booleans'
      BY <1>1 DEF PublishConnected, WifiConnected, WorkCancel, ram, hist, TypeOK, Booleans
    <2>2. QED
      BY <1>1, <2>1, DnsPollsAssumption
         DEF PublishConnected, WifiConnected, WorkCancel, ram, hist, TypeOK, Booleans,
             Waiting, Restoring
  <1>2. CASE PublishDisconnected
    <2> USE DEF PublishDisconnected, WifiDisconnected
    <2>1. ScheduleFreeze
      BY <1>2
    <2>2. Booleans'
      BY <1>2, <2>1, ScheduleTyping DEF TypeOK, Booleans
    <2>3. QED
      BY <1>2, <2>1, <2>2, ScheduleTyping DEF TypeOK, Booleans, Waiting, Restoring
  <1>3. CASE PublishWifiFails
    <2>1. Booleans'
      BY <1>3 DEF PublishWifiFails, ram, hist, TypeOK, Booleans
    <2>2. QED
      BY <1>3, <2>1, DnsPollsAssumption
         DEF PublishWifiFails, ram, hist, TypeOK, Booleans, Waiting, Restoring
  <1>4. CASE PublishNetwork
    <2>1. CASE pub = "not_ready"
      <3>1. ScheduleFreeze
        BY <1>4, <2>1 DEF PublishNetwork
      <3>2. Booleans'
        BY <1>4, <3>1, ScheduleTyping DEF PublishNetwork, TypeOK, Booleans
      <3>3. QED
        BY <1>4, <3>1, <3>2, ScheduleTyping
           DEF PublishNetwork, TypeOK, Booleans, Waiting, Restoring
    <2>2. CASE pub # "not_ready"
      <3>1. UNCHANGED <<log_freeze_scheduled, work, restore_first>>
        BY <1>4, <2>2 DEF PublishNetwork
      <3>2. Booleans'
        BY <1>4, <3>1 DEF PublishNetwork, TypeOK, Booleans
      <3>3. QED
        BY <1>4, <3>1, <3>2 DEF PublishNetwork, TypeOK, Booleans, Waiting, Restoring
    <2>3. QED
      BY <2>1, <2>2
  <1>5. CASE PublishNetworkFails
    BY <1>5, DnsPollsAssumption
       DEF PublishNetworkFails, ram, hist, TypeOK, Waiting, Restoring
  <1>6. CASE ButtonUpload
    BY <1>6, DnsPollsAssumption DEF ButtonUpload, ram, hist, TypeOK, Waiting, Restoring
  <1>7. CASE FreezeTimerFires
    BY <1>7, DnsPollsAssumption DEF FreezeTimerFires, ram, hist, TypeOK, Waiting, Restoring
  <1>8. CASE PersistErase
    <2>1. Booleans'
      BY <1>8 DEF PersistErase, ram, hist, TypeOK, Booleans
    <2>2. QED
      BY <1>8, <2>1, DnsPollsAssumption
         DEF PersistErase, ram, hist, TypeOK, Booleans, Waiting, Restoring
  <1>9. CASE PersistImage
    <2>1. CASE flash' = flash
      BY <1>9, <2>1 DEF PersistImage, ram, hist, TypeOK, Waiting, Restoring
    <2>2. CASE flash' = flash \cup {"image"}
      BY <1>9, <2>2 DEF PersistImage, ram, hist, TypeOK, Waiting, Restoring
    <2>3. QED
      BY <1>9, <2>1, <2>2 DEF PersistImage
  <1>10. CASE PersistHeader
    <2>1. CASE flash' = flash
      BY <1>10, <2>1 DEF PersistHeader, ram, hist, TypeOK, Waiting, Restoring
    <2>2. CASE flash' = flash \cup {"header"}
      BY <1>10, <2>2 DEF PersistHeader, ram, hist, TypeOK, Waiting, Restoring
    <2>3. QED
      BY <1>10, <2>1, <2>2 DEF PersistHeader
  <1>11. CASE PersistCdr
    BY <1>11, DnsPollsAssumption DEF PersistCdr, ram, hist, TypeOK, Waiting, Restoring
  <1>12. CASE UploadTake
    BY <1>12, DnsPollsAssumption
       DEF UploadTake, UploadStep, ram, hist, TypeOK, Waiting, Restoring
  <1>13. CASE UploadSettled
    BY <1>13, DnsPollsAssumption
       DEF UploadSettled, UploadStep, ram, hist, TypeOK, Waiting, Restoring
  <1>14. CASE UploadDnsTest
    BY <1>14, DnsPollsAssumption
       DEF UploadDnsTest, UploadStep, ram, hist, TypeOK, Waiting, Restoring
  <1>15. CASE UploadDnsReady
    BY <1>15, DnsPollsAssumption
       DEF UploadDnsReady, UploadStep, ram, hist, TypeOK, Waiting, Restoring
  <1>16. CASE UploadDnsNotReady
    BY <1>16, DnsPollsAssumption
       DEF UploadDnsNotReady, UploadStep, ram, hist, TypeOK, Waiting, Restoring
  <1>17. CASE UploadAbandon
    BY <1>17, DnsPollsAssumption
       DEF UploadAbandon, UploadStep, ram, hist, TypeOK, Waiting, Restoring
  <1>18. CASE OnConnect
    <2>1. Booleans'
      BY <1>18 DEF OnConnect, UploadStep, ram, hist, TypeOK, Booleans
    <2>2. QED
      BY <1>18, <2>1, DnsPollsAssumption
         DEF OnConnect, UploadStep, ram, hist, TypeOK, Booleans, Waiting, Restoring
  <1>19. CASE RestoreNothing
    <2>1. Booleans'
      BY <1>19 DEF RestoreNothing, UploadStep, ram, hist, TypeOK, Booleans
    <2>2. QED
      BY <1>19, <2>1, DnsPollsAssumption
         DEF RestoreNothing, UploadStep, ram, hist, TypeOK, Booleans, Waiting, Restoring
  <1>20. CASE RestoreHeader
    BY <1>20, DnsPollsAssumption
       DEF RestoreHeader, UploadStep, ram, hist, TypeOK, Waiting, Restoring
  <1>21. CASE RestoreDiscard
    BY <1>21, DnsPollsAssumption
       DEF RestoreDiscard, UploadStep, ram, hist, TypeOK, Waiting, Restoring
  <1>22. CASE RestoreImage
    BY <1>22, DnsPollsAssumption
       DEF RestoreImage, UploadStep, ram, hist, TypeOK, Waiting, Restoring
  <1>23. CASE RestoreErase
    <2>1. Booleans'
      BY <1>23 DEF RestoreErase, UploadStep, ram, hist, TypeOK, Booleans
    <2>2. QED
      BY <1>23, <2>1, DnsPollsAssumption
         DEF RestoreErase, UploadStep, ram, hist, TypeOK, Booleans, Waiting, Restoring
  <1>24. CASE UploadPost
    BY <1>24, DnsPollsAssumption
       DEF UploadPost, UploadStep, ram, hist, TypeOK, Waiting, Restoring
  <1>25. CASE Reset
    <2>1. Booleans'
      BY <1>25 DEF Reset, ram, hist, TypeOK, Booleans
    <2>2. QED
      BY <1>25, <2>1, DnsPollsAssumption
         DEF Reset, ram, hist, TypeOK, Booleans, Waiting, Restoring
  <1>26. CASE CoredumpPosted
    <2>1. Booleans'
      BY <1>26 DEF CoredumpPosted, ram, hist, TypeOK, Booleans
    <2>2. QED
      BY <1>26, <2>1, DnsPollsAssumption
         DEF CoredumpPosted, ram, hist, TypeOK, Booleans, Waiting, Restoring
  <1>27. CASE UNCHANGED vars
    BY <1>27 DEF vars, ram, hist, TypeOK
  <1>28. QED
    BY <1>1, <1>2, <1>3, <1>4, <1>5, <1>6, <1>7, <1>8, <1>9, <1>10, <1>11, <1>12, <1>13,
       <1>14, <1>15, <1>16, <1>17, <1>18, <1>19, <1>20, <1>21, <1>22, <1>23, <1>24, <1>25,
       <1>26, <1>27
       DEF Next, Publisher, FreezeWork, UploadThread

\* The initial state has the types.
LEMMA InitTyping == Init => TypeOK
  <1> SUFFICES ASSUME Init PROVE TypeOK
    OBVIOUS
  <1>1. Booleans
    BY DEF Init, Booleans
  <1>2. QED
    BY <1>1, DnsPollsAssumption DEF Init, TypeOK, Booleans, Waiting

\* Every variable keeps its type: the semaphore counts to one, the DNS wait never
\* exceeds DnsPolls, and so on for every instance.
THEOREM TypeCorrect == Spec => []TypeOK
  BY InitTyping, Typing, PTL DEF Spec

-----------------------------------------------------------------------------
(* A persist is pending only behind the guard.                             *)

\* The guard is cleared when the work starts, which is safe only because the
\* item is never armed and queued at the same time.
GuardInv ==
    /\ "delayed" \in work \/ "queued" \in work => log_freeze_scheduled /\ network_ever_connected
    /\ ~("delayed" \in work /\ "queued" \in work)

\* Every step keeps the guard ahead of the pending work.
LEMMA GuardStep == TypeOK /\ GuardInv /\ [Next]_vars => GuardInv'
  <1> SUFFICES ASSUME TypeOK, GuardInv, [Next]_vars PROVE GuardInv'
    OBVIOUS
  <1>1. CASE PublishConnected
    BY <1>1 DEF PublishConnected, WifiConnected, WorkCancel, ram, TypeOK, GuardInv
  <1>2. CASE PublishDisconnected
    BY <1>2
       DEF PublishDisconnected, WifiDisconnected, ScheduleFreeze, WorkSchedule, ram,
           TypeOK, GuardInv
  <1>3. CASE PublishNetwork
    BY <1>3 DEF PublishNetwork, ScheduleFreeze, WorkSchedule, ram, TypeOK, GuardInv
  <1>4. CASE FreezeTimerFires
    BY <1>4 DEF FreezeTimerFires, ram, TypeOK, GuardInv
  <1>5. CASE PersistErase
    BY <1>5 DEF PersistErase, ram, TypeOK, GuardInv
  <1>6. CASE PersistCdr
    BY <1>6 DEF PersistCdr, ram, TypeOK, GuardInv
  <1>7. CASE Reset
    BY <1>7 DEF Reset, ram, TypeOK, GuardInv
  <1>8. CASE
         \/ PublishWifiFails
         \/ PublishNetworkFails
         \/ ButtonUpload
         \/ PersistImage
         \/ PersistHeader
         \/ UploadTake
         \/ UploadSettled
         \/ UploadDnsTest
         \/ UploadDnsReady
         \/ UploadDnsNotReady
         \/ UploadAbandon
         \/ OnConnect
         \/ RestoreNothing
         \/ RestoreHeader
         \/ RestoreDiscard
         \/ RestoreImage
         \/ RestoreErase
         \/ UploadPost
         \/ CoredumpPosted
    BY <1>8
       DEF PublishWifiFails, PublishNetworkFails, ButtonUpload, PersistImage,
           PersistHeader, UploadTake, UploadStep, UploadSettled, UploadDnsTest, UploadDnsReady,
           UploadDnsNotReady, UploadAbandon, OnConnect, RestoreNothing, RestoreHeader,
           RestoreDiscard, RestoreImage, RestoreErase, UploadPost, CoredumpPosted, ram, TypeOK,
           GuardInv
  <1>9. CASE UNCHANGED vars
    BY <1>9 DEF vars, ram, TypeOK, GuardInv
  <1>10. QED
    BY <1>1, <1>2, <1>3, <1>4, <1>5, <1>6, <1>7, <1>8, <1>9
       DEF Next, Publisher, FreezeWork, UploadThread

\* For every instance: no persist is pending unless the persist-once guard is up
\* and the device has been connected since it booted.
THEOREM PersistGuarded == Spec => []PersistIsGuarded
  <1>1. Init => GuardInv
    BY DEF Init, GuardInv
  <1>2. GuardInv => PersistIsGuarded
    BY DEF GuardInv, PersistIsGuarded
  <1>3. QED
    BY <1>1, <1>2, InitTyping, Typing, GuardStep, PTL DEF Spec

-----------------------------------------------------------------------------
(* A connect is not forgotten.                                             *)

\* Every step keeps a connect in the semaphore or in the thread.
LEMMA UploadStepKeepsConnect == UploadNotLost /\ [Next]_vars => UploadNotLost'
  <1> SUFFICES ASSUME UploadNotLost, [Next]_vars PROVE UploadNotLost'
    OBVIOUS
  <1>1. CASE PublishConnected
    BY <1>1
       DEF PublishConnected, WifiConnected, WorkCancel, ram, hist, UploadNotLost, Waiting
  <1>2. CASE PublishDisconnected
    BY <1>2
       DEF PublishDisconnected, WifiDisconnected, ScheduleFreeze, WorkSchedule, ram, hist,
           UploadNotLost, Waiting
  <1>3. CASE UploadTake
    BY <1>3 DEF UploadTake, UploadStep, ram, hist, UploadNotLost, Waiting
  <1>4. CASE UploadSettled \/ UploadDnsTest \/ UploadDnsReady \/ UploadDnsNotReady
    BY <1>4
       DEF UploadSettled, UploadStep, UploadDnsTest, UploadDnsReady, UploadDnsNotReady,
           ram, hist, UploadNotLost, Waiting
  <1>5. CASE UploadAbandon
    BY <1>5 DEF UploadAbandon, UploadStep, ram, hist, UploadNotLost, Waiting
  <1>6. CASE OnConnect
    BY <1>6 DEF OnConnect, UploadStep, ram, hist, UploadNotLost, Waiting
  <1>7. CASE
         \/ RestoreNothing
         \/ RestoreHeader
         \/ RestoreDiscard
         \/ RestoreImage
         \/ RestoreErase
         \/ UploadPost
    BY <1>7
       DEF RestoreNothing, UploadStep, RestoreHeader, RestoreDiscard, RestoreImage,
           RestoreErase, UploadPost, ram, hist, UploadNotLost, Waiting
  <1>8. CASE Reset
    BY <1>8 DEF Reset, ram, hist, UploadNotLost, Waiting
  <1>9. CASE
         \/ PublishWifiFails
         \/ PublishNetwork
         \/ PublishNetworkFails
         \/ ButtonUpload
         \/ FreezeTimerFires
         \/ PersistErase
         \/ PersistImage
         \/ PersistHeader
         \/ PersistCdr
         \/ CoredumpPosted
    BY <1>9
       DEF PublishWifiFails, PublishNetwork, ScheduleFreeze, WorkSchedule,
           PublishNetworkFails, ButtonUpload, FreezeTimerFires, PersistErase, PersistImage,
           PersistHeader, PersistCdr, CoredumpPosted, ram, hist, UploadNotLost, Waiting
  <1>10. CASE UNCHANGED vars
    BY <1>10 DEF vars, ram, hist, UploadNotLost, Waiting
  <1>11. QED
    BY <1>1, <1>2, <1>3, <1>4, <1>5, <1>6, <1>7, <1>8, <1>9, <1>10
       DEF Next, Publisher, FreezeWork, UploadThread

\* For every instance: while the link stays up after a connect, the semaphore or
\* the thread itself still carries it to on_connect().
THEOREM ConnectNotForgotten == Spec => []UploadNotLost
  <1>1. Init => UploadNotLost
    BY DEF Init, UploadNotLost
  <1>2. QED
    BY <1>1, UploadStepKeepsConnect, PTL DEF Spec

-----------------------------------------------------------------------------
(* Persist and restore stay apart.                                         *)

\* Every step keeps persist and restore apart while no loss notification fails.
LEMMA ApartStep == TypeOK /\ GuardInv /\ ApartInv /\ [Next]_vars => ApartInv'
  <1> SUFFICES ASSUME TypeOK, GuardInv, ApartInv, [Next]_vars, ~lost_pub' PROVE Apart'
    BY DEF ApartInv
  <1>1. CASE PublishConnected
    BY <1>1
       DEF PublishConnected, WifiConnected, WorkCancel, ram, hist, TypeOK, ApartInv, Apart,
           Restoring, Waiting
  <1>2. CASE PublishDisconnected
    BY <1>2
       DEF PublishDisconnected, WifiDisconnected, ScheduleFreeze, WorkSchedule, ram, hist,
           TypeOK, ApartInv, Apart, Restoring, Waiting
  <1>3. CASE PublishWifiFails
    BY <1>3 DEF PublishWifiFails, ram, hist, TypeOK, ApartInv, Apart, Restoring, Waiting
  <1>4. CASE PublishNetwork
    BY <1>4
       DEF PublishNetwork, ScheduleFreeze, WorkSchedule, ram, hist, TypeOK, ApartInv,
           Apart, Restoring, Waiting
  <1>5. CASE FreezeTimerFires
    BY <1>5 DEF FreezeTimerFires, ram, hist, TypeOK, ApartInv, Apart, Restoring, Waiting
  <1>6. CASE PersistErase
    BY <1>6 DEF PersistErase, ram, hist, TypeOK, ApartInv, Apart, Restoring, Waiting
  <1>7. CASE PersistImage
    BY <1>7 DEF PersistImage, ram, hist, TypeOK, ApartInv, Apart, Restoring, Waiting
  <1>8. CASE PersistHeader
    BY <1>8 DEF PersistHeader, ram, hist, TypeOK, ApartInv, Apart, Restoring, Waiting
  <1>9. CASE PersistCdr
    BY <1>9 DEF PersistCdr, ram, hist, TypeOK, ApartInv, Apart, Restoring, Waiting
  <1>10. CASE OnConnect
    BY <1>10
       DEF OnConnect, UploadStep, ram, hist, TypeOK, ApartInv, Apart, Restoring, Waiting
  <1>11. CASE RestoreNothing
    BY <1>11
       DEF RestoreNothing, UploadStep, ram, hist, TypeOK, ApartInv, Apart, Restoring,
           Waiting
  <1>12. CASE RestoreHeader
    BY <1>12
       DEF RestoreHeader, UploadStep, ram, hist, TypeOK, ApartInv, Apart, Restoring,
           Waiting
  <1>13. CASE RestoreDiscard
    BY <1>13
       DEF RestoreDiscard, UploadStep, ram, hist, TypeOK, ApartInv, Apart, Restoring,
           Waiting
  <1>14. CASE RestoreImage
    BY <1>14
       DEF RestoreImage, UploadStep, ram, hist, TypeOK, ApartInv, Apart, Restoring, Waiting
  <1>15. CASE RestoreErase
    BY <1>15
       DEF RestoreErase, UploadStep, ram, hist, TypeOK, ApartInv, Apart, Restoring, Waiting
  <1>16. CASE Reset
    BY <1>16 DEF Reset, ram, hist, TypeOK, ApartInv, Apart, Restoring, Waiting
  <1>17. CASE
         \/ PublishNetworkFails
         \/ ButtonUpload
         \/ UploadTake
         \/ UploadSettled
         \/ UploadDnsTest
         \/ UploadDnsReady
         \/ UploadDnsNotReady
         \/ UploadAbandon
         \/ UploadPost
         \/ CoredumpPosted
    BY <1>17
       DEF PublishNetworkFails, ButtonUpload, UploadTake, UploadStep, UploadSettled,
           UploadDnsTest, UploadDnsReady, UploadDnsNotReady, UploadAbandon, UploadPost,
           CoredumpPosted, ram, hist, TypeOK, ApartInv, Apart, Restoring, Waiting
  <1>18. CASE UNCHANGED vars
    BY <1>18 DEF vars, ram, hist, TypeOK, ApartInv, Apart, Restoring, Waiting
  <1>19. QED
    BY <1>1, <1>2, <1>3, <1>4, <1>5, <1>6, <1>7, <1>8, <1>9, <1>10, <1>11, <1>12, <1>13,
       <1>14, <1>15, <1>16, <1>17, <1>18
       DEF Next, Publisher, FreezeWork, UploadThread

\* For every instance: as long as no loss notification failed, no erased image is
\* copied into the live ring and no valid header stands before one.
THEOREM RestoreIsClean == Spec => []NoGarbageRestored
  <1>1. Init => GuardInv /\ ApartInv
    BY DEF Init, GuardInv, ApartInv, Apart, Restoring
  <1>2. ApartInv => NoGarbageRestored
    BY DEF ApartInv, Apart, NoGarbageRestored
  <1>3. QED
    BY <1>1, <1>2, InitTyping, Typing, GuardStep, ApartStep, PTL DEF Spec

\* For every instance: while the upload thread reads the image or erases it, no
\* persist writes the partition and none is queued, unless a loss was not announced.
THEOREM OneFlashUser == Spec => []PersistRestoreApart
  <1>1. Init => GuardInv /\ ApartInv
    BY DEF Init, GuardInv, ApartInv, Apart, Restoring
  <1>2. ApartInv => PersistRestoreApart
    BY DEF ApartInv, Apart, PersistRestoreApart, Restoring
  <1>3. QED
    BY <1>1, <1>2, InitTyping, Typing, GuardStep, ApartStep, PTL DEF Spec

-----------------------------------------------------------------------------
(* What strands the persist-once guard.                                    *)

\* A loss that raises the guard arms the timer, unless the item is being cancelled:
\* nothing is pending while the guard is down.
LEMMA ScheduleArms ==
  ASSUME TypeOK, GuardInv, ScheduleFreeze, Stranded'
  PROVE  Stranded \/ "canceling" \in work
  <1>1. CASE network_ever_connected /\ ~log_freeze_scheduled
    BY <1>1 DEF ScheduleFreeze, WorkSchedule, Stranded, GuardInv, TypeOK
  <1>2. CASE ~(network_ever_connected /\ ~log_freeze_scheduled)
    BY <1>2 DEF ScheduleFreeze, Stranded
  <1>3. QED
    BY <1>1, <1>2

\* No step strands the guard but a loss during a cancelled persist.
LEMMA StrandedStep ==
  ASSUME TypeOK, GuardInv, [Next]_vars, Stranded'
  PROVE  Stranded \/ "canceling" \in work
  <1>1. CASE PublishConnected
    BY <1>1 DEF PublishConnected, WifiConnected, Stranded
  <1>2. CASE PublishDisconnected
    BY <1>2, ScheduleArms DEF PublishDisconnected, WifiDisconnected
  <1>3. CASE PublishNetwork
    <2>1. CASE pub = "not_ready"
      BY <1>3, <2>1, ScheduleArms DEF PublishNetwork
    <2>2. CASE pub # "not_ready"
      BY <1>3, <2>2 DEF PublishNetwork, Stranded
    <2>3. QED
      BY <2>1, <2>2
  <1>4. CASE FreezeTimerFires
    BY <1>4 DEF FreezeTimerFires, Stranded
  <1>5. CASE PersistErase
    BY <1>5 DEF PersistErase, Stranded
  <1>6. CASE PersistCdr
    BY <1>6 DEF PersistCdr, ram, Stranded
  <1>7. CASE Reset
    BY <1>7 DEF Reset, Stranded
  <1>8. CASE
         \/ PublishWifiFails
         \/ PublishNetworkFails
         \/ ButtonUpload
         \/ PersistImage
         \/ PersistHeader
         \/ UploadTake
         \/ UploadSettled
         \/ UploadDnsTest
         \/ UploadDnsReady
         \/ UploadDnsNotReady
         \/ UploadAbandon
         \/ OnConnect
         \/ RestoreNothing
         \/ RestoreHeader
         \/ RestoreDiscard
         \/ RestoreImage
         \/ RestoreErase
         \/ UploadPost
         \/ CoredumpPosted
         \/ UNCHANGED vars
    <2>1. UNCHANGED <<log_freeze_scheduled, work>>
      BY <1>8
         DEF PublishWifiFails, PublishNetworkFails, ButtonUpload, PersistImage,
             PersistHeader, UploadTake, UploadSettled, UploadDnsTest, UploadDnsReady,
             UploadDnsNotReady, UploadAbandon, OnConnect, RestoreNothing, RestoreHeader,
             RestoreDiscard, RestoreImage, RestoreErase, UploadPost, CoredumpPosted, ram, vars
    <2>2. QED
      BY <2>1 DEF Stranded
  <1>9. QED
    BY <1>1, <1>2, <1>3, <1>4, <1>5, <1>6, <1>7, <1>8
       DEF Next, Publisher, FreezeWork, UploadThread

\* For every instance: the guard stays up without a pending persist only after a
\* loss that met a cancelled persist still running.
THEOREM GuardNotStranded == Spec => GuardStrandedByCancelOnly
  <1>1. Init => GuardInv
    BY DEF Init, GuardInv
  <1>2. TypeOK /\ GuardInv /\ [Next]_vars => [Stranded' => Stranded \/ "canceling" \in work]_vars
    BY StrandedStep
  <1>3. QED
    BY <1>1, <1>2, InitTyping, Typing, GuardStep, PTL DEF Spec, GuardStrandedByCancelOnly
=============================================================================
