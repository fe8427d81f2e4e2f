---------------------------- MODULE MemfaultCore ----------------------------
(***************************************************************************)
(* The control of the Memfault core (app_memfault_core.c), with the        *)
(* publisher that drives it (net_event_mgmt.c).                            *)
(*                                                                         *)
(*  - the network-event thread publishes WIFI_CHAN, then NETWORK_CHAN; each *)
(*    publication may fail on its own and is then only logged.  Listeners  *)
(*    run inside the publication and call nothing that blocks: one step.   *)
(*  - the system work queue runs log_freeze_work_fn, 10 s after a loss.    *)
(*  - the upload thread waits for upload_sem, for DNS, and runs on_connect.*)
(*                                                                         *)
(* The log-state partition is reduced to what concurrency can spoil: is    *)
(* there a valid header, is there a whole image behind it.  Contents,      *)
(* partial writes and the ring are the subject of LogState.                *)
(***************************************************************************)
EXTENDS Integers

CONSTANTS
    DnsPolls,               \* sleeps of the DNS wait before it gives up (30 in the code)
    PostCoredumpOnConnect   \* CONFIG_MEMFAULT_NCS_POST_COREDUMP_ON_NETWORK_CONNECTED

ASSUME DnsPollsAssumption == DnsPolls \in Nat
ASSUME PostCoredumpAssumption == PostCoredumpOnConnect \in BOOLEAN

VARIABLES
    wifi_connected,
    network_ever_connected,
    log_freeze_scheduled,
    upload_sem,     \* count of upload_sem (limit 1)
    work,           \* busy flags of log_freeze_work, as a set
    wpc,            \* where the work queue is in log_freeze_work_fn
    upc,            \* where the upload thread is
    dns_wait,       \* sleeps of the current DNS wait
    pub,            \* the event whose NETWORK_CHAN publication is still to come
    flash,          \* log-state partition: its parts that are whole, {"header", "image"}
    ring,           \* what the live log ring holds
    coredump,       \* memfault_coredump_has_valid_coredump()
    restore_first,  \* timing: a restore was under way when the timer was armed
    lost_pub,       \* history: a WIFI_STA_DISCONNECTED publication failed
    owed            \* history: a connect whose on_connect() has not begun

ram == <<wifi_connected, network_ever_connected, log_freeze_scheduled, upload_sem>>
hist == <<restore_first, lost_pub, owed>>
vars == <<ram, work, wpc, upc, dns_wait, pub, flash, ring, coredump, hist>>

\* The states of the upload thread between its last look at wifi_connected and
\* the end of memfault_log_state_restore_on_connect().
Restoring == {"read_header", "read_image", "erase"}

\* The states of the upload thread before it calls on_connect().
Waiting == {"settle", "dns", "resolve", "gate"}

Init ==
    /\ wifi_connected = FALSE
    /\ network_ever_connected = FALSE
    /\ log_freeze_scheduled = FALSE
    /\ upload_sem = 0
    /\ work = {}
    /\ wpc = "idle"
    /\ upc = "take"
    /\ dns_wait = 0
    /\ pub = "none"
    /\ flash = {}
    /\ ring = "live"
    /\ coredump = FALSE
    /\ restore_first = FALSE
    /\ lost_pub = FALSE
    /\ owed = FALSE

-----------------------------------------------------------------------------
(* Zephyr's delayable work, as far as this code uses it (external).        *)

\* k_work_schedule(): ignored unless the item is idle or only running.  An item
\* that was cancelled while running is still being cancelled until it returns.
WorkSchedule(w) == IF w \subseteq {"running"} THEN w \cup {"delayed"} ELSE w

\* k_work_cancel_delayable(): stops the timer, leaves the queue, cannot stop a
\* handler that runs.
WorkCancel(w) == IF "running" \in w THEN {"running", "canceling"} ELSE {}

-----------------------------------------------------------------------------
(* The listeners.                                                          *)

\* Mutant: the network_ever_connected guard is missing.
ScheduleFreezeUnguarded ==
    IF ~log_freeze_scheduled
    THEN /\ log_freeze_scheduled' = TRUE
         /\ work' = WorkSchedule(work)
         /\ restore_first' = (upc \in Restoring)
    ELSE UNCHANGED <<log_freeze_scheduled, work, restore_first>>

\* The persist-once guard shared by both listeners.
ScheduleFreeze ==
    IF network_ever_connected /\ ~log_freeze_scheduled
    THEN /\ log_freeze_scheduled' = TRUE
         /\ work' = WorkSchedule(work)
         /\ restore_first' = (upc \in Restoring)
    ELSE UNCHANGED <<log_freeze_scheduled, work, restore_first>>

\* Mutant: the pending work is not cancelled on reconnect.
WifiConnectedNoCancel ==
    /\ wifi_connected' = TRUE
    /\ network_ever_connected' = TRUE
    /\ log_freeze_scheduled' = FALSE
    /\ upload_sem' = 1
    /\ owed' = TRUE
    /\ UNCHANGED <<work, restore_first, lost_pub>>

\* memfault_wifi_listener(), WIFI_STA_CONNECTED
WifiConnected ==
    /\ wifi_connected' = TRUE
    /\ network_ever_connected' = TRUE
    /\ log_freeze_scheduled' = FALSE
    /\ work' = WorkCancel(work)
    /\ upload_sem' = 1
    /\ owed' = TRUE
    /\ UNCHANGED <<restore_first, lost_pub>>

\* memfault_wifi_listener(), WIFI_STA_DISCONNECTED
WifiDisconnected ==
    /\ wifi_connected' = FALSE
    /\ ScheduleFreeze
    /\ owed' = FALSE
    /\ UNCHANGED <<network_ever_connected, upload_sem, lost_pub>>

-----------------------------------------------------------------------------
(* The publisher: zego_on_net_event_dhcp_bound / _wifi_disconnect.         *)

PublishConnected ==
    /\ pub = "none"
    /\ pub' = "ready"
    /\ WifiConnected
    /\ UNCHANGED <<wpc, upc, dns_wait, flash, ring, coredump>>

PublishDisconnected ==
    /\ pub = "none"
    /\ pub' = "not_ready"
    /\ WifiDisconnected
    /\ UNCHANGED <<wpc, upc, dns_wait, flash, ring, coredump>>

\* zbus_chan_pub(&WIFI_CHAN, ..., K_MSEC(100)) returns an error: no listener
\* runs, the handler goes on to the next channel.
PublishWifiFails ==
    /\ pub = "none"
    /\ \/ pub' = "ready" /\ UNCHANGED lost_pub
       \/ pub' = "not_ready" /\ lost_pub' = TRUE
    /\ UNCHANGED <<ram, work, wpc, upc, dns_wait, flash, ring, coredump, restore_first, owed>>

\* NETWORK_CHAN: memfault_network_listener() acts on NETWORK_NOT_READY only.
PublishNetwork ==
    /\ pub # "none"
    /\ pub' = "none"
    /\ IF pub = "not_ready" THEN ScheduleFreeze
                            ELSE UNCHANGED <<log_freeze_scheduled, work, restore_first>>
    /\ UNCHANGED <<wifi_connected, network_ever_connected, upload_sem, wpc, upc, dns_wait,
                   flash, ring, coredump, lost_pub, owed>>

PublishNetworkFails ==
    /\ pub # "none"
    /\ pub' = "none"
    /\ UNCHANGED <<ram, work, wpc, upc, dns_wait, flash, ring, coredump, hist>>

\* memfault_button_listener(), Button 1 click: a heartbeat and an upload.  The
\* metrics of the heartbeat are the SDK's; WifiMetrics has what they keep here.
ButtonUpload ==
    /\ wifi_connected
    /\ upload_sem' = 1
    /\ UNCHANGED <<wifi_connected, network_ever_connected, log_freeze_scheduled, work, wpc,
                   upc, dns_wait, pub, flash, ring, coredump, hist>>

-----------------------------------------------------------------------------
(* The system work queue.                                                  *)

\* The 10 s timer fires.  A restore that was under way when the timer was armed
\* has ended by then: it reads 8 KB and erases 12 KB.
FreezeTimerFires ==
    /\ "delayed" \in work
    /\ ~restore_first
    /\ work' = (work \ {"delayed"}) \cup {"queued"}
    /\ UNCHANGED <<ram, wpc, upc, dns_wait, pub, flash, ring, coredump, hist>>

\* Mutant: the handler does not clear the persist-once guard.
PersistEraseKeepsGuard ==
    /\ wpc = "idle"
    /\ "queued" \in work
    /\ work' = (work \ {"queued"}) \cup {"running"}
    /\ \/ flash' = {} /\ wpc' = "image"
       \/ flash' = flash \ {"header"} /\ wpc' = "cdr"
       \/ flash' = flash /\ wpc' = "cdr"
    /\ UNCHANGED <<ram, upc, dns_wait, pub, ring, coredump, hist>>

\* log_freeze_work_fn() up to the erase in memfault_log_state_persist_now().
\* The queue's thread is cooperative and first in line for the flash driver, so
\* nothing else uses the partition between the start and the erase.
\* Of a failed erase, either nothing was erased or the header was.
PersistErase ==
    /\ wpc = "idle"
    /\ "queued" \in work
    /\ work' = (work \ {"queued"}) \cup {"running"}
    /\ log_freeze_scheduled' = FALSE
    /\ \/ flash' = {} /\ wpc' = "image"
       \/ flash' = flash \ {"header"} /\ wpc' = "cdr"
       \/ flash' = flash /\ wpc' = "cdr"
    /\ UNCHANGED <<wifi_connected, network_ever_connected, upload_sem, upc, dns_wait, pub,
                   ring, coredump, hist>>

\* The context and the ring storage are written, or one of the writes fails.
PersistImage ==
    /\ wpc = "image"
    /\ \/ flash' = flash \cup {"image"} /\ wpc' = "header"
       \/ flash' = flash /\ wpc' = "cdr"
    /\ UNCHANGED <<ram, work, upc, dns_wait, pub, ring, coredump, hist>>

PersistHeader ==
    /\ wpc = "header"
    /\ \/ flash' = flash \cup {"header"}
       \/ flash' = flash
    /\ wpc' = "cdr"
    /\ UNCHANGED <<ram, work, upc, dns_wait, pub, ring, coredump, hist>>

\* mflt_nrf70_fw_stats_cdr_persist_to_flash() (another partition), and the
\* handler returns: the work item is no longer running nor being cancelled.
PersistCdr ==
    /\ wpc = "cdr"
    /\ wpc' = "idle"
    /\ work' = work \ {"running", "canceling"}
    /\ UNCHANGED <<ram, upc, dns_wait, pub, flash, ring, coredump, hist>>

-----------------------------------------------------------------------------
(* The upload thread.                                                      *)

UploadStep(from, to) ==
    /\ upc = from
    /\ upc' = to

UploadTake ==
    /\ UploadStep("take", "settle")
    /\ upload_sem = 1
    /\ upload_sem' = 0
    /\ UNCHANGED <<wifi_connected, network_ever_connected, log_freeze_scheduled, work, wpc,
                   dns_wait, pub, flash, ring, coredump, hist>>

\* The 2 s sleep for the resolver ends.
UploadSettled ==
    /\ UploadStep("settle", "dns")
    /\ dns_wait' = 0
    /\ UNCHANGED <<ram, work, wpc, pub, flash, ring, coredump, hist>>

\* The loop condition reads wifi_connected, then calls check_dns_ready().
UploadDnsTest ==
    /\ UploadStep("dns", IF wifi_connected THEN "resolve" ELSE "gate")
    /\ UNCHANGED <<ram, work, wpc, dns_wait, pub, flash, ring, coredump, hist>>

UploadDnsReady ==
    /\ UploadStep("resolve", "gate")
    /\ UNCHANGED <<ram, work, wpc, dns_wait, pub, flash, ring, coredump, hist>>

\* Mutant: one poll too many.
UploadDnsOffByOne ==
    /\ UploadStep("resolve", IF dns_wait > DnsPolls THEN "gate" ELSE "dns")
    /\ dns_wait' = IF dns_wait > DnsPolls THEN dns_wait ELSE dns_wait + 1
    /\ UNCHANGED <<ram, work, wpc, pub, flash, ring, coredump, hist>>

\* Mutant: the DNS wait has no timeout.
UploadDnsNoTimeout ==
    /\ UploadStep("resolve", "dns")
    /\ UNCHANGED <<ram, work, wpc, dns_wait, pub, flash, ring, coredump, hist>>

\* Not resolved: sleep and try again, or carry on after the timeout.
UploadDnsNotReady ==
    /\ UploadStep("resolve", IF dns_wait >= DnsPolls THEN "gate" ELSE "dns")
    /\ dns_wait' = IF dns_wait >= DnsPolls THEN dns_wait ELSE dns_wait + 1
    /\ UNCHANGED <<ram, work, wpc, pub, flash, ring, coredump, hist>>

\* wifi_connected is false: back to the semaphore.
UploadAbandon ==
    /\ UploadStep("gate", "take")
    /\ ~wifi_connected
    /\ UNCHANGED <<ram, work, wpc, dns_wait, pub, flash, ring, coredump, hist>>

\* on_connect() begins; it returns at once if a coredump is to be posted first.
OnConnect ==
    /\ UploadStep("gate", IF PostCoredumpOnConnect /\ coredump THEN "take" ELSE "read_header")
    /\ wifi_connected
    /\ owed' = FALSE
    /\ UNCHANGED <<ram, work, wpc, dns_wait, pub, flash, ring, coredump, restore_first, lost_pub>>

\* memfault_log_state_restore_on_connect(): nothing to restore (no valid
\* header, or the partition cannot be opened or read).
RestoreNothing ==
    /\ UploadStep("read_header", "post")
    /\ restore_first' = FALSE
    /\ UNCHANGED <<ram, work, wpc, dns_wait, pub, flash, ring, coredump, lost_pub, owed>>

RestoreHeader ==
    /\ UploadStep("read_header", "read_image")
    /\ "header" \in flash
    /\ UNCHANGED <<ram, work, wpc, dns_wait, pub, flash, ring, coredump, hist>>

\* The image does not fit the live ring (another firmware wrote it): discard.
RestoreDiscard ==
    /\ UploadStep("read_header", "erase")
    /\ "header" \in flash
    /\ UNCHANGED <<ram, work, wpc, dns_wait, pub, flash, ring, coredump, hist>>

\* The image overwrites the live ring; a failed read may stop half way.
RestoreImage ==
    /\ UploadStep("read_image", "erase")
    /\ ring' \in IF "image" \in flash THEN {"restored", "partial", ring} ELSE {"garbage"}
    /\ UNCHANGED <<ram, work, wpc, dns_wait, pub, flash, coredump, hist>>

\* One-shot: the partition is erased in any case.  The result of the erase is
\* ignored, and so a failed one leaves the header or removes it.
RestoreErase ==
    /\ UploadStep("erase", "post")
    /\ flash' \in {{}, flash \ {"header"}, flash}
    /\ restore_first' = FALSE
    /\ UNCHANGED <<ram, work, wpc, dns_wait, pub, ring, coredump, lost_pub, owed>>

\* Mutant: the semaphore is reset when the upload is done.
UploadPostResetsSem ==
    /\ UploadStep("post", "take")
    /\ upload_sem' = 0
    /\ UNCHANGED <<wifi_connected, network_ever_connected, log_freeze_scheduled, work, wpc,
                   dns_wait, pub, flash, ring, coredump, hist>>

\* CDR restore, heartbeat, memfault_zephyr_port_post_data(): may fail, is logged.
UploadPost ==
    /\ UploadStep("post", "take")
    /\ UNCHANGED <<ram, work, wpc, dns_wait, pub, flash, ring, coredump, hist>>

-----------------------------------------------------------------------------
(* The environment: resets and the SDK's coredump upload.                  *)

\* A power cycle, or a crash (Buttons 1 and 2 held) that leaves a coredump.
Reset ==
    /\ wifi_connected' = FALSE
    /\ network_ever_connected' = FALSE
    /\ log_freeze_scheduled' = FALSE
    /\ upload_sem' = 0
    /\ work' = {}
    /\ wpc' = "idle"
    /\ upc' = "take"
    /\ dns_wait' = 0
    /\ pub' = "none"
    /\ ring' = "live"
    /\ coredump' \in {coredump, TRUE}
    /\ restore_first' = FALSE
    /\ owed' = FALSE
    /\ UNCHANGED <<flash, lost_pub>>

\* The SDK has uploaded the coredump and calls
\* memfault_platform_coredump_storage_clear(): the first word is overwritten, and
\* memfault_coredump_read() finds nothing from then on.  If the partition cannot be
\* opened or written, the coredump stays, and nothing has changed.
CoredumpPosted ==
    /\ coredump
    /\ wifi_connected
    /\ coredump' = FALSE
    /\ UNCHANGED <<ram, work, wpc, upc, dns_wait, pub, flash, ring, hist>>

-----------------------------------------------------------------------------
Publisher ==
    \/ PublishConnected
    \/ PublishDisconnected
    \/ PublishWifiFails
    \/ PublishNetwork
    \/ PublishNetworkFails

FreezeWork ==
    \/ FreezeTimerFires
    \/ PersistErase
    \/ PersistImage
    \/ PersistHeader
    \/ PersistCdr

UploadThread ==
    \/ UploadTake
    \/ UploadSettled
    \/ UploadDnsTest
    \/ UploadDnsReady
    \/ UploadDnsNotReady
    \/ UploadAbandon
    \/ OnConnect
    \/ RestoreNothing
    \/ RestoreHeader
    \/ RestoreDiscard
    \/ RestoreImage
    \/ RestoreErase
    \/ UploadPost

Next ==
    \/ Publisher
    \/ ButtonUpload
    \/ FreezeWork
    \/ UploadThread
    \/ Reset
    \/ CoredumpPosted

Spec == Init /\ [][Next]_vars

\* Both threads are scheduled and every sleep, resolver call and flash operation
\* ends.  Network events, buttons and resets need not happen.
FairSpec == Spec /\ WF_vars(UploadThread) /\ WF_vars(FreezeWork)

-----------------------------------------------------------------------------
(* Properties.                                                             *)

\* Every variable keeps its type; in particular the binary semaphore and the
\* bounded DNS wait of the upload thread stay within their limits.
TypeOK ==
    /\ wifi_connected \in BOOLEAN
    /\ network_ever_connected \in BOOLEAN
    /\ log_freeze_scheduled \in BOOLEAN
    /\ upload_sem \in 0..1
    /\ work \subseteq {"delayed", "queued", "running", "canceling"}
    /\ wpc \in {"idle", "image", "header", "cdr"}
    /\ upc \in {"take", "post"} \cup Waiting \cup Restoring
    /\ dns_wait \in 0..DnsPolls
    /\ pub \in {"none", "ready", "not_ready"}
    /\ flash \subseteq {"header", "image"}
    /\ ring \in {"live", "restored", "partial", "garbage"}
    /\ coredump \in BOOLEAN
    /\ restore_first \in BOOLEAN
    /\ lost_pub \in BOOLEAN
    /\ owed \in BOOLEAN

\* A persist is pending only behind the persist-once guard, and only on a device
\* that has been connected: the boot-time disconnect notification persists
\* nothing, and a burst of loss events arms one timer.
PersistIsGuarded ==
    work \cap {"delayed", "queued"} # {} => log_freeze_scheduled /\ network_ever_connected

\* The upload thread never copies an erased image into the live ring, and no
\* valid header ever stands before one: there is no lock between persist (work
\* queue) and restore (upload thread), only their timing and the header-last
\* order keep them apart, through failed flash operations and resets.  It takes
\* every WIFI_STA_DISCONNECTED to reach the listener: see lost_pub.
NoGarbageRestored ==
    (ring = "garbage" \/ ("header" \in flash /\ "image" \notin flash)) => lost_pub

\* While the upload thread is between its valid header and the erase that ends the
\* restore, no persist is writing the partition and none is about to begin: the two
\* hold the flash one after the other, which is what LogState takes for granted.
\* It takes every WIFI_STA_DISCONNECTED to reach the listener.
PersistRestoreApart ==
    upc \in {"read_image", "erase"} =>
        lost_pub \/ (wpc \notin {"image", "header"} /\ "queued" \notin work)

\* The guard is up and no persist is pending behind it: the next loss is ignored.
Stranded == log_freeze_scheduled /\ work \cap {"delayed", "queued"} = {}

\* The persist-once guard is stranded in one way only: a loss arrives while a
\* cancelled persist is still running, so that k_work_schedule() is ignored.
\* Neither a failed flash operation, nor a reconnect, nor a burst of losses strands it.
GuardStrandedByCancelOnly == [][Stranded' => Stranded \/ "canceling" \in work]_vars

\* A connect is not forgotten: until on_connect() begins or the link drops, the
\* semaphore is up or the thread is on its way and will not turn back, though
\* upload_sem counts to one and the thread may be waiting for an older connect.
UploadNotLost ==
    owed => wifi_connected /\ (upload_sem = 1 \/ upc \in Waiting)

\* A connect leads to on_connect(), unless the link drops or the device resets.
ConnectLeadsToUpload == owed ~> ~owed

\* app-memfault-module.md:45: whenever a connectivity loss is detected, a
\* 10-second delayable work item is scheduled.  As a state: while the guard is
\* up (a loss was detected and nothing has cleared it) the work is pending.
LossHasPendingPersist ==
    log_freeze_scheduled => work \cap {"delayed", "queued"} # {}
=============================================================================
