# A TLA+ model of nordic-wifi-memfault

The firmware runs on Nordic Wi-Fi boards. It uploads logs, metrics and
coredumps to the Memfault cloud, checks the cloud for firmware updates, and
keeps an HTTPS and an MQTT client busy as test traffic. This directory holds
TLA+ specifications of its concurrent core, the TLC models that check them, and
TLAPS proofs. Paths below are relative to the repository; `core.c` stands for
`src/modules/app_memfault/core/app_memfault_core.c`, `log_state.c` for
`app_memfault_log_state_restore.c` beside it, `ota.c` for
`src/modules/app_memfault/ota/app_memfault_ota_triggers.c`, `mqtt.c` for
`src/modules/app_mqtt_client/app_mqtt_client.c`, `net.c` for
`src/modules/network/net_event_mgmt.c`, `cdr.c` for
`src/modules/app_memfault/cdr/app_memfault_nrf70_fw_stats_cdr.c`, `https.c` for
`src/modules/app_https_client/app_https_client.c`, `wifi_metrics.c` for
`src/modules/app_memfault/metrics/app_memfault_wifi_metrics.c` and `coredump.c`
for `src/modules/app_memfault/core/app_memfault_flash_coredump_storage.c`.

## 1. Inventory

| Component | State | Operations | Hard behaviour |
|---|---|---|---|
| Memfault core (`core.c`) | `wifi_connected`, `network_ever_connected`, `log_freeze_scheduled`, `upload_sem`, a delayable work item | Wi-Fi, network and button listeners; `log_freeze_work_fn`; upload thread; `on_connect` | three threads on plain variables; a cancel that cannot stop a running handler; a binary semaphore; a DNS wait with a timeout |
| Log-state persist and restore (`log_state.c`) | a flash partition: header, ring context, ring storage | `memfault_log_state_persist_now`, `memfault_log_state_restore_on_connect` | works on live pointers while the log thread writes; resets and flash errors between operations; deferred logging |
| OTA triggers (`ota.c`) | a flag word, a binary semaphore | two listeners, the OTA thread | check-then-give, flags read, slept on, and then taken |
| MQTT client (`mqtt.c`) | `current_state`, `network_ready`, message and echo counters, a binary semaphore | listener, four callbacks, the client thread | three threads without a lock; backoff arithmetic; an equality test for the echo timeout |
| Network event publisher (`net.c`) | none | DHCP bound and Wi-Fi disconnect handlers | several publications per event, each of which can fail alone |
| CDR source (`cdr.c`) | a RAM buffer with its size and a ready flag; a flash partition | collection by button and work item, packetizer callbacks, persist, restore | three threads without a lock; a flash write from the live buffer; a restore that can meet a persist on the partition |
| HTTPS client (`https.c`) | `network_ready`, `has_seen_network_connection`, two counters, a receive buffer, a binary semaphore | listener, waiting loop, certificate provisioning, request with its clean-up | a thread and a listener without a lock, both of which write `network_ready`; seven calls that can fail while resources are held; counters that wrap |
| Wi-Fi metrics (`wifi_metrics.c`) | the access point reported last, in statics | report of the access point, collection for a heartbeat | two threads compare and store without a lock |
| Coredump storage (`coredump.c`) | `last_coredump_cleared` | clear, and the SDK's read, write and erase | a clear that fails leaves the coredump in place |
| Memory metrics, platform time, UX, `main.c`, the parser script | none that others read | read and report | none |

How they interact. `net.c` runs in the network-event thread and publishes on
zbus: first `WIFI_CHAN`, then `NETWORK_CHAN`. Listeners run inside the
publication, in the publisher's thread. The core's, the OTA module's, the MQTT
client's and the HTTPS client's listeners set flags and give semaphores; each of
these components has a thread of its own that waits for its semaphore. The core
also schedules a work item on the system work queue, which persists the log ring
(and the CDR buffer) ten seconds after a loss of the network. On the next
connect the upload thread restores them and uploads. The SDK (log ring, data
sources, packetizer), Zephyr (zbus, work queue, semaphores, deferred logging,
flash) and `mqtt_helper` are external: they are modelled from how this code uses
them.

What makes each component correct:

- OTA: no trigger is lost, none is answered by more than one check, each is
  answered in the end.
- Core: a persist is armed once per loss and only on a device that was
  connected; persist and restore, which share a partition without a lock, stay
  apart; every connect leads to `on_connect`.
- Log state: an image in flash is whole or invisible; restoring gives back the
  ring that was saved; an image is restored once; the separator that divides old
  from new messages gets into the ring.
- MQTT: no state of a connection (CONNECTING, in which the thread only waits, or
  CONNECTED, in which it only publishes) is left behind; the backoff doubles
  up to its cap; a silence of the broker is counted once, a fresh echo is not
  called stale, and the totals stay near each other; a network that stays up
  leads to a connection attempt, and in an outage the thread returns to its wait.
- HTTPS: requests keep being sent over a link that stays up and failures keep
  being counted in an outage; no request leaves a socket or an address list
  behind, whatever fails; the reported pass count is exact; `network_ready`
  follows the link.
- Wi-Fi metrics: a change of the access point is counted once.
- CDR: what is uploaded was collected; a persisted image is the newest collection,
  and is whole or invisible.

The hazards behind these properties, each at its source line, are listed in
`PROJECT.json` under `hazards`.

## 2. Modules

Each component has a specification module, an `MC` module and configuration
files for TLC, and a `Proofs` module. `BlobStore` and `OtaRequests` are abstract
specifications that some of them implement.

### OtaTriggers and OtaRequests

`flags` is the flag word as a set, `sem` the count of the semaphore, `npc[k]` the
place of listener `k` in its notify function, `tpc` that of the OTA thread.
`atomic_or`, `k_sem_count_get` and `k_sem_give` of a listener are three steps
(`NotifySetFlag`, `NotifyReadCount`, `NotifyGive`); the thread has `TakeSem` or
`TakeTimeout`, `ReadFlags`, `DelayElapsed`, `ConsumeTriggerContext` and
`ScheduleOtaCheck`. `notified`, `checks` and `delay` are history variables; `delay`
tells a check that slept from one whose connect came too late for the thread to
see it, and from one that had nothing to sleep for.
`notified` is bounded by `MaxNotifications`; the code has no such limit.

`OtaRequests` is what flag word, semaphore, thread and context string are for:
requests gather in a set, a check serves all that have gathered, and the set starts
again from nothing. The refinement mapping takes the flag word for the gathered
requests and reads the requests being served from the context string of the running
check (`RequestsServedOnce`).

### MemfaultCore

The listeners call nothing that blocks and run within a publication, so each
publication is one step; `pub` says that the `NETWORK_CHAN` publication of an
event is still to come. `PublishWifiFails` and `PublishNetworkFails` are
publications that time out. `work` holds the busy flags of the work item
(delayed, queued, running, canceling): `k_work_schedule` is refused for an item
that is being cancelled, `k_work_cancel_delayable` cannot stop one that runs.
The upload thread (`upc`) goes through the semaphore, the settling sleep, the DNS
loop (loop condition and resolver call are separate steps), the last look at
`wifi_connected`, and `on_connect`, whose restore is split into header, image
and erase. The partition is reduced to two facts, a valid header and a whole
image; LogState has the rest. `CoredumpPosted` is the SDK's upload of a coredump
with the clear of `coredump.c`; a clear that fails changes nothing and is no step.

Two timing facts of the platform are part of the model. The work item fires ten
seconds after it was armed, and a restore that was already under way then has
ended (8 KB read and an erase): `restore_first`. And the system work queue's
thread is cooperative and the flash driver does one operation at a time, so nothing
else uses the log partition between the start of the handler, whose first act is to
erase it, and the end of that erase: `PersistErase` is one step. Without the
first one the code has no protection at all against an overlap.

### LogState and BlobStore

The ring has `N` slots of one message each; `ctx` is its read position and count,
`storage` its slots. Logging only appends to `pending`; the log thread
(`LogProcess`) moves messages into the ring, expiring the oldest one when it is
full, or dropping the new one when collection is triggered, as the comment at
`log_state.c:46` describes. Persist writes context, storage (slot by slot) and
header; restore reads them back in the same order, erases, resets the data
source, logs the separator and flushes. Every flash operation can fail: an
erase before or after the sector with the header, a header write leaving torn
bytes. A reset can come between any two steps, and may bring another firmware
for which the image does not fit (`hdr = "foreign"`).

`BlobStore` is what this is for: a one-place store that changes atomically. The
refinement mapping says that the store holds an image exactly while the header
is valid (`StoreIsAtomic`).

Persist and restore do not overlap in this module. That is what `MemfaultCore`
establishes about their callers (`PersistRestoreApart`), as long as no
WIFI_STA_DISCONNECTED publication fails.

### MqttClient

The thread's `pc` follows the nested loops; `current_state`, `network_ready`,
`message_count`, `last_echo_at_msg` and `mqtt_thread_sem` are the code's. The
listener's disconnect is three steps, since it calls `mqtt_helper_disconnect`
between its test and its assignment. `helper` is `mqtt_helper` with the broker:
down, awaited, up or closing. A callback may come at any point, also before
`mqtt_helper_connect` has returned. `mqtt_backoff_sec` is modelled in 32-bit
arithmetic, as the set of possible results: a shift by 32 or more is undefined,
and gives zero or a masked shift.

`echoes` holds the numbers of the messages whose echo is on its way, `sub` the
subscription that makes the broker send them: an echo can overtake the return of
`mqtt_helper_publish` (`PublishSend` and `PublishDone` are two steps), arrive
after later messages, or never. `passes` stands for `mqtt_echo_total -
mqtt_echo_failures`, the number the log lines show as a `uint32_t`; where the code
counts an attempt in both, it stays.

Not modelled: `app_mqtt_client_publish` (nothing calls it),
`has_seen_network_connection` (it decides only whether an attempt is added to both
totals), and `mqtt_client_running`, which is set before the thread starts and never
cleared.

### HttpsClient

`network_ready`, `has_seen_network_connection`, `https_thread_sem`, the two counters
and `cert_provisioned` are the code's; `pc` follows the thread through its waiting
loop and through `send_http_request`, `fd`, `res`, `off` and `request_failed` are what
a request holds. The notification of a connect is three steps after its test
(`lpc`), since the thread can clear `network_ready` in `CertFails` at any point of
it. `link` is the Wi-Fi link as the network events report it: `LinkUp`, `Rebound`
(a further DHCP event) and `LinkDown`, of which each publication but a repeated one
may fail (`unheard`). Every call of a request can fail (`StepFails`), the lookup can
be cancelled once, and the peer chooses the size of each piece it sends. The
counters wrap at `CounterMax`, which is 2^32 - 1 in the code.

Not modelled: the status line (it is logged only) and the stop of the client
(`https_client_running` is set before the thread starts and never cleared).

### WifiMetrics

Both callers of `mflt_wifi_metrics_report_ssid_bssid` take their argument (`Call`),
compare it with the statics (`Compare`) and store it (`Store`). The `mac_addr` of
the DHCP event is taken to be what the header of the function calls it, the BSSID
of the access point. The change counters are kept since boot, not per heartbeat.

### CdrSource

The buffer has `K` chunks, and a chunk holds the number of the collection its
bytes come from. Three threads use it: the system work queue, on which both the
button listener's collection and the persist work item run, one after the other
(`app-memfault-module.md:28` and `:173`); the restore on the upload thread; and the
SDK's packetizer, which runs on any thread that posts data. `pc` says where each is.
Nothing orders them: an action waits for another thread only where it waits for the
flash driver.

The queue's thread is cooperative and runs until it waits: for the driver, so
`CollectClear` and `CollectDone` are two steps, and for the flash, so erase, payload
and header are three. The copy from the driver's answer and the assignments after it
are one step. The external flash (`boards/*.overlay`) does one operation at a time and
its callers wait (`FlashFree`); `len` is the size a write was called with, which may be
gone from `size` when the write is done. The restore's read goes into the live buffer
chunk by chunk (`pos`), with the queue free to fill it, and the packetizer reads chunk
by chunk. As in LogState every flash operation can fail and a reset can come at any
point; the partition is another `BlobStore`. A write of no bytes returns at once. The
read offset and the metadata of the code are written but nothing reads them, so they
have no counterpart.

A restore can meet a persist. An upload thread that waits for the name server
(`core.c:206`) sleeps its two seconds only once; when the link is lost and comes back
during that wait, it goes on to `on_connect` while the work item of that loss may
still be asking the driver for statistics, with the image of an earlier loss still in
flash. After a WIFI_STA_DISCONNECTED publication that failed the upload thread is not
told of the loss at all, and the work item can start while it restores. `met` records
that the two overlapped, until nothing of what they left is in flash, in the buffer or
on its way out.

## 3. What TLC checks

| Run | Configuration | Properties |
|---|---|---|
| `ota` | both listeners, 5 notifications | `TypeOK`, `NoLostWakeup`, `ChecksPaidFor`, `DelayIsForConnects`, `TriggerServed`, `RequestsServedOnce` |
| `core` | 2 DNS polls, coredump posting on | `TypeOK`, `PersistIsGuarded`, `NoGarbageRestored`, `PersistRestoreApart`, `UploadNotLost`, `ConnectLeadsToUpload`, `GuardStrandedByCancelOnly` |
| `log_state` | ring of 2, 2 application messages, 2 pending | `TypeOK`, `HeaderMeansWhole`, `RoundTrip`, `MarkerKept`, `OneShot`, `StoreIsAtomic` |
| `mqtt` | 1 DNS poll, echo threshold 1, 3 messages, 1 refused subscription, 8 retries | `TypeOK`, `NotStuckConnecting`, `NoGhostConnection`, `EchoTimeoutOnce`, `EchoTimeoutFires`, `PassCountBounded`, `BackoffDoublesToCap`, `MismatchIsStale`, `NetworkLeadsToAttempt`, `OutageReachesWait` |
| `cdr` | 2 chunks, 3 collections | `TypeOK`, `UploadIsReal`, `SnapshotIsFresh`, `StoreIsAtomic` |
| `https` | 2 DNS polls, buffer of 3, counters wrap after 3 | `TypeOK`, `NoLeak`, `PassCountIsTrue`, `ReadyTracksLink`, `OutageKeepsCounting`, `LinkLeadsToRequests` |

Why the bounds are enough. Five notifications let both listeners meet the OTA
thread in each of its states and once more while it still works on the earlier
ones. The core has no unbounded state; two polls let the DNS wait succeed at
once, after a retry, and run into its limit. A ring of two wraps and overflows
with the third message, and with two application messages, the persist message
and the separator there are four kinds to fill it; resets, persists and restores
are unbounded in number. Three messages at a threshold of one leave room for an
echo, a silence, its timeout and a publish after it, and for an echo that comes
one or two messages late; the backoff reaches its cap at the eighth retry, and
further failures count as the eighth. A buffer of two chunks can be torn; three
collections are one in the flash that a restore is reading, one of the work item
that meets it, and one more before, between or after; the number of persists that
fail, restores, uploads and resets has no bound. A receive buffer of three fills in one piece, in several, or
not at all; counters that wrap after three wrap at different times, which is what
the difference has to survive.

`RoundTrip` has two exemptions that the code cannot exclude: the log thread
expires a message before its slot was saved (`torn`), or writes to the ring
during the restore (`mixed`). What is checked is that nothing else changes the
messages: those logged into free slots during a persist, failed operations,
resets, other images. `MarkerKept` exempts a periodic upload that triggers
collection again between the reset of the data source and `log_flush`.
`OneShot` is about an image whose erase succeeded: `log_state.c:205` ignores the
result, so a failed erase does leave an image that is restored again.
`EchoTimeoutFires` is about a silence that begins with an echo (`mqtt_silence` has
the other one) and in which no publish fails, since a failed publish takes a number
and is not tested. `GuardStrandedByCancelOnly` leaves out exactly the case that
`core_loss_persist` shows.
`NoGarbageRestored` and `PersistRestoreApart` exempt behaviours in which a WIFI_STA_DISCONNECTED
publication failed (`net.c:145`): then `wifi_connected` stays true while
NETWORK_NOT_READY arms the persist, and TLC finds the overlap.
`DelayIsForConnects` says which checks sleep, in both directions: none that is not
for a connect, and every one for a connect alone, unless that connect set its flag
between the thread's look at the flags (`ota.c:91`) and its taking them (`ota.c:105`).
A check for button and connect together may do either.
`ReadyTracksLink` exempts a link change whose publication failed, until the next
publication, and a failed provisioning, after which the client stays idle until
the next reconnect (`https.c:404`). `MismatchIsStale` exempts an echo that overtakes
the return of the publish call. `NoGhostConnection` has no converse: a late write
can make the client believe that a live connection is gone.
`UploadIsReal`, `SnapshotIsFresh` and `StoreIsAtomic` exempt what follows an overlap
of a restore and a persist (`met`), and nothing else; `TypeOK`, and in `UploadIsReal`
the part that no unfilled buffer is uploaded, have no exemption. Without it TLC finds
for each of the three what the overlap does: the restore's erase falls between payload
and header, and the header commits an erased image; erased chunks are read into the
buffer and announced; the payload is written from a buffer into which the restore has
read an older image. The packetizer can read a mixture of two collections when
a second one is made during an upload; nothing in the repository promises otherwise,
and no property says so.

Fairness. The threads are scheduled and their sleeps, resolver calls, flash
operations and uploads end (all have timeouts): weak fairness of each thread's
steps as a whole. A notification that has begun goes on. `mqtt_helper` answers a
CONNECT or closes (keep-alive and socket timeouts); the HTTPS client's sockets have
timeouts of 30 s (`https.c:273`). Nothing is assumed of the
environment: network events, button presses, echoes and resets need not happen,
and a connection may stay up and silent for ever.

Runs that end in a violation state what a comment or a document says and show
what the code does instead:

| Run | Claim | What happens |
|---|---|---|
| `core_loss_persist` | `app-memfault-module.md:45`: a loss schedules the persist | after a reconnect during a running persist the next `k_work_schedule` is refused, with the guard already up |
| `log_persist_message` | `log_state.c:86`: the message is part of the image | logging is deferred (`prj.conf:475`) and nothing flushes before the snapshot |
| `log_reconnect` | `app-memfault-module.md:119`: a reconnect without a reboot uploads the ring as it is | `on_connect` restores the older image over it |
| `mqtt_backoff` | `mqtt.c:35`: from retry 4 on 30 s or more, capped at 300 s | the delay is 0 s at retry 35 (shift by 31), undefined from retry 36 on |
| `mqtt_silence` | `mqtt.c:56`: a silence of three publishes is counted once | the first silence, from the first message on, is never counted |
| `wifi_metrics` | `wifi_metrics.c:110`: the change counters only increment on an actual difference | a DHCP event and a heartbeat both compare before either stores: one roam counts twice |

Three more disagreements came up in runs that pass, because the property there says
what the code does; `PROJECT.json` lists them as findings of those runs:

| Run, property | Claim | What happens |
|---|---|---|
| `ota`, `DelayIsForConnects` | `Kconfig.app_memfault:49`: the thread sleeps after "a network-connect or button-press event" | it sleeps only when it sees a connect flag and no button flag: never for a button press alone, not for both together, and not for a connect that comes after its look |
| `mqtt`, `BackoffDoublesToCap` | `app-mqtt-client-module.md:101` and `mqtt.c:35`: 120 s at retry 6, 300 s from retry 7 on | 240 s at retry 7, 300 s from retry 8 on |
| `cdr`, `StoreIsAtomic` | `cdr.c:244`: payload first and header last is an atomic commit | not when a restore overlaps: its erase can come between the two |

## 4. What is proved

The theorems hold for every value of the constants (any DNS bound, ring size,
number of messages, echo threshold, buffer size, counter width), from the assumptions stated
beside the constants: bounds are natural numbers, `N`, `K`, `EchoThreshold`,
`BufSize` and `CounterMax` are positive.

- `OtaTriggersProofs`: `TypeCorrect`; `WakeupNotLost`, which is inductive
  together with the types; and `ChecksAreBounded`, where `OwedChecks` is the
  accounting that makes the bound inductive: what a notification pays for moves
  from the listener to the semaphore, from there to the thread, and is spent by
  the check. `DelayForConnects` from `DelayInv`: the thread goes to sleep only with the
  connect bit in the flag word, which stays there until the thread takes it; and once
  it has decided not to sleep, a connect bit that stands alone came after the
  decision.
  `RequestsImplemented` is the refinement of `OtaRequests`: a listener's first step
  is a request, `ConsumeTriggerContext` begins a check, `ScheduleOtaCheck` ends it,
  and every other step, the periodic timeout included, leaves both sets alone. It
  rests on `ContextCoversFlags`: the string names exactly the bits that were taken.
- `MemfaultCoreProofs`: `TypeCorrect`; `PersistGuarded` from `GuardInv`, which
  adds that the item is never armed and queued at once, since starting the
  handler clears the guard; `ConnectNotForgotten`, inductive as it stands; and
  `RestoreIsClean`, from `Apart`: a pending persist implies that the link is
  down, a restore under way at the arming of the timer holds the timer back, and
  a running persist excludes a restore that has passed its header. `Apart` is
  claimed only while no disconnect publication failed. `OneFlashUser` follows from
  it as well. `GuardNotStranded`, an action property, from `GuardInv`: while the
  guard is down nothing is pending, so only an item that is being cancelled
  refuses the timer.
- `LogStateProofs`: `HeaderCommits` from `CommitInv`, which says how far the
  current persist has come (header erased, context written, slots below `pos`
  written); and `StoreImplemented`, the refinement of `BlobStore`: only
  `PersistHeader` commits, and into an empty store; the erases, and a reset into
  another firmware, discard; every other step leaves the mapped store alone.
  `TypesHold`, with the flags apart (`FlagsTyped`, `RestTyped`); `RestoredOnce` from
  `OnceInv`: after a restore whose erase succeeded no header is accepted until a
  persist commits another; and `SeparatorKept` from `MarkerInv`: the separator is
  pending only while the restore waits in `log_flush()`, and collection is triggered
  there only by a periodic upload. `RestoredAsPersisted` is `RoundTrip`, from
  `CopyInv`: the image behind an accepted header, the one that still waits for its
  header, and the part of one that persist has written so far hold the messages
  that were in the ring when persist began, unless one of them expired; the ring
  has meanwhile only grown, or is full. The lemmas `SlotsDiffer`, `FreeSlot` and
  `CopyLogProcess` say that a message logged into a ring with room goes to a slot
  that the saved context does not reach.
- `MqttClientProofs`: `ConnectingIsAnswered` and `ConnectedIsReal`, each inductive
  as it stands; `OneTimeoutPerSilence` from `SilenceInv`: once a silence is
  counted, the distance to the last echo is at the threshold with no publish in
  progress, or beyond it; `VerdictIsRight`, an action property, from `VerdictInv`:
  once the publish call has returned, an echo of the newest message on its way
  means that its number is the one remembered; and `PassCountHolds` from `PassInv`,
  which adds to the passes the echoes that may still pass (their number, by the
  theorems on finite sets) and the timeout that may still be counted.
  `SilenceAfterEchoCounted` from `FiresInv`: while the publishes of a silence are
  all handed over, the distance passes every value, the threshold included.
  `DoublingFollowed` and `BackoffAboveBase`, for the first 34 retries, from
  `BackoffInv`. They need the value of the shift for every count up to 30
  (`ShiftValues`) and that of the recursive function `CappedDoubling`: that its equation has
  a solution is shown by exhibiting one (`DoublingUnfolds`), and its values by the
  least retry at which they would differ (`DoublingValues`), which needs no induction
  rule with an operator as its parameter. `TypesHold`, in three parts (`ReadyTyped`,
  `PlacesTyped`, `CountsTyped`), with the range of the backoff from the same lemmas.
- `HttpsClientProofs`: `TypesHold`, in two halves since one prover handles flags
  and the other arithmetic; `NothingLeaks` from `HeldInv`, which says what a request
  holds at each place; `PassCountHolds` from `PassInv`: the difference is ahead of
  the passes by the open request, with the modular arithmetic of the counters in
  one lemma (`CounterArithmetic`); and `ReadyIsRight` from `LinkInv`, which carries
  the notification through its steps.
- `CdrSourceProofs`: `TypeCorrect`, `UploadsAreReal`, `SnapshotsAreFresh` and
  `StoreImplemented` from one invariant, `IInv`. `FillInv` needs no exemption: a size
  other than zero, or a work item past its collection, promises a buffer that was
  filled, with statistics or with what the flash held, and so do a restore that has
  read to its end and every chunk in flash or on its way out; buffers are overwritten
  but never emptied, so this survives every interleaving. `CleanInv` holds while `met` is false: then no erased chunk is in
  the buffer, behind a header or on its way out (`NotErased`), and `Progress` says what
  the work item has done so far (the buffer is the newest collection, the header is
  gone, the image is that collection). The proofs have a case for each action with
  every place of the other two threads; no step assumes them apart.

- `WifiMetricsProofs`: `OvercountBounded`, how wrong the counters of
  `wifi_metrics` can get: at most four counted changes per roam, for any number of
  roams and access points, and none on a device that never roams. `Debt` is the
  number of changes that can still be counted for the roams there have been, from
  what is stored and what the two callers still hold; a roam adds at most four to
  it, a comparison that counts takes one, no other step raises it. TLC reaches four
  after one roam, so the factor is the smallest one. No run checks the bound: a run
  of this module already shows the violation, and the bound was found with TLC on
  up to three roams before it was proved.

Only model-checked: the liveness properties (`TriggerServed`,
`ConnectLeadsToUpload`, `NetworkLeadsToAttempt`, `OutageReachesWait`,
`OutageKeepsCounting`, `LinkLeadsToRequests`), which need fairness and are
outside the prover's reach. Every invariant and every action property of the runs
is stated by a theorem. `BackoffDoublesToCap` is proved up to the 34th retry and
does not hold beyond: see `mqtt_backoff`. The proofs about the CDR partition say
nothing of it after an overlap, beyond `FillInv`.

## 5. What is not modelled, and the plan

Not modelled: the memory monitor, platform time, UX, `main.c` and the host-side
parser (no control state); the UX and NTP channels (no listener in this
repository); the contents of messages and uploads. Of the coredump storage only
the clear has a step: its read, write and erase are called by the SDK at boot or
from the crash handler, when no other thread runs, and always from offset zero.
(For another offset the erase loop at `coredump.c:67` would stop short; nothing
calls it so.) The demo crashes and demo metrics of the buttons, the image
confirmation and the registration of sources at boot happen before, or without,
anything that is modelled here.

What could be added:

- A composition of `MemfaultCore` with `LogState`, so that the separation of
  persist and restore (`PersistRestoreApart`) is used rather than assumed; and with
  `CdrSource`, to bound how often the overlap there can happen.
