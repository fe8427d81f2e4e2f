---------------------------- MODULE OtaTriggers ----------------------------
(***************************************************************************)
(* The OTA trigger module (app_memfault_ota_triggers.c).                   *)
(*                                                                         *)
(* Two zbus listeners (button click, Wi-Fi connected) set a bit in an      *)
(* atomic flag word and give a binary semaphore when they read its count   *)
(* as zero.  The OTA thread waits on the semaphore with a timeout, looks   *)
(* at the flags, may sleep, then takes all flags at once and runs one      *)
(* check.  Every atomic access and every semaphore call is a step of its   *)
(* own: the listeners run in other threads than the OTA thread, which has  *)
(* the lowest application priority and can be preempted anywhere.          *)
(***************************************************************************)
EXTENDS Integers

CONSTANTS
    Triggers,          \* the listeners built in: "connect", and "button" with CONFIG_ZEGO_BUTTON
    MaxNotifications   \* bound on the listener calls of one behaviour

AllTriggers == {"button", "connect"}

ASSUME TriggersAssumption == Triggers \subseteq AllTriggers
ASSUME MaxNotificationsAssumption == MaxNotifications \in Nat

VARIABLES
    flags,      \* mflt_ota_triggers_flags, as the set of its bits
    sem,        \* count of mflt_ota_triggers_sem (limit 1)
    npc,        \* where each listener is in its notify function
    tpc,        \* where the OTA thread is in its loop
    context,    \* the reason string the thread passes to schedule_ota_check
    notified,   \* history: listener calls so far
    checks,     \* history: checks run that the periodic timeout did not cause
    delay       \* history: of the connect delay since the thread woke: "none", "slept",
                \* or "late": a connect set its flag after the flags were looked at

vars == <<flags, sem, npc, tpc, context, notified, checks, delay>>

Contexts == {"manual", "button", "connect", "button+connect", "periodic"}

\* The bits behind a context string: what the check is run for.
Covers(c) == CASE c = "button+connect" -> {"button", "connect"}
               [] c \in {"button", "connect"} -> {c}
               [] OTHER -> {}

Init ==
    /\ flags = {}
    /\ sem = 0
    /\ npc = [k \in AllTriggers |-> "idle"]
    /\ tpc = "wait"
    /\ context = "manual"
    /\ notified = 0
    /\ checks = 0
    /\ delay = "none"

-----------------------------------------------------------------------------
(* The listeners: mflt_ota_triggers_notify_button / _notify_connected.     *)

\* atomic_or() of the listener's bit.  A zbus channel runs its listeners one
\* publication at a time, so one call per trigger is in progress at most.
NotifySetFlag(k) ==
    /\ npc[k] = "idle"
    /\ notified < MaxNotifications
    /\ flags' = flags \cup {k}
    /\ notified' = notified + 1
    /\ npc' = [npc EXCEPT ![k] = "flagged"]
    /\ delay' = IF k = "connect" /\ tpc = "consume" /\ delay = "none" THEN "late" ELSE delay
    /\ UNCHANGED <<sem, tpc, context, checks>>

\* Mutant: the count test is inverted.
NotifyReadCountInverted(k) ==
    /\ npc[k] = "flagged"
    /\ npc' = [npc EXCEPT ![k] = IF sem = 0 THEN "idle" ELSE "give"]
    /\ UNCHANGED <<flags, sem, tpc, context, notified, checks, delay>>

\* k_sem_count_get() == 0 decides whether the listener gives the semaphore.
NotifyReadCount(k) ==
    /\ npc[k] = "flagged"
    /\ npc' = [npc EXCEPT ![k] = IF sem = 0 THEN "give" ELSE "idle"]
    /\ UNCHANGED <<flags, sem, tpc, context, notified, checks, delay>>

\* Mutant: a semaphore without the limit of K_SEM_DEFINE(..., 0, 1).
NotifyGiveNoLimit(k) ==
    /\ npc[k] = "give"
    /\ sem' = sem + 1
    /\ npc' = [npc EXCEPT ![k] = "idle"]
    /\ UNCHANGED <<flags, tpc, context, notified, checks, delay>>

\* k_sem_give(): the count saturates at the limit 1.
NotifyGive(k) ==
    /\ npc[k] = "give"
    /\ sem' = 1
    /\ npc' = [npc EXCEPT ![k] = "idle"]
    /\ UNCHANGED <<flags, tpc, context, notified, checks, delay>>

-----------------------------------------------------------------------------
(* The OTA thread.                                                         *)

\* Mutant: the wait returns success without taking the count.
TakeSemNoDecrement ==
    /\ tpc = "wait"
    /\ sem = 1
    /\ tpc' = "woken"
    /\ delay' = "none"
    /\ UNCHANGED <<flags, sem, npc, context, notified, checks>>

\* k_sem_take() returns 0.
TakeSem ==
    /\ tpc = "wait"
    /\ sem = 1
    /\ sem' = 0
    /\ tpc' = "woken"
    /\ delay' = "none"
    /\ UNCHANGED <<flags, npc, context, notified, checks>>

\* k_sem_take() returns -EAGAIN after OTA_CHECK_INTERVAL.
TakeTimeout ==
    /\ tpc = "wait"
    /\ sem = 0
    /\ context' = "periodic"
    /\ tpc' = "check"
    /\ delay' = "none"
    /\ UNCHANGED <<flags, sem, npc, notified, checks>>

\* connect_only, from the flags read with atomic_get()
ConnectOnly == "connect" \in flags /\ "button" \notin flags

\* Mutant: the delay is skipped whenever a semaphore is already up again.
ReadFlagsImpatient ==
    /\ tpc = "woken"
    /\ tpc' = IF ConnectOnly /\ sem = 0 THEN "delay" ELSE "consume"
    /\ UNCHANGED <<flags, sem, npc, context, notified, checks, delay>>

ReadFlags ==
    /\ tpc = "woken"
    /\ tpc' = IF ConnectOnly THEN "delay" ELSE "consume"
    /\ UNCHANGED <<flags, sem, npc, context, notified, checks, delay>>

\* k_sleep(CONFIG_MEMFAULT_OTA_CONNECT_DELAY_SEC) ends.
DelayElapsed ==
    /\ tpc = "delay"
    /\ delay' = "slept"
    /\ tpc' = "consume"
    /\ UNCHANGED <<flags, sem, npc, context, notified, checks>>

\* Mutant: each check takes one bit and clears the whole word.
TriggerContextFirstBit(f) ==
    CASE "button" \in f -> "button"
      [] "connect" \in f -> "connect"
      [] OTHER -> "manual"

\* The string for a value of the flag word.
TriggerContext(f) ==
    CASE {"button", "connect"} \subseteq f -> "button+connect"
      [] "button" \in f /\ "connect" \notin f -> "button"
      [] "connect" \in f /\ "button" \notin f -> "connect"
      [] OTHER -> "manual"

\* consume_trigger_context(): atomic_set(flags, 0) takes every bit at once.
ConsumeTriggerContext ==
    /\ tpc = "consume"
    /\ context' = TriggerContext(flags)
    /\ flags' = {}
    /\ tpc' = "check"
    /\ UNCHANGED <<sem, npc, notified, checks, delay>>

\* schedule_ota_check(): memfault_zephyr_fota_start() blocks until the check is
\* done.  Its result (error, no update, download started) is only logged.
ScheduleOtaCheck ==
    /\ tpc = "check"
    /\ tpc' = "wait"
    /\ checks' = IF context = "periodic" THEN checks ELSE checks + 1
    /\ UNCHANGED <<flags, sem, npc, context, notified, delay>>

-----------------------------------------------------------------------------
Notify(k) == NotifyReadCount(k) \/ NotifyGive(k)

ThreadRun ==
    TakeSem \/ ReadFlags \/ DelayElapsed \/ ConsumeTriggerContext \/ ScheduleOtaCheck

Next ==
    \/ \E k \in Triggers : NotifySetFlag(k)
    \/ \E k \in Triggers : NotifyReadCount(k)
    \/ \E k \in Triggers : NotifyGive(k)
    \/ TakeSem
    \/ TakeTimeout
    \/ ReadFlags
    \/ DelayElapsed
    \/ ConsumeTriggerContext
    \/ ScheduleOtaCheck

Spec == Init /\ [][Next]_vars

\* A started listener call returns, and the OTA thread is scheduled: nothing of
\* higher priority runs for ever.  Notifications themselves need not happen.
FairSpec ==
    /\ Spec
    /\ WF_vars(ThreadRun)
    /\ \A k \in Triggers : WF_vars(Notify(k))

-----------------------------------------------------------------------------
(* Properties.                                                             *)

\* The thread, the listeners and the semaphore stay in their states: a binary
\* semaphore that two listeners give never counts beyond one.
TypeOK ==
    /\ flags \subseteq Triggers
    /\ sem \in 0..1
    /\ npc \in [AllTriggers -> {"idle", "flagged", "give"}]
    /\ tpc \in {"wait", "woken", "delay", "consume", "check"}
    /\ context \in Contexts
    /\ notified \in Nat
    /\ checks \in Nat
    /\ delay \in {"none", "slept", "late"}

\* No lost wakeup: a bit in the flag word is always going to be seen.  Either
\* the semaphore is up, or the thread is awake and has yet to take the flags, or
\* a listener has yet to read the count (give only when the count reads zero,
\* flags taken after the semaphore).
NoLostWakeup ==
    flags # {} =>
        \/ sem = 1
        \/ tpc \in {"woken", "delay", "consume"}
        \/ \E k \in Triggers : npc[k] \in {"flagged", "give"}

\* One if listener k has set its bit and not yet decided about the semaphore.
InFlight(k) == IF npc[k] = "idle" THEN 0 ELSE 1

\* The checks that are already certain to run: the one the semaphore holds, the
\* one the thread is on its way to, and one per listener call in progress.
OwedChecks ==
    sem + InFlight("button") + InFlight("connect")
        + (IF \/ tpc \in {"woken", "delay", "consume"}
              \/ tpc = "check" /\ context # "periodic" THEN 1 ELSE 0)

\* Each notification pays for one cloud check at most, however the listeners
\* and the thread interleave: the device never turns a burst of events into more
\* checks than events (the cloud service limits checks per day).
ChecksPaidFor == checks + OwedChecks <= notified

\* A set flag leads to a check run for that flag (the semaphore may hold only
\* one of several notifications, the flag word holds the others).
TriggerServed ==
    \A k \in Triggers :
        (k \in flags) ~> (tpc = "check" /\ k \in Covers(context))

\* Which checks sleep the connect delay first, decided from one look at the flags
\* and carried out for flags taken later.  A check that is not for a connect never
\* does; a check for a connect alone does, unless the connect set its flag between
\* the look and the taking.  Kconfig.app_memfault:49 says otherwise: it promises the
\* sleep after a button press too.
DelayIsForConnects ==
    tpc = "check" =>
        /\ delay # "none" => "connect" \in Covers(context)
        /\ context = "connect" => delay # "none"

\* The requests a running check is for, read from the string it was given.
Serving == IF tpc = "check" THEN Covers(context) ELSE {}

Gathered == INSTANCE OtaRequests
                WITH Requests <- Triggers, wanted <- flags, serving <- Serving

\* Flag word, semaphore, thread and context string together implement OtaRequests:
\* the bits taken from the flag word are exactly those the check is run for, a
\* bit set while the thread looks, sleeps or checks waits for the next check, and
\* a periodic check takes none of them.
RequestsServedOnce == Gathered!Spec
=============================================================================
