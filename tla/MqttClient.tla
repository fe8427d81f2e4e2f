----------------------------- MODULE MqttClient -----------------------------
(***************************************************************************)
(* The MQTT echo client (app_mqtt_client.c): its thread, the listener on   *)
(* the network-event thread and the callbacks of the mqtt_helper library's *)
(* poll thread share plain variables without a lock.                       *)
(*                                                                         *)
(* mqtt_helper and the broker are external: a connection is down, awaited  *)
(* (CONNECT sent, no answer yet), up, or closing (told to disconnect,      *)
(* on_disconnect still to come).  Only a helper that is down accepts       *)
(* mqtt_helper_connect().                                                  *)
(*                                                                         *)
(* mqtt_client_running is set before the thread starts and never cleared.  *)
(* mqtt_echo_total and mqtt_echo_failures are kept as their difference,    *)
(* the number of passed tests that the log lines show; an attempt that     *)
(* mqtt_record_failed_attempt() counts adds one to both and leaves it.     *)
(***************************************************************************)
EXTENDS Integers, FiniteSetsExt

CONSTANTS
    DnsPolls,       \* sleeps of the DNS wait before it gives up
    EchoThreshold,  \* APP_MQTT_ECHO_TIMEOUT_THRESHOLD
    MaxMsgs,        \* bound: messages published
    MaxSubFails,    \* bound: subscriptions the broker refuses
    MaxRetry        \* bound: failed attempts in a row; more count as this many

ASSUME DnsPollsAssumption == DnsPolls \in Nat
ASSUME EchoThresholdAssumption == EchoThreshold \in Nat \ {0}
ASSUME MaxMsgsAssumption == MaxMsgs \in Nat
ASSUME MaxSubFailsAssumption == MaxSubFails \in Nat
ASSUME MaxRetryAssumption == MaxRetry \in Nat

VARIABLES
    current_state,
    network_ready,
    message_count,
    last_published_count,
    last_echo_at_msg,
    passes,         \* mqtt_echo_total - mqtt_echo_failures
    mqtt_thread_sem,
    pc,             \* where app_mqtt_client_thread is
    dns_wait,       \* sleeps of the current DNS wait
    retry_count,
    delay,          \* the sleep that mqtt_backoff_sec() chose
    npc,            \* where app_mqtt_client_notify_disconnected is
    helper,         \* the connection, as mqtt_helper sees it
    sub,            \* the subscription to the echoes: "no", "asked" or "yes"
    echoes,         \* messages whose echo is on its way
    sub_fails,      \* history: subscriptions refused
    silent,         \* history: publishes since the last echo
    timeouts        \* history: echo timeouts counted since the last echo

conn == <<current_state, network_ready, mqtt_thread_sem>>
count == <<message_count, last_published_count, last_echo_at_msg, passes>>
session == <<helper, sub, echoes>>
thread == <<pc, dns_wait, retry_count, delay>>
history == <<sub_fails, silent, timeouts>>
vars == <<conn, count, thread, npc, session, history>>

Init ==
    /\ current_state = "DISCONNECTED"
    /\ network_ready = FALSE
    /\ message_count = 0
    /\ last_published_count = 0
    /\ last_echo_at_msg = 0
    /\ passes = 0
    /\ mqtt_thread_sem = 0
    /\ pc = "init"
    /\ dns_wait = 0
    /\ retry_count = 0
    /\ delay = 0
    /\ npc = "idle"
    /\ helper = "down"
    /\ sub = "no"
    /\ echoes = {}
    /\ sub_fails = 0
    /\ silent = 0
    /\ timeouts = 0

-----------------------------------------------------------------------------
(* mqtt_backoff_sec(): the possible results, in 32-bit arithmetic.         *)

BackoffBase == 30
BackoffMax == 300

\* The bits of 30 that stay in a 32-bit word shifted left by s < 32.
KeptBits(s) == IF s < 2 THEN BackoffBase ELSE BackoffBase % 2^(32 - s)

\* MIN(30U << s, 300U) for s < 32.  Whatever bits are left exceed the cap once they
\* are shifted by 9 or more.
CappedShift(s) == Min({KeptBits(s) * 2^Min({s, 9}), BackoffMax})

\* Mutant: the delay is not capped.
BackoffUncapped(retry) == IF retry <= 3 THEN {5} ELSE {BackoffBase * 2^(retry - 4)}

\* Mutant: the doubling starts one step too high.
BackoffOffByOne(retry) == IF retry <= 3 THEN {5} ELSE {CappedShift(retry - 3)}

\* A shift by 32 or more is undefined: Arm's LSL gives 0, a machine that masks
\* the shift count gives 30 << (s % 32).
mqtt_backoff_sec(retry) ==
    IF retry <= 3 THEN {5}
    ELSE IF retry - 4 < 32 THEN {CappedShift(retry - 4)}
    ELSE {0, CappedShift((retry - 4) % 32)}

-----------------------------------------------------------------------------
(* The listener: WIFI_STA_CONNECTED and WIFI_STA_DISCONNECTED.             *)

NotifyConnected ==
    /\ npc = "idle"
    /\ ~network_ready
    /\ network_ready' = TRUE
    /\ mqtt_thread_sem' = 1
    /\ UNCHANGED <<current_state, count, thread, npc, session, history>>

NotifyDisconnected ==
    /\ npc = "idle"
    /\ npc' = "check"
    /\ network_ready' = FALSE
    /\ UNCHANGED <<current_state, mqtt_thread_sem, count, thread, session, history>>

\* Not connected: a connection that is being set up is left alone.
NotifyNotConnected ==
    /\ npc = "check"
    /\ current_state # "CONNECTED"
    /\ npc' = "idle"
    /\ UNCHANGED <<conn, count, thread, session, history>>

NotifyHelperDisconnect ==
    /\ npc = "check"
    /\ current_state = "CONNECTED"
    /\ npc' = "set"
    /\ helper' = IF helper = "up" THEN "closing" ELSE helper
    /\ UNCHANGED <<conn, count, thread, sub, echoes, history>>

NotifySetState ==
    /\ npc = "set"
    /\ npc' = "idle"
    /\ current_state' = "DISCONNECTED"
    /\ UNCHANGED <<network_ready, mqtt_thread_sem, count, thread, session, history>>

-----------------------------------------------------------------------------
(* The callbacks, on the helper's poll thread.                             *)

\* on_mqtt_connack(), accepted; mqtt_helper_subscribe() asks for the echoes, or fails.
OnConnack ==
    /\ helper = "awaited"
    /\ helper' = "up"
    /\ current_state' = "CONNECTED"
    /\ sub' \in {"asked", "no"}
    /\ UNCHANGED <<network_ready, mqtt_thread_sem, count, thread, npc, echoes, history>>

\* on_mqtt_connack(), rejected: the broker closes, on_disconnect follows.
OnConnackRejected ==
    /\ helper = "awaited"
    /\ helper' = "closing"
    /\ current_state' = "DISCONNECTED"
    /\ UNCHANGED <<network_ready, mqtt_thread_sem, count, thread, npc, sub, echoes, history>>

\* on_mqtt_suback(), granted.
OnSuback ==
    /\ helper = "up"
    /\ sub = "asked"
    /\ sub' = "yes"
    /\ UNCHANGED <<conn, count, thread, npc, helper, echoes, history>>

\* on_mqtt_suback(), refused: a failure, but no test.  Nothing is echoed.
OnSubackRefused ==
    /\ helper = "up"
    /\ sub = "asked"
    /\ sub_fails < MaxSubFails
    /\ sub_fails' = sub_fails + 1
    /\ echoes = {}
    /\ sub' = "no"
    /\ passes' = passes - 1
    /\ UNCHANGED <<conn, message_count, last_published_count, last_echo_at_msg, thread, npc,
                   helper, echoes, silent, timeouts>>

\* Mutant: the state is left alone if the network is down anyway.
OnDisconnectIfReady ==
    /\ helper # "down"
    /\ helper' = "down"
    /\ current_state' = IF network_ready THEN "DISCONNECTED" ELSE current_state
    /\ sub' = "no"
    /\ echoes' = {}
    /\ UNCHANGED <<network_ready, mqtt_thread_sem, count, thread, npc, history>>

\* on_mqtt_disconnect(): asked for, by the broker, a socket error or keep-alive.
OnDisconnect ==
    /\ helper # "down"
    /\ helper' = "down"
    /\ current_state' = "DISCONNECTED"
    /\ sub' = "no"
    /\ echoes' = {}
    /\ UNCHANGED <<network_ready, mqtt_thread_sem, count, thread, npc, history>>

\* The echo of message m does not carry the number published last.
Mismatch(m) == last_published_count # 0 /\ m # last_published_count

\* on_mqtt_publish(): the echo of message m is one more test, passed or failed.
\* Echoes that are lost never arrive.
OnPublish(m) ==
    /\ helper = "up"
    /\ m \in echoes
    /\ echoes' = echoes \ {m}
    /\ last_echo_at_msg' = message_count
    /\ passes' = IF Mismatch(m) THEN passes ELSE passes + 1
    /\ silent' = 0
    /\ timeouts' = 0
    /\ UNCHANGED <<conn, message_count, last_published_count, thread, npc, helper, sub, sub_fails>>

-----------------------------------------------------------------------------
(* app_mqtt_client_thread(), up to the operation loop.                     *)

Goto(from, to) ==
    /\ pc = from
    /\ pc' = to

\* mqtt_helper_init() fails: the thread returns.
InitHelper ==
    /\ pc = "init"
    /\ pc' \in {"take", "exited"}
    /\ UNCHANGED <<conn, count, dns_wait, retry_count, delay, npc, session, history>>

\* k_sem_take() succeeds, or its timeout ends.  Without a network the thread
\* counts a failed attempt and waits again.
Wake ==
    /\ Goto("take", IF network_ready THEN "dns" ELSE "take")
    /\ mqtt_thread_sem' = 0
    /\ UNCHANGED <<current_state, network_ready, count, dns_wait, retry_count, delay, npc, session,
                   history>>

\* dns_wait and retry_count are cleared where their use ends.
DnsNetworkLost ==
    /\ Goto("dns", "take")
    /\ ~network_ready
    /\ dns_wait' = 0
    /\ UNCHANGED <<conn, count, retry_count, delay, npc, session, history>>

\* Resolved, or waited long enough.
DnsDone ==
    /\ Goto("dns", "delay")
    /\ network_ready
    /\ dns_wait' = 0
    /\ UNCHANGED <<conn, count, retry_count, delay, npc, session, history>>

\* Mutant: the DNS wait has no timeout.
DnsNotReadyNoTimeout ==
    /\ pc = "dns"
    /\ network_ready
    /\ dns_wait' = (dns_wait + 1) % (DnsPolls + 1)
    /\ UNCHANGED <<conn, count, pc, retry_count, delay, npc, session, history>>

DnsNotReady ==
    /\ pc = "dns"
    /\ network_ready
    /\ dns_wait < DnsPolls
    /\ dns_wait' = dns_wait + 1
    /\ UNCHANGED <<conn, count, pc, retry_count, delay, npc, session, history>>

\* The random initial delay ends.
InitialDelay ==
    /\ Goto("delay", IF network_ready THEN "loop" ELSE "take")
    /\ UNCHANGED <<conn, count, dns_wait, retry_count, delay, npc, session, history>>

-----------------------------------------------------------------------------
(* The operation loop: connect, publish, reconnect.                        *)

LoopBegin ==
    /\ Goto("loop", IF network_ready THEN "connect" ELSE "take")
    /\ UNCHANGED <<conn, count, dns_wait, retry_count, delay, npc, session, history>>

\* Mutant: only a connection ends the inner loop.
ConnectLoopEndsConnected ==
    /\ Goto("connect", "publish")
    /\ current_state = "CONNECTED"
    /\ retry_count' = 0
    /\ UNCHANGED <<conn, count, dns_wait, delay, npc, session, history>>

\* The inner loop's condition reads network_ready, then current_state; the next
\* round starts with a retry_count of its own.
ConnectLoopEnds ==
    /\ Goto("connect", "publish")
    /\ ~network_ready \/ current_state = "CONNECTED"
    /\ retry_count' = 0
    /\ UNCHANGED <<conn, count, dns_wait, delay, npc, session, history>>

\* mqtt_do_connect(); in state CONNECTING it only waits.
DoConnect ==
    /\ Goto("connect", "connecting")
    /\ network_ready
    /\ current_state = "DISCONNECTED"
    /\ current_state' = "CONNECTING"
    /\ UNCHANGED <<network_ready, mqtt_thread_sem, count, dns_wait, retry_count, delay, npc,
                   session, history>>

\* mqtt_helper_connect() has sent CONNECT; the answer may come before it returns.
HelperConnects ==
    /\ Goto("connecting", "connect_ok")
    /\ helper = "down"
    /\ helper' = "awaited"
    /\ UNCHANGED <<conn, count, dns_wait, retry_count, delay, npc, sub, echoes, history>>

\* The hardware ID, the topic or mqtt_helper_connect() fails; the last one must
\* if the helper still has a connection.
HelperRefuses ==
    /\ Goto("connecting", "connect_err")
    /\ UNCHANGED <<conn, count, dns_wait, retry_count, delay, npc, session, history>>

\* Connection initiated: the retry counter starts again.
ConnectInitiated ==
    /\ Goto("connect_ok", "connect")
    /\ retry_count' = 0
    /\ UNCHANGED <<conn, count, dns_wait, delay, npc, session, history>>

ConnectFailed ==
    /\ Goto("connect_err", "backoff")
    /\ current_state' = "DISCONNECTED"
    /\ retry_count' = Min({retry_count + 1, MaxRetry})
    /\ delay' \in mqtt_backoff_sec(retry_count')
    /\ UNCHANGED <<network_ready, mqtt_thread_sem, count, dns_wait, npc, session, history>>

BackoffEnds ==
    /\ Goto("backoff", "connect")
    /\ delay' = 0
    /\ UNCHANGED <<conn, count, dns_wait, retry_count, npc, session, history>>

\* The publish loop ends.  If the broker dropped the connection, the thread
\* sleeps 30 s before it starts again.
PublishLoopEnds ==
    /\ Goto("publish", "loop")
    /\ ~network_ready \/ current_state # "CONNECTED"
    /\ UNCHANGED <<conn, count, dns_wait, retry_count, delay, npc, session, history>>

\* mqtt_publish_message(), up to the message_count++ both outcomes share.
NextMessage ==
    /\ network_ready
    /\ current_state = "CONNECTED"
    /\ message_count < MaxMsgs
    /\ message_count' = message_count + 1

\* mqtt_helper_publish() hands the message over; the broker may echo it before
\* the call returns.
PublishSend ==
    /\ Goto("publish", "published")
    /\ NextMessage
    /\ helper = "up"
    /\ \/ sub # "no" /\ echoes' = echoes \cup {message_count'}
       \/ UNCHANGED echoes
    /\ silent' = silent + 1
    /\ UNCHANGED <<conn, last_published_count, last_echo_at_msg, passes, dns_wait, retry_count,
                   delay, npc, helper, sub, sub_fails, timeouts>>

\* Mutant: the timeout fires on every publish from the threshold on.
EchoTimeoutRepeats ==
    /\ message_count > EchoThreshold
    /\ message_count - last_echo_at_msg >= EchoThreshold

\* Mutant: the timeout fires one publish after the threshold crossing.
EchoTimeoutLate ==
    /\ message_count > EchoThreshold
    /\ message_count - last_echo_at_msg = EchoThreshold + 1

\* The echo timeout fires at the threshold crossing.
EchoTimeout ==
    /\ message_count > EchoThreshold
    /\ message_count - last_echo_at_msg = EchoThreshold

\* Mutant: the caller counts the failed publish once more.
PublishFailsTwice ==
    /\ pc = "publish"
    /\ NextMessage
    /\ passes' = passes - 2
    /\ UNCHANGED <<conn, last_published_count, last_echo_at_msg, thread, npc, session, history>>

\* mqtt_helper_publish() fails: the number is used up, and a failure is counted
\* without a test.
PublishFails ==
    /\ pc = "publish"
    /\ NextMessage
    /\ passes' = passes - 1
    /\ UNCHANGED <<conn, last_published_count, last_echo_at_msg, thread, npc, session, history>>

\* Mutant: the number remembered is the one before message_count++.
PublishDonePrevious ==
    /\ Goto("published", "publish")
    /\ last_published_count' = message_count - 1
    /\ timeouts' = IF EchoTimeout THEN timeouts + 1 ELSE timeouts
    /\ passes' = IF EchoTimeout THEN passes - 1 ELSE passes
    /\ UNCHANGED <<conn, message_count, last_echo_at_msg, dns_wait, retry_count, delay, npc,
                   session, sub_fails, silent>>

\* The call has returned: the number is remembered, the echo timeout checked,
\* then the thread sleeps.
PublishDone ==
    /\ Goto("published", "publish")
    /\ last_published_count' = message_count
    /\ timeouts' = IF EchoTimeout THEN timeouts + 1 ELSE timeouts
    /\ passes' = IF EchoTimeout THEN passes - 1 ELSE passes
    /\ UNCHANGED <<conn, message_count, last_echo_at_msg, dns_wait, retry_count, delay, npc,
                   session, sub_fails, silent>>

-----------------------------------------------------------------------------
Notify ==
    \/ NotifyNotConnected
    \/ NotifyHelperDisconnect
    \/ NotifySetState

Callback ==
    \/ OnConnack
    \/ OnConnackRejected
    \/ OnSuback
    \/ OnSubackRefused
    \/ OnDisconnect
    \/ \E m \in echoes : OnPublish(m)

Thread ==
    \/ InitHelper
    \/ Wake
    \/ DnsNetworkLost
    \/ DnsDone
    \/ DnsNotReady
    \/ InitialDelay
    \/ LoopBegin
    \/ ConnectLoopEnds
    \/ DoConnect
    \/ HelperConnects
    \/ HelperRefuses
    \/ ConnectInitiated
    \/ ConnectFailed
    \/ BackoffEnds
    \/ PublishLoopEnds
    \/ PublishSend
    \/ PublishFails
    \/ PublishDone

Next ==
    \/ NotifyConnected
    \/ NotifyDisconnected
    \/ Notify
    \/ Callback
    \/ Thread

Spec == Init /\ [][Next]_vars

\* What the helper owes: an answer to CONNECT, the end of a closing connection.
Answer == helper \in {"awaited", "closing"} /\ Callback

\* The thread runs and its sleeps and calls end; a notification that began goes
\* on; the helper answers.  A connection that is up may stay silent for ever.
FairSpec ==
    /\ Spec
    /\ WF_vars(Thread)
    /\ WF_vars(Notify)
    /\ WF_vars(Answer)

-----------------------------------------------------------------------------
(* Properties.                                                             *)

\* Every variable keeps its type; in particular the backoff delay stays within
\* the values of the code and the DNS wait within its bound.
TypeOK ==
    /\ current_state \in {"DISCONNECTED", "CONNECTING", "CONNECTED"}
    /\ network_ready \in BOOLEAN
    /\ mqtt_thread_sem \in 0..1
    /\ message_count \in 0..MaxMsgs
    /\ last_published_count \in 0..MaxMsgs
    /\ last_echo_at_msg \in 0..MaxMsgs
    /\ passes \in Int
    /\ pc \in {"init", "exited", "take", "dns", "delay", "loop", "connect", "connecting",
               "connect_ok", "connect_err", "backoff", "publish", "published"}
    /\ dns_wait \in 0..DnsPolls
    /\ retry_count \in 0..MaxRetry
    /\ delay \in {0, 5} \cup (BackoffBase..BackoffMax)
    /\ npc \in {"idle", "check", "set"}
    /\ helper \in {"down", "awaited", "up", "closing"}
    /\ sub \in {"no", "asked", "yes"}
    /\ echoes \subseteq 1..MaxMsgs
    /\ sub_fails \in 0..MaxSubFails
    /\ silent \in 0..MaxMsgs
    /\ timeouts \in 0..MaxMsgs

\* The state CONNECTING, in which the thread only waits, is never left behind:
\* the thread is still inside mqtt_do_connect(), or the helper owes a callback.
\* A notification, a callback and the thread write it without a lock.
NotStuckConnecting ==
    current_state = "CONNECTING" =>
        \/ pc \in {"connecting", "connect_err"}
        \/ helper # "down"

\* The client never believes in a connection that is gone, except while a
\* notification is between mqtt_helper_disconnect() and its assignment: otherwise
\* the publish loop would publish into nothing and never reconnect.  (The converse
\* fails: late writes can make it believe that a live connection is gone.)
NoGhostConnection == current_state = "CONNECTED" => helper = "up" \/ npc = "set"

\* One silence counts one echo timeout at most, whatever publishes fail and
\* whatever reconnects happen in between.
EchoTimeoutOnce == timeouts <= 1

\* The converse: a silence that began with an echo is counted as soon as it is longer
\* than the threshold, if every publish in it was handed over.  (A silence from the
\* first message on is not: see SilenceIsCounted.  A publish that fails takes a
\* number without testing it, and the test is for equality.)
EchoTimeoutFires ==
    /\ last_echo_at_msg > 0
    /\ silent = message_count - last_echo_at_msg
    /\ silent > EchoThreshold
    => timeouts = 1

\* app_mqtt_client.c:182: "it must match the last published counter.  A mismatch means
\* the broker returned a corrupted or stale payload".  With a broker that corrupts
\* nothing, the echo of the newest message is judged a mismatch in one case only:
\* it overtakes the return of mqtt_helper_publish().
MismatchIsStale ==
    [][\A m \in echoes : OnPublish(m) /\ Mismatch(m) =>
            m < message_count \/ pc = "published"]_vars

\* The pass count can be too low, even negative (the log line then shows a number
\* near 2^32), since failures are also counted where no test is: but by one for
\* each message and each refused subscription at most.  It never exceeds the
\* number of messages.
PassCountBounded ==
    /\ passes <= message_count
    /\ passes + message_count + sub_fails >= 0

\* Capped exponential backoff as a recurrence on unbounded numbers: 5 s for three
\* retries, then 30 s doubling up to the cap, without the shifts of
\* mqtt_backoff_sec().
CappedDoubling[r \in Nat] ==
    IF r <= 3 THEN 5 ELSE IF r = 4 THEN BackoffBase ELSE Min({2 * CappedDoubling[r - 1], BackoffMax})

\* app_mqtt_client.c:33: "Capped exponential backoff": the shifted and cut 32-bit
\* word is the doubled and capped number, and consecutive failures, and only these,
\* raise it.  This is not the list that the same comment and the table of
\* app-mqtt-client-module.md:97-101 give: they go from 120 s to 300 s at retry 7,
\* where doubling, and the code, give 240 s.
BackoffDoublesToCap == pc = "backoff" => delay = CappedDoubling[retry_count]

\* A network that stays up leads to a connection attempt or a connection, though
\* the semaphore is binary, the DNS wait may time out and an older attempt may
\* still be under way.
NetworkLeadsToAttempt ==
    network_ready ~> \/ pc \in {"connecting", "exited"}
                     \/ current_state = "CONNECTED"
                     \/ ~network_ready

\* app_mqtt_client.c:373: "Keep waking on publish interval while disconnected so tests
\* keep running and are counted as failures": in an outage the thread always gets
\* back to that wait, from the DNS wait, from any connection attempt and from the
\* publish loop.
OutageReachesWait ==
    <>[]~network_ready => []<>(pc \in {"take", "exited"})

\* app_mqtt_client.c:35: "Retry 4+: 30 s -> 60 s -> 120 s -> 300 s cap (persistent
\* failures)": from the fourth retry on the delay is at least 30 s.
BackoffNeverBelowBase == pc = "backoff" /\ retry_count >= 4 => delay >= BackoffBase

\* app_mqtt_client.c:56: "If this many consecutive publishes go out without any
\* echo coming back, the echo timeout failure counter is incremented once".
SilenceIsCounted == silent > EchoThreshold => timeouts = 1
=============================================================================
