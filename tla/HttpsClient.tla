----------------------------- MODULE HttpsClient -----------------------------
(***************************************************************************)
(* The HTTPS test client (app_https_client.c): a thread that sends one     *)
(* request per interval while the network is ready and counts failed       *)
(* attempts while it is not, and a zbus listener that runs on the thread   *)
(* of the network events.  They share network_ready,                       *)
(* has_seen_network_connection and a binary semaphore, without a lock.     *)
(*                                                                         *)
(* External: the Wi-Fi link, the resolver, the sockets and the peer.       *)
(* https_client_running is set before the thread starts and never cleared. *)
(***************************************************************************)
EXTENDS Integers

CONSTANTS
    DnsPolls,    \* sleeps of the DNS wait before it gives up
    BufSize,     \* RECV_BUF_SIZE, in pieces of a response
    CounterMax   \* the largest value of a uint32_t counter

ASSUME DnsPollsAssumption == DnsPolls \in Nat
ASSUME BufSizeAssumption == BufSize \in Nat \ {0}
ASSUME CounterMaxAssumption == CounterMax \in Nat \ {0}

VARIABLES
    network_ready,
    has_seen_network_connection,
    https_thread_sem,
    https_req_total,
    https_req_failures,
    cert_provisioned,
    dns_wait,        \* sleeps of the current DNS wait
    pc,              \* where the thread is
    fd,              \* the request's socket is open
    res,             \* the request holds an address list
    off,             \* the offset into recv_buf
    request_failed,
    lpc,             \* where app_https_client_notify_connected() is
    link,            \* the Wi-Fi link, as the network events reported it last
    unheard,         \* history: the last change of the link was not published
    denied,          \* history: provisioning failed since the last connection
    passed           \* history: responses read to their end, as a uint32_t

counters == <<https_req_total, https_req_failures, passed>>
shared == <<network_ready, has_seen_network_connection, https_thread_sem>>
request == <<fd, res, off, request_failed>>
environment == <<lpc, link, unheard>>
vars == <<shared, counters, cert_provisioned, dns_wait, pc, request, environment, denied>>

Init ==
    /\ network_ready = FALSE
    /\ has_seen_network_connection = FALSE
    /\ https_thread_sem = 0
    /\ https_req_total = 0
    /\ https_req_failures = 0
    /\ cert_provisioned = FALSE
    /\ dns_wait = 0
    /\ pc = "take"
    /\ fd = FALSE
    /\ res = FALSE
    /\ off = 0
    /\ request_failed = FALSE
    /\ lpc = "idle"
    /\ link = FALSE
    /\ unheard = FALSE
    /\ denied = FALSE
    /\ passed = 0

\* Arithmetic of uint32_t.
Inc(n) == IF n = CounterMax THEN 0 ELSE n + 1
Minus(a, b) == IF a >= b THEN a - b ELSE a - b + CounterMax + 1

-----------------------------------------------------------------------------
(* The link and the listener.  A publication on WIFI_CHAN runs the         *)
(* listeners before it returns; it fails if the channel stays locked.      *)

LinkUp ==
    /\ lpc = "idle"
    /\ ~link
    /\ link' = TRUE
    /\ \/ unheard' = FALSE /\ lpc' = "connected"
       \/ unheard' = TRUE /\ UNCHANGED lpc
    /\ UNCHANGED <<shared, counters, cert_provisioned, dns_wait, pc, request, denied>>

\* Another DHCP-bound event of a link that is up: published again.
Rebound ==
    /\ lpc = "idle"
    /\ link
    /\ unheard' = FALSE
    /\ lpc' = "connected"
    /\ UNCHANGED <<shared, counters, cert_provisioned, dns_wait, pc, request, link, denied>>

\* app_https_client_notify_disconnected()
LinkDown ==
    /\ lpc = "idle"
    /\ link
    /\ link' = FALSE
    /\ \/ network_ready' = FALSE /\ unheard' = FALSE
       \/ UNCHANGED network_ready /\ unheard' = TRUE
    /\ UNCHANGED <<has_seen_network_connection, https_thread_sem, counters, cert_provisioned,
                   dns_wait, pc, request, lpc, denied>>

\* Mutant: every connection but the first counts as a duplicate.
NotifyDuplicateSeen ==
    /\ lpc = "connected"
    /\ has_seen_network_connection
    /\ lpc' = "idle"
    /\ UNCHANGED <<shared, counters, cert_provisioned, dns_wait, pc, request, link, unheard,
                   denied>>

\* app_https_client_notify_connected(): a duplicate is skipped.
NotifyDuplicate ==
    /\ lpc = "connected"
    /\ network_ready
    /\ lpc' = "idle"
    /\ UNCHANGED <<shared, counters, cert_provisioned, dns_wait, pc, request, link, unheard,
                   denied>>

NotifySeen ==
    /\ lpc = "connected"
    /\ ~network_ready
    /\ lpc' = "seen"
    /\ has_seen_network_connection' = TRUE
    /\ UNCHANGED <<network_ready, https_thread_sem, counters, cert_provisioned, dns_wait, pc,
                   request, link, unheard, denied>>

NotifyReady ==
    /\ lpc = "seen"
    /\ lpc' = "give"
    /\ network_ready' = TRUE
    /\ denied' = FALSE
    /\ UNCHANGED <<has_seen_network_connection, https_thread_sem, counters, cert_provisioned,
                   dns_wait, pc, request, link, unheard>>

\* k_sem_give(): the count stays at its limit 1.
NotifyGive ==
    /\ lpc = "give"
    /\ lpc' = "idle"
    /\ https_thread_sem' = 1
    /\ UNCHANGED <<network_ready, has_seen_network_connection, counters, cert_provisioned,
                   dns_wait, pc, request, link, unheard, denied>>

-----------------------------------------------------------------------------
(* app_https_client_thread(), up to the request loop.                      *)

Goto(from, to) ==
    /\ pc = from
    /\ pc' = to

\* Mutant: the wait has no timeout.
TakeSemForever ==
    /\ Goto("take", "woken")
    /\ https_thread_sem = 1
    /\ https_thread_sem' = 0
    /\ UNCHANGED <<network_ready, has_seen_network_connection, counters, cert_provisioned,
                   dns_wait, request, environment, denied>>

\* k_sem_take() succeeds, or a request interval has passed.
TakeSem ==
    /\ Goto("take", "woken")
    /\ https_thread_sem' = 0
    /\ UNCHANGED <<network_ready, has_seen_network_connection, counters, cert_provisioned,
                   dns_wait, request, environment, denied>>

\* https_record_failed_attempt(), when the thread wakes without a network and
\* when it leaves the request loop.
RecordFailedAttempt ==
    /\ \/ Goto("woken", "take") /\ ~network_ready
       \/ Goto("left", "take")
    /\ has_seen_network_connection
    /\ https_req_total' = Inc(https_req_total)
    /\ https_req_failures' = Inc(https_req_failures)
    /\ UNCHANGED <<shared, passed, cert_provisioned, dns_wait, request, environment, denied>>

\* Never connected so far: nothing is counted.  A thread that leaves the request
\* loop has seen a connection: there the other branch cannot be taken.
NothingToRecord ==
    /\ Goto("woken", "take")
    /\ ~network_ready
    /\ ~has_seen_network_connection
    /\ UNCHANGED <<shared, counters, cert_provisioned, dns_wait, request, environment, denied>>

WokenReady ==
    /\ Goto("woken", IF cert_provisioned THEN "dns" ELSE "cert")
    /\ network_ready
    /\ dns_wait' = 0
    /\ UNCHANGED <<shared, counters, cert_provisioned, request, environment, denied>>

\* cert_provision() registers the certificate, or finds it registered.
CertProvisioned ==
    /\ Goto("cert", "dns")
    /\ cert_provisioned' = TRUE
    /\ UNCHANGED <<shared, counters, dns_wait, request, environment, denied>>

\* cert_provision() fails: the client treats the network as down.
CertFails ==
    /\ Goto("cert", "take")
    /\ network_ready' = FALSE
    /\ denied' = TRUE
    /\ UNCHANGED <<has_seen_network_connection, https_thread_sem, counters, cert_provisioned,
                   dns_wait, request, environment>>

\* The DNS wait ends: the network is lost, the name resolves, or the wait has
\* lasted long enough ("continuing anyway").  Its result is not used.
DnsEnds ==
    /\ Goto("dns", "resolved")
    /\ UNCHANGED <<shared, counters, cert_provisioned, dns_wait, request, environment, denied>>

\* Mutant: the DNS wait has no timeout.
DnsNotReadyNoTimeout ==
    /\ pc = "dns"
    /\ network_ready
    /\ dns_wait' = (dns_wait + 1) % (DnsPolls + 1)
    /\ UNCHANGED <<shared, counters, cert_provisioned, pc, request, environment, denied>>

\* check_dns_ready() fails; another look after DNS_CHECK_INTERVAL_SEC.
DnsNotReady ==
    /\ pc = "dns"
    /\ network_ready
    /\ dns_wait < DnsPolls
    /\ dns_wait' = dns_wait + 1
    /\ UNCHANGED <<shared, counters, cert_provisioned, pc, request, environment, denied>>

\* The network is looked at again after the DNS wait and after the random delay.
NetworkLost ==
    /\ Goto("resolved", "take") \/ Goto("delay", "take")
    /\ ~network_ready
    /\ UNCHANGED <<shared, counters, cert_provisioned, dns_wait, request, environment, denied>>

NetworkKept ==
    /\ Goto("resolved", "delay") \/ Goto("delay", "loop")
    /\ network_ready
    /\ UNCHANGED <<shared, counters, cert_provisioned, dns_wait, request, environment, denied>>

\* The condition of the request loop.
LoopTest ==
    /\ Goto("loop", IF network_ready THEN "entry" ELSE "left")
    /\ UNCHANGED <<shared, counters, cert_provisioned, dns_wait, request, environment, denied>>

-----------------------------------------------------------------------------
(* send_http_request().                                                    *)

\* Mutant: a skipped request is counted in the total.
RequestSkippedCounted ==
    /\ Goto("entry", "interval")
    /\ ~network_ready
    /\ https_req_total' = Inc(https_req_total)
    /\ UNCHANGED <<shared, https_req_failures, passed, cert_provisioned, dns_wait, request,
                   environment, denied>>

RequestSkipped ==
    /\ Goto("entry", "interval")
    /\ ~network_ready
    /\ UNCHANGED <<shared, counters, cert_provisioned, dns_wait, request, environment, denied>>

RequestBegins ==
    /\ Goto("entry", "lookup")
    /\ network_ready
    /\ https_req_total' = Inc(https_req_total)
    /\ UNCHANGED <<shared, https_req_failures, passed, cert_provisioned, dns_wait, request,
                   environment, denied>>

\* DNS_EAI_CANCELED: one retry after 2 s.
LookupCanceled ==
    /\ Goto("lookup", "retry")
    /\ UNCHANGED <<shared, counters, cert_provisioned, dns_wait, request, environment, denied>>

Resolved ==
    /\ Goto("lookup", "socket") \/ Goto("retry", "socket")
    /\ res' = TRUE
    /\ UNCHANGED <<shared, counters, cert_provisioned, dns_wait, fd, off, request_failed,
                   environment, denied>>

SocketOpened ==
    /\ Goto("socket", "tls")
    /\ fd' = TRUE
    /\ UNCHANGED <<shared, counters, cert_provisioned, dns_wait, res, off, request_failed,
                   environment, denied>>

\* tls_setup() sets every option, connect() succeeds, the request is sent.
TlsConnectSend ==
    /\ Goto("tls", "connect") \/ Goto("connect", "send") \/ Goto("send", "recv")
    /\ UNCHANGED <<shared, counters, cert_provisioned, dns_wait, request, environment, denied>>

\* Mutant: recv() is offered the whole buffer whatever it holds.
RecvSomeWhole ==
    /\ pc = "recv"
    /\ off <= BufSize
    /\ \E bytes \in 1..BufSize : off' = off + bytes
    /\ UNCHANGED <<shared, counters, cert_provisioned, dns_wait, pc, fd, res, request_failed,
                   environment, denied>>

\* recv() returns a part of the response, as much as fits at most.
RecvSome ==
    /\ pc = "recv"
    /\ \E bytes \in 1..(BufSize - off) : off' = off + bytes
    /\ UNCHANGED <<shared, counters, cert_provisioned, dns_wait, pc, fd, res, request_failed,
                   environment, denied>>

\* recv() returns 0: the peer has closed, or no room was left in the buffer.
RecvEnds ==
    /\ Goto("recv", "clean_up")
    /\ passed' = Inc(passed)
    /\ UNCHANGED <<shared, https_req_total, https_req_failures, cert_provisioned, dns_wait,
                   request, environment, denied>>

\* Mutant: an error while receiving returns without the clean-up.
StepFailsReturn ==
    /\ \/ \E p \in {"lookup", "retry", "socket", "tls", "connect", "send"} : Goto(p, "clean_up")
       \/ Goto("recv", "interval")
    /\ request_failed' = TRUE
    /\ UNCHANGED <<shared, counters, cert_provisioned, dns_wait, fd, res, off, environment,
                   denied>>

\* A call fails, or its 30 s timeout ends: every error goes to the clean-up.
StepFails ==
    /\ \E p \in {"lookup", "retry", "socket", "tls", "connect", "send", "recv"} :
         Goto(p, "clean_up")
    /\ request_failed' = TRUE
    /\ UNCHANGED <<shared, counters, cert_provisioned, dns_wait, fd, res, off, environment,
                   denied>>

\* Count the failure, close the socket, free the address list.
CleanUp ==
    /\ Goto("clean_up", "interval")
    /\ https_req_failures' = IF request_failed THEN Inc(https_req_failures)
                                               ELSE https_req_failures
    /\ fd' = FALSE
    /\ res' = FALSE
    /\ off' = 0
    /\ request_failed' = FALSE
    /\ UNCHANGED <<shared, https_req_total, passed, cert_provisioned, dns_wait, environment,
                   denied>>

\* k_sleep() of one request interval ends.
IntervalEnds ==
    /\ Goto("interval", "loop")
    /\ UNCHANGED <<shared, counters, cert_provisioned, dns_wait, request, environment, denied>>

-----------------------------------------------------------------------------
Notify ==
    \/ NotifyDuplicate
    \/ NotifySeen
    \/ NotifyReady
    \/ NotifyGive

Request ==
    \/ RequestSkipped
    \/ RequestBegins
    \/ LookupCanceled
    \/ Resolved
    \/ SocketOpened
    \/ TlsConnectSend
    \/ RecvSome
    \/ RecvEnds
    \/ StepFails
    \/ CleanUp

Thread ==
    \/ TakeSem
    \/ RecordFailedAttempt
    \/ NothingToRecord
    \/ WokenReady
    \/ CertProvisioned
    \/ CertFails
    \/ DnsEnds
    \/ DnsNotReady
    \/ NetworkLost
    \/ NetworkKept
    \/ LoopTest
    \/ Request
    \/ IntervalEnds

Next ==
    \/ LinkUp
    \/ Rebound
    \/ LinkDown
    \/ Notify
    \/ Thread

Spec == Init /\ [][Next]_vars

\* The thread runs, its sleeps and its calls end (the sockets have timeouts), and
\* a notification that began goes on.  The link may stay as it is for ever.
FairSpec ==
    /\ Spec
    /\ WF_vars(Thread)
    /\ WF_vars(Notify)

-----------------------------------------------------------------------------
(* Properties.                                                             *)

\* The places inside send_http_request(), once the request is counted.
InRequest == {"lookup", "retry", "socket", "tls", "connect", "send", "recv", "clean_up"}

\* Every variable keeps its type; in particular the offset of the receive loop,
\* which the peer drives, stays within recv_buf.
TypeOK ==
    /\ network_ready \in BOOLEAN
    /\ has_seen_network_connection \in BOOLEAN
    /\ https_thread_sem \in 0..1
    /\ https_req_total \in 0..CounterMax
    /\ https_req_failures \in 0..CounterMax
    /\ passed \in 0..CounterMax
    /\ cert_provisioned \in BOOLEAN
    /\ dns_wait \in 0..DnsPolls
    /\ pc \in {"take", "woken", "cert", "dns", "resolved", "delay", "loop", "left", "entry",
               "interval"} \cup InRequest
    /\ fd \in BOOLEAN
    /\ res \in BOOLEAN
    /\ off \in 0..BufSize
    /\ request_failed \in BOOLEAN
    /\ lpc \in {"idle", "connected", "seen", "give"}
    /\ link \in BOOLEAN
    /\ unheard \in BOOLEAN
    /\ denied \in BOOLEAN

\* However a request ends, nothing of it is left: no socket, no address list and
\* no verdict survive send_http_request(), so years of failing requests cannot
\* exhaust the socket table.  While a socket is used, its address list is held.
NoLeak ==
    /\ pc \notin InRequest => ~fd /\ ~res /\ ~request_failed
    /\ fd => res

\* The pass count of the log lines, https_req_total - https_req_failures in
\* 32-bit arithmetic, is the number of responses read to their end: through
\* skipped requests, failures at any call, outages, and the wrap of a counter.
PassCountIsTrue ==
    pc \notin InRequest => Minus(https_req_total, https_req_failures) = passed

\* Between notifications network_ready is what the link is, unless the last change
\* was not published or provisioning failed: the duplicate test of
\* app_https_client_notify_connected() skips nothing that is needed.
ReadyTracksLink ==
    lpc = "idle" =>
        /\ network_ready => link \/ unheard
        /\ link => network_ready \/ unheard \/ denied

\* app_https_client.c:381: "Keep waking on request interval while disconnected so
\* tests keep running and are counted as failures", also when the network is lost
\* in the middle of a request, of the DNS wait or of a sleep.
OutageKeepsCounting ==
    <>[](has_seen_network_connection /\ ~network_ready)
        => []<><<RecordFailedAttempt>>_vars

\* A link that stays up is used for ever: requests keep being sent, whatever the
\* resolver and the peer do, unless the client was not told or has no certificate.
LinkLeadsToRequests ==
    <>[](link /\ ~unheard /\ ~denied) => []<>(pc = "lookup")
=============================================================================
