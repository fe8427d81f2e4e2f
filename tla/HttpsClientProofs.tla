-------------------------- MODULE HttpsClientProofs --------------------------
(***************************************************************************)
(* Proofs about HttpsClient, for every buffer size, DNS wait and width of  *)
(* the counters.                                                           *)
(***************************************************************************)
EXTENDS HttpsClient, TLAPS

\* A uint32_t stays a uint32_t.
LEMMA IncType == \A n \in 0..CounterMax : Inc(n) \in 0..CounterMax
  BY CounterMaxAssumption DEF Inc

\* The two halves of TypeOK: the flags, and everything else.
Flags ==
    /\ network_ready \in BOOLEAN
    /\ has_seen_network_connection \in BOOLEAN
    /\ cert_provisioned \in BOOLEAN
    /\ fd \in BOOLEAN
    /\ res \in BOOLEAN
    /\ request_failed \in BOOLEAN
    /\ link \in BOOLEAN
    /\ unheard \in BOOLEAN
    /\ denied \in BOOLEAN

Data ==
    /\ https_thread_sem \in 0..1
    /\ https_req_total \in 0..CounterMax
    /\ https_req_failures \in 0..CounterMax
    /\ passed \in 0..CounterMax
    /\ dns_wait \in 0..DnsPolls
    /\ pc \in {"take", "woken", "cert", "dns", "resolved", "delay", "loop", "left", "entry",
               "interval"} \cup InRequest
    /\ off \in 0..BufSize
    /\ lpc \in {"idle", "connected", "seen", "give"}

LEMMA TypeHalves == TypeOK <=> Flags /\ Data
  BY DEF TypeOK, Flags, Data

\* Every action assigns a flag a truth value or leaves it alone.
LEMMA FlagsStep == Flags /\ [Next]_vars => Flags'
  <1> SUFFICES ASSUME Flags, [Next]_vars PROVE Flags'
    OBVIOUS
  <1> USE DEF Flags, shared, request, environment
  <1>1. CASE LinkUp \/ Rebound \/ LinkDown
    BY <1>1, Zenon DEF LinkUp, Rebound, LinkDown
  <1>2. CASE Notify
    BY <1>2, Zenon DEF Notify, NotifyDuplicate, NotifySeen, NotifyReady, NotifyGive
  <1>3. CASE TakeSem \/ RecordFailedAttempt \/ NothingToRecord \/ WokenReady
    BY <1>3, Zenon DEF TakeSem, RecordFailedAttempt, NothingToRecord, WokenReady
  <1>4. CASE CertProvisioned \/ CertFails \/ DnsEnds \/ DnsNotReady
    BY <1>4, Zenon DEF CertProvisioned, CertFails, DnsEnds, DnsNotReady
  <1>5. CASE NetworkLost \/ NetworkKept \/ LoopTest \/ IntervalEnds
    BY <1>5, Zenon DEF NetworkLost, NetworkKept, LoopTest, IntervalEnds
  <1>6. CASE RequestSkipped \/ RequestBegins \/ LookupCanceled \/ Resolved \/ SocketOpened
    BY <1>6, Zenon DEF RequestSkipped, RequestBegins, LookupCanceled, Resolved, SocketOpened
  <1>7. CASE TlsConnectSend \/ RecvSome \/ RecvEnds \/ StepFails \/ CleanUp
    BY <1>7, Zenon DEF TlsConnectSend, RecvSome, RecvEnds, StepFails, CleanUp
  <1>8. CASE UNCHANGED vars
    BY <1>8, Zenon DEF vars
  <1>9. QED
    BY <1>1, <1>2, <1>3, <1>4, <1>5, <1>6, <1>7, <1>8 DEF Next, Thread, Request

\* Every action keeps the other types; the receive loop keeps its offset in the
\* buffer.
LEMMA DataStep == Data /\ [Next]_vars => Data'
  <1> SUFFICES ASSUME Data, [Next]_vars PROVE Data'
    OBVIOUS
  <1> USE DEF Data, InRequest, Goto, shared, counters, request, environment
  <1>1. CASE LinkUp \/ Rebound \/ LinkDown
    BY <1>1 DEF LinkUp, Rebound, LinkDown
  <1>2. CASE Notify
    BY <1>2 DEF Notify, NotifyDuplicate, NotifySeen, NotifyReady, NotifyGive
  <1>3. CASE TakeSem \/ NothingToRecord \/ CertProvisioned \/ CertFails
    BY <1>3 DEF TakeSem, NothingToRecord, CertProvisioned, CertFails
  <1>4. CASE RecordFailedAttempt
    BY <1>4, IncType DEF RecordFailedAttempt
  <1>5. CASE WokenReady \/ DnsEnds \/ DnsNotReady
    BY <1>5, DnsPollsAssumption DEF WokenReady, DnsEnds, DnsNotReady
  <1>6. CASE NetworkLost \/ NetworkKept \/ LoopTest \/ IntervalEnds
    BY <1>6 DEF NetworkLost, NetworkKept, LoopTest, IntervalEnds
  <1>7. CASE RequestSkipped \/ LookupCanceled \/ Resolved \/ SocketOpened \/ TlsConnectSend
    BY <1>7 DEF RequestSkipped, LookupCanceled, Resolved, SocketOpened, TlsConnectSend
  <1>8. CASE RequestBegins \/ RecvEnds
    BY <1>8, IncType DEF RequestBegins, RecvEnds
  <1>9. CASE RecvSome
    BY <1>9, BufSizeAssumption DEF RecvSome
  <1>10. CASE StepFails
    BY <1>10 DEF StepFails
  <1>11. CASE CleanUp
    BY <1>11, IncType, BufSizeAssumption DEF CleanUp
  <1>12. CASE UNCHANGED vars
    BY <1>12 DEF vars
  <1>13. QED
    BY <1>1, <1>2, <1>3, <1>4, <1>5, <1>6, <1>7, <1>8, <1>9, <1>10, <1>11, <1>12
       DEF Next, Thread, Request

LEMMA InitTypes == Init => Flags /\ Data
  <1>1. Init => Flags
    BY Zenon DEF Init, Flags
  <1>2. Init => Data
    BY DnsPollsAssumption, BufSizeAssumption, CounterMaxAssumption DEF Init, Data
  <1>3. QED
    BY <1>1, <1>2

\* For every instance the types hold: the peer can never make the client write
\* beyond its receive buffer.
THEOREM TypesHold == Spec => []TypeOK
  BY InitTypes, FlagsStep, DataStep, TypeHalves, PTL DEF Spec

-----------------------------------------------------------------------------
(* Nothing of a request is left.                                           *)

\* What a request holds at each place: the address list from its resolution on,
\* the socket from its creation on, a verdict only on the way to the clean-up.
HeldInv ==
    /\ pc \notin InRequest \/ pc \in {"lookup", "retry", "socket"} => ~fd
    /\ pc \notin InRequest \/ pc \in {"lookup", "retry"} => ~res
    /\ pc \in {"socket", "tls", "connect", "send", "recv"} => res
    /\ fd => res
    /\ pc # "clean_up" => ~request_failed

LEMMA HeldStep == HeldInv /\ [Next]_vars => HeldInv'
  <1> SUFFICES ASSUME HeldInv, [Next]_vars PROVE HeldInv'
    OBVIOUS
  <1> USE DEF HeldInv, InRequest, Goto, request
  <1>1. CASE LinkUp \/ Rebound \/ LinkDown
    BY <1>1 DEF LinkUp, Rebound, LinkDown
  <1>2. CASE Notify
    BY <1>2 DEF Notify, NotifyDuplicate, NotifySeen, NotifyReady, NotifyGive
  <1>3. CASE TakeSem \/ RecordFailedAttempt \/ NothingToRecord \/ WokenReady
    BY <1>3 DEF TakeSem, RecordFailedAttempt, NothingToRecord, WokenReady
  <1>4. CASE CertProvisioned \/ CertFails \/ DnsEnds \/ DnsNotReady
    BY <1>4 DEF CertProvisioned, CertFails, DnsEnds, DnsNotReady
  <1>5. CASE NetworkLost \/ NetworkKept \/ LoopTest \/ IntervalEnds
    BY <1>5 DEF NetworkLost, NetworkKept, LoopTest, IntervalEnds
  <1>6. CASE RequestSkipped \/ RequestBegins \/ LookupCanceled
    BY <1>6 DEF RequestSkipped, RequestBegins, LookupCanceled
  <1>7. CASE Resolved \/ SocketOpened \/ TlsConnectSend
    BY <1>7 DEF Resolved, SocketOpened, TlsConnectSend
  <1>8. CASE RecvSome \/ RecvEnds \/ StepFails \/ CleanUp
    BY <1>8 DEF RecvSome, RecvEnds, StepFails, CleanUp
  <1>9. CASE UNCHANGED vars
    BY <1>9 DEF vars
  <1>10. QED
    BY <1>1, <1>2, <1>3, <1>4, <1>5, <1>6, <1>7, <1>8, <1>9 DEF Next, Thread, Request

\* For every instance: no error path of send_http_request() leaves a socket or an
\* address list behind.
THEOREM NothingLeaks == Spec => []NoLeak
  <1>1. Init => HeldInv
    BY DEF Init, HeldInv, InRequest
  <1>2. HeldInv => NoLeak
    BY DEF HeldInv, NoLeak, InRequest
  <1>3. QED
    BY <1>1, <1>2, HeldStep, PTL DEF Spec

-----------------------------------------------------------------------------
(* The pass count.                                                         *)

\* A request whose outcome is not counted yet, or is a failure to be counted.
Open ==
    \/ pc \in {"lookup", "retry", "socket", "tls", "connect", "send", "recv"}
    \/ pc = "clean_up" /\ request_failed

\* The counters are ahead of the passes by the open request.
PassInv ==
    Minus(https_req_total, https_req_failures) = IF Open THEN Inc(passed) ELSE passed

\* Counting one more in both operands keeps the difference, in the first operand
\* raises it by one, and in the second takes such a rise back.
LEMMA CounterArithmetic ==
    ASSUME NEW t \in 0..CounterMax, NEW f \in 0..CounterMax, NEW p \in 0..CounterMax
    PROVE  /\ Minus(Inc(t), Inc(f)) = Minus(t, f)
           /\ Minus(Inc(t), f) = Inc(Minus(t, f))
           /\ Minus(t, f) = Inc(p) => Minus(t, Inc(f)) = p
  BY CounterMaxAssumption DEF Minus, Inc

LEMMA PassStep == Data /\ HeldInv /\ PassInv /\ [Next]_vars => PassInv'
  <1> SUFFICES ASSUME Data, HeldInv, PassInv, [Next]_vars PROVE PassInv'
    OBVIOUS
  <1>t. /\ https_req_total \in 0..CounterMax
        /\ https_req_failures \in 0..CounterMax
        /\ passed \in 0..CounterMax
    BY DEF Data
  <1>f. pc # "clean_up" => ~request_failed
    BY DEF HeldInv
  <1> USE DEF Goto, PassInv, Open, InRequest, counters, request
  <1>1. CASE LinkUp \/ Rebound \/ LinkDown
    BY <1>1 DEF LinkUp, Rebound, LinkDown
  <1>2. CASE Notify
    BY <1>2 DEF Notify, NotifyDuplicate, NotifySeen, NotifyReady, NotifyGive
  <1>3. CASE TakeSem \/ NothingToRecord \/ WokenReady \/ CertProvisioned \/ CertFails
    BY <1>3 DEF TakeSem, NothingToRecord, WokenReady, CertProvisioned, CertFails
  <1>4. CASE RecordFailedAttempt
    <2>1. ~Open /\ ~Open'
      BY <1>4 DEF RecordFailedAttempt
    <2>2. /\ https_req_total' = Inc(https_req_total)
          /\ https_req_failures' = Inc(https_req_failures)
          /\ passed' = passed
      BY <1>4 DEF RecordFailedAttempt
    <2>3. QED
      BY <2>1, <2>2, <1>t, CounterArithmetic
  <1>5. CASE DnsEnds \/ DnsNotReady \/ NetworkLost \/ NetworkKept \/ LoopTest \/ IntervalEnds
    BY <1>5 DEF DnsEnds, DnsNotReady, NetworkLost, NetworkKept, LoopTest, IntervalEnds
  <1>6. CASE RequestSkipped \/ LookupCanceled \/ Resolved \/ SocketOpened \/ TlsConnectSend
    BY <1>6 DEF RequestSkipped, LookupCanceled, Resolved, SocketOpened, TlsConnectSend
  <1>7. CASE RequestBegins
    <2>1. ~Open /\ Open'
      BY <1>7 DEF RequestBegins
    <2>2. /\ https_req_total' = Inc(https_req_total)
          /\ UNCHANGED <<https_req_failures, passed>>
      BY <1>7 DEF RequestBegins
    <2>3. QED
      BY <2>1, <2>2, <1>t, CounterArithmetic
  <1>8. CASE RecvSome \/ StepFails
    <2>1. Open
      BY <1>8 DEF RecvSome, StepFails
    <2>2. \/ pc' = "recv"
          \/ pc' = "clean_up" /\ request_failed'
      BY <1>8 DEF RecvSome, StepFails
    <2>3. Open'
      BY <2>2
    <2>4. QED
      BY <1>8, <2>1, <2>3 DEF RecvSome, StepFails
  <1>9. CASE RecvEnds
    <2>1. pc = "recv" /\ ~request_failed'
      BY <1>9, <1>f DEF RecvEnds
    <2>2. Open /\ ~Open'
      BY <1>9, <2>1 DEF RecvEnds
    <2>3. QED
      BY <1>9, <2>2 DEF RecvEnds
  <1>10. CASE CleanUp
    <2>1. CASE request_failed
      <3>1. Open /\ ~Open'
        BY <1>10, <2>1 DEF CleanUp
      <3>2. /\ https_req_failures' = Inc(https_req_failures)
            /\ UNCHANGED <<https_req_total, passed>>
        BY <1>10, <2>1 DEF CleanUp
      <3>3. QED
        BY <3>1, <3>2, <1>t, CounterArithmetic
    <2>2. CASE ~request_failed
      BY <1>10, <2>2 DEF CleanUp
    <2>3. QED
      BY <2>1, <2>2
  <1>11. CASE UNCHANGED vars
    BY <1>11 DEF vars
  <1>12. QED
    BY <1>1, <1>2, <1>3, <1>4, <1>5, <1>6, <1>7, <1>8, <1>9, <1>10, <1>11
       DEF Next, Thread, Request

\* For every width of the counters: the reported pass count is the number of
\* responses read to their end, also after a counter has wrapped.
THEOREM PassCountHolds == Spec => []PassCountIsTrue
  <1>1. Init => HeldInv /\ PassInv
    <2>1. Init => HeldInv /\ ~Open
      BY DEF Init, HeldInv, Open, InRequest
    <2>2. QED
      BY <2>1 DEF Init, PassInv, Minus
  <1>2. PassInv => PassCountIsTrue
    BY DEF PassInv, Open, PassCountIsTrue, InRequest
  <1>3. QED
    BY <1>1, <1>2, InitTypes, DataStep, HeldStep, PassStep, PTL DEF Spec

-----------------------------------------------------------------------------
(* The client's view of the link.                                          *)

\* While a connection is being notified the link is up, and the notification
\* that has passed the duplicate test is about to make the client ready.
LinkInv ==
    /\ network_ready => link \/ unheard
    /\ lpc # "idle" => link /\ ~unheard
    /\ lpc = "idle" /\ link => network_ready \/ unheard \/ denied
    /\ lpc = "give" => network_ready \/ denied

LEMMA LinkStep == LinkInv /\ [Next]_vars => LinkInv'
  <1> SUFFICES ASSUME LinkInv, [Next]_vars PROVE LinkInv'
    OBVIOUS
  <1> USE DEF LinkInv, shared, environment
  <1>1. CASE LinkUp \/ Rebound \/ LinkDown
    BY <1>1 DEF LinkUp, Rebound, LinkDown
  <1>2. CASE Notify
    BY <1>2 DEF Notify, NotifyDuplicate, NotifySeen, NotifyReady, NotifyGive
  <1>3. CASE TakeSem \/ RecordFailedAttempt \/ NothingToRecord \/ WokenReady \/ CertProvisioned
    BY <1>3 DEF TakeSem, RecordFailedAttempt, NothingToRecord, WokenReady, CertProvisioned
  <1>4. CASE CertFails
    BY <1>4 DEF CertFails
  <1>5. CASE DnsEnds \/ DnsNotReady \/ NetworkLost \/ NetworkKept \/ LoopTest \/ IntervalEnds
    BY <1>5 DEF DnsEnds, DnsNotReady, NetworkLost, NetworkKept, LoopTest, IntervalEnds
  <1>6. CASE Request
    BY <1>6 DEF Request, RequestSkipped, RequestBegins, LookupCanceled, Resolved, SocketOpened,
                TlsConnectSend, RecvSome, RecvEnds, StepFails, CleanUp
  <1>7. CASE UNCHANGED vars
    BY <1>7 DEF vars
  <1>8. QED
    BY <1>1, <1>2, <1>3, <1>4, <1>5, <1>6, <1>7 DEF Next, Thread

\* For every instance: the client's idea of the network is wrong only after a
\* publication that failed or a certificate that was not provisioned.
THEOREM ReadyIsRight == Spec => []ReadyTracksLink
  <1>1. Init => LinkInv
    BY DEF Init, LinkInv
  <1>2. LinkInv => ReadyTracksLink
    BY DEF LinkInv, ReadyTracksLink
  <1>3. QED
    BY <1>1, <1>2, LinkStep, PTL DEF Spec
=============================================================================
