-------------------------- MODULE MqttClientProofs --------------------------
(***************************************************************************)
(* Proofs about MqttClient, for every threshold, DNS wait and bound.       *)
(***************************************************************************)
EXTENDS MqttClient, FiniteSetTheorems, WellFoundedInduction, TLAPS

(* The actions in groups that leave the same things alone.                 *)

\* The steps of the thread that touch neither the echo test nor the connection.
QuietThread ==
    \/ InitHelper \/ Wake \/ DnsNetworkLost \/ DnsDone \/ DnsNotReady \/ InitialDelay
    \/ LoopBegin \/ ConnectLoopEnds \/ HelperRefuses \/ ConnectInitiated \/ BackoffEnds
    \/ PublishLoopEnds

\* The steps that change the state of the connection.
ConnSteps ==
    \/ NotifyConnected \/ NotifyDisconnected \/ NotifyNotConnected \/ NotifyHelperDisconnect
    \/ NotifySetState \/ OnConnack \/ OnConnackRejected \/ OnSuback \/ DoConnect
    \/ HelperConnects \/ ConnectFailed

\* What is left: the end of a connection, and the echo test.
EchoSteps ==
    \/ OnDisconnect \/ OnSubackRefused \/ PublishSend \/ PublishFails \/ PublishDone
    \/ \E m \in echoes : OnPublish(m)

LEMMA NextGroups == Next <=> QuietThread \/ ConnSteps \/ EchoSteps
  BY Zenon DEF Next, Notify, Callback, Thread, QuietThread, ConnSteps, EchoSteps

\* A quiet step of the thread leaves everything but the thread and the semaphore.
LEMMA QuietLeaves ==
    ASSUME QuietThread
    PROVE  /\ UNCHANGED <<current_state, network_ready, npc>>
           /\ UNCHANGED count /\ UNCHANGED session /\ UNCHANGED history
           /\ pc # "published" /\ pc' # "published"
           /\ pc' \in {"connecting", "connect_err"} => pc = "connecting" /\ pc' = "connect_err"
           /\ pc \in {"connecting", "connect_err"} => pc' = "connect_err"
  BY DEF QuietThread, InitHelper, Wake, DnsNetworkLost, DnsDone, DnsNotReady, InitialDelay,
         LoopBegin, ConnectLoopEnds, HelperRefuses, ConnectInitiated, BackoffEnds,
         PublishLoopEnds, Goto, conn

\* A step of the connection leaves the echo test alone.
LEMMA ConnLeaves ==
    ASSUME ConnSteps
    PROVE  /\ UNCHANGED count /\ UNCHANGED history /\ UNCHANGED echoes
           /\ pc # "published" \/ pc' = pc
           /\ pc' = "published" => pc = "published"
  BY DEF ConnSteps, NotifyConnected, NotifyDisconnected, NotifyNotConnected,
         NotifyHelperDisconnect, NotifySetState, OnConnack, OnConnackRejected, OnSuback,
         DoConnect, HelperConnects, ConnectFailed, Goto, thread, session

-----------------------------------------------------------------------------
(* The state of the connection.                                            *)

\* Every step keeps a connection attempt answerable, and the belief in a
\* connection founded: both properties are inductive.
LEMMA ConnectingStep ==
    NotStuckConnecting /\ NoGhostConnection /\ [Next]_vars
        => NotStuckConnecting' /\ NoGhostConnection'
  <1> SUFFICES ASSUME NotStuckConnecting, NoGhostConnection, [Next]_vars
               PROVE  NotStuckConnecting' /\ NoGhostConnection'
    OBVIOUS
  <1> USE DEF NotStuckConnecting, NoGhostConnection
  <1>1. CASE QuietThread
    BY <1>1, QuietLeaves DEF session
  <1>2. CASE \/ NotifyConnected \/ NotifyDisconnected \/ NotifyNotConnected
             \/ NotifyHelperDisconnect \/ NotifySetState
    BY <1>2
       DEF NotifyConnected, NotifyDisconnected, NotifyNotConnected, NotifyHelperDisconnect,
           NotifySetState, conn, thread, session
  <1>3. CASE OnConnack \/ OnConnackRejected \/ OnSuback
    BY <1>3 DEF OnConnack, OnConnackRejected, OnSuback, conn, thread
  <1>4. CASE DoConnect \/ HelperConnects \/ ConnectFailed
    BY <1>4 DEF DoConnect, HelperConnects, ConnectFailed, Goto, conn, session
  <1>5. CASE OnDisconnect \/ OnSubackRefused \/ \E m \in echoes : OnPublish(m)
    BY <1>5 DEF OnDisconnect, OnSubackRefused, OnPublish, conn, thread
  <1>6. CASE PublishSend \/ PublishFails \/ PublishDone
    BY <1>6 DEF PublishSend, PublishFails, PublishDone, NextMessage, Goto, conn, thread, session
  <1>7. CASE UNCHANGED vars
    BY <1>7 DEF vars, conn, thread, session
  <1>8. QED
    BY <1>1, <1>2, <1>3, <1>4, <1>5, <1>6, <1>7, NextGroups DEF ConnSteps, EchoSteps

LEMMA ConnectingHolds == Spec => [](NotStuckConnecting /\ NoGhostConnection)
  <1>1. Init => NotStuckConnecting /\ NoGhostConnection
    BY DEF Init, NotStuckConnecting, NoGhostConnection
  <1>2. QED
    BY <1>1, ConnectingStep, PTL DEF Spec

\* For every instance: in the state CONNECTING the thread is inside
\* mqtt_do_connect() or the helper still owes a callback.
THEOREM ConnectingIsAnswered == Spec => []NotStuckConnecting
  BY ConnectingHolds, PTL

\* For every instance: in the state CONNECTED there is a connection, or the
\* listener is about to clear the state.
THEOREM ConnectedIsReal == Spec => []NoGhostConnection
  BY ConnectingHolds, PTL

-----------------------------------------------------------------------------
(* One silence, one timeout.                                               *)

\* Once a silence has been counted, the distance to the last echo has reached the
\* threshold, and the next publish takes it beyond: it never equals it again.
SilenceInv ==
    /\ message_count \in Nat
    /\ last_echo_at_msg \in Nat
    /\ timeouts \in {0, 1}
    /\ timeouts = 1 =>
         \/ message_count - last_echo_at_msg > EchoThreshold
         \/ message_count - last_echo_at_msg = EchoThreshold /\ pc # "published"

\* Only the publish that makes the distance equal to the threshold counts.
LEMMA SilenceStep == SilenceInv /\ [Next]_vars => SilenceInv'
  <1> SUFFICES ASSUME SilenceInv, [Next]_vars PROVE SilenceInv'
    OBVIOUS
  <1> USE EchoThresholdAssumption DEF SilenceInv
  <1>1. CASE QuietThread
    BY <1>1, QuietLeaves DEF count, history
  <1>2. CASE ConnSteps
    BY <1>2, ConnLeaves DEF count, history
  <1>3. CASE OnDisconnect \/ OnSubackRefused
    BY <1>3 DEF OnDisconnect, OnSubackRefused, count, thread, history
  <1>4. ASSUME NEW m \in echoes, OnPublish(m) PROVE SilenceInv'
    BY <1>4 DEF OnPublish
  <1>5. CASE PublishSend
    BY <1>5 DEF PublishSend, NextMessage, Goto
  <1>6. CASE PublishFails
    BY <1>6 DEF PublishFails, NextMessage, thread, history
  <1>7. CASE PublishDone
    BY <1>7 DEF PublishDone, Goto, EchoTimeout
  <1>8. CASE UNCHANGED vars
    BY <1>8 DEF vars, count, thread, history
  <1>9. QED
    BY <1>1, <1>2, <1>3, <1>4, <1>5, <1>6, <1>7, <1>8, NextGroups DEF EchoSteps

\* For every instance: a silence adds at most one echo timeout.
THEOREM OneTimeoutPerSilence == Spec => []EchoTimeoutOnce
  <1>1. Init => SilenceInv
    BY DEF Init, SilenceInv
  <1>2. SilenceInv => EchoTimeoutOnce
    BY DEF SilenceInv, EchoTimeoutOnce
  <1>3. QED
    BY <1>1, <1>2, SilenceStep, PTL DEF Spec

-----------------------------------------------------------------------------
(* The verdict on an echo.                                                 *)

\* Only messages that were handed over are echoed, and once the call that hands
\* the newest one over has returned, its number is the one remembered.
VerdictInv ==
    /\ message_count \in Nat
    /\ echoes \subseteq 1..message_count
    /\ message_count \in echoes /\ pc # "published" => last_published_count = message_count

LEMMA VerdictStep == VerdictInv /\ [Next]_vars => VerdictInv'
  <1> SUFFICES ASSUME VerdictInv, [Next]_vars PROVE VerdictInv'
    OBVIOUS
  <1> USE DEF VerdictInv
  <1>1. CASE QuietThread
    BY <1>1, QuietLeaves DEF count, session
  <1>2. CASE ConnSteps
    BY <1>2, ConnLeaves DEF count
  <1>3. CASE OnDisconnect \/ OnSubackRefused
    BY <1>3 DEF OnDisconnect, OnSubackRefused, count, thread
  <1>4. ASSUME NEW m \in echoes, OnPublish(m) PROVE VerdictInv'
    BY <1>4 DEF OnPublish, thread
  <1>5. CASE PublishSend
    <2>1. message_count' = message_count + 1 /\ pc' = "published"
      BY <1>5 DEF PublishSend, NextMessage, Goto
    <2>2. echoes' \subseteq echoes \cup {message_count'}
      BY <1>5 DEF PublishSend
    <2>3. QED
      BY <2>1, <2>2
  <1>6. CASE PublishFails
    BY <1>6 DEF PublishFails, NextMessage, thread, session
  <1>7. CASE PublishDone
    BY <1>7 DEF PublishDone, Goto, session
  <1>8. CASE UNCHANGED vars
    BY <1>8 DEF vars, count, thread, session
  <1>9. QED
    BY <1>1, <1>2, <1>3, <1>4, <1>5, <1>6, <1>7, <1>8, NextGroups DEF EchoSteps

\* For every instance: the newest message's echo is only judged a mismatch while
\* mqtt_helper_publish() has not returned.
THEOREM VerdictIsRight == Spec => MismatchIsStale
  <1>1. Init => VerdictInv
    BY DEF Init, VerdictInv
  <1>2. VerdictInv => \A m \in echoes : OnPublish(m) /\ Mismatch(m) =>
                                            m < message_count \/ pc = "published"
    BY DEF VerdictInv, Mismatch
  <1>3. QED
    BY <1>1, <1>2, VerdictStep, PTL DEF Spec, MismatchIsStale

-----------------------------------------------------------------------------
(* The pass count.                                                         *)

\* An echo on its way may still pass; a message just handed over may still time out.
PassInv ==
    /\ message_count \in Nat
    /\ sub_fails \in Nat
    /\ passes \in Int
    /\ IsFiniteSet(echoes)
    /\ passes + Cardinality(echoes) <= message_count
    /\ passes + message_count + sub_fails >= IF pc = "published" THEN 1 ELSE 0

LEMMA PassStep == PassInv /\ [Next]_vars => PassInv'
  <1> SUFFICES ASSUME PassInv, [Next]_vars PROVE PassInv'
    OBVIOUS
  <1>c. Cardinality(echoes) \in Nat
    BY FS_CardinalityType DEF PassInv
  <1>1. CASE QuietThread
    BY <1>1, QuietLeaves DEF PassInv, count, session, history
  <1>2. CASE ConnSteps
    BY <1>2, ConnLeaves DEF PassInv, count, history
  <1>3. CASE OnDisconnect
    <2>1. IsFiniteSet({}) /\ Cardinality({}) = 0
      BY FS_EmptySet
    <2>2. QED
      BY <1>3, <1>c, <2>1 DEF OnDisconnect, PassInv, count, thread, history
  <1>4. CASE OnSubackRefused
    BY <1>4, <1>c DEF OnSubackRefused, PassInv, thread
  <1>5. ASSUME NEW m \in echoes, OnPublish(m) PROVE PassInv'
    <2>1. IsFiniteSet(echoes') /\ Cardinality(echoes') = Cardinality(echoes) - 1
      BY <1>5, FS_RemoveElement DEF OnPublish, PassInv
    <2>2. QED
      BY <1>5, <1>c, <2>1 DEF OnPublish, PassInv, thread
  <1>6. CASE PublishSend
    <2>1. IsFiniteSet(echoes') /\ Cardinality(echoes') <= Cardinality(echoes) + 1
      <3>1. CASE echoes' = echoes \cup {message_count'}
        <4>1. IsFiniteSet(echoes)
          BY DEF PassInv
        <4>2. /\ IsFiniteSet(echoes')
              /\ Cardinality(echoes') = IF message_count' \in echoes THEN Cardinality(echoes)
                                        ELSE Cardinality(echoes) + 1
          BY <3>1, <4>1, FS_AddElement, Zenon
        <4>3. QED
          BY <1>c, <4>2
      <3>2. CASE echoes' = echoes
        BY <3>2, <1>c DEF PassInv
      <3>3. QED
        BY <1>6, <3>1, <3>2 DEF PublishSend
    <2>2. Cardinality(echoes') \in Nat
      BY <2>1, FS_CardinalityType
    <2>3. QED
      BY <1>6, <1>c, <2>1, <2>2 DEF PublishSend, NextMessage, Goto, PassInv
  <1>7. CASE PublishFails
    BY <1>7, <1>c DEF PublishFails, NextMessage, PassInv, thread, session, history
  <1>8. CASE PublishDone
    BY <1>8, <1>c DEF PublishDone, Goto, PassInv, session
  <1>9. CASE UNCHANGED vars
    BY <1>9 DEF PassInv, vars, count, thread, session, history
  <1>10. QED
    BY <1>1, <1>2, <1>3, <1>4, <1>5, <1>6, <1>7, <1>8, <1>9, NextGroups DEF EchoSteps

\* For every instance: the pass count is too low by the messages and the refused
\* subscriptions at most, and never above the messages.
THEOREM PassCountHolds == Spec => []PassCountBounded
  <1>1. Init => PassInv
    BY FS_EmptySet DEF Init, PassInv
  <1>2. PassInv => PassCountBounded
    BY FS_CardinalityType DEF PassInv, PassCountBounded
  <1>3. QED
    BY <1>1, <1>2, PassStep, PTL DEF Spec

-----------------------------------------------------------------------------
(* A silence after an echo is counted.                                     *)

\* The publishes of a silence are at most the numbers used in it; if they are all of
\* them, the crossing of the threshold is seen when the publish call has returned.
FiresInv ==
    /\ silent \in Nat
    /\ silent <= message_count - last_echo_at_msg
    /\ last_echo_at_msg > 0 /\ silent = message_count - last_echo_at_msg
          /\ (silent > EchoThreshold \/ (silent = EchoThreshold /\ pc # "published"))
       => timeouts = 1

LEMMA FiresStep == SilenceInv /\ FiresInv /\ [Next]_vars => FiresInv'
  <1> SUFFICES ASSUME SilenceInv, FiresInv, [Next]_vars PROVE FiresInv'
    OBVIOUS
  <1> USE EchoThresholdAssumption DEF SilenceInv, FiresInv
  <1>1. CASE QuietThread
    BY <1>1, QuietLeaves DEF count, history
  <1>2. CASE ConnSteps
    BY <1>2, ConnLeaves DEF count, history
  <1>3. CASE OnDisconnect \/ OnSubackRefused
    BY <1>3 DEF OnDisconnect, OnSubackRefused, count, thread, history
  <1>4. ASSUME NEW m \in echoes, OnPublish(m) PROVE FiresInv'
    BY <1>4 DEF OnPublish
  <1>5. CASE PublishSend
    BY <1>5 DEF PublishSend, NextMessage, Goto
  <1>6. CASE PublishFails
    BY <1>6 DEF PublishFails, NextMessage, thread, history
  <1>7. CASE PublishDone
    BY <1>7 DEF PublishDone, Goto, EchoTimeout
  <1>8. CASE UNCHANGED vars
    BY <1>8 DEF vars, count, thread, history
  <1>9. QED
    BY <1>1, <1>2, <1>3, <1>4, <1>5, <1>6, <1>7, <1>8, NextGroups DEF EchoSteps

\* For every instance: a silence that began with an echo, and in which no publish
\* failed, has its timeout counted once it is longer than the threshold.
THEOREM SilenceAfterEchoCounted == Spec => []EchoTimeoutFires
  <1>1. Init => SilenceInv /\ FiresInv
    BY EchoThresholdAssumption DEF Init, SilenceInv, FiresInv
  <1>2. FiresInv => EchoTimeoutFires
    BY EchoThresholdAssumption DEF FiresInv, EchoTimeoutFires
  <1>3. QED
    BY <1>1, <1>2, SilenceStep, FiresStep, PTL DEF Spec

-----------------------------------------------------------------------------
(* mqtt_backoff_sec() and the capped doubling.                             *)

\* The smaller of two numbers.
LEMMA MinPair == \A a, b \in Int : Min({a, b}) = IF a <= b THEN a ELSE b
  BY DEF Min

\* Every non-empty set of naturals has a least element.
LEMMA LeastNatural ==
  ASSUME NEW T \in SUBSET Nat, T # {}
  PROVE  \E x \in T : \A y \in T : x <= y
  <1>1. \E x \in T : \A y \in T : ~(<<y, x>> \in OpToRel(<, Nat))
    BY NatLessThanWellFounded, WFMin, Zenon
  <1>2. \A x, y \in Nat : y < x => <<y, x>> \in OpToRel(<, Nat)
    BY DEF OpToRel
  <1>3. \A x, y \in Nat : ~(y < x) => x <= y
    OBVIOUS
  <1>4. QED
    BY <1>1, <1>2, <1>3, Zenon

\* The word loses the upper bits of 30 from a shift by 28 on, and the last by 31.
LEMMA KeptValues ==
  /\ KeptBits(0) = 30 /\ KeptBits(1) = 30 /\ KeptBits(2) = 30 /\ KeptBits(3) = 30
  /\ KeptBits(4) = 30 /\ KeptBits(5) = 30 /\ KeptBits(6) = 30 /\ KeptBits(7) = 30
  /\ KeptBits(8) = 30 /\ KeptBits(9) = 30 /\ KeptBits(10) = 30 /\ KeptBits(11) = 30
  /\ KeptBits(12) = 30 /\ KeptBits(13) = 30 /\ KeptBits(14) = 30 /\ KeptBits(15) = 30
  /\ KeptBits(16) = 30 /\ KeptBits(17) = 30 /\ KeptBits(18) = 30 /\ KeptBits(19) = 30
  /\ KeptBits(20) = 30 /\ KeptBits(21) = 30 /\ KeptBits(22) = 30 /\ KeptBits(23) = 30
  /\ KeptBits(24) = 30 /\ KeptBits(25) = 30 /\ KeptBits(26) = 30 /\ KeptBits(27) = 30
  /\ KeptBits(28) = 14 /\ KeptBits(29) = 6 /\ KeptBits(30) = 2 /\ KeptBits(31) = 0
  BY DEF KeptBits, BackoffBase

\* The shifts whose result is exact.
LEMMA LowShift ==
  /\ CappedShift(0) = 30 /\ CappedShift(1) = 60 /\ CappedShift(2) = 120 /\ CappedShift(3) = 240
  /\ \A s \in 4..8 : CappedShift(s) = 300
  <1>1. \A s \in 0..8 : Min({s, 9}) = s
    BY MinPair
  <1>2. \A s \in 0..8 : KeptBits(s) = 30
    BY KeptValues
  <1>3. /\ 2^0 = 1 /\ 2^1 = 2 /\ 2^2 = 4 /\ 2^3 = 8 /\ 2^4 = 16
        /\ 2^5 = 32 /\ 2^6 = 64 /\ 2^7 = 128 /\ 2^8 = 256
    OBVIOUS
  <1>4. \A s \in 0..8 : CappedShift(s) = Min({30 * 2^s, 300})
    BY <1>1, <1>2, ZenonT(30) DEF CappedShift, BackoffMax
  <1>5. /\ CappedShift(0) = Min({30, 300}) /\ CappedShift(1) = Min({60, 300})
        /\ CappedShift(2) = Min({120, 300}) /\ CappedShift(3) = Min({240, 300})
        /\ CappedShift(4) = Min({480, 300}) /\ CappedShift(5) = Min({960, 300})
        /\ CappedShift(6) = Min({1920, 300}) /\ CappedShift(7) = Min({3840, 300})
        /\ CappedShift(8) = Min({7680, 300})
    BY <1>3, <1>4
  <1>6. QED
    BY <1>5, MinPair

\* The shifts that are capped as long as a bit is left.
LEMMA HighShift ==
  ASSUME NEW s \in 9..31, KeptBits(s) \in Nat
  PROVE  CappedShift(s) = IF KeptBits(s) = 0 THEN 0 ELSE 300
  <1>1. Min({s, 9}) = 9
    BY MinPair
  <1>2. 2^9 = 512
    OBVIOUS
  <1>3. CappedShift(s) = Min({KeptBits(s) * 512, 300})
    BY <1>1, <1>2, ZenonT(30) DEF CappedShift, BackoffMax
  <1>4. QED
    BY <1>3, MinPair

\* All defined shifts.
LEMMA ShiftValues ==
  /\ CappedShift(0) = 30 /\ CappedShift(1) = 60 /\ CappedShift(2) = 120 /\ CappedShift(3) = 240
  /\ \A s \in 4..30 : CappedShift(s) = 300
  /\ CappedShift(31) = 0
  <1>1. \A s \in 9..30 : CappedShift(s) = 300
    <2> TAKE s \in 9..30
    <2>1. KeptBits(s) \in {30, 14, 6, 2}
      BY KeptValues
    <2>2. QED
      BY <2>1, HighShift
  <1>2. CappedShift(31) = 0
    BY KeptValues, HighShift
  <1>3. \A s \in 4..30 : s \in 4..8 \/ s \in 9..30
    OBVIOUS
  <1>4. QED
    BY <1>1, <1>2, <1>3, LowShift

\* The capped doubling, value by value.
DoublingShape ==
    [r \in Nat |-> CASE r <= 3 -> 5 [] r = 4 -> 30 [] r = 5 -> 60 [] r = 6 -> 120
                     [] r = 7 -> 240 [] OTHER -> 300]

\* The recurrence has a solution, and so CappedDoubling is one.
LEMMA DoublingUnfolds ==
  CappedDoubling = [r \in Nat |-> IF r <= 3 THEN 5 ELSE IF r = 4 THEN BackoffBase
                          ELSE Min({2 * CappedDoubling[r - 1], BackoffMax})]
  <1> DEFINE Step(f) == [r \in Nat |-> IF r <= 3 THEN 5 ELSE IF r = 4 THEN BackoffBase
                                       ELSE Min({2 * f[r - 1], BackoffMax})]
  <1>1. \E f : f = Step(f)
    <2>1. \A r \in Nat : Step(DoublingShape)[r] = DoublingShape[r]
      <3> TAKE r \in Nat
      <3>1. CASE r <= 4
        BY <3>1 DEF DoublingShape, BackoffBase
      <3>2. CASE r > 4
        <4>1. DoublingShape[r - 1] \in Int
          BY <3>2 DEF DoublingShape
        <4>2. Step(DoublingShape)[r] =
                IF 2 * DoublingShape[r - 1] <= 300 THEN 2 * DoublingShape[r - 1] ELSE 300
          BY <3>2, <4>1, MinPair DEF BackoffMax
        <4>3. QED
          BY <3>2, <4>2 DEF DoublingShape
      <3>3. QED
        BY <3>1, <3>2
    <2>2. DoublingShape = [r \in Nat |-> DoublingShape[r]]
      BY DEF DoublingShape
    <2>3. Step(DoublingShape) = [r \in Nat |-> Step(DoublingShape)[r]]
      OBVIOUS
    <2>4. DoublingShape = Step(DoublingShape)
      BY <2>1, <2>2, <2>3, Zenon
    <2>5. QED
      BY <2>4
  <1>2. CappedDoubling = CHOOSE f : f = Step(f)
    BY Zenon DEF CappedDoubling
  <1> HIDE DEF Step
  <1>3. CappedDoubling = Step(CappedDoubling)
    BY <1>1, <1>2, Zenon
  <1>4. QED
    BY <1>3, Zenon DEF Step

\* It is the only one: the least retry at which they differ would follow from the
\* retry before it.
LEMMA DoublingValues == \A r \in Nat : CappedDoubling[r] = DoublingShape[r]
  <1> DEFINE Wrong == {r \in Nat : CappedDoubling[r] # DoublingShape[r]}
  <1>1. SUFFICES ASSUME Wrong # {} PROVE FALSE
    OBVIOUS
  <1>2. PICK r \in Wrong : \A q \in Wrong : r <= q
    BY <1>1, LeastNatural
  <1>3. CappedDoubling[r] = IF r <= 3 THEN 5 ELSE IF r = 4 THEN BackoffBase
                    ELSE Min({2 * CappedDoubling[r - 1], BackoffMax})
    BY DoublingUnfolds
  <1>4. r > 4
    BY <1>3 DEF DoublingShape, BackoffBase
  <1>5. r - 1 \in Nat /\ r - 1 \notin Wrong
    BY <1>2, <1>4
  <1>6. CappedDoubling[r - 1] = DoublingShape[r - 1] /\ DoublingShape[r - 1] \in Int
    BY <1>4, <1>5 DEF DoublingShape
  <1>7. CappedDoubling[r] = IF 2 * DoublingShape[r - 1] <= 300 THEN 2 * DoublingShape[r - 1] ELSE 300
    BY <1>3, <1>4, <1>6, MinPair DEF BackoffMax
  <1>8. QED
    BY <1>4, <1>7 DEF DoublingShape

\* The first 34 retries wait as the capped doubling says.
LEMMA BackoffIsDoubling == \A r \in 0..34 : mqtt_backoff_sec(r) = {CappedDoubling[r]}
  <1> TAKE r \in 0..34
  <1>1. CASE r <= 3
    BY <1>1, DoublingValues DEF mqtt_backoff_sec, DoublingShape
  <1>2. CASE r >= 4
    <2>1. mqtt_backoff_sec(r) = {CappedShift(r - 4)} /\ r - 4 \in 0..30
      BY <1>2 DEF mqtt_backoff_sec
    <2>2. CappedShift(r - 4) = DoublingShape[r]
      BY <1>2, ShiftValues DEF DoublingShape
    <2>3. QED
      BY <2>1, <2>2, DoublingValues
  <1>3. QED
    BY <1>1, <1>2

\* Whatever the number of retries, and however the build shifts by 32 and more, the
\* delay is zero, 5 s or between base and cap.
LEMMA BackoffType ==
  \A r \in Nat : mqtt_backoff_sec(r) \subseteq {0, 5} \cup (BackoffBase..BackoffMax)
  <1>1. \A s \in 0..31 : CappedShift(s) \in {0} \cup (30..300)
    BY ShiftValues
  <1> TAKE r \in Nat
  <1>2. CASE r <= 3
    BY <1>2 DEF mqtt_backoff_sec
  <1>3. CASE r >= 4 /\ r - 4 < 32
    BY <1>1, <1>3 DEF mqtt_backoff_sec, BackoffBase, BackoffMax
  <1>4. CASE r - 4 >= 32
    <2>1. (r - 4) % 32 \in 0..31
      BY <1>4
    <2>2. QED
      BY <1>1, <1>4, <2>1 DEF mqtt_backoff_sec, BackoffBase, BackoffMax
  <1>5. QED
    BY <1>2, <1>3, <1>4

\* The delay belongs to the retries counted, as far as the shift is exact.
BackoffInv ==
    /\ retry_count \in 0..MaxRetry
    /\ delay \in {0, 5} \cup (BackoffBase..BackoffMax)
    /\ pc = "backoff" /\ retry_count <= 34 => delay = CappedDoubling[retry_count]

LEMMA BackoffStep == BackoffInv /\ [Next]_vars => BackoffInv'
  <1> SUFFICES ASSUME BackoffInv, [Next]_vars PROVE BackoffInv'
    OBVIOUS
  <1>1. CASE ConnectFailed
    <2>1. retry_count' = Min({retry_count + 1, MaxRetry}) /\ delay' \in mqtt_backoff_sec(retry_count')
      BY <1>1 DEF ConnectFailed
    <2>2. retry_count' \in 0..MaxRetry /\ retry_count' \in Nat
      BY <2>1, MinPair, MaxRetryAssumption DEF BackoffInv
    <2>3. delay' \in {0, 5} \cup (BackoffBase..BackoffMax)
      BY <2>1, <2>2, BackoffType
    <2>4. retry_count' <= 34 => delay' = CappedDoubling[retry_count']
      BY <2>1, <2>2, BackoffIsDoubling
    <2>5. QED
      BY <2>2, <2>3, <2>4 DEF BackoffInv
  <1>2. CASE BackoffEnds
    BY <1>2 DEF BackoffEnds, Goto, BackoffInv
  <1>3. CASE ConnectLoopEnds \/ ConnectInitiated
    BY <1>3, MaxRetryAssumption DEF ConnectLoopEnds, ConnectInitiated, Goto, BackoffInv
  <1>4. CASE \/ InitHelper \/ Wake \/ DnsNetworkLost \/ DnsDone \/ DnsNotReady \/ InitialDelay
             \/ LoopBegin \/ DoConnect \/ HelperConnects \/ HelperRefuses \/ PublishLoopEnds
             \/ PublishSend \/ PublishFails \/ PublishDone
    BY <1>4 DEF InitHelper, Wake, DnsNetworkLost, DnsDone, DnsNotReady, InitialDelay, LoopBegin,
                DoConnect, HelperConnects, HelperRefuses, PublishLoopEnds, PublishSend,
                PublishFails, PublishDone, Goto, thread, BackoffInv
  <1>5. CASE NotifyConnected \/ NotifyDisconnected \/ Notify \/ Callback \/ UNCHANGED vars
    <2>1. UNCHANGED thread
      BY <1>5 DEF NotifyConnected, NotifyDisconnected, Notify, NotifyNotConnected,
                  NotifyHelperDisconnect, NotifySetState, Callback, OnConnack,
                  OnConnackRejected, OnSuback, OnSubackRefused, OnDisconnect, OnPublish, vars
    <2>2. QED
      BY <2>1 DEF thread, BackoffInv
  <1>6. QED
    BY <1>1, <1>2, <1>3, <1>4, <1>5 DEF Next, Thread

\* For every bound on the retries: the delays of the first 34 failed attempts in a
\* row are 5 s three times, then 30 s doubled up to the cap: 240 s at the seventh,
\* where the documentation has 300 s.  (At the 35th the shift loses the last bit of 30.)
THEOREM DoublingFollowed == Spec => [](retry_count <= 34 => BackoffDoublesToCap)
  <1>1. Init => BackoffInv
    BY MaxRetryAssumption DEF Init, BackoffInv
  <1>2. BackoffInv => (retry_count <= 34 => BackoffDoublesToCap)
    BY DEF BackoffInv, BackoffDoublesToCap
  <1>3. QED
    BY <1>1, <1>2, BackoffStep, PTL DEF Spec

\* The documented minimum of 30 s from the fourth retry on holds up to the 34th.
THEOREM BackoffAboveBase == Spec => [](retry_count <= 34 => BackoffNeverBelowBase)
  <1>1. Init => BackoffInv
    BY MaxRetryAssumption DEF Init, BackoffInv
  <1>2. BackoffInv => (retry_count <= 34 => BackoffNeverBelowBase)
    <2> SUFFICES ASSUME BackoffInv, retry_count <= 34, pc = "backoff", retry_count >= 4
                 PROVE  delay >= BackoffBase
      BY DEF BackoffNeverBelowBase
    <2>1. retry_count \in Nat /\ delay = DoublingShape[retry_count]
      BY DoublingValues, MaxRetryAssumption DEF BackoffInv
    <2>2. QED
      BY <2>1 DEF DoublingShape, BackoffBase
  <1>3. QED
    BY <1>1, <1>2, BackoffStep, PTL DEF Spec

-----------------------------------------------------------------------------
(* The types.                                                              *)

ReadyTyped == network_ready \in BOOLEAN

PlacesTyped ==
    /\ current_state \in {"DISCONNECTED", "CONNECTING", "CONNECTED"}
    /\ mqtt_thread_sem \in 0..1
    /\ pc \in {"init", "exited", "take", "dns", "delay", "loop", "connect", "connecting",
               "connect_ok", "connect_err", "backoff", "publish", "published"}
    /\ dns_wait \in 0..DnsPolls
    /\ npc \in {"idle", "check", "set"}
    /\ helper \in {"down", "awaited", "up", "closing"}
    /\ sub \in {"no", "asked", "yes"}

CountsTyped ==
    /\ message_count \in 0..MaxMsgs
    /\ last_published_count \in 0..MaxMsgs
    /\ last_echo_at_msg \in 0..MaxMsgs
    /\ sub_fails \in 0..MaxSubFails

LEMMA ReadyStep == ReadyTyped /\ [Next]_vars => ReadyTyped'
  <1> SUFFICES ASSUME ReadyTyped, [Next]_vars PROVE ReadyTyped'
    OBVIOUS
  <1>1. CASE NotifyConnected \/ NotifyDisconnected
    BY <1>1, Zenon DEF NotifyConnected, NotifyDisconnected, ReadyTyped
  <1>2. CASE ~(NotifyConnected \/ NotifyDisconnected)
    <2>1. network_ready' = network_ready
      <3>1. CASE QuietThread
        BY <3>1, QuietLeaves
      <3>2. CASE ConnSteps
        BY <1>2, <3>2 DEF ConnSteps, NotifyNotConnected, NotifyHelperDisconnect, NotifySetState,
              OnConnack, OnConnackRejected, OnSuback, DoConnect, HelperConnects, ConnectFailed,
              conn
      <3>3. CASE EchoSteps
        BY <3>3 DEF EchoSteps, OnDisconnect, OnSubackRefused, PublishSend, PublishFails,
              PublishDone, OnPublish, conn
      <3>4. CASE UNCHANGED vars
        BY <3>4 DEF vars, conn
      <3>5. QED
        BY <3>1, <3>2, <3>3, <3>4, NextGroups
    <2>2. QED
      BY <2>1, Zenon DEF ReadyTyped
  <1>3. QED
    BY <1>1, <1>2

LEMMA PlacesStep == PlacesTyped /\ [Next]_vars => PlacesTyped'
  <1> SUFFICES ASSUME PlacesTyped, [Next]_vars PROVE PlacesTyped'
    OBVIOUS
  <1> USE DnsPollsAssumption DEF PlacesTyped
  <1>1. CASE \/ NotifyConnected \/ NotifyDisconnected \/ NotifyNotConnected
             \/ NotifyHelperDisconnect \/ NotifySetState
    BY <1>1 DEF NotifyConnected, NotifyDisconnected, NotifyNotConnected,
                NotifyHelperDisconnect, NotifySetState, conn, thread, session
  <1>2. CASE OnConnack \/ OnConnackRejected \/ OnSuback \/ OnSubackRefused \/ OnDisconnect
    BY <1>2 DEF OnConnack, OnConnackRejected, OnSuback, OnSubackRefused, OnDisconnect, conn,
                thread
  <1>3. CASE InitHelper \/ Wake \/ DnsNetworkLost \/ DnsDone \/ DnsNotReady \/ InitialDelay
    BY <1>3 DEF InitHelper, Wake, DnsNetworkLost, DnsDone, DnsNotReady, InitialDelay, Goto,
                conn, session
  <1>4. CASE \/ LoopBegin \/ ConnectLoopEnds \/ HelperRefuses \/ ConnectInitiated
             \/ BackoffEnds \/ PublishLoopEnds
    BY <1>4 DEF LoopBegin, ConnectLoopEnds, HelperRefuses, ConnectInitiated, BackoffEnds,
                PublishLoopEnds, Goto, conn, session
  <1>5. CASE DoConnect \/ HelperConnects \/ ConnectFailed
    BY <1>5 DEF DoConnect, HelperConnects, ConnectFailed, Goto, conn, session
  <1>6. CASE PublishSend \/ PublishFails \/ PublishDone \/ \E m \in echoes : OnPublish(m)
    BY <1>6 DEF PublishSend, PublishFails, PublishDone, OnPublish, Goto, conn, session, thread
  <1>7. CASE UNCHANGED vars
    BY <1>7 DEF vars, conn, thread, session
  <1>8. QED
    BY <1>1, <1>2, <1>3, <1>4, <1>5, <1>6, <1>7, NextGroups DEF QuietThread, ConnSteps, EchoSteps

LEMMA CountsStep == CountsTyped /\ [Next]_vars => CountsTyped'
  <1> SUFFICES ASSUME CountsTyped, [Next]_vars PROVE CountsTyped'
    OBVIOUS
  <1> USE MaxMsgsAssumption, MaxSubFailsAssumption DEF CountsTyped
  <1>1. CASE QuietThread
    BY <1>1, QuietLeaves DEF count, history
  <1>2. CASE ConnSteps
    BY <1>2, ConnLeaves DEF count, history
  <1>3. CASE OnDisconnect \/ OnSubackRefused \/ \E m \in echoes : OnPublish(m)
    BY <1>3 DEF OnDisconnect, OnSubackRefused, OnPublish, count, history
  <1>4. CASE PublishSend \/ PublishFails \/ PublishDone
    BY <1>4 DEF PublishSend, PublishFails, PublishDone, NextMessage, history
  <1>5. CASE UNCHANGED vars
    BY <1>5 DEF vars, count, history
  <1>6. QED
    BY <1>1, <1>2, <1>3, <1>4, <1>5, NextGroups DEF EchoSteps

\* For every instance: every variable keeps its type.
THEOREM TypesHold == Spec => []TypeOK
  <1>1. Init => ReadyTyped
    BY Zenon DEF Init, ReadyTyped
  <1>2. Init => PlacesTyped /\ CountsTyped
    BY DnsPollsAssumption, MaxMsgsAssumption, MaxSubFailsAssumption
       DEF Init, PlacesTyped, CountsTyped
  <1>3. Init => BackoffInv /\ SilenceInv /\ FiresInv /\ VerdictInv /\ PassInv
    BY MaxRetryAssumption, EchoThresholdAssumption, FS_EmptySet
       DEF Init, BackoffInv, SilenceInv, FiresInv, VerdictInv, PassInv
  <1>4. ASSUME ReadyTyped, PlacesTyped, CountsTyped, BackoffInv, SilenceInv, FiresInv,
               VerdictInv, PassInv
        PROVE  TypeOK
    <2>1. echoes \subseteq 1..MaxMsgs
      BY <1>4, MaxMsgsAssumption DEF VerdictInv, CountsTyped
    <2>2. silent \in 0..MaxMsgs
      BY <1>4, MaxMsgsAssumption DEF FiresInv, CountsTyped
    <2>3. timeouts \in 0..MaxMsgs
      BY <1>4, MaxMsgsAssumption, EchoThresholdAssumption DEF SilenceInv, CountsTyped
    <2>4. QED
      BY <1>4, <2>1, <2>2, <2>3
         DEF TypeOK, ReadyTyped, PlacesTyped, CountsTyped, BackoffInv, PassInv
  <1>5. QED
    BY <1>1, <1>2, <1>3, <1>4, ReadyStep, PlacesStep, CountsStep, BackoffStep, SilenceStep,
       FiresStep, VerdictStep, PassStep, PTL DEF Spec
=============================================================================
