-------------------------- MODULE OtaTriggersProofs --------------------------
(***************************************************************************)
(* Proofs about OtaTriggers, for every set of listeners and every number   *)
(* of notifications.  NoLostWakeup and ChecksPaidFor are inductive once    *)
(* the types are known.                                                    *)
(***************************************************************************)
EXTENDS OtaTriggers, TLAPS

\* The string consume_trigger_context returns is never "periodic": that context
\* belongs to the timeout branch of the thread alone.
LEMMA TriggerContextValue ==
    ASSUME NEW f
    PROVE  TriggerContext(f) \in Contexts \ {"periodic"}
  <1>1. CASE {"button", "connect"} \subseteq f
    BY <1>1 DEF TriggerContext, Contexts
  <1>2. CASE "button" \in f /\ "connect" \notin f
    BY <1>2 DEF TriggerContext, Contexts
  <1>3. CASE "connect" \in f /\ "button" \notin f
    BY <1>3 DEF TriggerContext, Contexts
  <1>4. CASE "connect" \notin f /\ "button" \notin f
    BY <1>4 DEF TriggerContext, Contexts
  <1>5. QED
    BY <1>1, <1>2, <1>3, <1>4

\* Every variable keeps its type: in particular the semaphore stays at its limit
\* when both listeners read the count as zero and both give.
THEOREM TypeCorrect == Spec => []TypeOK
  <1> USE TriggersAssumption DEF AllTriggers
  <1>1. Init => TypeOK
    <2>1. Init => delay \in {"none", "slept", "late"}
      BY DEF Init
    <2>2. QED
      BY <2>1 DEF Init, TypeOK, Contexts
  <1>2. TypeOK /\ [Next]_vars => TypeOK'
    <2> SUFFICES ASSUME TypeOK, [Next]_vars PROVE TypeOK'
      OBVIOUS
    <2>1. ASSUME NEW k \in Triggers, NotifySetFlag(k) PROVE TypeOK'
      BY <2>1 DEF NotifySetFlag, TypeOK
    <2>2. ASSUME NEW k \in Triggers, NotifyReadCount(k) PROVE TypeOK'
      BY <2>2 DEF NotifyReadCount, TypeOK
    <2>3. ASSUME NEW k \in Triggers, NotifyGive(k) PROVE TypeOK'
      BY <2>3 DEF NotifyGive, TypeOK
    <2>4. CASE TakeSem
      <3>1. delay' \in {"none", "slept", "late"}
        BY <2>4 DEF TakeSem
      <3>2. QED
        BY <2>4, <3>1 DEF TakeSem, TypeOK
    <2>5. CASE TakeTimeout
      <3>1. delay' \in {"none", "slept", "late"}
        BY <2>5 DEF TakeTimeout
      <3>2. QED
        BY <2>5, <3>1 DEF TakeTimeout, TypeOK, Contexts
    <2>6. CASE ReadFlags
      BY <2>6 DEF ReadFlags, TypeOK
    <2>7. CASE DelayElapsed
      <3>1. delay' \in {"none", "slept", "late"}
        BY <2>7 DEF DelayElapsed
      <3>2. QED
        BY <2>7, <3>1 DEF DelayElapsed, TypeOK
    <2>8. CASE ConsumeTriggerContext
      <3>1. context' \in Contexts
        BY <2>8, TriggerContextValue DEF ConsumeTriggerContext
      <3>2. QED
        BY <2>8, <3>1 DEF ConsumeTriggerContext, TypeOK
    <2>9. CASE ScheduleOtaCheck
      BY <2>9 DEF ScheduleOtaCheck, TypeOK
    <2>10. CASE UNCHANGED vars
      BY <2>10 DEF vars, TypeOK
    <2>11. QED
      BY <2>1, <2>2, <2>3, <2>4, <2>5, <2>6, <2>7, <2>8, <2>9, <2>10 DEF Next
  <1>3. QED
    BY <1>1, <1>2, PTL DEF Spec

\* No trigger is lost between the flag word and the semaphore, for any number of
\* notifications: a listener that finds the count at one leaves a semaphore the
\* thread will take before it takes the flags.
THEOREM WakeupNotLost == Spec => []NoLostWakeup
  <1> USE TriggersAssumption DEF AllTriggers
  <1>1. Init => NoLostWakeup
    BY DEF Init, NoLostWakeup
  <1>2. TypeOK /\ NoLostWakeup /\ [Next]_vars => NoLostWakeup'
    <2> SUFFICES ASSUME TypeOK, NoLostWakeup, [Next]_vars PROVE NoLostWakeup'
      OBVIOUS
    <2>1. ASSUME NEW k \in Triggers, NotifySetFlag(k) PROVE NoLostWakeup'
      <3>1. npc'[k] = "flagged"
        BY <2>1 DEF NotifySetFlag, TypeOK
      <3>2. QED
        BY <3>1 DEF NoLostWakeup
    <2>2. ASSUME NEW k \in Triggers, NotifyReadCount(k) PROVE NoLostWakeup'
      <3>1. CASE sem = 0
        <4>1. npc'[k] = "give"
          BY <2>2, <3>1 DEF NotifyReadCount, TypeOK
        <4>2. QED
          BY <4>1 DEF NoLostWakeup
      <3>2. CASE sem = 1
        BY <2>2, <3>2 DEF NotifyReadCount, NoLostWakeup
      <3>3. QED
        BY <3>1, <3>2 DEF TypeOK
    <2>3. ASSUME NEW k \in Triggers, NotifyGive(k) PROVE NoLostWakeup'
      BY <2>3 DEF NotifyGive, NoLostWakeup
    <2>4. CASE TakeSem
      BY <2>4 DEF TakeSem, NoLostWakeup
    <2>5. CASE TakeTimeout
      BY <2>5 DEF TakeTimeout, NoLostWakeup
    <2>6. CASE ReadFlags
      BY <2>6 DEF ReadFlags, NoLostWakeup
    <2>7. CASE DelayElapsed
      BY <2>7 DEF DelayElapsed, NoLostWakeup
    <2>8. CASE ConsumeTriggerContext
      BY <2>8 DEF ConsumeTriggerContext, NoLostWakeup
    <2>9. CASE ScheduleOtaCheck
      BY <2>9 DEF ScheduleOtaCheck, NoLostWakeup
    <2>10. CASE UNCHANGED vars
      BY <2>10 DEF vars, NoLostWakeup
    <2>11. QED
      BY <2>1, <2>2, <2>3, <2>4, <2>5, <2>6, <2>7, <2>8, <2>9, <2>10 DEF Next
  <1>3. QED
    BY <1>1, <1>2, TypeCorrect, PTL DEF Spec

\* The cloud sees at most one triggered check per notification.
THEOREM ChecksAreBounded == Spec => []ChecksPaidFor
  <1> USE TriggersAssumption DEF AllTriggers, OwedChecks, InFlight
  <1>1. Init => ChecksPaidFor
    BY DEF Init, ChecksPaidFor
  <1>2. TypeOK /\ ChecksPaidFor /\ [Next]_vars => ChecksPaidFor'
    <2> SUFFICES ASSUME TypeOK, ChecksPaidFor, [Next]_vars PROVE ChecksPaidFor'
      OBVIOUS
    <2>1. ASSUME NEW k \in Triggers, NotifySetFlag(k) PROVE ChecksPaidFor'
      BY <2>1 DEF NotifySetFlag, ChecksPaidFor, TypeOK
    <2>2. ASSUME NEW k \in Triggers, NotifyReadCount(k) PROVE ChecksPaidFor'
      BY <2>2 DEF NotifyReadCount, ChecksPaidFor, TypeOK
    <2>3. ASSUME NEW k \in Triggers, NotifyGive(k) PROVE ChecksPaidFor'
      BY <2>3 DEF NotifyGive, ChecksPaidFor, TypeOK
    <2>4. CASE TakeSem
      BY <2>4 DEF TakeSem, ChecksPaidFor, TypeOK
    <2>5. CASE TakeTimeout
      BY <2>5 DEF TakeTimeout, ChecksPaidFor, TypeOK
    <2>6. CASE ReadFlags
      BY <2>6 DEF ReadFlags, ChecksPaidFor, TypeOK
    <2>7. CASE DelayElapsed
      BY <2>7 DEF DelayElapsed, ChecksPaidFor, TypeOK
    <2>8. CASE ConsumeTriggerContext
      BY <2>8 DEF ConsumeTriggerContext, ChecksPaidFor, TypeOK
    <2>9. CASE ScheduleOtaCheck
      BY <2>9 DEF ScheduleOtaCheck, ChecksPaidFor, TypeOK
    <2>10. CASE UNCHANGED vars
      BY <2>10 DEF vars, ChecksPaidFor, TypeOK
    <2>11. QED
      BY <2>1, <2>2, <2>3, <2>4, <2>5, <2>6, <2>7, <2>8, <2>9, <2>10 DEF Next
  <1>3. QED
    BY <1>1, <1>2, TypeCorrect, PTL DEF Spec

-----------------------------------------------------------------------------
(* The connect delay.                                                      *)

\* What the look at the flags decides for the flags that are taken later: after a
\* sleep, or a late connect, the connect bit stays in the word until it is taken;
\* without either, a connect bit does not stand alone.
DelayInv ==
    /\ tpc \in {"wait", "woken", "delay", "consume", "check"}
    /\ tpc = "woken" => delay = "none"
    /\ tpc = "delay" => delay = "none" /\ "connect" \in flags
    /\ tpc = "consume" /\ ConnectOnly => delay # "none"
    /\ tpc = "consume" /\ delay # "none" => "connect" \in flags
    /\ DelayIsForConnects

LEMMA DelayStep == DelayInv /\ [Next]_vars => DelayInv'
  <1> SUFFICES ASSUME DelayInv, [Next]_vars PROVE DelayInv'
    OBVIOUS
  <1> USE DEF DelayInv, ConnectOnly, DelayIsForConnects
  <1>1. ASSUME NEW k \in Triggers, NotifySetFlag(k) PROVE DelayInv'
    BY <1>1, TriggersAssumption DEF NotifySetFlag, AllTriggers
  <1>2. ASSUME NEW k \in Triggers, NotifyReadCount(k) \/ NotifyGive(k) PROVE DelayInv'
    BY <1>2 DEF NotifyReadCount, NotifyGive
  <1>3. CASE TakeSem \/ TakeTimeout \/ ReadFlags \/ DelayElapsed \/ ScheduleOtaCheck
    BY <1>3 DEF TakeSem, TakeTimeout, ReadFlags, DelayElapsed, ScheduleOtaCheck
  <1>4. CASE ConsumeTriggerContext
    <2>1. TriggerContext(flags) = "connect" => ConnectOnly
      BY DEF TriggerContext
    <2>2. "connect" \in flags => "connect" \in Covers(TriggerContext(flags))
      BY DEF TriggerContext, Covers
    <2>3. QED
      BY <1>4, <2>1, <2>2 DEF ConsumeTriggerContext
  <1>5. CASE UNCHANGED vars
    BY <1>5 DEF vars
  <1>6. QED
    BY <1>1, <1>2, <1>3, <1>4, <1>5 DEF Next

\* For every set of listeners: a check sleeps the connect delay only if it is for a
\* connect, and a check for a connect alone starts without it only if the connect
\* came after the thread's look at the flags.
THEOREM DelayForConnects == Spec => []DelayIsForConnects
  <1>1. Init => DelayInv
    BY DEF Init, DelayInv, DelayIsForConnects
  <1>2. DelayInv => DelayIsForConnects
    BY DEF DelayInv
  <1>3. QED
    BY <1>1, <1>2, DelayStep, PTL DEF Spec

-----------------------------------------------------------------------------
(* The thread implements OtaRequests.                                      *)

\* The string names exactly the bits that were taken from the flag word.
LEMMA ContextCoversFlags ==
    ASSUME NEW f, f \subseteq AllTriggers
    PROVE  Covers(TriggerContext(f)) = f
  <1> USE DEF AllTriggers
  <1>1. CASE "button" \in f /\ "connect" \in f
    <2>1. f = {"button", "connect"}
      BY <1>1
    <2>2. QED
      BY <2>1 DEF TriggerContext, Covers
  <1>2. CASE "button" \in f /\ "connect" \notin f
    <2>1. f = {"button"}
      BY <1>2
    <2>2. QED
      BY <2>1 DEF TriggerContext, Covers
  <1>3. CASE "button" \notin f /\ "connect" \in f
    <2>1. f = {"connect"}
      BY <1>3
    <2>2. QED
      BY <2>1 DEF TriggerContext, Covers
  <1>4. CASE "button" \notin f /\ "connect" \notin f
    <2>1. f = {}
      BY <1>4
    <2>2. QED
      BY <2>1 DEF TriggerContext, Covers
  <1>5. QED
    BY <1>1, <1>2, <1>3, <1>4

\* A periodic check is for no request.
LEMMA PeriodicCoversNothing == Covers("periodic") = {}
  BY DEF Covers

\* Every step of a listener or of the thread is a step of OtaRequests, or none.
LEMMA GatheredStep == TypeOK /\ [Next]_vars => [Gathered!Next]_(Gathered!vars)
  <1> SUFFICES ASSUME TypeOK, [Next]_vars
               PROVE  Gathered!Next \/ UNCHANGED Gathered!vars
    OBVIOUS
  <1> USE DEF Gathered!vars
  <1>1. ASSUME NEW k \in Triggers, NotifySetFlag(k) PROVE Gathered!Next
    <2>1. Serving' = Serving
      BY <1>1 DEF NotifySetFlag, Serving
    <2>2. flags' = flags \cup {k}
      BY <1>1 DEF NotifySetFlag
    <2>3. Gathered!Request(k)
      BY <2>1, <2>2 DEF Gathered!Request
    <2>4. QED
      BY <2>3 DEF Gathered!Next
  <1>2. ASSUME NEW k \in Triggers, NotifyReadCount(k) \/ NotifyGive(k)
        PROVE  UNCHANGED Gathered!vars
    BY <1>2 DEF NotifyReadCount, NotifyGive, Serving
  <1>3. CASE TakeSem \/ ReadFlags \/ DelayElapsed
    BY <1>3 DEF TakeSem, ReadFlags, DelayElapsed, Serving
  <1>4. CASE TakeTimeout
    BY <1>4, PeriodicCoversNothing DEF TakeTimeout, Serving
  <1>5. CASE ConsumeTriggerContext
    <2>1. Serving = {}
      BY <1>5 DEF ConsumeTriggerContext, Serving
    <2>2. Serving' = flags
      BY <1>5, ContextCoversFlags, TriggersAssumption
         DEF ConsumeTriggerContext, Serving, TypeOK
    <2>3. Gathered!BeginCheck
      BY <1>5, <2>1, <2>2 DEF ConsumeTriggerContext, Gathered!BeginCheck
    <2>4. QED
      BY <2>3 DEF Gathered!Next
  <1>6. CASE ScheduleOtaCheck
    <2>1. Gathered!EndCheck
      BY <1>6 DEF ScheduleOtaCheck, Serving, Gathered!EndCheck
    <2>2. QED
      BY <2>1 DEF Gathered!Next
  <1>7. CASE UNCHANGED vars
    BY <1>7 DEF vars, Serving
  <1>8. QED
    BY <1>1, <1>2, <1>3, <1>4, <1>5, <1>6, <1>7 DEF Next

\* For every set of listeners and every number of notifications: each set of
\* bits taken is served by one check that is run for exactly these bits.
THEOREM RequestsImplemented == Spec => RequestsServedOnce
  <1>1. Init => Gathered!Init
    BY DEF Init, Gathered!Init, Serving
  <1>2. QED
    BY <1>1, GatheredStep, TypeCorrect, PTL DEF Spec, RequestsServedOnce, Gathered!Spec
=============================================================================
