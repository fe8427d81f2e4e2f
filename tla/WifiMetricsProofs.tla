------------------------- MODULE WifiMetricsProofs -------------------------
(***************************************************************************)
(* Proofs about WifiMetrics, for every set of access points.  Without a    *)
(* lock a roam can be counted more than once (CountsOnlyRoams is           *)
(* violated); how often is bounded, and the bound is proved here.          *)
(*                                                                         *)
(* The argument is a potential: Debt is the number of changes that can     *)
(* still be counted for the roams there have been.  A roam adds at most    *)
(* four to it, a comparison that counts takes one from it, and no other    *)
(* step raises it.                                                         *)
(***************************************************************************)
EXTENDS WifiMetrics, TLAPS

\* A caller at p with the value v of a field will yet compare or store it, though
\* the field of the access point is cur by now.
Outdated(cur, p, v) == p # "idle" /\ v # cur

\* An outdated value that is still to be compared.
ToCompare(cur, p, v) == IF Outdated(cur, p, v) /\ p = "compare" THEN 1 ELSE 0

\* Nothing is outdated in flight and nothing wrong was stored: no debt.  A wrong
\* stored value can be noticed by both callers before one of them corrects it, and
\* an outdated value in flight will be stored over a right one.
StoredDebt(cur, known, last, p, v, q, w) ==
    IF Outdated(cur, p, v) /\ Outdated(cur, q, w) THEN 3
    ELSE IF Outdated(cur, p, v) \/ Outdated(cur, q, w)
         THEN IF known /\ last # cur THEN 3 ELSE 2
         ELSE IF known /\ last # cur THEN 2 ELSE 0

\* A caller that has compared and is about to correct the stored value.
Corrects(cur, known, last, p, v) ==
    IF known /\ last # cur /\ p = "store" /\ v = cur THEN 1 ELSE 0

\* Of two outdated values to be compared, the first cannot count if nothing has
\* been stored yet or if both are what is stored.
FirstIsFree(cur, known, last, p, v, q, w) ==
    IF /\ Outdated(cur, p, v) /\ p = "compare"
       /\ Outdated(cur, q, w) /\ q = "compare"
       /\ ~known \/ (v = last /\ w = last)
    THEN 1 ELSE 0

\* The changes that can yet be counted without another roam.  The two callers are
\* at p and q with the values v and w; last was stored if known.
Debt(cur, known, last, p, v, q, w) ==
    StoredDebt(cur, known, last, p, v, q, w)
        + ToCompare(cur, p, v) + ToCompare(cur, q, w)
        - Corrects(cur, known, last, p, v) - Corrects(cur, known, last, q, w)
        - FirstIsFree(cur, known, last, p, v, q, w)

\* The debts of the two fields.
SsidDebt ==
    Debt(ap.ssid, has_prev, last_ssid,
         pc["event"], arg["event"].ssid, pc["heartbeat"], arg["heartbeat"].ssid)

BssidDebt ==
    Debt(ap.bssid, has_prev, last_bssid,
         pc["event"], arg["event"].bssid, pc["heartbeat"], arg["heartbeat"].bssid)

\* The counts and the debts are covered by the roams.
DebtCovered ==
    /\ ssid_changes + SsidDebt <= 4 * roams
    /\ bssid_changes + BssidDebt <= 4 * roams

-----------------------------------------------------------------------------
(* What the steps do to the debt of one field.                             *)

Places == {"idle", "compare", "store"}

LEMMA DebtIsNat ==
  ASSUME NEW cur, NEW known \in BOOLEAN, NEW last,
         NEW p \in Places, NEW v, NEW q \in Places, NEW w
  PROVE  Debt(cur, known, last, p, v, q, w) \in Nat
  BY DEF Places, Debt, StoredDebt, ToCompare, Corrects, FirstIsFree, Outdated

\* It does not matter which of the two callers is which.
LEMMA DebtSwap ==
  ASSUME NEW cur, NEW known \in BOOLEAN, NEW last,
         NEW p \in Places, NEW v, NEW q \in Places, NEW w
  PROVE  Debt(cur, known, last, p, v, q, w) = Debt(cur, known, last, q, w, p, v)
  BY DEF Places, Debt, StoredDebt, ToCompare, Corrects, FirstIsFree, Outdated

\* A roam lets at most four more changes be counted.
LEMMA RoamDebt ==
  ASSUME NEW cur, NEW new, NEW known \in BOOLEAN, NEW last,
         NEW p \in Places, NEW v, NEW q \in Places, NEW w
  PROVE  Debt(new, known, last, p, v, q, w) <= Debt(cur, known, last, p, v, q, w) + 4
  BY DEF Places, Debt, StoredDebt, ToCompare, Corrects, FirstIsFree, Outdated

\* A call brings a value that is up to date.
LEMMA CallDebt ==
  ASSUME NEW cur, NEW known \in BOOLEAN, NEW last, NEW v, NEW q \in Places, NEW w
  PROVE  Debt(cur, known, last, "compare", cur, q, w) <= Debt(cur, known, last, "idle", v, q, w)
  BY DEF Places, Debt, StoredDebt, ToCompare, Corrects, FirstIsFree, Outdated

\* A comparison that counts takes one from the debt.
LEMMA CompareDebt ==
  ASSUME NEW cur, NEW known \in BOOLEAN, NEW last, NEW v, NEW q \in Places, NEW w
  PROVE  Debt(cur, known, last, "store", v, q, w) + (IF known /\ v # last THEN 1 ELSE 0)
           <= Debt(cur, known, last, "compare", v, q, w)
  BY DEF Places, Debt, StoredDebt, ToCompare, Corrects, FirstIsFree, Outdated

\* To store a value, right or outdated, adds nothing.
LEMMA StoreDebt ==
  ASSUME NEW cur, NEW known \in BOOLEAN, NEW stored \in BOOLEAN, stored,
         NEW last, NEW v, NEW q \in Places, NEW w
  PROVE  Debt(cur, stored, v, "idle", v, q, w) <= Debt(cur, known, last, "store", v, q, w)
  BY DEF Places, Debt, StoredDebt, ToCompare, Corrects, FirstIsFree, Outdated

\* The account of one field over a roam, over a step that counts k changes, and over
\* one that counts nothing.
LEMMA RoamPays ==
  ASSUME NEW n \in Nat, NEW d \in Nat, NEW e \in Nat, NEW r \in Nat,
         n + d <= 4 * r, e <= d + 4
  PROVE  n + e <= 4 * (r + 1)
  OBVIOUS

LEMMA CountPays ==
  ASSUME NEW n \in Nat, NEW k \in Nat, NEW d \in Nat, NEW e \in Nat, NEW r \in Nat,
         n + d <= 4 * r, e + k <= d
  PROVE  (n + k) + e <= 4 * r
  OBVIOUS

LEMMA StepPays ==
  ASSUME NEW n \in Nat, NEW d \in Nat, NEW e \in Nat, NEW r \in Nat, n + d <= 4 * r, e <= d
  PROVE  n + e <= 4 * r
  OBVIOUS

-----------------------------------------------------------------------------
(* The bound.                                                              *)

MetricsTyped ==
    /\ ap \in Aps
    /\ has_prev \in BOOLEAN
    /\ ssid_changes \in Nat
    /\ bssid_changes \in Nat
    /\ pc \in [Callers -> Places]
    /\ arg \in [Callers -> Aps]
    /\ roams \in Nat

\* Every step keeps the types.
LEMMA MetricsTypedStep == MetricsTyped /\ [Next]_vars => MetricsTyped'
  <1> SUFFICES ASSUME MetricsTyped, [Next]_vars PROVE MetricsTyped'
    OBVIOUS
  <1> USE DEF MetricsTyped, Places, Callers
  <1>1. CASE Roam
    BY <1>1 DEF Roam
  <1>2. ASSUME NEW c \in Callers, Call(c) PROVE MetricsTyped'
    BY <1>2 DEF Call
  <1>3. ASSUME NEW c \in Callers, Compare(c) PROVE MetricsTyped'
    BY <1>3 DEF Compare
  <1>4. ASSUME NEW c \in Callers, Store(c) PROVE MetricsTyped'
    <2>1. has_prev' \in BOOLEAN
      BY <1>4 DEF Store
    <2>2. QED
      BY <1>4, <2>1 DEF Store
  <1>5. CASE UNCHANGED vars
    BY <1>5 DEF vars
  <1>6. QED
    BY <1>1, <1>2, <1>3, <1>4, <1>5 DEF Next

\* The debts before and after a step, seen from caller c; d is the other caller.
LEMMA DebtOfCaller ==
  ASSUME MetricsTyped, MetricsTyped', NEW c \in Callers, NEW d \in Callers, c # d
  PROVE  /\ SsidDebt = Debt(ap.ssid, has_prev, last_ssid, pc[c], arg[c].ssid, pc[d], arg[d].ssid)
         /\ BssidDebt = Debt(ap.bssid, has_prev, last_bssid, pc[c], arg[c].bssid,
                             pc[d], arg[d].bssid)
         /\ SsidDebt' = Debt(ap'.ssid, has_prev', last_ssid', pc'[c], arg'[c].ssid,
                             pc'[d], arg'[d].ssid)
         /\ BssidDebt' = Debt(ap'.bssid, has_prev', last_bssid', pc'[c], arg'[c].bssid,
                              pc'[d], arg'[d].bssid)
  <1>1. /\ \A k \in Callers : pc[k] \in Places /\ pc'[k] \in Places
        /\ has_prev \in BOOLEAN /\ has_prev' \in BOOLEAN
    BY DEF MetricsTyped
  <1>2. CASE c = "event" /\ d = "heartbeat"
    BY <1>2 DEF SsidDebt, BssidDebt
  <1>3. CASE c = "heartbeat" /\ d = "event"
    BY <1>1, <1>3, DebtSwap DEF SsidDebt, BssidDebt
  <1>4. QED
    BY <1>2, <1>3 DEF Callers

\* Every step pays for what it counts.
LEMMA DebtStep == MetricsTyped /\ MetricsTyped' /\ DebtCovered /\ [Next]_vars => DebtCovered'
  <1> SUFFICES ASSUME MetricsTyped, MetricsTyped', DebtCovered, [Next]_vars PROVE DebtCovered'
    OBVIOUS
  <1>1. \A c \in Callers : \E d \in Callers : c # d
    BY DEF Callers
  <1>2. /\ SsidDebt \in Nat /\ BssidDebt \in Nat /\ SsidDebt' \in Nat /\ BssidDebt' \in Nat
        /\ ssid_changes \in Nat /\ bssid_changes \in Nat /\ roams \in Nat
    BY DebtIsNat DEF MetricsTyped, Callers, SsidDebt, BssidDebt
  <1>3. CASE Roam
    <2>1. /\ UNCHANGED <<last_ssid, last_bssid, has_prev, ssid_changes, bssid_changes, pc, arg>>
          /\ roams' = roams + 1
      BY <1>3 DEF Roam
    <2>2. pc["event"] \in Places /\ pc["heartbeat"] \in Places /\ has_prev \in BOOLEAN
      BY DEF MetricsTyped, Callers
    <2>3. SsidDebt' <= SsidDebt + 4 /\ BssidDebt' <= BssidDebt + 4
      BY <2>1, <2>2, RoamDebt DEF SsidDebt, BssidDebt
    <2>4. /\ ssid_changes + SsidDebt' <= 4 * (roams + 1)
          /\ bssid_changes + BssidDebt' <= 4 * (roams + 1)
      BY <1>2, <2>3, RoamPays DEF DebtCovered
    <2>5. QED
      BY <2>1, <2>4 DEF DebtCovered
  <1>4. ASSUME NEW c \in Callers, Call(c) PROVE DebtCovered'
    <2>1. PICK d \in Callers : c # d
      BY <1>1
    <2>2. /\ UNCHANGED <<ap, last_ssid, last_bssid, has_prev, ssid_changes, bssid_changes, roams>>
          /\ pc[c] = "idle" /\ pc'[c] = "compare" /\ arg'[c] = ap
          /\ pc'[d] = pc[d] /\ arg'[d] = arg[d]
          /\ pc[d] \in Places /\ has_prev \in BOOLEAN
      BY <1>4, <2>1 DEF Call, MetricsTyped
    <2>3. SsidDebt' <= SsidDebt /\ BssidDebt' <= BssidDebt
      BY <2>1, <2>2, DebtOfCaller, CallDebt
    <2>4. /\ ssid_changes + SsidDebt' <= 4 * roams
          /\ bssid_changes + BssidDebt' <= 4 * roams
      BY <1>2, <2>3, StepPays DEF DebtCovered
    <2>5. QED
      BY <2>2, <2>4 DEF DebtCovered
  <1>5. ASSUME NEW c \in Callers, Compare(c) PROVE DebtCovered'
    <2> DEFINE ks == IF has_prev /\ arg[c].ssid # last_ssid THEN 1 ELSE 0
               kb == IF has_prev /\ arg[c].bssid # last_bssid THEN 1 ELSE 0
    <2>1. PICK d \in Callers : c # d
      BY <1>1
    <2>2. /\ UNCHANGED <<ap, last_ssid, last_bssid, has_prev, arg, roams>>
          /\ pc[c] = "compare" /\ pc'[c] = "store" /\ pc'[d] = pc[d]
          /\ pc[d] \in Places /\ has_prev \in BOOLEAN
      BY <1>5, <2>1 DEF Compare, MetricsTyped
    <2>3. /\ ssid_changes' = ssid_changes + ks
          /\ bssid_changes' = bssid_changes + kb
      BY <1>5 DEF Compare, MetricsTyped
    <2>4. SsidDebt' + ks <= SsidDebt /\ BssidDebt' + kb <= BssidDebt
      BY <2>1, <2>2, DebtOfCaller, CompareDebt
    <2>5. ks \in Nat /\ kb \in Nat
      OBVIOUS
    <2> HIDE DEF ks, kb
    <2>6. (ssid_changes + ks) + SsidDebt' <= 4 * roams
      BY <1>2, <2>4, <2>5, CountPays DEF DebtCovered
    <2>7. (bssid_changes + kb) + BssidDebt' <= 4 * roams
      BY <1>2, <2>4, <2>5, CountPays DEF DebtCovered
    <2>8. QED
      BY <2>2, <2>3, <2>6, <2>7 DEF DebtCovered
  <1>6. ASSUME NEW c \in Callers, Store(c) PROVE DebtCovered'
    <2>1. PICK d \in Callers : c # d
      BY <1>1
    <2>2. /\ UNCHANGED <<ap, ssid_changes, bssid_changes, arg, roams>>
          /\ pc[c] = "store" /\ pc'[c] = "idle" /\ pc'[d] = pc[d]
          /\ last_ssid' = arg[c].ssid /\ last_bssid' = arg[c].bssid
          /\ pc[d] \in Places /\ has_prev \in BOOLEAN
      BY <1>6, <2>1 DEF Store, MetricsTyped
    <2>3. has_prev' /\ has_prev' \in BOOLEAN
      BY <1>6 DEF Store
    <2>4. /\ SsidDebt = Debt(ap.ssid, has_prev, last_ssid, "store", arg[c].ssid,
                             pc[d], arg[d].ssid)
          /\ BssidDebt = Debt(ap.bssid, has_prev, last_bssid, "store", arg[c].bssid,
                              pc[d], arg[d].bssid)
      BY <2>1, <2>2, DebtOfCaller
    <2>5. /\ SsidDebt' = Debt(ap.ssid, has_prev', arg[c].ssid, "idle", arg[c].ssid,
                              pc[d], arg[d].ssid)
          /\ BssidDebt' = Debt(ap.bssid, has_prev', arg[c].bssid, "idle", arg[c].bssid,
                               pc[d], arg[d].bssid)
      BY <2>1, <2>2, DebtOfCaller
    <2>6. SsidDebt' <= SsidDebt /\ BssidDebt' <= BssidDebt
      BY <2>2, <2>3, <2>4, <2>5, StoreDebt
    <2>7. /\ ssid_changes + SsidDebt' <= 4 * roams
          /\ bssid_changes + BssidDebt' <= 4 * roams
      BY <1>2, <2>6, StepPays DEF DebtCovered
    <2>8. QED
      BY <2>2, <2>7 DEF DebtCovered
  <1>7. CASE UNCHANGED vars
    BY <1>7 DEF vars, DebtCovered, SsidDebt, BssidDebt
  <1>8. QED
    BY <1>3, <1>4, <1>5, <1>6, <1>7 DEF Next

\* At boot nothing is in flight and nothing is stored.
LEMMA DebtInit == Init => MetricsTyped /\ DebtCovered
  <1> SUFFICES ASSUME Init PROVE MetricsTyped /\ DebtCovered
    OBVIOUS
  <1>1. has_prev = FALSE /\ pc["event"] = "idle" /\ pc["heartbeat"] = "idle"
    BY DEF Init, Callers
  <1>2. SsidDebt = 0 /\ BssidDebt = 0
    BY <1>1
       DEF SsidDebt, BssidDebt, Debt, StoredDebt, ToCompare, Corrects, FirstIsFree, Outdated
  <1>3. has_prev \in BOOLEAN
    BY <1>1
  <1>4. MetricsTyped
    BY <1>3 DEF Init, MetricsTyped, Places
  <1>5. DebtCovered
    <2>1. ssid_changes = 0 /\ bssid_changes = 0 /\ roams = 0
      BY DEF Init
    <2>2. QED
      BY <1>2, <2>1 DEF DebtCovered
  <1>6. QED
    BY <1>4, <1>5

\* For every set of access points and any number of roams: the unlocked comparison
\* counts no roam more than four times on average, and a device that never roams
\* counts no change, however its heartbeats and DHCP events interleave.
THEOREM OvercountBounded == Spec => []OvercountAtMostFourfold
  <1>1. MetricsTyped /\ DebtCovered => OvercountAtMostFourfold
    <2> SUFFICES ASSUME MetricsTyped, DebtCovered PROVE OvercountAtMostFourfold
      OBVIOUS
    <2>1. SsidDebt \in Nat /\ BssidDebt \in Nat
      BY DebtIsNat DEF MetricsTyped, Callers, SsidDebt, BssidDebt
    <2>2. QED
      BY <2>1 DEF MetricsTyped, DebtCovered, OvercountAtMostFourfold
  <1>2. QED
    BY <1>1, DebtInit, MetricsTypedStep, DebtStep, PTL DEF Spec
=============================================================================
