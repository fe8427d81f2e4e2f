---------------------------- MODULE WifiMetrics ----------------------------
(***************************************************************************)
(* The change counters of the Wi-Fi metrics                                *)
(* (app_memfault_wifi_metrics.c).                                          *)
(*                                                                         *)
(* mflt_wifi_metrics_report_ssid_bssid() compares the access point it is   *)
(* given with the one it was given last, in static variables without a     *)
(* lock.  Two threads call it: the network-event thread when DHCP has      *)
(* bound, and the thread that collects a heartbeat, which asks the         *)
(* interface for its status first.  The other metrics of a heartbeat keep  *)
(* only their latest value and are left out.                               *)
(*                                                                         *)
(* External: the association with an access point, the metric store.       *)
(***************************************************************************)
EXTENDS Integers

CONSTANTS
    Aps,       \* the access points in reach, records with an ssid and a bssid
    MaxRoams   \* bound: changes of the access point

VARIABLES
    ap,          \* the access point the device is associated with
    last_ssid,
    last_bssid,
    has_prev,
    ssid_changes,   \* wifi_ap_ssid_change_count, since boot
    bssid_changes,  \* wifi_ap_bssid_change_count, since boot
    pc,          \* where each caller is
    arg,         \* the access point each caller reports
    roams        \* history: changes of the access point

Callers == {"event", "heartbeat"}

vars == <<ap, last_ssid, last_bssid, has_prev, ssid_changes, bssid_changes, pc, arg, roams>>

Init ==
    /\ ap \in Aps
    /\ last_ssid = ""
    /\ last_bssid = ""
    /\ has_prev = FALSE
    /\ ssid_changes = 0
    /\ bssid_changes = 0
    /\ pc = [c \in Callers |-> "idle"]
    /\ arg = [c \in Callers |-> ap]
    /\ roams = 0

-----------------------------------------------------------------------------
\* The device moves to another access point, with or without a DHCP event.
Roam ==
    /\ roams < MaxRoams
    /\ ap' \in Aps \ {ap}
    /\ roams' = roams + 1
    /\ UNCHANGED <<last_ssid, last_bssid, has_prev, ssid_changes, bssid_changes, pc, arg>>

\* zego_on_net_event_dhcp_bound() reports the access point of the event;
\* mflt_wifi_metrics_collect() the one of the interface status.  If the status
\* cannot be read, or the station is not associated, there is no call.
Call(c) ==
    /\ pc[c] = "idle"
    /\ pc' = [pc EXCEPT ![c] = "compare"]
    /\ arg' = [arg EXCEPT ![c] = ap]
    /\ UNCHANGED <<ap, last_ssid, last_bssid, has_prev, ssid_changes, bssid_changes, roams>>

\* A difference counts, unless nothing was reported before.
Compare(c) ==
    /\ pc[c] = "compare"
    /\ pc' = [pc EXCEPT ![c] = "store"]
    /\ ssid_changes' = IF has_prev /\ arg[c].ssid # last_ssid THEN ssid_changes + 1
                                                               ELSE ssid_changes
    /\ bssid_changes' = IF has_prev /\ arg[c].bssid # last_bssid THEN bssid_changes + 1
                                                                  ELSE bssid_changes
    /\ UNCHANGED <<ap, last_ssid, last_bssid, has_prev, arg, roams>>

\* The access point becomes the last one reported.
Store(c) ==
    /\ pc[c] = "store"
    /\ pc' = [pc EXCEPT ![c] = "idle"]
    /\ last_ssid' = arg[c].ssid
    /\ last_bssid' = arg[c].bssid
    /\ has_prev' = TRUE
    /\ UNCHANGED <<ap, ssid_changes, bssid_changes, arg, roams>>

Next ==
    \/ Roam
    \/ \E c \in Callers : Call(c)
    \/ \E c \in Callers : Compare(c)
    \/ \E c \in Callers : Store(c)

Spec == Init /\ [][Next]_vars

-----------------------------------------------------------------------------
\* app_memfault_wifi_metrics.c:110: "the change counters only increment on an actual
\* diff, so this is safe to call every heartbeat": there are never more counted
\* changes than changes of the access point.
CountsOnlyRoams == ssid_changes <= roams /\ bssid_changes <= roams

\* What the comment's claim comes to without a lock: at most four counted changes
\* for each change of the access point, and none before the first.
OvercountAtMostFourfold == ssid_changes <= 4 * roams /\ bssid_changes <= 4 * roams
=============================================================================
