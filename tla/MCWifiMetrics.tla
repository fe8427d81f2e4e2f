--------------------------- MODULE MCWifiMetrics ---------------------------
(***************************************************************************)
(* Two access points of one network and one of another.                    *)
(***************************************************************************)
EXTENDS WifiMetrics

const_Aps == {[ssid |-> "home", bssid |-> "h1"],
              [ssid |-> "home", bssid |-> "h2"],
              [ssid |-> "office", bssid |-> "o1"]}
=============================================================================
