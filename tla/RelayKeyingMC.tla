---------------------------- MODULE RelayKeyingMC ----------------------------
(* RelayKeying with a relay that is held for forwarded alerts only, a lamp   *)
(* that pulses, shows the Pending queue and is the buzzer's pin.             *)
EXTENDS RelayKeying, TLC

CONSTANTS relay, lamp, f, w

RelayAndLamp ==
    relay :> {"FORWARDING_ALERT"}
    @@ lamp :> {"INCOMING_ALERT", "GATE_PENDING"}
=============================================================================
