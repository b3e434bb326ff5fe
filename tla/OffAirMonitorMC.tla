--------------------------- MODULE OffAirMonitorMC ----------------------------
(* Two stations: one sends two alerts in a row, with the same event code or  *)
(* with two, the other sends one.                                            *)
EXTENDS OffAirMonitor, TLC

CONSTANTS lp1, lp2, a, b, lone

TwoAndOne == (lp1 :> <<a, b>>) @@ (lp2 :> <<lone>>)
OnlyTwo   == lp1 :> <<a, b>>
Repeated  == [x \in {a, b, lone} |-> "RWT"]
Distinct  == (a :> "TOR") @@ (b :> "SVR") @@ (lone :> "TOR")
=============================================================================
