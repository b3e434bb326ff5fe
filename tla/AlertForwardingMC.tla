------------------------- MODULE AlertForwardingMC -------------------------
(***************************************************************************)
(* Instances of AlertForwarding for TLC.  Alert names tell the case: c1 and *)
(* c2 are CAP alerts, r1 and r2 relays; every alert is of one event unless *)
(* it is named otherwise.                                                  *)
(***************************************************************************)
EXTENDS AlertForwarding, TLC

\* One event and one issuance for all.
OneEvent == [a \in Alerts |-> "TOR"]
OneIssue == [a \in Alerts |-> "T0"]

\* Every alert names county "A", which the station covers.
InArea    == [a \in Alerts |-> {"A"}]
\* Every alert names "A" and a county "B" outside the coverage.
WideArea  == [a \in Alerts |-> {"A", "B"}]
CoverA    == {"A"}

NoChain   == [c \in Caps |-> {}]
\* Every CAP alert replaces the others that are already stored.
Chain     == [c \in Caps |-> Caps \ {c}]

\* Operators are interchangeable, and so are monitors.
Interchangeable == Permutations(Operators) \cup Permutations(Monitors)
=============================================================================
