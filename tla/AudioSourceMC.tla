---------------------------- MODULE AudioSourceMC ----------------------------
(* One source and a request; the stream breaks, or a join runs out of time,  *)
(* once.                                                                     *)
EXTENDS AudioSource, TLC

TwoAdapters == 1..2

\* The properties say nothing more of an adapter that is tangled: a behaviour is
\* followed as long as there is, or may still be, one that is not.
MayStillBeMade == asked < MaxCommands \/ "add" \in {inbox[i] : i \in DOMAIN inbox}
                  \/ \E i \in DOMAIN at["command"].todo : at["command"].todo[i] = "register"
SomeStrict == (\E a \in 1..made : a \notin tangled) \/ MayStillBeMade

=============================================================================
