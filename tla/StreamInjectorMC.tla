-------------------------- MODULE StreamInjectorMC ---------------------------
(* StreamInjector with the sweeper's and the decoder's thread, the command   *)
(* thread and one streamer.                                                  *)
EXTENDS StreamInjector
==============================================================================
