---------------------------- MODULE RwtSchedulerMC ----------------------------
(* Two weeks of four minutes, with two eligible days: a slot is early or late *)
(* in the first window, or in the last one of the week.                      *)
EXTENDS RwtScheduler, TLC

TwoDays == {<<0, 1>>, <<2, 3>>}
Interchangeable == Permutations(Schedulers)
=============================================================================
