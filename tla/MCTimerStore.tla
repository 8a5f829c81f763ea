---------------------------- MODULE MCTimerStore ----------------------------
(***************************************************************************)
(* A small instance of TimerStore: two conditions, each with a timer that  *)
(* is replaced once, and two workers that take one or two timers at once.  *)
(***************************************************************************)
EXTENDS TimerStore, TLC

WorkerSymmetry == Permutations(Workers)
=============================================================================
