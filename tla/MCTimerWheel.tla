----------------------------- MODULE MCTimerWheel -----------------------------
(* Instances of TimerWheel for TLC.                                         *)
EXTENDS TimerWheel, TLC

(* Timers differ only in what is done to them.                              *)
TimerSymmetry == Permutations(Timers)

=============================================================================
