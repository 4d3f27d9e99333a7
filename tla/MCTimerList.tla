----------------------------- MODULE MCTimerList -----------------------------
(* Instance of TimerList for TLC: four timers, so that a timer can leave   *)
(* the middle of the list and come back before or behind two others.       *)
EXTENDS TimerList, TLC

(* Timer objects differ in nothing but their address.                      *)
Symmetry == Permutations(Timers)
==============================================================================
