------------------------------ MODULE MCTimer ------------------------------
(* Instances of the timers for TLC. *)
EXTENDS TimerProofs, TLC

(* Two timers whose users cancel, refresh and reset them; two that recur   *)
(* while signals arrive; and one while the clock is set back.              *)
MCScenarios ==
  {[timers |-> Timers, uses |-> {"cancel", "refresh", "reset"}],
   [timers |-> Timers, uses |-> {"recurring", "signal"}],
   [timers |-> {CHOOSE t \in Timers : TRUE},
    uses |-> {"cancel", "refresh", "recurring", "back"}]}
=============================================================================
