------------------------------- MODULE MCHook -------------------------------
(* Hook for TLC: one fiber reads and connects, the other reads, sleeps and *)
(* closes the descriptor.                                                  *)
EXTENDS Hook, TLC

CONSTANTS f1, f2

MCUses == f1 :> {"read", "connect"} @@ f2 :> {"read", "sleep", "close"}
MCMaxTimers == f1 :> 2 @@ f2 :> 1
=============================================================================
