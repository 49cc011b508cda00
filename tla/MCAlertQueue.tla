----------------------------- MODULE MCAlertQueue -----------------------------
(* Small instances of AlertQueue.                                          *)
EXTENDS AlertQueue, TLC

CONSTANTS a1, a2, a3

AlertSymmetry == Permutations(Alerts)
=============================================================================
