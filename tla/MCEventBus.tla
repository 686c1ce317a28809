----------------------------- MODULE MCEventBus -----------------------------
(* Instances of EventBus for TLC: publishers and subscribers are model     *)
(* values.                                                                 *)
EXTENDS EventBus
=============================================================================
