----------------------------- MODULE MCScheduler -----------------------------
(***************************************************************************)
(* The instance of Scheduler for TLC.  Events and waiters are numbers, and *)
(* a client takes them in their order: which of them it submits first is   *)
(* all the same to the scheduler.  (A symmetry set would reduce the        *)
(* instance as well, but not for the liveness properties.)                 *)
(***************************************************************************)
EXTENDS Scheduler

InOrder ==
  /\ \A e, f \in Events : e < f /\ device[f] # NoDevice => device[e] # NoDevice
  /\ \A w, v \in Waiters : w < v /\ v \in asked => w \in asked

MCSpec == Init /\ [][Next /\ InOrder']_vars /\ Fairness
=============================================================================
