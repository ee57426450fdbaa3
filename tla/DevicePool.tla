----------------------------- MODULE DevicePool -----------------------------
(***************************************************************************)
(* What the scheduler of sxt/execution/schedule promises the rest of the   *)
(* program, with no lists, no polling loop and no stack: a pool of devices *)
(* on which computations are started and finish, and coroutines that ask   *)
(* for a device.  A request is answered at once if a device is below the   *)
(* target, with a least loaded one, and waits otherwise.  A slot that      *)
(* becomes free goes to the waiters before another computation is retired, *)
(* so a waiter never sits beside two free devices.                         *)
(***************************************************************************)
EXTENDS Integers

CONSTANTS
  NumDevices,       \* size of the pool
  TargetMaxActive,  \* load below which a device is handed out
  Waiters           \* identities of the requests

VARIABLES
  load,     \* computations started and not retired, per device
  waiting,  \* requests that were not answered at once and are not answered yet
  answer    \* the device handed to a request, or NoDevice

vars == <<load, waiting, answer>>

Devices == 0 .. NumDevices - 1

NoDevice == -1

Init ==
  /\ load = [d \in Devices |-> 0]
  /\ waiting = {}
  /\ answer = [w \in Waiters |-> NoDevice]

HasSlot(d) == load[d] < TargetMaxActive

IsLeastLoaded(d) == \A o \in Devices : load[d] <= load[o]

(* A computation is started: clients are not held to the target. *)
Start(d) ==
  /\ load' = [load EXCEPT ![d] = @ + 1]
  /\ UNCHANGED <<waiting, answer>>

(* A computation is retired, once the slots freed before are handed out. *)
Finish(d) ==
  /\ load[d] > 0
  /\ waiting = {} \/ \A o \in Devices : ~HasSlot(o)
  /\ load' = [load EXCEPT ![d] = @ - 1]
  /\ UNCHANGED <<waiting, answer>>

(* A request waits, only because no device has a slot. *)
Wait(w) ==
  /\ w \notin waiting
  /\ answer[w] = NoDevice
  /\ \A d \in Devices : ~HasSlot(d)
  /\ waiting' = waiting \cup {w}
  /\ UNCHANGED <<load, answer>>

(* A request is answered, at once or after it waited. *)
Answer(w, d) ==
  /\ answer[w] = NoDevice
  /\ HasSlot(d)
  /\ IsLeastLoaded(d)
  /\ answer' = [answer EXCEPT ![w] = d]
  /\ waiting' = waiting \ {w}
  /\ UNCHANGED load

Next ==
  \/ \E d \in Devices : Start(d) \/ Finish(d)
  \/ \E w \in Waiters : Wait(w) \/ \E d \in Devices : Answer(w, d)

(* What is started is retired, and a request that waits is answered when it can be. *)
Fairness ==
  /\ \A d \in Devices : WF_vars(Finish(d))
  /\ \A w \in Waiters : WF_vars(w \in waiting /\ \E d \in Devices : Answer(w, d))

Spec == Init /\ [][Next]_vars /\ Fairness
=============================================================================
