------------------------------ MODULE Scheduler ------------------------------
(***************************************************************************)
(* The cooperative scheduler of sxt/execution/schedule: one per thread, it *)
(* owns a list of pollable events (GPU computations whose CUDA event has   *)
(* not been observed complete) and a list of pending events (coroutines    *)
(* waiting for a device with fewer than target_max_active_ computations).  *)
(*                                                                         *)
(* scheduler::run() is a loop of polls, and every poll that finds an event *)
(* complete calls invoke() on it, which resumes client coroutines on the   *)
(* scheduler's own stack.  Client code running there may schedule further  *)
(* events or ask for a device before it returns, so the lists change under *)
(* the loop.  The control point of the loop is therefore explicit (pc),    *)
(* and client steps interleave with it wherever client code is running.    *)
(* The GPU completes computations at any time.                             *)
(*                                                                         *)
(* An event is scheduled at most once, which bounds the work a client      *)
(* submits; run() is never entered from inside an invoke().                *)
(***************************************************************************)
EXTENDS Integers, Sequences, FiniteSets, SequencesExt

CONSTANTS
  NumDevices,       \* devices found by basdv::get_num_devices()
  TargetMaxActive,  \* target_max_active_ (5 in scheduler.cc)
  Events,           \* identities of pollable events
  Waiters,          \* identities of pending events
  NoEvent           \* the null pollable_event pointer

(***************************************************************************)
(* cbindings refuses to initialise the GPU backend without a device, and   *)
(* the target is a positive compile-time constant.                         *)
(***************************************************************************)
ASSUME SchedulerAssumption ==
  /\ NumDevices \in Nat \ {0}
  /\ TargetMaxActive \in Nat \ {0}
  /\ IsFiniteSet(Events)
  /\ NoEvent \notin Events

Devices == 0 .. NumDevices - 1

NoDevice == -1

VARIABLES
  active,    \* active_scheduler::head_, the list of pollable events, head first
  pending,   \* pending_scheduler::head_, the list of pending events, head first
  counts,    \* pending_scheduler::active_counts_
  device,    \* computation_event::device_, NoDevice before the event is scheduled
  complete,  \* events whose CUDA event would be reported complete by a query
  invoked,   \* events on which invoke() has been called
  asked,     \* waiters that have called await_available_device
  granted,   \* value of the waiter's promise, NoDevice while it is not ready
  pc,        \* where the thread is
  cur,       \* the event being invoked, or NoEvent
  cursor     \* the scan's local `event`: last event polled and not ready

vars == <<active, pending, counts, device, complete, invoked, asked, granted,
          pc, cur, cursor>>

(***************************************************************************)
(*   outside  client code, not under run()                                 *)
(*   run      top of the loop of active_scheduler::run                     *)
(*   scan     inner loop, about to poll cursor->next()                     *)
(*   invoke   client code under event->invoke()                            *)
(*   drain    top of the loop of pending_scheduler::on_event_done          *)
(*   grant    client code under pending_event::invoke(device)              *)
(***************************************************************************)
Locations == {"outside", "run", "scan", "invoke", "drain", "grant"}

InClient == pc \in {"outside", "invoke", "grant"}

Position(s, e) == CHOOSE i \in 1 .. Len(s) : s[i] = e

-----------------------------------------------------------------------------

Init ==
  /\ active = <<>>
  /\ pending = <<>>
  /\ counts = [d \in Devices |-> 0]
  /\ device = [e \in Events |-> NoDevice]
  /\ complete = {}
  /\ invoked = {}
  /\ asked = {}
  /\ granted = [w \in Waiters |-> NoDevice]
  /\ pc = "outside"
  /\ cur = NoEvent
  /\ cursor = NoEvent

(***************************************************************************)
(* Definitions named Bug... are slips one could make in the definition     *)
(* that follows them.  No specification uses them; they show that the      *)
(* properties below would notice.                                          *)
(***************************************************************************)
BugBestIsMostLoaded(d) ==
  \A o \in Devices : counts[o] < counts[d] \/ (counts[o] = counts[d] /\ d <= o)

(***************************************************************************)
(* pending_scheduler::get_available_device: the first device among those   *)
(* with the smallest count, if that count is below the target.             *)
(***************************************************************************)
IsBest(d) ==
  \A o \in Devices : counts[d] < counts[o] \/ (counts[d] = counts[o] /\ d <= o)

BugAvailableUpToTarget(d) == IsBest(d) /\ counts[d] <= TargetMaxActive

IsAvailable(d) == IsBest(d) /\ counts[d] < TargetMaxActive

-----------------------------------------------------------------------------
(* Client steps *)

(***************************************************************************)
(* scheduler::schedule(pollable_event): count the event on its device,     *)
(* then push it on the front of the active list.                           *)
(***************************************************************************)
ScheduleEvent(e, d) ==
  /\ InClient
  /\ device[e] = NoDevice
  /\ device' = [device EXCEPT ![e] = d]
  /\ counts' = [counts EXCEPT ![d] = @ + 1]
  /\ active' = Cons(e, active)
  /\ UNCHANGED <<pending, complete, invoked, asked, granted, pc, cur, cursor>>

(***************************************************************************)
(* await_available_device when a device is available: a ready future.      *)
(***************************************************************************)
AwaitDeviceReady(w, d) ==
  /\ InClient
  /\ w \notin asked
  /\ IsAvailable(d)
  /\ asked' = asked \cup {w}
  /\ granted' = [granted EXCEPT ![w] = d]
  /\ UNCHANGED <<active, pending, counts, device, complete, invoked, pc, cur, cursor>>

(***************************************************************************)
(* await_available_device when none is: push on the front of the pending   *)
(* list.                                                                   *)
(***************************************************************************)
AwaitDevicePending(w) ==
  /\ InClient
  /\ w \notin asked
  /\ \A d \in Devices : ~IsAvailable(d)
  /\ asked' = asked \cup {w}
  /\ pending' = Cons(w, pending)
  /\ UNCHANGED <<active, counts, device, complete, invoked, granted, pc, cur, cursor>>

(* The client calls get_scheduler().run(). *)
Run ==
  /\ pc = "outside"
  /\ pc' = "run"
  /\ UNCHANGED <<active, pending, counts, device, complete, invoked, asked, granted, cur, cursor>>

-----------------------------------------------------------------------------
(* The GPU *)

(* The computation behind a scheduled event finishes. *)
Complete(e) ==
  /\ device[e] # NoDevice
  /\ e \notin complete
  /\ complete' = complete \cup {e}
  /\ UNCHANGED <<active, pending, counts, device, invoked, asked, granted, pc, cur, cursor>>

-----------------------------------------------------------------------------
(* active_scheduler::run *)

(* head_ is null: run() returns. *)
RunReturn ==
  /\ pc = "run"
  /\ active = <<>>
  /\ pc' = "outside"
  /\ UNCHANGED <<active, pending, counts, device, complete, invoked, asked, granted, cur, cursor>>

BugInvokeHeadLinked ==
  /\ pc = "run"
  /\ active # <<>>
  /\ Head(active) \in complete
  /\ cur' = Head(active)
  /\ invoked' = invoked \cup {Head(active)}
  /\ pc' = "invoke"
  /\ UNCHANGED <<active, pending, counts, device, complete, asked, granted, cursor>>

(* head_ is ready: unlink it before it is invoked. *)
PollHeadReady ==
  /\ pc = "run"
  /\ active # <<>>
  /\ Head(active) \in complete
  /\ active' = Tail(active)
  /\ cur' = Head(active)
  /\ invoked' = invoked \cup {Head(active)}
  /\ pc' = "invoke"
  /\ UNCHANGED <<pending, counts, device, complete, asked, granted, cursor>>

(* head_ is not ready: start scanning behind it. *)
PollHeadNotReady ==
  /\ pc = "run"
  /\ active # <<>>
  /\ Head(active) \notin complete
  /\ cursor' = Head(active)
  /\ pc' = "scan"
  /\ UNCHANGED <<active, pending, counts, device, complete, invoked, asked, granted, cur>>

BugScanWaitsAtEnd ==
  /\ pc = "scan"
  /\ Position(active, cursor) = Len(active)
  /\ UNCHANGED vars

(* The scan has reached the end of the list. *)
ScanEnd ==
  /\ pc = "scan"
  /\ Position(active, cursor) = Len(active)
  /\ pc' = "run"
  /\ cursor' = NoEvent
  /\ UNCHANGED <<active, pending, counts, device, complete, invoked, asked, granted, cur>>

(* The next event is ready: it is invoked while it is still linked. *)
ScanReady ==
  /\ pc = "scan"
  /\ Position(active, cursor) < Len(active)
  /\ LET next == active[Position(active, cursor) + 1] IN
       /\ next \in complete
       /\ cur' = next
       /\ invoked' = invoked \cup {next}
  /\ pc' = "invoke"
  /\ UNCHANGED <<active, pending, counts, device, complete, asked, granted, cursor>>

(* The next event is not ready: it becomes the scan's position. *)
ScanNotReady ==
  /\ pc = "scan"
  /\ Position(active, cursor) < Len(active)
  /\ LET next == active[Position(active, cursor) + 1] IN
       /\ next \notin complete
       /\ cursor' = next
  /\ UNCHANGED <<active, pending, counts, device, complete, invoked, asked, granted, pc, cur>>

-----------------------------------------------------------------------------
(* pending_scheduler::on_event_done, called with the device of cur *)

BugUncountOnlyHead ==
  /\ pc = "invoke"
  /\ counts' = IF cursor = NoEvent
               THEN [counts EXCEPT ![device[cur]] = @ - 1]
               ELSE counts
  /\ pc' = "drain"
  /\ UNCHANGED <<active, pending, device, complete, invoked, asked, granted, cur, cursor>>

BugDrainBelowTargetLessOne ==
  pending # <<>> /\ counts[device[cur]] < TargetMaxActive - 1

BugDrainKeepsLast ==
  Len(pending) > 1 /\ counts[device[cur]] < TargetMaxActive

BugDrainUpToTarget ==
  pending # <<>> /\ counts[device[cur]] <= TargetMaxActive

(* invoke() has returned and the count of the event's device drops. *)
InvokeReturn ==
  /\ pc = "invoke"
  /\ counts' = [counts EXCEPT ![device[cur]] = @ - 1]
  /\ pc' = "drain"
  /\ UNCHANGED <<active, pending, device, complete, invoked, asked, granted, cur, cursor>>

DrainCondition == pending # <<>> /\ counts[device[cur]] < TargetMaxActive

(* Resume the most recent waiter with the device that has become available. *)
Grant ==
  /\ pc = "drain"
  /\ DrainCondition
  /\ pending' = Tail(pending)
  /\ granted' = [granted EXCEPT ![Head(pending)] = device[cur]]
  /\ pc' = "grant"
  /\ UNCHANGED <<active, counts, device, complete, invoked, asked, cur, cursor>>

GrantReturn ==
  /\ pc = "grant"
  /\ pc' = "drain"
  /\ UNCHANGED <<active, pending, counts, device, complete, invoked, asked, granted, cur, cursor>>

(* on_event_done returns after the head was invoked: cur is destroyed. *)
DrainDoneHead ==
  /\ pc = "drain"
  /\ ~DrainCondition
  /\ cursor = NoEvent
  /\ pc' = "run"
  /\ cur' = NoEvent
  /\ UNCHANGED <<active, pending, counts, device, complete, invoked, asked, granted, cursor>>

BugUnlinkScanPosition ==
  /\ pc = "drain"
  /\ ~DrainCondition
  /\ cursor # NoEvent
  /\ active' = RemoveAt(active, Position(active, cursor))
  /\ pc' = "scan"
  /\ cur' = NoEvent
  /\ UNCHANGED <<pending, counts, device, complete, invoked, asked, granted, cursor>>

(***************************************************************************)
(* on_event_done returns in the scan: event->set_next(next->release_next())*)
(* unlinks and destroys the element behind the scan's position.            *)
(***************************************************************************)
DrainDoneScan ==
  /\ pc = "drain"
  /\ ~DrainCondition
  /\ cursor # NoEvent
  /\ active' = RemoveAt(active, Position(active, cursor) + 1)
  /\ pc' = "scan"
  /\ cur' = NoEvent
  /\ UNCHANGED <<pending, counts, device, complete, invoked, asked, granted, cursor>>

-----------------------------------------------------------------------------

ClientStep ==
  \/ \E e \in Events, d \in Devices : ScheduleEvent(e, d)
  \/ \E w \in Waiters, d \in Devices : AwaitDeviceReady(w, d)
  \/ \E w \in Waiters : AwaitDevicePending(w)

(* Everything the scheduler's thread does under run(). *)
ThreadStep ==
  \/ RunReturn
  \/ PollHeadReady
  \/ PollHeadNotReady
  \/ ScanEnd
  \/ ScanReady
  \/ ScanNotReady
  \/ InvokeReturn
  \/ Grant
  \/ GrantReturn
  \/ DrainDoneHead
  \/ DrainDoneScan

Next ==
  \/ ClientStep
  \/ Run
  \/ ThreadStep
  \/ \E e \in Events : Complete(e)

(***************************************************************************)
(* The backend calls run() after it has submitted work, the thread is not  *)
(* stopped, client code called from the loop returns, and the GPU finishes *)
(* what it was given.  Nothing obliges a client to submit anything.        *)
(***************************************************************************)
Fairness ==
  /\ WF_vars(Run)
  /\ WF_vars(ThreadStep)
  /\ \A e \in Events : WF_vars(Complete(e))

Spec == Init /\ [][Next]_vars /\ Fairness

-----------------------------------------------------------------------------
(* Properties *)

(* Every variable ranges over the values its C++ counterpart can hold. *)
TypeOK ==
  /\ active \in Seq(Events)
  /\ pending \in Seq(Waiters)
  /\ counts \in [Devices -> Nat]
  /\ device \in [Events -> Devices \cup {NoDevice}]
  /\ complete \in SUBSET Events
  /\ invoked \in SUBSET Events
  /\ asked \in SUBSET Waiters
  /\ granted \in [Waiters -> Devices \cup {NoDevice}]
  /\ pc \in Locations
  /\ cur \in Events \cup {NoEvent}
  /\ cursor \in Events \cup {NoEvent}

Draining == pc \in {"drain", "grant"}

(***************************************************************************)
(* The assertion of pending_scheduler::schedule, as an invariant: a waiter *)
(* is queued only while every device is at its target.  The one exception  *)
(* is the device whose event is being retired, until on_event_done has     *)
(* handed its free slots out.                                              *)
(***************************************************************************)
Saturated ==
  pending # <<>> =>
    \A d \in Devices :
      counts[d] >= TargetMaxActive \/ (Draining /\ d = device[cur])

(* Events that on_event_new has counted and on_event_done has not. *)
Outstanding ==
  {e \in Events : device[e] # NoDevice
                    /\ (e \notin invoked \/ (pc = "invoke" /\ e = cur))}

(***************************************************************************)
(* active_counts_ counts, per device, exactly the events that on_event_new *)
(* has seen and on_event_done has not, although the two calls are made by  *)
(* different objects around client code that schedules more events.        *)
(***************************************************************************)
CountsMatchEvents ==
  \A d \in Devices :
    counts[d] = Cardinality({e \in Outstanding : device[e] = d})

(***************************************************************************)
(* No lost wakeup: when run() has returned no coroutine is left waiting    *)
(* for a device, unless computations were started after run() returned.    *)
(***************************************************************************)
NoStrandedWaiter == active = <<>> /\ pc \in {"outside", "run"} => pending = <<>>

InScanInvoke == pc \in {"invoke", "drain", "grant"} /\ cursor # NoEvent

(***************************************************************************)
(* While the scan runs, its position is a live list node, and while an     *)
(* event found by the scan is being invoked it stays the node behind that  *)
(* position, whatever the client code under invoke() has scheduled: this   *)
(* is what makes set_next(next->release_next()) unlink the invoked event.  *)
(***************************************************************************)
ScanPositionLinked ==
  /\ pc = "scan" => cursor \in ToSet(active)
  /\ InScanInvoke =>
       /\ cursor \in ToSet(active)
       /\ Position(active, cursor) < Len(active)
       /\ active[Position(active, cursor) + 1] = cur

(***************************************************************************)
(* The active list holds every scheduled event that has not been invoked,  *)
(* once, plus the one the scan is invoking in place.  Nothing the client   *)
(* schedules under an invoke is dropped when a node is unlinked.           *)
(***************************************************************************)
NoEventLost ==
  /\ IsInjective(active)
  /\ ToSet(active) =
       {e \in Events : device[e] # NoDevice /\ e \notin invoked}
         \cup (IF InScanInvoke THEN {cur} ELSE {})

(***************************************************************************)
(* The pending list holds every coroutine that asked for a device and has  *)
(* not been given one, once: a waiter is owned only by its predecessor in  *)
(* the list, so unlinking one wrongly would destroy those behind it.       *)
(***************************************************************************)
NoWaiterLost ==
  /\ IsInjective(pending)
  /\ ToSet(pending) = {w \in asked : granted[w] = NoDevice}

(***************************************************************************)
(* invoke() is called on an event at most once, and only after its         *)
(* computation is complete (a second call would make a promise ready twice *)
(* and resume a destroyed coroutine frame).                                *)
(***************************************************************************)
InvokesOnceWhenComplete ==
  [][pc' = "invoke" /\ pc # "invoke" => cur' \in complete \ invoked]_vars

(***************************************************************************)
(* A waiter is handed a device below the target that no other device beats *)
(* for load, whether it was answered at once or resumed by on_event_done,  *)
(* which does not look at the other devices.  Its answer never changes.    *)
(***************************************************************************)
GrantsLeastLoaded ==
  [][\A w \in Waiters : granted'[w] # granted[w] =>
       /\ granted[w] = NoDevice
       /\ counts[granted'[w]] < TargetMaxActive
       /\ \A d \in Devices : counts[granted'[w]] <= counts[d]]_vars

(***************************************************************************)
(* The scheduler implements the device pool: the two intrusive lists, the  *)
(* polling loop and the client code that runs under it are invisible to    *)
(* the coroutines that ask for a device.                                   *)
(***************************************************************************)
Pool ==
  INSTANCE DevicePool
    WITH load <- counts, waiting <- ToSet(pending), answer <- granted

StepsOfPool == Pool!Init /\ [][Pool!Next]_(Pool!vars)

ImplementsPool == StepsOfPool /\ Pool!Fairness

(* Every scheduled event is eventually invoked. *)
EventsInvoked ==
  \A e \in Events : device[e] # NoDevice ~> e \in invoked

(* Every coroutine that asks for a device eventually gets one. *)
WaitersGranted ==
  \A w \in Waiters : w \in asked ~> granted[w] # NoDevice
=============================================================================
