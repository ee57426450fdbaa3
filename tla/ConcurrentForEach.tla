-------------------------- MODULE ConcurrentForEach --------------------------
(***************************************************************************)
(* xendv::concurrent_for_each (sxt/execution/device/for_each.cc) on top of *)
(* the scheduler: a loop coroutine asks for a device, launches a chunk on  *)
(* it, goes on with the next chunk, and finally waits for all of them.     *)
(*                                                                         *)
(* The scheduler is that of module Scheduler; its client is not arbitrary  *)
(* here but consists of these loops and their chunks.  Pending event       *)
(* <<l, c>> is loop l asking for the device of chunk c, and pollable event *)
(* <<l, c, s>> is step s of that chunk: a chunk launches a computation,    *)
(* waits for it, launches the next one on the same device, and so on.      *)
(*                                                                         *)
(* The backend starts loops and calls run(), as the functions of           *)
(* gpu_backend.cc do.  Nothing else submits work.                          *)
(***************************************************************************)
EXTENDS Scheduler

CONSTANTS
  Loops,      \* identities of calls of concurrent_for_each
  NumChunks,  \* std::distance(first, last), the same for every loop
  NumSteps    \* computations that f awaits one after the other

Chunks == 0 .. NumChunks - 1

LoopEvents == Loops \X Chunks \X (1 .. NumSteps)
LoopWaiters == Loops \X Chunks

ASSUME ConcurrentForEachAssumption ==
  /\ NumChunks \in Nat
  /\ NumSteps \in Nat \ {0}
  /\ Events = LoopEvents
  /\ Waiters = LoopWaiters

VARIABLES
  loop,    \* where each loop is, and the chunk it is at
  done,    \* chunks whose future is ready
  running  \* what client code is running: a loop, a chunk, or nothing

loopVars == <<loop, done, running>>
allVars == <<vars, loopVars>>

Nothing == <<>>
TheLoop(l) == <<l>>
TheChunk(l, c) == <<l, c>>

ForEachInit ==
  /\ Init
  /\ loop = [l \in Loops |-> [at |-> "idle", k |-> 0]]
  /\ done = {}
  /\ running = Nothing

GoTo(l, at, k) == loop' = [loop EXCEPT ![l] = [at |-> at, k |-> k]]

RunningAt(l, at) == running = TheLoop(l) /\ loop[l].at = at

-----------------------------------------------------------------------------
(* The backend *)

(* concurrent_for_each is called; the coroutine starts at once. *)
StartLoop(l) ==
  /\ pc = "outside"
  /\ running = Nothing
  /\ loop[l].at = "idle"
  /\ GoTo(l, IF NumChunks = 0 THEN "join" ELSE "ask", 0)
  /\ running' = TheLoop(l)
  /\ UNCHANGED <<vars, done>>

BackendRun ==
  /\ running = Nothing
  /\ Run
  /\ UNCHANGED loopVars

-----------------------------------------------------------------------------
(* concurrent_for_each *)

(* co_await await_available_device(), answered at once *)
AskReady(l) ==
  /\ RunningAt(l, "ask")
  /\ \E d \in Devices : AwaitDeviceReady(<<l, loop[l].k>>, d)
  /\ GoTo(l, "launch", loop[l].k)
  /\ UNCHANGED <<done, running>>

(* co_await await_available_device(), suspended *)
AskPending(l) ==
  /\ RunningAt(l, "ask")
  /\ AwaitDevicePending(<<l, loop[l].k>>)
  /\ GoTo(l, "asked", loop[l].k)
  /\ running' = Nothing
  /\ UNCHANGED done

(***************************************************************************)
(* active_device_guard guard{device}; futs.emplace_back(f(chunk)): the     *)
(* chunk launches its first computation and suspends.                      *)
(***************************************************************************)
Launch(l) ==
  /\ RunningAt(l, "launch")
  /\ LET k == loop[l].k IN
       /\ ScheduleEvent(<<l, k, 1>>, granted[<<l, k>>])
       /\ IF k + 1 = NumChunks THEN GoTo(l, "join", 0) ELSE GoTo(l, "ask", k + 1)
  /\ UNCHANGED <<done, running>>

(***************************************************************************)
(* co_await std::move(fut), for the futures in order                       *)
(*                                                                         *)
(* Definitions named Bug... are slips one could make in a definition that  *)
(* follows them.  No specification uses them; they show that the           *)
(* properties below would notice.                                          *)
(***************************************************************************)
JoinReady(l) ==
  /\ RunningAt(l, "join")
  /\ loop[l].k < NumChunks
  /\ TheChunk(l, loop[l].k) \in done
  /\ GoTo(l, "join", loop[l].k + 1)
  /\ UNCHANGED <<vars, done, running>>

BugJoinUnasked(l) ==
  /\ RunningAt(l, "join")
  /\ loop[l].k < NumChunks
  /\ GoTo(l, "joining", loop[l].k)
  /\ running' = Nothing
  /\ UNCHANGED <<vars, done>>

JoinPending(l) ==
  /\ RunningAt(l, "join")
  /\ loop[l].k < NumChunks
  /\ TheChunk(l, loop[l].k) \notin done
  /\ GoTo(l, "joining", loop[l].k)
  /\ running' = Nothing
  /\ UNCHANGED <<vars, done>>

Return(l) ==
  /\ RunningAt(l, "join")
  /\ loop[l].k = NumChunks
  /\ GoTo(l, "returned", NumChunks)
  /\ running' = Nothing
  /\ UNCHANGED <<vars, done>>

-----------------------------------------------------------------------------
(* The chunks *)

(* A computation of the chunk is complete and there is another one. *)
ChunkGoesOn(l, c) ==
  /\ running = TheChunk(l, c)
  /\ cur[3] < NumSteps
  /\ ScheduleEvent(<<l, c, cur[3] + 1>>, device[cur])
  /\ running' = Nothing
  /\ UNCHANGED <<loop, done>>

BugLoopNotResumed(l, c) ==
  /\ running = TheChunk(l, c)
  /\ cur[3] = NumSteps
  /\ done' = done \cup {TheChunk(l, c)}
  /\ running' = Nothing
  /\ UNCHANGED <<vars, loop>>

(* The last one is complete: the loop is resumed if it waits for it. *)
ChunkReturns(l, c) ==
  /\ running = TheChunk(l, c)
  /\ cur[3] = NumSteps
  /\ done' = done \cup {TheChunk(l, c)}
  /\ IF loop[l] = [at |-> "joining", k |-> c]
     THEN /\ GoTo(l, "join", c + 1)
          /\ running' = TheLoop(l)
     ELSE /\ running' = Nothing
          /\ UNCHANGED loop
  /\ UNCHANGED vars

-----------------------------------------------------------------------------
(* The scheduler's loop: what it invokes starts to run *)

InvokeChunk ==
  /\ PollHeadReady \/ ScanReady
  /\ running' = TheChunk(cur'[1], cur'[2])
  /\ UNCHANGED <<loop, done>>

GrantToLoop ==
  /\ Grant
  /\ LET w == Head(pending) IN
       /\ GoTo(w[1], "launch", w[2])
       /\ running' = TheLoop(w[1])
  /\ UNCHANGED done

SchedulerGoesOn ==
  /\ running = Nothing
  /\ \/ RunReturn
     \/ PollHeadNotReady
     \/ ScanEnd
     \/ ScanNotReady
     \/ InvokeReturn
     \/ GrantReturn
     \/ DrainDoneHead
     \/ DrainDoneScan
  /\ UNCHANGED loopVars

GpuCompletes ==
  /\ \E e \in Events : Complete(e)
  /\ UNCHANGED loopVars

-----------------------------------------------------------------------------

LoopStep(l) ==
  \/ AskReady(l)
  \/ AskPending(l)
  \/ Launch(l)
  \/ JoinReady(l)
  \/ JoinPending(l)
  \/ Return(l)

ForEachStep ==
  \/ \E l \in Loops : LoopStep(l)
  \/ \E l \in Loops, c \in Chunks : ChunkGoesOn(l, c) \/ ChunkReturns(l, c)
  \/ InvokeChunk
  \/ GrantToLoop
  \/ SchedulerGoesOn

ForEachNext ==
  \/ \E l \in Loops : StartLoop(l)
  \/ BackendRun
  \/ ForEachStep
  \/ GpuCompletes

(* As for the scheduler: the thread runs and the GPU finishes its work. *)
ForEachFairness ==
  /\ WF_allVars(BackendRun)
  /\ WF_allVars(ForEachStep)
  /\ WF_allVars(GpuCompletes)

ForEachSpec == ForEachInit /\ [][ForEachNext]_allVars /\ ForEachFairness

-----------------------------------------------------------------------------
(* Properties *)

(***************************************************************************)
(* Loops that run at the same time and ask in any order never put more     *)
(* than the target on a device, except that a chunk which is resumed may   *)
(* launch its next computation before the completed one is discounted.     *)
(***************************************************************************)
NotOversubscribed ==
  \A d \in Devices :
    counts[d] <= TargetMaxActive + (IF pc = "invoke" /\ device[cur] = d THEN 1 ELSE 0)

(***************************************************************************)
(* run() returns only when every loop that was started has returned: the   *)
(* backend reads the result without looking whether the future is ready.   *)
(***************************************************************************)
RunFinishesLoops ==
  pc = "run" /\ active = <<>> => \A l \in Loops : loop[l].at \in {"idle", "returned"}

(***************************************************************************)
(* Whatever is suspended has one thing that will resume it.  A loop that   *)
(* asked for a device has its waiter in the queue, and the queue holds no  *)
(* others; a loop that awaits a future has launched that chunk, which has  *)
(* not returned; and a chunk that is neither running nor done has exactly  *)
(* one event in the scheduler's list, any other chunk none.  With none a   *)
(* coroutine would never go on; with two it would be resumed after it had  *)
(* gone on, or after its frame was destroyed.                              *)
(***************************************************************************)
LoopAt(l, at, c) == loop[l] = [at |-> at, k |-> c]

EventsOf(l, c) == {e \in ToSet(active) \ invoked : e[1] = l /\ e[2] = c}

OneWakerEach ==
  \A l \in Loops, c \in Chunks :
    LET launched == device[<<l, c, 1>>] # NoDevice
        finished == TheChunk(l, c) \in done
    IN /\ LoopAt(l, "asked", c) <=> <<l, c>> \in ToSet(pending)
       /\ LoopAt(l, "joining", c) => launched /\ ~finished
       /\ IF launched /\ ~finished /\ running # TheChunk(l, c)
          THEN \E e \in Events : EventsOf(l, c) = {e}
          ELSE EventsOf(l, c) = {}

(* Every loop that is started returns. *)
LoopsReturn == \A l \in Loops : loop[l].at # "idle" ~> loop[l].at = "returned"
=============================================================================
