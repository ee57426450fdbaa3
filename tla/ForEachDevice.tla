---------------------------- MODULE ForEachDevice ----------------------------
(***************************************************************************)
(* xendv::for_each_device (sxt/execution/device/for_each.cc): the chunks   *)
(* of an index range are computed on several devices, with at most two     *)
(* chunks at a time on each, so that one can copy its data to the device   *)
(* while the other one computes.                                           *)
(*                                                                         *)
(* One coroutine per device (for_each_device_impl) launches the chunks.    *)
(* It owns two chunk_contexts and passes them alternately, by reference,   *)
(* to the client function f; a chunk reads its context whenever it is      *)
(* resumed.  The alt_future of a context is a shared future of the chunk   *)
(* that was launched before on the same device, and both that chunk's      *)
(* successor and the launching coroutine may wait for it.                  *)
(*                                                                         *)
(* All coroutines run on one thread.  A coroutine that makes a promise     *)
(* ready resumes those who wait for it on the spot, nested inside itself,  *)
(* so what is about to run is a stack, runq.  Coroutines change the        *)
(* thread's active device as they go; whoever suspends in a co_await has   *)
(* the device it saw at that point put back when it is resumed (awaiter    *)
(* and active_device_guard).                                               *)
(*                                                                         *)
(* f is modelled from its users: a chunk copies its data, then waits for   *)
(* alt_future (sum_gpu) or does not (fold_gpu), then computes.             *)
(***************************************************************************)
EXTENDS Naturals, Sequences, FiniteSets, SequencesExt

CONSTANTS
  NumDevices,  \* devices found by basdv::get_num_devices()
  NumChunks    \* std::distance(first, last)

ASSUME ForEachDeviceAssumption ==
  /\ NumDevices \in Nat \ {0}
  /\ NumChunks \in Nat \ {0}

Devices == 0 .. NumDevices - 1
Chunks == 0 .. NumChunks - 1

NumDevicesUsed == IF NumChunks < NumDevices THEN NumChunks ELSE NumDevices
DevicesUsed == 0 .. NumDevicesUsed - 1

NoChunk == NumChunks     \* the chunk behind a future that is ready from the start
NoDevice == NumDevices   \* of a coroutine that is not suspended

Coroutines ==
  {<<"caller", 0>>, <<"parent", 0>>}
    \cup {<<"impl", d>> : d \in Devices} \cup {<<"chunk", c>> : c \in Chunks}

Caller == <<"caller", 0>>
Parent == <<"parent", 0>>
Impl(d) == <<"impl", d>>
Chunk(c) == <<"chunk", c>>

VARIABLES
  awaitsAlt,  \* does f wait for ctx.alt_future before it computes?
  next,     \* first, and with it chunk_index: the next chunk to launch
  ctx,      \* contexts[d] and contexts_p[d], at 1 and 2
  cur,      \* which of the two the impl's local ctx points to
  fut,      \* the impl's local fut: the chunk it is the future of
  parent,   \* where for_each_device is, and its loop index
  impl,     \* where each for_each_device_impl is
  chunk,    \* where each chunk is
  passed,   \* the context each chunk was given: device and 1 or 2
  waiters,  \* promises_ of the shared future of each chunk
  runq,     \* coroutines about to run, innermost first
  device,   \* the thread's active device
  saved,    \* device held by the awaiter of a suspended coroutine
  home,     \* prev_device_ of for_each_device's guard
  resumed   \* history: the device the caller was resumed on

vars == <<awaitsAlt, next, ctx, cur, fut, parent, impl, chunk, passed, waiters, runq,
          device, saved, home, resumed>>

(* A context: chunk_index, and the chunk that alt_future belongs to. *)
Context(c, alt) == [chunk |-> c, alt |-> alt]

Init ==
  /\ awaitsAlt \in BOOLEAN
  /\ next = 0
  /\ ctx = [d \in Devices |-> [w \in 1 .. 2 |-> Context(0, NoChunk)]]
  /\ cur = [d \in Devices |-> 1]
  /\ fut = [d \in Devices |-> NoChunk]
  /\ parent = [at |-> "launch", k |-> 0]
  /\ impl = [d \in Devices |-> "none"]
  /\ chunk = [c \in Chunks |-> "none"]
  /\ passed = [c \in Chunks |-> <<NoDevice, 1>>]
  /\ waiters = [c \in Chunks |-> <<>>]
  /\ runq = <<Parent>>
  /\ device \in Devices
  /\ saved = [x \in Coroutines |-> NoDevice]
  /\ home = device
  /\ resumed = NoDevice

Running(x) == runq # <<>> /\ Head(runq) = x

Done(c) == c # NoChunk => chunk[c] = "done"

-----------------------------------------------------------------------------
(* Suspension and resumption *)

(***************************************************************************)
(* co_await of a shared future of chunk c that is not ready: x is queued   *)
(* behind the others that wait, and its awaiter keeps the active device.   *)
(***************************************************************************)
SuspendOn(x, c) ==
  /\ ~Done(c)
  /\ waiters' = [waiters EXCEPT ![c] = Append(@, x)]
  /\ saved' = [saved EXCEPT ![x] = device]
  /\ runq' = Tail(runq)
  /\ UNCHANGED device

(* x goes on, at once or after it was resumed: its awaiter is destroyed. *)
Proceed(x) ==
  /\ device' = IF saved[x] = NoDevice THEN device ELSE saved[x]
  /\ saved' = [saved EXCEPT ![x] = NoDevice]

-----------------------------------------------------------------------------
(* Launching a chunk *)

(***************************************************************************)
(* Definitions named Bug... are slips one could make in the definition     *)
(* that follows them.  No specification uses them; they show that the      *)
(* properties below would notice.                                          *)
(***************************************************************************)
BugLaunchOnActiveDevice(d, w) ==
  /\ device' = device
  /\ next' = next + 1
  /\ chunk' = [chunk EXCEPT ![next] = "loading"]
  /\ passed' = [passed EXCEPT ![next] = <<d, w>>]
  /\ saved' = [saved EXCEPT ![Chunk(next)] = device']

(***************************************************************************)
(* set_device(d), then f(ctx, chunk) with context w of device d: the chunk *)
(* runs until it waits for its copy, with the active device.               *)
(***************************************************************************)
Launch(d, w) ==
  /\ device' = d
  /\ next' = next + 1
  /\ chunk' = [chunk EXCEPT ![next] = "loading"]
  /\ passed' = [passed EXCEPT ![next] = <<d, w>>]
  /\ saved' = [saved EXCEPT ![Chunk(next)] = device']

-----------------------------------------------------------------------------
(* for_each_device *)

BugFirstFutureDropped ==
  /\ Running(Parent)
  /\ parent.at = "launch"
  /\ LET d == parent.k IN
       /\ Launch(d, 1)
       /\ ctx' = [ctx EXCEPT ![d][1].chunk = next]
  /\ parent' = IF parent.k + 1 = NumDevicesUsed
               THEN [at |-> "start", k |-> 0]
               ELSE [parent EXCEPT !.k = @ + 1]
  /\ UNCHANGED <<awaitsAlt, cur, fut, impl, waiters, runq, home, resumed>>

(* Initial launches: context 1 of the device; context 2 gets the future. *)
ParentLaunch ==
  /\ Running(Parent)
  /\ parent.at = "launch"
  /\ LET d == parent.k IN
       /\ Launch(d, 1)
       /\ ctx' = [ctx EXCEPT ![d][1].chunk = next, ![d][2].alt = next]
  /\ parent' = IF parent.k + 1 = NumDevicesUsed
               THEN [at |-> "start", k |-> 0]
               ELSE [parent EXCEPT !.k = @ + 1]
  /\ UNCHANGED <<awaitsAlt, cur, fut, impl, waiters, runq, home, resumed>>

(* futs[d] = for_each_device_impl(...), which runs until it suspends. *)
ParentStart ==
  /\ Running(Parent)
  /\ parent.at = "start"
  /\ impl' = [impl EXCEPT ![parent.k] = "loop"]
  /\ runq' = <<Impl(parent.k)>> \o runq
  /\ parent' = IF parent.k + 1 = NumDevicesUsed
               THEN [at |-> "wait", k |-> 0]
               ELSE [parent EXCEPT !.k = @ + 1]
  /\ UNCHANGED <<awaitsAlt, next, ctx, cur, fut, chunk, passed, waiters, device, saved, home, resumed>>

(* co_await std::move(futs[k]), not ready; the first time, it returns. *)
ParentSuspend ==
  /\ Running(Parent)
  /\ parent.at = "wait" /\ parent.k < NumDevicesUsed
  /\ impl[parent.k] # "done"
  /\ saved' = [saved EXCEPT ![Parent] = device,
                            ![Caller] = IF @ = NoDevice THEN device ELSE @]
  /\ runq' = Tail(runq)
  /\ UNCHANGED <<awaitsAlt, next, ctx, cur, fut, parent, impl, chunk, passed, waiters, device, home, resumed>>

ParentAdvance ==
  /\ Running(Parent)
  /\ parent.at = "wait" /\ parent.k < NumDevicesUsed
  /\ impl[parent.k] = "done"
  /\ Proceed(Parent)
  /\ parent' = [parent EXCEPT !.k = @ + 1]
  /\ UNCHANGED <<awaitsAlt, next, ctx, cur, fut, impl, chunk, passed, waiters, runq, home, resumed>>

(***************************************************************************)
(* co_return: the caller is resumed, then active_device_guard's destructor *)
(* puts the device back.                                                   *)
(***************************************************************************)
ParentReturn ==
  /\ Running(Parent)
  /\ parent.at = "wait" /\ parent.k = NumDevicesUsed
  /\ parent' = [parent EXCEPT !.at = "done"]
  /\ resumed' = saved[Caller]
  /\ device' = home
  /\ saved' = [saved EXCEPT ![Caller] = NoDevice]
  /\ runq' = Tail(runq)
  /\ UNCHANGED <<awaitsAlt, next, ctx, cur, fut, impl, chunk, passed, waiters, home>>

-----------------------------------------------------------------------------
(* for_each_device_impl; c is ctx and p is ctx_p *)

Ctx(d) == cur[d]
CtxP(d) == 3 - cur[d]

(* Another chunk: it gets *ctx_p, whose alt_future is the chunk before. *)
ImplLaunch(d) ==
  /\ Running(Impl(d))
  /\ impl[d] = "loop"
  /\ next < NumChunks
  /\ Launch(d, CtxP(d))
  /\ ctx' = [ctx EXCEPT ![d][CtxP(d)].chunk = next]
  /\ fut' = [fut EXCEPT ![d] = next]
  /\ impl' = [impl EXCEPT ![d] = "await"]
  /\ UNCHANGED <<awaitsAlt, cur, parent, waiters, runq, home, resumed>>

ImplLast(d) ==
  /\ Running(Impl(d))
  /\ impl[d] = "loop"
  /\ next = NumChunks
  /\ impl' = [impl EXCEPT ![d] = "last"]
  /\ UNCHANGED <<awaitsAlt, next, ctx, cur, fut, parent, chunk, passed, waiters, runq, device, saved, home, resumed>>

(* co_await ctx_p->alt_future *)
ImplSuspend(d) ==
  /\ Running(Impl(d))
  /\ impl[d] \in {"await", "last"}
  /\ SuspendOn(Impl(d), ctx[d][CtxP(d)].alt)
  /\ UNCHANGED <<awaitsAlt, next, ctx, cur, fut, parent, impl, chunk, passed, home, resumed>>

BugForgetsSwap(d) ==
  /\ Running(Impl(d))
  /\ impl[d] = "await"
  /\ Done(ctx[d][CtxP(d)].alt)
  /\ Proceed(Impl(d))
  /\ ctx' = [ctx EXCEPT ![d][Ctx(d)].alt = fut[d]]
  /\ impl' = [impl EXCEPT ![d] = "loop"]
  /\ UNCHANGED <<awaitsAlt, next, cur, fut, parent, chunk, passed, waiters, runq, home, resumed>>

(* ctx->alt_future = std::move(fut); std::swap(ctx, ctx_p) *)
ImplSwap(d) ==
  /\ Running(Impl(d))
  /\ impl[d] = "await"
  /\ Done(ctx[d][CtxP(d)].alt)
  /\ Proceed(Impl(d))
  /\ ctx' = [ctx EXCEPT ![d][Ctx(d)].alt = fut[d]]
  /\ cur' = [cur EXCEPT ![d] = CtxP(d)]
  /\ impl' = [impl EXCEPT ![d] = "loop"]
  /\ UNCHANGED <<awaitsAlt, next, fut, parent, chunk, passed, waiters, runq, home, resumed>>

BugReturnUnnoticed(d) ==
  /\ Running(Impl(d))
  /\ impl[d] = "last"
  /\ Done(ctx[d][CtxP(d)].alt)
  /\ Proceed(Impl(d))
  /\ impl' = [impl EXCEPT ![d] = "done"]
  /\ runq' = Tail(runq)
  /\ UNCHANGED <<awaitsAlt, next, ctx, cur, fut, parent, chunk, passed, waiters, home, resumed>>

(* co_return, which resumes for_each_device if it waits for this device. *)
ImplReturn(d) ==
  /\ Running(Impl(d))
  /\ impl[d] = "last"
  /\ Done(ctx[d][CtxP(d)].alt)
  /\ Proceed(Impl(d))
  /\ impl' = [impl EXCEPT ![d] = "done"]
  /\ runq' = IF saved[Parent] # NoDevice /\ parent.k = d
             THEN <<Parent>> \o Tail(runq)
             ELSE Tail(runq)
  /\ UNCHANGED <<awaitsAlt, next, ctx, cur, fut, parent, chunk, passed, waiters, home, resumed>>

-----------------------------------------------------------------------------
(* The chunks *)

(* The context of chunk c, read through the reference it was given. *)
ContextOf(c) == ctx[passed[c][1]][passed[c][2]]

(* The copy is done: the scheduler resumes the chunk. *)
Loaded(c) ==
  /\ runq = <<>>
  /\ chunk[c] = "loading"
  /\ device' = saved[Chunk(c)]
  /\ \/ /\ awaitsAlt /\ ~Done(ContextOf(c).alt)
        /\ chunk' = [chunk EXCEPT ![c] = "waiting"]
        /\ waiters' = [waiters EXCEPT ![ContextOf(c).alt] = Append(@, Chunk(c))]
     \/ /\ awaitsAlt => Done(ContextOf(c).alt)
        /\ chunk' = [chunk EXCEPT ![c] = "computing"]
        /\ UNCHANGED waiters
  /\ UNCHANGED <<awaitsAlt, next, ctx, cur, fut, parent, impl, passed, runq, saved, home, resumed>>

(* The chunk it waited for is done. *)
ChunkResumed(c) ==
  /\ Running(Chunk(c))
  /\ chunk[c] = "waiting"
  /\ device' = saved[Chunk(c)]
  /\ chunk' = [chunk EXCEPT ![c] = "computing"]
  /\ runq' = Tail(runq)
  /\ UNCHANGED <<awaitsAlt, next, ctx, cur, fut, parent, impl, passed, waiters, saved, home, resumed>>

(***************************************************************************)
(* The computation is done: the chunk returns, and the shared future makes *)
(* the promises of those who wait ready, the latest first.                 *)
(***************************************************************************)
Computed(c) ==
  /\ runq = <<>>
  /\ chunk[c] = "computing"
  /\ device' = saved[Chunk(c)]
  /\ saved' = [saved EXCEPT ![Chunk(c)] = NoDevice]
  /\ chunk' = [chunk EXCEPT ![c] = "done"]
  /\ runq' = Reverse(waiters[c])
  /\ waiters' = [waiters EXCEPT ![c] = <<>>]
  /\ UNCHANGED <<awaitsAlt, next, ctx, cur, fut, parent, impl, passed, home, resumed>>

-----------------------------------------------------------------------------

ParentStep ==
  \/ ParentLaunch
  \/ ParentStart
  \/ ParentSuspend
  \/ ParentAdvance
  \/ ParentReturn

ImplStep(d) ==
  \/ ImplLaunch(d)
  \/ ImplLast(d)
  \/ ImplSuspend(d)
  \/ ImplSwap(d)
  \/ ImplReturn(d)

Next ==
  \/ ParentStep
  \/ \E d \in Devices : ImplStep(d)
  \/ \E c \in Chunks : Loaded(c) \/ ChunkResumed(c) \/ Computed(c)

(* The thread runs, and each chunk's copy and computation are completed. *)
Fairness ==
  /\ WF_vars(ParentStep)
  /\ \A d \in Devices : WF_vars(ImplStep(d))
  /\ \A c \in Chunks : WF_vars(Loaded(c)) /\ WF_vars(ChunkResumed(c)) /\ WF_vars(Computed(c))

Spec == Init /\ [][Next]_vars /\ Fairness

-----------------------------------------------------------------------------
(* Properties *)

InFlight(d) == {c \in Chunks : chunk[c] \notin {"none", "done"} /\ passed[c][1] = d}

LaunchedBefore(c, d) == {b \in Chunks : b < c /\ chunk[b] # "none" /\ passed[b][1] = d}

(***************************************************************************)
(* A chunk's context does not change under it: as long as the chunk runs,  *)
(* chunk_index is its own index and alt_future is that of the chunk that   *)
(* was launched before it on the same device, although the contexts are    *)
(* reused for later chunks and chunks read them long after the launch.     *)
(***************************************************************************)
ContextStable ==
  \A d \in Devices : \A c \in InFlight(d) :
    /\ ContextOf(c).chunk = c
    /\ LET before == LaunchedBefore(c, d) IN
         ContextOf(c).alt = IF before = {} THEN NoChunk ELSE Max(before)

(***************************************************************************)
(* "wait for the other future to finish so that we don't oversubscribe the *)
(* GPU" (chunk_context.h): if f waits for alt_future, at most one chunk    *)
(* computes on each device.                                                *)
(***************************************************************************)
NotOversubscribed ==
  awaitsAlt => \A d \in Devices : Cardinality({c \in InFlight(d) : chunk[c] = "computing"}) <= 1

(* Whenever a chunk is resumed, the active device is the one it runs on. *)
ChunkOnItsDevice ==
  [][\A c \in Chunks : chunk[c] # chunk'[c] => device' = passed'[c][1]]_vars

(* The whole range is processed, however the chunks overtake each other. *)
Completes == <>(parent.at = "done")

(***************************************************************************)
(* "coroutines restore the active device" (coroutine.t.cc): a coroutine    *)
(* that awaits for_each_device goes on with the device it called it on.    *)
(***************************************************************************)
CallerDeviceRestored == parent.at = "done" => resumed = home
=============================================================================
