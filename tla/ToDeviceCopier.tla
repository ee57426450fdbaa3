---------------------------- MODULE ToDeviceCopier ----------------------------
(***************************************************************************)
(* Staged host-to-device copies (sxt/execution/device/to_device_copier)    *)
(* through the thread's pool of pinned buffers (sxt/base/device).          *)
(*                                                                         *)
(* A to_device_copier is given the bytes of a device array piece by piece. *)
(* It gathers them in a pinned buffer, and whenever that is full it        *)
(* enqueues an asynchronous copy and goes on with a second buffer; the     *)
(* second must not be touched before the stream has been waited for.       *)
(* Buffers come from, and go back to, a pool that all copiers of the       *)
(* thread share, so a buffer given back too early is overwritten by        *)
(* somebody else while the GPU is still reading it.                        *)
(*                                                                         *)
(* copy() is a coroutine: between two suspensions nothing else runs on the *)
(* thread, but the GPU carries out enqueued copies, in order per stream,   *)
(* at any time.  A caller waits for one copy() before it calls the next,   *)
(* supplies no more bytes than the destination holds, and destroys a       *)
(* copier only when it has supplied all of them.                           *)
(***************************************************************************)
EXTENDS Naturals, Sequences, FiniteSets, SequencesExt

CONSTANTS
  Copiers,     \* identities of copiers
  Capacity,    \* pinned_buffer_size, in bytes
  MaxSize,     \* bound: largest destination
  MaxHandles   \* bound: pinned allocations; two for each copier are enough

ASSUME ToDeviceCopierAssumption ==
  /\ Capacity \in Nat \ {0}
  /\ MaxSize \in Nat
  /\ MaxHandles \in Nat

VARIABLES
  pc,        \* where each copier's copy() is
  size,      \* bytes of the destination
  supplied,  \* bytes passed to copy() so far
  src,       \* the copy()'s local src: bytes of it not buffered yet
  offset,    \* where dst_ starts in the destination
  left,      \* dst_.size()
  active,    \* active_buffer_: handle_ and size_
  alt,       \* alt_buffer_
  pool,      \* the pool's free list, head first
  allocated, \* number of pinned allocations made by new_handle
  pinned,    \* contents of the pinned memory
  stream,    \* copies enqueued on each copier's stream and not done
  memory     \* contents of the destinations

copyVars == <<pc, size, supplied, src, offset, left, active, alt, pool, allocated, pinned, stream, memory>>

(* Byte i of the data for copier c; Garbage is what memory holds at first. *)
Byte(c, i) == <<c, i>>
Garbage == <<>>

(* Pinned allocations, in the order in which they are made. *)
Handles == 1 .. MaxHandles
NoHandle == 0

Offsets == 0 .. MaxSize - 1
Slots == 0 .. Capacity - 1

Buffer(h, n) == [handle |-> h, size |-> n]
NoBuffer == Buffer(NoHandle, 0)
Buffers == [handle : Handles \cup {NoHandle}, size : 0 .. Capacity]

(***************************************************************************)
(*   idle       no copy() in progress                                      *)
(*   fill       top of the loop                                            *)
(*   await_alt  suspended, for the buffer that is on its way               *)
(*   send       about to enqueue the full active buffer                    *)
(*   last       about to enqueue the rest                                  *)
(*   await_end  suspended, for everything enqueued                         *)
(***************************************************************************)
Suspended == {"idle", "await_alt", "await_end"}

(* The thread is free for copier c. *)
HasThread(c) == \A o \in Copiers \ {c} : pc[o] \in Suspended

CopyInit ==
  /\ pc = [c \in Copiers |-> "idle"]
  /\ size \in [Copiers -> 0 .. MaxSize]
  /\ supplied = [c \in Copiers |-> 0]
  /\ src = [c \in Copiers |-> 0]
  /\ offset = [c \in Copiers |-> 0]
  /\ left = size
  /\ active = [c \in Copiers |-> NoBuffer]
  /\ alt = [c \in Copiers |-> NoBuffer]
  /\ pool = <<>>
  /\ allocated = 0
  /\ pinned = [h \in Handles |-> [s \in Slots |-> Garbage]]
  /\ stream = [c \in Copiers |-> <<>>]
  /\ memory = [c \in Copiers |-> [i \in Offsets |-> Garbage]]

-----------------------------------------------------------------------------
(* pinned_buffer_pool *)

(***************************************************************************)
(* acquire_handle, if the active buffer has no handle: the head of the     *)
(* free list, or a new allocation if the list is empty.                    *)
(***************************************************************************)
HandleFor(c) ==
  IF active[c].handle # NoHandle THEN active[c].handle
  ELSE IF pool # <<>> THEN Head(pool)
  ELSE allocated + 1

(***************************************************************************)
(* Definitions named Bug... are slips one could make in the definition     *)
(* that follows them.  No specification uses them; they show that the      *)
(* properties below would notice.                                          *)
(***************************************************************************)
BugPoolKeepsHead(c) == pool

PoolAfter(c) ==
  IF active[c].handle = NoHandle /\ pool # <<>> THEN Tail(pool) ELSE pool

(* pinned_buffer::reset, for a list of buffers: give their handles back. *)
Release(b, list) == IF b.handle = NoHandle THEN list ELSE Cons(b.handle, list)

(* How much of the source fits into the active buffer. *)
Taken(c) ==
  LET room == Capacity - active[c].size IN IF src[c] < room THEN src[c] ELSE room

(* The bytes that pinned memory h holds after fill_from_host. *)
Filled(h, used, n, c, first) ==
  [s \in Slots |-> IF s >= used /\ s < used + n THEN Byte(c, first + s - used) ELSE pinned[h][s]]

-----------------------------------------------------------------------------
(* to_device_copier::copy *)

(* The caller passes the next n bytes. *)
Copy(c, n) ==
  /\ pc[c] = "idle" /\ HasThread(c)
  /\ n <= size[c] - supplied[c]
  /\ left[c] > 0
  /\ supplied' = [supplied EXCEPT ![c] = @ + n]
  /\ src' = [src EXCEPT ![c] = n]
  /\ pc' = [pc EXCEPT ![c] = "fill"]
  /\ UNCHANGED <<size, offset, left, active, alt, pool, allocated, pinned, stream, memory>>

(* The source is used up: co_return. *)
SourceEmpty(c) ==
  /\ pc[c] = "fill"
  /\ src[c] = 0
  /\ pc' = [pc EXCEPT ![c] = "idle"]
  /\ UNCHANGED <<size, supplied, src, offset, left, active, alt, pool, allocated, pinned, stream, memory>>

BugFullFirst(c, n) ==
  IF n = Capacity THEN IF alt[c].size > 0 THEN "await_alt" ELSE "send"
  ELSE IF n = left[c] THEN "last"
  ELSE "idle"

BugNeverAwaitAlt(c, n) ==
  IF n = left[c] THEN "last" ELSE IF n < Capacity THEN "idle" ELSE "send"

(* Where copy() goes once the active buffer holds n bytes. *)
AfterFill(c, n) ==
  IF n = left[c] THEN "last"
  ELSE IF n < Capacity THEN "idle"
  ELSE IF alt[c].size > 0 THEN "await_alt"
  ELSE "send"

(***************************************************************************)
(* fill_from_host: move what fits into the active buffer, which takes a    *)
(* handle from the pool if it has none.                                    *)
(***************************************************************************)
Fill(c) ==
  /\ pc[c] = "fill"
  /\ src[c] > 0
  /\ HandleFor(c) \in Handles
  /\ LET h == HandleFor(c)
         used == active[c].size
         n == Taken(c)
     IN
     /\ allocated' = IF h > allocated THEN h ELSE allocated
     /\ pinned' = [pinned EXCEPT ![h] = Filled(h, used, n, c, supplied[c] - src[c])]
     /\ active' = [active EXCEPT ![c] = Buffer(h, used + n)]
     /\ src' = [src EXCEPT ![c] = @ - n]
     /\ pc' = [pc EXCEPT ![c] = AfterFill(c, used + n)]
  /\ pool' = PoolAfter(c)
  /\ UNCHANGED <<size, supplied, offset, left, alt, stream, memory>>

BugResetBeforeStream(c) ==
  /\ pc[c] = "await_alt" /\ HasThread(c)
  /\ pool' = Release(alt[c], pool)
  /\ alt' = [alt EXCEPT ![c] = NoBuffer]
  /\ pc' = [pc EXCEPT ![c] = "send"]
  /\ UNCHANGED <<size, supplied, src, offset, left, active, allocated, pinned, stream, memory>>

BugAltStaysFull(c) ==
  /\ pc[c] = "await_alt" /\ HasThread(c)
  /\ stream[c] = <<>>
  /\ pc' = [pc EXCEPT ![c] = "fill"]
  /\ UNCHANGED <<size, supplied, src, offset, left, active, alt, pool, allocated, pinned, stream, memory>>

(* await_stream, and the coroutine is resumed: alt_buffer_.reset(). *)
AltReady(c) ==
  /\ pc[c] = "await_alt" /\ HasThread(c)
  /\ stream[c] = <<>>
  /\ pool' = Release(alt[c], pool)
  /\ alt' = [alt EXCEPT ![c] = NoBuffer]
  /\ pc' = [pc EXCEPT ![c] = "send"]
  /\ UNCHANGED <<size, supplied, src, offset, left, active, allocated, pinned, stream, memory>>

(* async_memcpy_host_to_device(dst_.data(), active_buffer_.data(), ...) *)
Enqueue(c) ==
  stream' = [stream EXCEPT ![c] =
               Append(@, [handle |-> active[c].handle, size |-> active[c].size, to |-> offset[c]])]

(* Enqueue the full active buffer, advance dst_, swap the buffers. *)
Send(c) ==
  /\ pc[c] = "send"
  /\ Enqueue(c)
  /\ offset' = [offset EXCEPT ![c] = @ + active[c].size]
  /\ left' = [left EXCEPT ![c] = @ - active[c].size]
  /\ active' = [active EXCEPT ![c] = alt[c]]
  /\ alt' = [alt EXCEPT ![c] = active[c]]
  /\ pc' = [pc EXCEPT ![c] = "fill"]
  /\ UNCHANGED <<size, supplied, src, pool, allocated, pinned, memory>>

(* The buffer completes the destination. *)
SendLast(c) ==
  /\ pc[c] = "last"
  /\ Enqueue(c)
  /\ pc' = [pc EXCEPT ![c] = "await_end"]
  /\ UNCHANGED <<size, supplied, src, offset, left, active, alt, pool, allocated, pinned, memory>>

(* Resumed from the last await_stream. *)
Finish(c) ==
  /\ pc[c] = "await_end" /\ HasThread(c)
  /\ stream[c] = <<>>
  /\ offset' = [offset EXCEPT ![c] = @ + left[c]]
  /\ left' = [left EXCEPT ![c] = 0]
  /\ pool' = Release(alt[c], Release(active[c], pool))
  /\ active' = [active EXCEPT ![c] = NoBuffer]
  /\ alt' = [alt EXCEPT ![c] = NoBuffer]
  /\ pc' = [pc EXCEPT ![c] = "idle"]
  /\ UNCHANGED <<size, supplied, src, allocated, pinned, stream, memory>>

-----------------------------------------------------------------------------

(* The GPU carries out the oldest copy enqueued on the stream of c. *)
Transfer(c) ==
  /\ stream[c] # <<>>
  /\ LET op == Head(stream[c]) IN
       memory' = [memory EXCEPT ![c] =
                    [i \in Offsets |->
                       IF i >= op.to /\ i < op.to + op.size THEN pinned[op.handle][i - op.to] ELSE @[i]]]
  /\ stream' = [stream EXCEPT ![c] = Tail(@)]
  /\ UNCHANGED <<pc, size, supplied, src, offset, left, active, alt, pool, allocated, pinned>>

Run(c) ==
  \/ SourceEmpty(c)
  \/ Fill(c)
  \/ AltReady(c)
  \/ Send(c)
  \/ SendLast(c)
  \/ Finish(c)

CopyNext ==
  \E c \in Copiers :
    \/ \E n \in 0 .. MaxSize : Copy(c, n)
    \/ Run(c)
    \/ Transfer(c)

(***************************************************************************)
(* The GPU works through its streams.  The scheduler polls the events of   *)
(* all suspended coroutines in turn, and callers make finitely many calls  *)
(* (the model's empty ones are unbounded), so a copy() that can run again  *)
(* and again does run.                                                     *)
(***************************************************************************)
CopyFairness == \A c \in Copiers : SF_copyVars(Run(c)) /\ WF_copyVars(Transfer(c))

CopySpec == CopyInit /\ [][CopyNext]_copyVars /\ CopyFairness

-----------------------------------------------------------------------------
(* Properties *)

(***************************************************************************)
(* A pinned allocation has one owner at any time: it is once on the free   *)
(* list, or in one buffer of one copier.  None is leaked.                  *)
(***************************************************************************)
OneOwner ==
  LET buffers == {<<c, 1>> : c \in Copiers} \cup {<<c, 2>> : c \in Copiers}
      handle(b) == IF b[2] = 1 THEN active[b[1]].handle ELSE alt[b[1]].handle
      used == {b \in buffers : handle(b) # NoHandle}
  IN
  /\ IsInjective(pool)
  /\ \A b \in used : handle(b) \notin ToSet(pool)
  /\ \A a, b \in used : handle(a) = handle(b) => a = b
  /\ 1 .. allocated = ToSet(pool) \cup {handle(b) : b \in used}

(***************************************************************************)
(* While the GPU still has to read a pinned buffer, it belongs to the      *)
(* copier that enqueued it and holds the bytes it was enqueued for,        *)
(* whatever this copier and the others have done since.                    *)
(***************************************************************************)
InFlightIntact ==
  \A c \in Copiers : \A k \in 1 .. Len(stream[c]) :
    LET op == stream[c][k] IN
    /\ op.handle \in {active[c].handle, alt[c].handle}
    /\ \A s \in 0 .. op.size - 1 : pinned[op.handle][s] = Byte(c, op.to + s)

(***************************************************************************)
(* Between two calls every byte passed to copy() is in the part of the     *)
(* destination behind dst_ or in the active buffer, in order; nothing is   *)
(* skipped or taken twice at a buffer boundary.                            *)
(***************************************************************************)
BytesAccounted ==
  \A c \in Copiers :
    /\ offset[c] + left[c] = size[c]
    /\ pc[c] = "idle" => offset[c] + active[c].size = supplied[c]
    /\ \A s \in 0 .. active[c].size - 1 : pinned[active[c].handle][s] = Byte(c, offset[c] + s)

(***************************************************************************)
(* When the copy() that completes the destination has returned, the device *)
(* holds exactly the caller's bytes: not before they have all arrived, and *)
(* also when the size is a multiple of the buffer's.                       *)
(***************************************************************************)
Delivered ==
  \A c \in Copiers :
    supplied[c] = size[c] /\ pc[c] = "idle" =>
      \A i \in 0 .. size[c] - 1 : memory[c][i] = Byte(c, i)

(* A copy() returns to its caller. *)
CopyReturns == \A c \in Copiers : pc[c] # "idle" ~> pc[c] = "idle"
=============================================================================
