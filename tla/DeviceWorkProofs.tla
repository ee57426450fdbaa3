--------------------------- MODULE DeviceWorkProofs ---------------------------
(***************************************************************************)
(* Proofs about the work a thread hands to its GPUs: about ForEachDevice   *)
(* and SumcheckChunks for any number of devices and chunks, and about      *)
(* ToDeviceCopier for any set of copiers that share a pool, any buffer     *)
(* size and destinations of any size.                                      *)
(*                                                                         *)
(* The two chunk_contexts of a device are reused all the time, and chunks  *)
(* read theirs long after they were launched.  What makes this right is    *)
(* that at most two chunks of a device are in progress, the latest and the *)
(* one launched before it, and that the loop knows which context each of   *)
(* them has: InLoop and Awaiting say so for the two halves of the loop of  *)
(* for_each_device_impl.  The rest is about who waits for whom.            *)
(*                                                                         *)
(* That a destination ends up with its bytes rests on the buffers being    *)
(* intact while the GPU reads them, that on each buffer having one owner,  *)
(* and all of it on what may still be in a copier's stream at each place   *)
(* of copy(): the invariant, CopyIInv, says this for every copier and ties *)
(* the copiers together by the ownership of the pinned memory alone.       *)
(***************************************************************************)
EXTENDS SumcheckChunks, ToDeviceCopier, DataLemmas, FiniteSetTheorems, TLAPS

-----------------------------------------------------------------------------
(* ForEachDevice and SumcheckChunks *)

Contexts == [chunk : 0 .. NumChunks, alt : 0 .. NumChunks]
InProgress == {"loading", "waiting", "computing"}

TypeOK ==
  /\ awaitsAlt \in BOOLEAN
  /\ next \in 0 .. NumChunks
  /\ ctx \in [Devices -> [1 .. 2 -> Contexts]]
  /\ cur \in [Devices -> 1 .. 2]
  /\ fut \in [Devices -> 0 .. NumChunks]
  /\ parent \in [at : {"launch", "start", "wait", "done"}, k : 0 .. NumDevicesUsed]
  /\ impl \in [Devices -> {"none", "loop", "await", "last", "done"}]
  /\ chunk \in [Chunks -> {"none", "done"} \cup InProgress]
  /\ passed \in [Chunks -> (0 .. NumDevices) \X (1 .. 2)]
  /\ waiters \in [Chunks -> Seq(Coroutines)]
  /\ runq \in Seq(Coroutines)
  /\ device \in 0 .. NumDevices /\ home \in 0 .. NumDevices
  /\ saved \in [Coroutines -> 0 .. NumDevices]

Launched(d) == {c \in Chunks : chunk[c] # "none" /\ passed[c][1] = d}

(* Chunk c of device d has a context of its own, and finds the chunk that  *)
(* was launched before it there.                                           *)
OwnContext(c, d) ==
  LET own == ctx[d][passed[c][2]]
      before == {b \in Launched(d) : b < c}
  IN  /\ own.chunk = c
      /\ \/ before = {} /\ own.alt = NoChunk
         \/ own.alt \in before /\ \A b \in before : b <= own.alt

(* No chunk has been launched on device d, by now or at all. *)
NotYet(d) == d >= NumDevicesUsed \/ (parent.at = "launch" /\ d >= parent.k)

Untouched(d) ==
  /\ Launched(d) = {} /\ impl[d] = "none"
  /\ cur[d] = 1 /\ ctx[d][1].alt = NoChunk

(* Between two rounds of the loop, only the latest chunk may be running.   *)
InLoop(d) ==
  /\ impl[d] # "await"
  /\ \E l \in Launched(d) :
       /\ \A b \in Launched(d) \ {l} : b < l /\ chunk[b] = "done"
       /\ passed[l][2] = cur[d] /\ OwnContext(l, d)
       /\ ctx[d][CtxP(d)].alt = l

(* While the loop awaits ctx_p->alt_future, the two latest may be running. *)
Awaiting(d) ==
  /\ impl[d] = "await"
  /\ fut[d] \in Launched(d) /\ passed[fut[d]][2] = CtxP(d) /\ OwnContext(fut[d], d)
  /\ \E l \in Launched(d) :
       /\ l < fut[d]
       /\ \A b \in Launched(d) \ {l, fut[d]} : b < l /\ chunk[b] = "done"
       /\ passed[l][2] = cur[d] /\ OwnContext(l, d)
       /\ ctx[d][CtxP(d)].alt = l

DeviceOK(d) == IF NotYet(d) THEN Untouched(d) ELSE InLoop(d) \/ Awaiting(d)

ProgressOK ==
  /\ \A c \in Chunks : chunk[c] # "none" <=> c < next
  /\ \A c \in Chunks : chunk[c] # "none" => passed[c][1] \in DevicesUsed
  /\ parent.at = "launch" => next = parent.k
  /\ parent.at \in {"launch", "start"} => parent.k < NumDevicesUsed
  /\ parent.at = "launch" => \A d \in Devices : impl[d] = "none"
  /\ parent.at = "start" => \A d \in Devices : d >= parent.k => impl[d] = "none"
  /\ parent.at = "wait" => \A d \in Devices : d < parent.k => impl[d] = "done"
  /\ parent.at = "done" => \A d \in DevicesUsed : impl[d] = "done"
  /\ \A d \in Devices : impl[d] \in {"last", "done"} => next = NumChunks
  /\ \A d \in Devices : impl[d] = "done" => \A c \in Launched(d) : chunk[c] = "done"

(* Who waits for a chunk, who is about to run because it is done, and on   *)
(* which device.                                                           *)
WaitsOK ==
  /\ \A b, c \in Chunks :
       Chunk(c) \in ToSet(waiters[b]) =>
         awaitsAlt /\ chunk[c] = "waiting" /\ ContextOf(c).alt = b /\ chunk[b] # "done"
  /\ \A c \in Chunks : Chunk(c) \in ToSet(runq) /\ chunk[c] = "waiting" => Done(ContextOf(c).alt)
  /\ \A c \in Chunks : awaitsAlt /\ chunk[c] = "computing" => Done(ContextOf(c).alt)
  /\ \A c \in Chunks : chunk[c] \in InProgress => saved[Chunk(c)] = passed[c][1]

FInv == TypeOK /\ ProgressOK /\ WaitsOK /\ \A d \in Devices : DeviceOK(d)

-----------------------------------------------------------------------------
(* Devices *)

(* What a step that launches nothing on device d leaves of it. *)
Kept(d) ==
  /\ \A c \in Chunks : /\ chunk'[c] # "none" /\ passed'[c][1] = d <=> c \in Launched(d)
                       /\ c \in Launched(d) => passed'[c] = passed[c]
                       /\ chunk[c] = "done" => chunk'[c] = "done"
  /\ ctx'[d] = ctx[d] /\ cur'[d] = cur[d] /\ fut'[d] = fut[d]
  /\ impl'[d] = "await" <=> impl[d] = "await"
  /\ NotYet(d)' = NotYet(d)
  /\ NotYet(d) => impl'[d] = impl[d]

LEMMA DeviceKept ==
  ASSUME NEW d \in Devices, DeviceOK(d), Kept(d)
  PROVE  DeviceOK(d)'
<1>1. Launched(d)' = Launched(d)
  BY DEF Kept, Launched
<1>2. \A c \in Launched(d) : OwnContext(c, d)' <=> OwnContext(c, d)
  BY <1>1 DEF Kept, OwnContext, Launched
<1>3. CtxP(d)' = CtxP(d) /\ \A c \in Launched(d) : chunk[c] = "done" => chunk'[c] = "done"
  BY DEF Kept, CtxP, Launched
<1>4. CASE NotYet(d)
  BY <1>1, <1>4 DEF DeviceOK, Kept, Untouched
<1>5. CASE ~NotYet(d) /\ InLoop(d)
  <2>1. PICK l \in Launched(d) :
          /\ \A b \in Launched(d) \ {l} : b < l /\ chunk[b] = "done"
          /\ passed[l][2] = cur[d] /\ OwnContext(l, d)
          /\ ctx[d][CtxP(d)].alt = l
    BY <1>5 DEF InLoop
  <2>2. passed'[l] = passed[l] /\ OwnContext(l, d)'
    BY <1>2, <2>1 DEF Kept, Launched
  <2>3. InLoop(d)'
    BY <1>1, <1>3, <1>5, <2>1, <2>2 DEF InLoop, Kept
  <2> QED BY <1>5, <2>3 DEF DeviceOK, Kept
<1>6. CASE ~NotYet(d) /\ Awaiting(d)
  <2>1. PICK l \in Launched(d) :
          /\ l < fut[d]
          /\ \A b \in Launched(d) \ {l, fut[d]} : b < l /\ chunk[b] = "done"
          /\ passed[l][2] = cur[d] /\ OwnContext(l, d)
          /\ ctx[d][CtxP(d)].alt = l
    BY <1>6 DEF Awaiting
  <2>2. passed'[l] = passed[l] /\ OwnContext(l, d)'
    BY <1>2, <2>1 DEF Kept, Launched
  <2>3. /\ fut[d] \in Launched(d) /\ passed[fut[d]][2] = CtxP(d) /\ OwnContext(fut[d], d)
        /\ impl[d] = "await"
    BY <1>6 DEF Awaiting
  <2>4. passed'[fut[d]] = passed[fut[d]] /\ OwnContext(fut[d], d)'
    BY <1>2, <2>3 DEF Kept, Launched
  <2>5. Awaiting(d)'
    <3>1. fut'[d] = fut[d] /\ cur'[d] = cur[d] /\ ctx'[d] = ctx[d] /\ impl'[d] = "await"
      BY <2>3 DEF Kept
    <3> QED BY <1>1, <1>3, <2>1, <2>2, <2>3, <2>4, <3>1 DEF Awaiting
  <2> QED BY <1>6, <2>5 DEF DeviceOK, Kept
<1> QED BY <1>4, <1>5, <1>6 DEF DeviceOK

LEMMA UsedDevices ==
  /\ NumDevicesUsed \in Nat \ {0} /\ NumDevicesUsed <= NumDevices /\ NumDevicesUsed <= NumChunks
  /\ DevicesUsed \subseteq Devices /\ NumChunks \in Nat /\ NumDevices \in Nat
BY ForEachDeviceAssumption DEF NumDevicesUsed, DevicesUsed, Devices

-----------------------------------------------------------------------------
(* Types *)

LEMMA NextChunk ==
  ASSUME TypeOK, ProgressOK, ParentLaunch \/ \E d \in Devices : ImplLaunch(d)
  PROVE  next \in Chunks /\ next + 1 \in 0 .. NumChunks /\ chunk[next] = "none"
<1>1. next < NumChunks
  BY UsedDevices DEF ProgressOK, ParentLaunch, ImplLaunch, TypeOK
<1>2. next \in Chunks
  BY <1>1, UsedDevices DEF TypeOK, Chunks
<1> QED BY <1>1, <1>2, UsedDevices DEF TypeOK, ProgressOK, Chunks

LEMMA CoroutinesDiffer ==
  /\ Caller \in Coroutines /\ Parent \in Coroutines
  /\ \A d \in Devices : Impl(d) \in Coroutines
  /\ \A c \in Chunks : Chunk(c) \in Coroutines
  /\ \A c \in Chunks : Chunk(c) # Caller /\ Chunk(c) # Parent
  /\ \A c \in Chunks, d \in Devices : Chunk(c) # Impl(d)
  /\ \A b, c \in Chunks : Chunk(b) = Chunk(c) => b = c
BY DEF Coroutines, Caller, Parent, Impl, Chunk

(* What runs is the first of runq. *)
LEMMA RunningFirst ==
  ASSUME TypeOK, NEW x \in Coroutines, Running(x)
  PROVE  /\ x \in ToSet(runq) /\ Tail(runq) \in Seq(Coroutines)
         /\ ToSet(Tail(runq)) \subseteq ToSet(runq)
<1>1. runq \in Seq(Coroutines) /\ runq # <<>> /\ Head(runq) = x
  BY DEF TypeOK, Running
<1>2. /\ Tail(runq) \in Seq(Coroutines) /\ Len(Tail(runq)) = Len(runq) - 1
      /\ \A i \in 1 .. Len(Tail(runq)) : Tail(runq)[i] = runq[i + 1]
  BY <1>1, HeadTailProperties
<1>3. Len(runq) \in Nat /\ DOMAIN Tail(runq) = 1 .. Len(Tail(runq)) /\ DOMAIN runq = 1 .. Len(runq)
  BY <1>1, <1>2, LenProperties
<1>4. \A i \in DOMAIN Tail(runq) : i + 1 \in DOMAIN runq /\ Tail(runq)[i] = runq[i + 1]
  BY <1>2, <1>3
<1>5. ToSet(Tail(runq)) \subseteq ToSet(runq)
  BY <1>4 DEF ToSet
<1> QED BY <1>1, <1>2, <1>5, TailOfList

LEMMA PushedFirst ==
  ASSUME NEW x \in Coroutines, NEW q \in Seq(Coroutines)
  PROVE  /\ <<x>> \o q \in Seq(Coroutines)
         /\ ToSet(<<x>> \o q) = ToSet(q) \cup {x}
<1>1. <<x>> \o q = Cons(x, q)
  BY DEF Cons
<1>2. Cons(x, q) \in Seq(Coroutines) /\ ToSet(Cons(x, q)) = ToSet(q) \cup {x}
  BY ConsProperties
<1> QED BY <1>1, <1>2

LEMMA Appended ==
  ASSUME NEW x \in Coroutines, NEW q \in Seq(Coroutines)
  PROVE  Append(q, x) \in Seq(Coroutines) /\ ToSet(Append(q, x)) = ToSet(q) \cup {x}
<1> DEFINE r == Append(q, x)
<1>1. /\ r \in Seq(Coroutines) /\ Len(r) = Len(q) + 1 /\ r[Len(q) + 1] = x
      /\ \A i \in 1 .. Len(q) : r[i] = q[i]
  BY AppendProperties
<1>2. Len(q) \in Nat /\ DOMAIN q = 1 .. Len(q) /\ DOMAIN r = 1 .. Len(q) + 1
  BY <1>1, LenProperties
<1> HIDE DEF r
<1>3. \A i \in DOMAIN q : i \in DOMAIN r /\ r[i] = q[i]
  BY <1>1, <1>2
<1>4. \A i \in DOMAIN r : i \in DOMAIN q \/ r[i] = x
  BY <1>1, <1>2
<1>5. Len(q) + 1 \in DOMAIN r
  BY <1>2
<1>6. ToSet(r) = ToSet(q) \cup {x}
  BY <1>1, <1>3, <1>4, <1>5 DEF ToSet
<1> QED BY <1>1, <1>6 DEF r

LEMMA Reversed ==
  ASSUME NEW q \in Seq(Coroutines)
  PROVE  Reverse(q) \in Seq(Coroutines) /\ ToSet(Reverse(q)) = ToSet(q)
<1> DEFINE r == Reverse(q)
<1>1. Len(q) \in Nat /\ DOMAIN q = 1 .. Len(q) /\ \A i \in 1 .. Len(q) : q[i] \in Coroutines
  BY LenProperties, ElementOfSeq
<1>2. r = [i \in 1 .. Len(q) |-> q[(Len(q) - i) + 1]]
  BY DEF Reverse
<1>3. \A i \in 1 .. Len(q) : (Len(q) - i) + 1 \in 1 .. Len(q)
  BY <1>1
<1>4. r \in [1 .. Len(q) -> Coroutines]
  BY <1>1, <1>2, <1>3
<1>5. r \in Seq(Coroutines)
  BY <1>1, <1>4, IsASeq
<1> HIDE DEF r
<1>6. \A i \in DOMAIN r : (Len(q) - i) + 1 \in DOMAIN q /\ r[i] = q[(Len(q) - i) + 1]
  BY <1>1, <1>2, <1>3
<1>7. \A i \in DOMAIN q : (Len(q) - i) + 1 \in DOMAIN r /\ r[(Len(q) - i) + 1] = q[i]
  BY <1>1, <1>2, <1>3
<1>8. ToSet(r) = ToSet(q)
  BY <1>6, <1>7 DEF ToSet
<1> QED BY <1>5, <1>8 DEF r

LEMMA ContextInDevices ==
  ASSUME NEW c \in Chunks, FInv, chunk[c] # "none"
  PROVE  /\ passed[c][1] \in Devices /\ passed[c][2] \in 1 .. 2
         /\ ContextOf(c) = ctx[passed[c][1]][passed[c][2]] /\ ContextOf(c) \in Contexts
         /\ c \in Launched(passed[c][1])
<1>1. passed[c][1] \in Devices /\ passed[c][2] \in 1 .. 2
  BY UsedDevices DEF FInv, ProgressOK, TypeOK
<1> QED BY <1>1 DEF FInv, TypeOK, ContextOf, Launched

-----------------------------------------------------------------------------
(* Waiting *)

(* No chunk in progress loses its context, and what is done stays done. *)
Steady ==
  /\ awaitsAlt' = awaitsAlt
  /\ \A c \in Chunks :
       /\ chunk[c] \in InProgress => passed'[c] = passed[c] /\ ContextOf(c)' = ContextOf(c)
       /\ chunk[c] = "done" => chunk'[c] = "done"

(* Steps of for_each_device and its loops, which may launch chunks *)
LEMMA WaitsKept ==
  ASSUME FInv, Steady,
         \A c \in Chunks :
           \/ chunk'[c] = chunk[c] /\ saved'[Chunk(c)] = saved[Chunk(c)]
           \/ chunk[c] = "none" /\ chunk'[c] = "loading" /\ saved'[Chunk(c)] = passed'[c][1],
         \A b, c \in Chunks : Chunk(c) \in ToSet(waiters'[b]) => Chunk(c) \in ToSet(waiters[b]),
         \A c \in Chunks : Chunk(c) \in ToSet(runq') => Chunk(c) \in ToSet(runq)
  PROVE  WaitsOK'
<1>1. WaitsOK
  BY DEF FInv
<1>2. \A n \in 0 .. NumChunks : Done(n) => Done(n)'
  BY UsedDevices DEF Steady, Done, NoChunk, Chunks
<1>3. \A c \in Chunks : chunk[c] \in InProgress => ContextOf(c).alt \in 0 .. NumChunks
  BY ContextInDevices DEF Contexts, InProgress
<1>4. \A b, c \in Chunks :
        Chunk(c) \in ToSet(waiters'[b]) =>
          awaitsAlt' /\ chunk'[c] = "waiting" /\ ContextOf(c)'.alt = b /\ chunk'[b] # "done"
  BY <1>1 DEF WaitsOK, Steady, InProgress
<1>5. ASSUME NEW c \in Chunks, Chunk(c) \in ToSet(runq'), chunk'[c] = "waiting"
      PROVE  Done(ContextOf(c).alt)'
  <2>1. chunk[c] = "waiting"
    BY <1>5
  <2> QED BY <1>1, <1>2, <1>3, <1>5, <2>1 DEF WaitsOK, Steady, InProgress
<1>6. ASSUME NEW c \in Chunks, awaitsAlt', chunk'[c] = "computing"
      PROVE  Done(ContextOf(c).alt)'
  <2>1. awaitsAlt /\ chunk[c] = "computing"
    BY <1>6 DEF Steady
  <2> QED BY <1>1, <1>2, <1>3, <1>6, <2>1 DEF WaitsOK, Steady, InProgress
<1>7. \A c \in Chunks : chunk'[c] \in InProgress => saved'[Chunk(c)] = passed'[c][1]
  BY <1>1 DEF WaitsOK, Steady
<1> QED BY <1>4, <1>5, <1>6, <1>7 DEF WaitsOK

(* The contexts of chunks on a device whose contexts do not change *)
LEMMA SteadyContext ==
  ASSUME FInv, NEW c \in Chunks, chunk[c] # "none", passed'[c] = passed[c],
         ctx'[passed[c][1]] = ctx[passed[c][1]]
  PROVE  ContextOf(c)' = ContextOf(c)
BY DEF ContextOf

-----------------------------------------------------------------------------
(* Launching *)

LEMMA AfterLaunch ==
  ASSUME TypeOK, ProgressOK, NEW d \in Devices, NEW w \in 1 .. 2, Launch(d, w),
         NEW n \in Chunks, n = next, chunk[n] = "none"
  PROVE  /\ Launched(d)' = Launched(d) \cup {n} /\ n \notin Launched(d)
         /\ \A b \in Launched(d) : b < n
         /\ \A e \in Devices \ {d} : Launched(e)' = Launched(e)
         /\ passed'[n] = <<d, w>> /\ chunk'[n] = "loading"
         /\ \A b \in Chunks \ {n} : passed'[b] = passed[b] /\ chunk'[b] = chunk[b]
         /\ saved'[Chunk(n)] = d
         /\ \A x \in Coroutines \ {Chunk(n)} : saved'[x] = saved[x]
         /\ passed' \in [Chunks -> (0 .. NumDevices) \X (1 .. 2)]
         /\ chunk' \in [Chunks -> {"none", "done"} \cup InProgress]
         /\ saved' \in [Coroutines -> 0 .. NumDevices]
         /\ next' = n + 1 /\ device' \in 0 .. NumDevices
<1>1. /\ device' = d /\ next' = n + 1
      /\ chunk' = [chunk EXCEPT ![n] = "loading"]
      /\ passed' = [passed EXCEPT ![n] = <<d, w>>]
      /\ saved' = [saved EXCEPT ![Chunk(n)] = d]
  BY DEF Launch
<1>2. d \in 0 .. NumDevices
  BY UsedDevices DEF Devices
<1>3. /\ passed' \in [Chunks -> (0 .. NumDevices) \X (1 .. 2)]
      /\ chunk' \in [Chunks -> {"none", "done"} \cup InProgress]
      /\ saved' \in [Coroutines -> 0 .. NumDevices]
  BY <1>1, <1>2, CoroutinesDiffer DEF TypeOK, InProgress
<1>4. /\ passed'[n] = <<d, w>> /\ chunk'[n] = "loading"
      /\ \A b \in Chunks \ {n} : passed'[b] = passed[b] /\ chunk'[b] = chunk[b]
      /\ saved'[Chunk(n)] = d
      /\ \A x \in Coroutines \ {Chunk(n)} : saved'[x] = saved[x]
  BY <1>1, CoroutinesDiffer DEF TypeOK
<1>5. \A b \in Launched(d) : b < n
  BY DEF Launched, ProgressOK
<1>6. Launched(d)' = Launched(d) \cup {n} /\ n \notin Launched(d)
  BY <1>4 DEF Launched
<1>7. \A e \in Devices \ {d} : Launched(e)' = Launched(e)
  BY <1>4 DEF Launched
<1> QED BY <1>1, <1>2, <1>3, <1>4, <1>5, <1>6, <1>7

(* A chunk that has a context of its own keeps it if its device's contexts *)
(* are not what changes, and later chunks are launched.                    *)
LEMMA OwnContextKept ==
  ASSUME NEW d \in Devices, NEW c \in Launched(d), OwnContext(c, d),
         Launched(d) \subseteq Nat, passed'[c] = passed[c],
         ctx'[d][passed[c][2]] = ctx[d][passed[c][2]],
         \A b \in Nat : b < c => (b \in Launched(d)' <=> b \in Launched(d)),
         Launched(d)' \subseteq Nat
  PROVE  OwnContext(c, d)'
<1>1. {b \in Launched(d)' : b < c} = {b \in Launched(d) : b < c}
  OBVIOUS
<1> QED BY <1>1 DEF OwnContext

LEMMA ParentLaunchKeeps ==
  ASSUME FInv, ParentLaunch
  PROVE  FInv'
<1> PICK d \in Nat : d = parent.k
  BY DEF FInv, TypeOK
<1> PICK n \in Nat : n = next
  BY DEF FInv, TypeOK
<1>1. /\ TypeOK /\ ProgressOK /\ parent.k = d /\ next = n /\ parent.at = "launch" /\ Running(Parent)
      /\ Launch(d, 1)
      /\ ctx' = [ctx EXCEPT ![d][1].chunk = n, ![d][2].alt = n]
      /\ parent' = IF d + 1 = NumDevicesUsed
                   THEN [at |-> "start", k |-> 0]
                   ELSE [parent EXCEPT !.k = @ + 1]
      /\ UNCHANGED <<awaitsAlt, cur, fut, impl, waiters, runq, home, resumed>>
  BY DEF ParentLaunch, FInv
<1>2. d \in Devices /\ d < NumDevicesUsed /\ d \in Nat /\ d \in DevicesUsed
  BY <1>1, UsedDevices DEF ProgressOK, TypeOK, Devices, DevicesUsed
<1>3. n \in Chunks /\ n + 1 \in 0 .. NumChunks /\ chunk[n] = "none" /\ n = d
  BY <1>1, NextChunk DEF ProgressOK
<1>4. /\ Launched(d)' = Launched(d) \cup {n} /\ n \notin Launched(d)
      /\ \A e \in Devices \ {d} : Launched(e)' = Launched(e)
      /\ passed'[n] = <<d, 1>> /\ chunk'[n] = "loading"
      /\ \A b \in Chunks \ {n} : passed'[b] = passed[b] /\ chunk'[b] = chunk[b]
      /\ saved'[Chunk(n)] = d
      /\ \A x \in Coroutines \ {Chunk(n)} : saved'[x] = saved[x]
      /\ passed' \in [Chunks -> (0 .. NumDevices) \X (1 .. 2)]
      /\ chunk' \in [Chunks -> {"none", "done"} \cup InProgress]
      /\ saved' \in [Coroutines -> 0 .. NumDevices]
      /\ next' = n + 1 /\ device' \in 0 .. NumDevices
  BY <1>1, <1>2, <1>3, AfterLaunch
<1>5. NotYet(d) /\ Untouched(d)
  <2>1. NotYet(d)
    BY <1>1, <1>2 DEF NotYet
  <2> QED BY <1>2, <2>1 DEF FInv, DeviceOK
<1>6. /\ ctx'[d][1].chunk = n /\ ctx'[d][1].alt = NoChunk /\ ctx'[d][2].alt = n
      /\ \A e \in Devices \ {d} : ctx'[e] = ctx[e]
      /\ ctx' \in [Devices -> [1 .. 2 -> Contexts]]
  <2>1. ctx[d] \in [1 .. 2 -> Contexts] /\ ctx[d][1].alt = NoChunk /\ n \in 0 .. NumChunks
    BY <1>1, <1>2, <1>5 DEF TypeOK, Untouched
  <2>2. ctx[d][1] \in Contexts /\ ctx[d][2] \in Contexts /\ ctx \in [Devices -> [1 .. 2 -> Contexts]]
    BY <1>1, <1>2 DEF TypeOK
  <2> DEFINE one == [ctx[d][1] EXCEPT !.chunk = n]
             two == [ctx[d][2] EXCEPT !.alt = n]
             both == [w \in 1 .. 2 |-> IF w = 1 THEN one ELSE two]
  <2>3. one \in Contexts /\ one.chunk = n /\ one.alt = NoChunk
    BY <2>1, <2>2 DEF Contexts
  <2>4. two \in Contexts /\ two.alt = n
    BY <2>1, <2>2 DEF Contexts
  <2>5. ctx' = [ctx EXCEPT ![d] = both]
    <3>1. [[ctx[d] EXCEPT ![1] = one] EXCEPT ![2] = two] = both
      BY <2>1
    <3>2. [[ctx[d] EXCEPT ![1] = one] EXCEPT ![2] = [@ EXCEPT !.alt = n]] = both
      BY <2>1, <3>1
    <3> QED BY <1>1, <1>2, <2>2, <3>2
  <2> HIDE DEF one, two
  <2>6. both \in [1 .. 2 -> Contexts] /\ both[1] = one /\ both[2] = two
    BY <2>3, <2>4
  <2> HIDE DEF both
  <2> QED BY <1>2, <2>2, <2>3, <2>4, <2>5, <2>6
<1>7. TypeOK'
  <2>1. parent' \in [at : {"launch", "start", "wait", "done"}, k : 0 .. NumDevicesUsed]
    <3>1. CASE d + 1 = NumDevicesUsed
      BY <1>1, <3>1, UsedDevices
    <3>2. CASE d + 1 # NumDevicesUsed
      <4>1. parent' = [parent EXCEPT !.k = d + 1] /\ d + 1 \in 0 .. NumDevicesUsed
        BY <1>1, <1>2, <3>2, UsedDevices
      <4> QED BY <1>1, <4>1 DEF TypeOK
    <3> QED BY <3>1, <3>2
  <2> QED BY <1>1, <1>3, <1>4, <1>6, <2>1 DEF TypeOK
<1>8. DeviceOK(d)'
  <2>1. ~NotYet(d)'
    BY <1>1, <1>2, UsedDevices DEF NotYet, TypeOK
  <2>2. Launched(d)' = {n}
    BY <1>4, <1>5 DEF Untouched
  <2>3. OwnContext(n, d)'
    <3>1. {b \in Launched(d)' : b < n} = {}
      BY <1>3, <2>2, UsedDevices DEF Chunks
    <3> QED BY <1>4, <1>6, <3>1 DEF OwnContext
  <2>4. impl'[d] # "await" /\ cur'[d] = 1 /\ CtxP(d)' = 2
    BY <1>1, <1>5 DEF Untouched, CtxP
  <2>5. InLoop(d)'
    BY <1>4, <1>6, <2>2, <2>3, <2>4 DEF InLoop
  <2> QED BY <2>1, <2>5 DEF DeviceOK
<1>9. ASSUME NEW e \in Devices \ {d}
      PROVE  DeviceOK(e)'
  <2>1. NotYet(e)' = NotYet(e)
    BY <1>1, <1>2, UsedDevices DEF NotYet, TypeOK, Devices
  <2>2. Kept(e)
    <3>1. \A c \in Chunks : chunk'[c] # "none" /\ passed'[c][1] = e <=> c \in Launched(e)
      BY <1>4 DEF Launched
    <3>2. \A c \in Chunks : /\ c \in Launched(e) => passed'[c] = passed[c]
                            /\ chunk[c] = "done" => chunk'[c] = "done"
      BY <1>3, <1>4 DEF Launched
    <3> QED BY <1>1, <1>6, <2>1, <3>1, <3>2 DEF Kept
  <2> QED BY <2>2, DeviceKept DEF FInv
<1>10. ProgressOK'
  <2>1. ASSUME NEW c \in Chunks
        PROVE  chunk'[c] # "none" <=> c < next'
    <3>1. c \in Nat /\ n \in Nat /\ next' = n + 1 /\ (chunk[c] # "none" <=> c < n)
      BY <1>1, <1>3, <1>4, UsedDevices DEF ProgressOK, Chunks
    <3>2. IF c = n THEN chunk'[c] = "loading" ELSE chunk'[c] = chunk[c]
      BY <1>4
    <3> QED BY <3>1, <3>2
  <2>2. \A c \in Chunks : chunk'[c] # "none" => passed'[c][1] \in DevicesUsed
    BY <1>1, <1>2, <1>4 DEF ProgressOK
  <2>3. /\ parent'.at = "launch" => next' = parent'.k /\ parent'.k < NumDevicesUsed
        /\ parent'.at = "start" => parent'.k < NumDevicesUsed
        /\ parent'.at \in {"launch", "start"}
    BY <1>1, <1>2, <1>3, <1>4, UsedDevices DEF TypeOK
  <2>4. \A e \in Devices : impl'[e] = "none"
    BY <1>1 DEF ProgressOK
  <2> QED BY <2>1, <2>2, <2>3, <2>4 DEF ProgressOK
<1>11. WaitsOK'
  <2>1. Steady
    <3> SUFFICES ASSUME NEW c \in Chunks, chunk[c] \in InProgress
                 PROVE  passed'[c] = passed[c] /\ ContextOf(c)' = ContextOf(c)
      BY <1>1, <1>3, <1>4 DEF Steady
    <3>1. c # n /\ chunk[c] # "none" /\ passed'[c] = passed[c]
      BY <1>3, <1>4 DEF InProgress
    <3>2. passed[c][1] \in Devices /\ c \in Launched(passed[c][1])
      BY <3>1, ContextInDevices
    <3>3. passed[c][1] # d
      BY <1>5, <3>2 DEF Untouched
    <3> QED BY <1>6, <3>1, <3>2, <3>3, SteadyContext
  <2>2. \A c \in Chunks :
           \/ chunk'[c] = chunk[c] /\ saved'[Chunk(c)] = saved[Chunk(c)]
           \/ chunk[c] = "none" /\ chunk'[c] = "loading" /\ saved'[Chunk(c)] = passed'[c][1]
    BY <1>3, <1>4, CoroutinesDiffer
  <2> QED BY <1>1, <2>1, <2>2, WaitsKept
<1> QED BY <1>7, <1>8, <1>9, <1>10, <1>11 DEF FInv

-----------------------------------------------------------------------------
(* Steps that launch nothing and leave the chunks and the contexts alone *)

LEMMA QuietKeeps ==
  ASSUME FInv, TypeOK', ProgressOK',
         UNCHANGED <<awaitsAlt, ctx, cur, fut, chunk, passed>>,
         \A d \in Devices : /\ impl'[d] = "await" <=> impl[d] = "await"
                            /\ NotYet(d)' = NotYet(d)
                            /\ NotYet(d) => impl'[d] = impl[d],
         \A c \in Chunks : saved'[Chunk(c)] = saved[Chunk(c)],
         \A b, c \in Chunks : Chunk(c) \in ToSet(waiters'[b]) => Chunk(c) \in ToSet(waiters[b]),
         \A c \in Chunks : Chunk(c) \in ToSet(runq') => Chunk(c) \in ToSet(runq)
  PROVE  FInv'
<1>1. ASSUME NEW d \in Devices PROVE DeviceOK(d)'
  <2>1. Kept(d)
    BY DEF Kept, Launched
  <2> QED BY <2>1, DeviceKept DEF FInv
<1>2. Steady
  BY DEF Steady, ContextOf
<1>3. WaitsOK'
  BY <1>2, WaitsKept
<1> QED BY <1>1, <1>3 DEF FInv

LEMMA ParentStartKeeps ==
  ASSUME FInv, ParentStart
  PROVE  FInv'
<1> PICK k \in 0 .. NumDevicesUsed : k = parent.k
  BY DEF FInv, TypeOK
<1>1. /\ TypeOK /\ ProgressOK /\ parent.at = "start" /\ parent.k = k /\ k < NumDevicesUsed
      /\ impl' = [impl EXCEPT ![k] = "loop"]
      /\ runq' = <<Impl(k)>> \o runq
      /\ parent' = IF k + 1 = NumDevicesUsed
                   THEN [at |-> "wait", k |-> 0]
                   ELSE [parent EXCEPT !.k = k + 1]
      /\ UNCHANGED <<awaitsAlt, next, ctx, cur, fut, chunk, passed, waiters, saved, device, home>>
  BY DEF ParentStart, FInv, ProgressOK
<1>2. k \in Devices /\ k \in Nat /\ impl[k] = "none" /\ runq \in Seq(Coroutines)
  BY <1>1, UsedDevices DEF ProgressOK, Devices, TypeOK
<1>3. /\ runq' \in Seq(Coroutines)
      /\ \A c \in Chunks : Chunk(c) \in ToSet(runq') => Chunk(c) \in ToSet(runq)
  <2>1. Impl(k) \in Coroutines
    BY <1>2, CoroutinesDiffer
  <2> QED BY <1>1, <1>2, <2>1, PushedFirst, CoroutinesDiffer
<1>4. /\ impl'[k] = "loop" /\ \A d \in Devices \ {k} : impl'[d] = impl[d]
      /\ impl' \in [Devices -> {"none", "loop", "await", "last", "done"}]
  BY <1>1, <1>2 DEF TypeOK
<1>5. parent' \in [at : {"launch", "start", "wait", "done"}, k : 0 .. NumDevicesUsed]
  <2>1. CASE k + 1 = NumDevicesUsed
    BY <1>1, <2>1, UsedDevices
  <2>2. CASE k + 1 # NumDevicesUsed
    <3>1. k + 1 \in 0 .. NumDevicesUsed
      BY <1>1, <1>2, UsedDevices
    <3> QED BY <1>1, <2>2, <3>1 DEF TypeOK
  <2> QED BY <2>1, <2>2
<1>6. /\ parent'.at \in {"start", "wait"} /\ parent'.at = "start" => parent'.k = k + 1
      /\ parent'.at = "start" => k + 1 < NumDevicesUsed
      /\ parent'.at = "wait" => parent'.k = 0
  BY <1>1, <1>2, UsedDevices DEF TypeOK
<1>7. TypeOK'
  BY <1>1, <1>3, <1>4, <1>5 DEF TypeOK
<1>8. ProgressOK'
  <2>1. /\ parent'.at = "start" => parent'.k < NumDevicesUsed
        /\ parent'.at = "start" => \A d \in Devices : d >= parent'.k => impl'[d] = "none"
        /\ parent'.at = "wait" => \A d \in Devices : ~(d < parent'.k)
    BY <1>1, <1>2, <1>4, <1>6, UsedDevices DEF ProgressOK, Devices
  <2>2. \A d \in Devices : /\ impl'[d] \in {"last", "done"} => impl'[d] = impl[d]
                           /\ Launched(d)' = Launched(d)
    BY <1>1, <1>4 DEF Launched
  <2> QED BY <1>1, <1>6, <2>1, <2>2 DEF ProgressOK
<1>9. \A d \in Devices : /\ impl'[d] = "await" <=> impl[d] = "await"
                         /\ NotYet(d)' = NotYet(d)
                         /\ NotYet(d) => impl'[d] = impl[d]
  BY <1>1, <1>2, <1>4, <1>6, UsedDevices DEF NotYet, Devices
<1> QED BY <1>1, <1>3, <1>7, <1>8, <1>9, QuietKeeps

LEMMA ParentSuspendKeeps ==
  ASSUME FInv, ParentSuspend
  PROVE  FInv'
<1>1. /\ TypeOK /\ ProgressOK
      /\ saved' = [saved EXCEPT ![Parent] = device,
                                ![Caller] = IF @ = NoDevice THEN device ELSE @]
      /\ runq' = Tail(runq) /\ Running(Parent)
      /\ UNCHANGED <<awaitsAlt, next, ctx, cur, fut, parent, impl, chunk, passed, waiters, device, home>>
  BY DEF ParentSuspend, FInv
<1>2. /\ saved' \in [Coroutines -> 0 .. NumDevices]
      /\ \A c \in Chunks : saved'[Chunk(c)] = saved[Chunk(c)]
  BY <1>1, CoroutinesDiffer DEF TypeOK
<1>3. /\ runq' \in Seq(Coroutines)
      /\ \A c \in Chunks : Chunk(c) \in ToSet(runq') => Chunk(c) \in ToSet(runq)
  BY <1>1, RunningFirst, CoroutinesDiffer
<1>4. TypeOK'
  BY <1>1, <1>2, <1>3 DEF TypeOK
<1>5. ProgressOK' /\ \A d \in Devices : NotYet(d)' = NotYet(d)
  BY <1>1 DEF ProgressOK, NotYet, Launched
<1> QED BY <1>1, <1>2, <1>3, <1>4, <1>5, QuietKeeps

LEMMA ParentAdvanceKeeps ==
  ASSUME FInv, ParentAdvance
  PROVE  FInv'
<1>1. /\ TypeOK /\ ProgressOK
      /\ parent.at = "wait" /\ parent.k < NumDevicesUsed /\ impl[parent.k] = "done"
      /\ device' = (IF saved[Parent] = NoDevice THEN device ELSE saved[Parent])
      /\ saved' = [saved EXCEPT ![Parent] = NoDevice]
      /\ parent' = [parent EXCEPT !.k = @ + 1]
      /\ UNCHANGED <<awaitsAlt, next, ctx, cur, fut, impl, chunk, passed, waiters, runq, home>>
  BY DEF ParentAdvance, Proceed, FInv
<1>2. /\ saved' \in [Coroutines -> 0 .. NumDevices] /\ device' \in 0 .. NumDevices
      /\ \A c \in Chunks : saved'[Chunk(c)] = saved[Chunk(c)]
  BY <1>1, CoroutinesDiffer, UsedDevices DEF TypeOK, NoDevice
<1>3. /\ parent'.at = "wait" /\ parent'.k = parent.k + 1 /\ parent.k \in Nat
      /\ parent' \in [at : {"launch", "start", "wait", "done"}, k : 0 .. NumDevicesUsed]
  <2>1. PICK k \in 0 .. NumDevicesUsed : k = parent.k
    BY <1>1 DEF TypeOK
  <2>2. k \in Nat /\ k + 1 \in 0 .. NumDevicesUsed
    BY <1>1, <2>1, UsedDevices
  <2>3. parent' = [parent EXCEPT !.k = k + 1]
    BY <1>1, <2>1
  <2>4. parent'.at = "wait" /\ parent'.k = k + 1
    BY <1>1, <2>3 DEF TypeOK
  <2>5. parent' \in [at : {"launch", "start", "wait", "done"}, k : 0 .. NumDevicesUsed]
    BY <1>1, <2>2, <2>3 DEF TypeOK
  <2> QED BY <2>1, <2>2, <2>4, <2>5
<1>4. TypeOK'
  BY <1>1, <1>2, <1>3 DEF TypeOK
<1>5. ProgressOK' /\ \A d \in Devices : NotYet(d)' = NotYet(d)
  <2>1. \A d \in Devices : d < parent'.k => impl'[d] = "done"
    BY <1>1, <1>3 DEF ProgressOK, Devices
  <2>2. \A d \in Devices : Launched(d)' = Launched(d)
    BY <1>1 DEF Launched
  <2> QED BY <1>1, <1>3, <2>1, <2>2 DEF ProgressOK, NotYet
<1> QED BY <1>1, <1>2, <1>4, <1>5, QuietKeeps

LEMMA ParentReturnKeeps ==
  ASSUME FInv, ParentReturn
  PROVE  FInv'
<1>1. /\ TypeOK /\ ProgressOK /\ Running(Parent)
      /\ parent.at = "wait" /\ parent.k = NumDevicesUsed
      /\ parent' = [parent EXCEPT !.at = "done"]
      /\ device' = home
      /\ saved' = [saved EXCEPT ![Caller] = NoDevice]
      /\ runq' = Tail(runq)
      /\ UNCHANGED <<awaitsAlt, next, ctx, cur, fut, impl, chunk, passed, waiters, home>>
  BY DEF ParentReturn, FInv
<1>2. /\ saved' \in [Coroutines -> 0 .. NumDevices] /\ device' \in 0 .. NumDevices
      /\ \A c \in Chunks : saved'[Chunk(c)] = saved[Chunk(c)]
  BY <1>1, CoroutinesDiffer, UsedDevices DEF TypeOK, NoDevice
<1>3. /\ runq' \in Seq(Coroutines)
      /\ \A c \in Chunks : Chunk(c) \in ToSet(runq') => Chunk(c) \in ToSet(runq)
  BY <1>1, RunningFirst, CoroutinesDiffer
<1>4. parent'.at = "done" /\ parent' \in [at : {"launch", "start", "wait", "done"}, k : 0 .. NumDevicesUsed]
  BY <1>1 DEF TypeOK
<1>5. TypeOK'
  BY <1>1, <1>2, <1>3, <1>4 DEF TypeOK
<1>6. ProgressOK' /\ \A d \in Devices : NotYet(d)' = NotYet(d)
  <2>1. \A d \in DevicesUsed : impl'[d] = "done"
    BY <1>1, UsedDevices DEF ProgressOK, DevicesUsed
  <2>2. \A d \in Devices : Launched(d)' = Launched(d)
    BY <1>1 DEF Launched
  <2> QED BY <1>1, <1>4, <2>1, <2>2 DEF ProgressOK, NotYet
<1> QED BY <1>1, <1>2, <1>3, <1>5, <1>6, QuietKeeps

(* Once the impl of a device has started, chunks were launched on it. *)
LEMMA Started ==
  ASSUME FInv, NEW d \in Devices, impl[d] # "none"
  PROVE  /\ ~NotYet(d) /\ (InLoop(d) \/ Awaiting(d)) /\ parent.at # "launch"
         /\ impl[d] = "await" <=> Awaiting(d)
BY DEF FInv, DeviceOK, Untouched, ProgressOK, InLoop, Awaiting

LEMMA ImplLastKeeps ==
  ASSUME FInv, NEW d \in Devices, ImplLast(d)
  PROVE  FInv'
<1>1. /\ TypeOK /\ ProgressOK /\ impl[d] = "loop" /\ next = NumChunks
      /\ impl' = [impl EXCEPT ![d] = "last"]
      /\ UNCHANGED <<awaitsAlt, next, ctx, cur, fut, parent, chunk, passed, waiters, runq, device, saved, home>>
  BY DEF ImplLast, FInv
<1>2. /\ impl'[d] = "last" /\ \A e \in Devices \ {d} : impl'[e] = impl[e]
      /\ impl' \in [Devices -> {"none", "loop", "await", "last", "done"}]
  BY <1>1 DEF TypeOK
<1>3. ~NotYet(d) /\ parent.at # "launch"
  BY <1>1, Started
<1>4. TypeOK'
  BY <1>1, <1>2 DEF TypeOK
<1>5. ProgressOK' /\ \A e \in Devices : NotYet(e)' = NotYet(e)
  <2>1. \A e \in Devices : Launched(e)' = Launched(e)
    BY <1>1 DEF Launched
  <2>2. \A e \in DevicesUsed : e \in Devices
    BY UsedDevices
  <2> QED BY <1>1, <1>2, <1>3, <2>1, <2>2 DEF ProgressOK, NotYet
<1> QED BY <1>1, <1>2, <1>3, <1>4, <1>5, QuietKeeps

LEMMA OtherContext ==
  ASSUME TypeOK, NEW d \in Devices
  PROVE  CtxP(d) \in 1 .. 2 /\ ctx[d][CtxP(d)] \in Contexts
<1>1. cur[d] \in 1 .. 2
  BY DEF TypeOK
<1>2. CtxP(d) \in 1 .. 2
  BY <1>1 DEF CtxP
<1>3. ctx[d] \in [1 .. 2 -> Contexts]
  BY DEF TypeOK
<1> QED BY <1>2, <1>3

LEMMA ImplSuspendKeeps ==
  ASSUME FInv, NEW d \in Devices, ImplSuspend(d)
  PROVE  FInv'
<1> PICK n \in 0 .. NumChunks : n = ctx[d][CtxP(d)].alt
  BY OtherContext DEF FInv, Contexts
<1>1. /\ TypeOK /\ ProgressOK /\ Running(Impl(d))
      /\ ~Done(n)
      /\ waiters' = [waiters EXCEPT ![n] = Append(@, Impl(d))]
      /\ saved' = [saved EXCEPT ![Impl(d)] = device]
      /\ runq' = Tail(runq)
      /\ UNCHANGED <<awaitsAlt, next, ctx, cur, fut, parent, impl, chunk, passed, device, home>>
  BY DEF ImplSuspend, SuspendOn, FInv
<1>2. n \in Chunks /\ waiters[n] \in Seq(Coroutines) /\ Impl(d) \in Coroutines
  <2>1. n # NumChunks
    BY <1>1 DEF Done, NoChunk
  <2>2. n \in Chunks
    BY <2>1, UsedDevices DEF Chunks
  <2> QED BY <1>1, <2>2, CoroutinesDiffer DEF TypeOK
<1>3. Append(waiters[n], Impl(d)) \in Seq(Coroutines)
      /\ ToSet(Append(waiters[n], Impl(d))) = ToSet(waiters[n]) \cup {Impl(d)}
  BY <1>2, Appended
<1>4. /\ waiters' \in [Chunks -> Seq(Coroutines)]
      /\ \A b, c \in Chunks : Chunk(c) \in ToSet(waiters'[b]) => Chunk(c) \in ToSet(waiters[b])
  BY <1>1, <1>2, <1>3, CoroutinesDiffer DEF TypeOK
<1>5. /\ saved' \in [Coroutines -> 0 .. NumDevices]
      /\ \A c \in Chunks : saved'[Chunk(c)] = saved[Chunk(c)]
  BY <1>1, CoroutinesDiffer DEF TypeOK
<1>6. /\ runq' \in Seq(Coroutines)
      /\ \A c \in Chunks : Chunk(c) \in ToSet(runq') => Chunk(c) \in ToSet(runq)
  BY <1>1, <1>2, RunningFirst
<1>7. TypeOK'
  BY <1>1, <1>4, <1>5, <1>6 DEF TypeOK
<1>8. ProgressOK' /\ \A e \in Devices : NotYet(e)' = NotYet(e)
  BY <1>1 DEF ProgressOK, NotYet, Launched
<1> QED BY <1>1, <1>4, <1>5, <1>6, <1>7, <1>8, QuietKeeps

LEMMA ImplReturnKeeps ==
  ASSUME FInv, NEW d \in Devices, ImplReturn(d)
  PROVE  FInv'
<1>1. /\ TypeOK /\ ProgressOK /\ Running(Impl(d)) /\ impl[d] = "last"
      /\ Done(ctx[d][CtxP(d)].alt)
      /\ device' = (IF saved[Impl(d)] = NoDevice THEN device ELSE saved[Impl(d)])
      /\ saved' = [saved EXCEPT ![Impl(d)] = NoDevice]
      /\ impl' = [impl EXCEPT ![d] = "done"]
      /\ runq' = IF saved[Parent] # NoDevice /\ parent.k = d
                 THEN <<Parent>> \o Tail(runq)
                 ELSE Tail(runq)
      /\ UNCHANGED <<awaitsAlt, next, ctx, cur, fut, parent, chunk, passed, waiters, home>>
  BY DEF ImplReturn, Proceed, FInv
<1>2. /\ impl'[d] = "done" /\ \A e \in Devices \ {d} : impl'[e] = impl[e]
      /\ impl' \in [Devices -> {"none", "loop", "await", "last", "done"}]
  BY <1>1 DEF TypeOK
<1>3. ~NotYet(d) /\ parent.at # "launch" /\ InLoop(d)
  BY <1>1, Started
<1>4. /\ saved' \in [Coroutines -> 0 .. NumDevices] /\ device' \in 0 .. NumDevices
      /\ \A c \in Chunks : saved'[Chunk(c)] = saved[Chunk(c)]
  BY <1>1, CoroutinesDiffer, UsedDevices DEF TypeOK, NoDevice
<1>5. /\ runq' \in Seq(Coroutines)
      /\ \A c \in Chunks : Chunk(c) \in ToSet(runq') => Chunk(c) \in ToSet(runq)
  <2>1. Tail(runq) \in Seq(Coroutines) /\ ToSet(Tail(runq)) \subseteq ToSet(runq)
    BY <1>1, RunningFirst, CoroutinesDiffer
  <2>2. /\ <<Parent>> \o Tail(runq) \in Seq(Coroutines)
        /\ ToSet(<<Parent>> \o Tail(runq)) = ToSet(Tail(runq)) \cup {Parent}
    BY <2>1, PushedFirst, CoroutinesDiffer
  <2> QED BY <1>1, <2>1, <2>2, CoroutinesDiffer
<1>6. TypeOK'
  BY <1>1, <1>2, <1>4, <1>5 DEF TypeOK
<1>7. ProgressOK' /\ \A e \in Devices : NotYet(e)' = NotYet(e)
  <2>1. \A e \in Devices : Launched(e)' = Launched(e)
    BY <1>1 DEF Launched
  <2>2. \A c \in Launched(d) : chunk[c] = "done"
    <3>1. PICK l \in Launched(d) : /\ \A b \in Launched(d) \ {l} : b < l /\ chunk[b] = "done"
                                  /\ ctx[d][CtxP(d)].alt = l
      BY <1>3 DEF InLoop
    <3>2. l # NoChunk
      BY UsedDevices DEF Launched, Chunks, NoChunk
    <3> QED BY <1>1, <3>1, <3>2 DEF Done
  <2>3. DevicesUsed \subseteq Devices
    BY UsedDevices
  <2> QED BY <1>1, <1>2, <1>3, <2>1, <2>2, <2>3 DEF ProgressOK, NotYet
<1> QED BY <1>1, <1>2, <1>3, <1>4, <1>5, <1>6, <1>7, QuietKeeps

LEMMA ImplLaunchKeeps ==
  ASSUME FInv, NEW d \in Devices, ImplLaunch(d)
  PROVE  FInv'
<1> PICK n \in Nat : n = next
  BY DEF FInv, TypeOK
<1> PICK p \in 1 .. 2 : p = CtxP(d)
  BY OtherContext DEF FInv
<1>1. /\ TypeOK /\ ProgressOK /\ next = n /\ n < NumChunks /\ impl[d] = "loop" /\ CtxP(d) = p
      /\ Launch(d, p)
      /\ ctx' = [ctx EXCEPT ![d][p].chunk = n]
      /\ fut' = [fut EXCEPT ![d] = n]
      /\ impl' = [impl EXCEPT ![d] = "await"]
      /\ UNCHANGED <<awaitsAlt, cur, parent, waiters, runq, home, resumed>>
  BY DEF ImplLaunch, FInv
<1>2. n \in Chunks /\ n + 1 \in 0 .. NumChunks /\ chunk[n] = "none"
  BY <1>1, NextChunk
<1>3. /\ Launched(d)' = Launched(d) \cup {n} /\ n \notin Launched(d)
      /\ \A b \in Launched(d) : b < n
      /\ \A e \in Devices \ {d} : Launched(e)' = Launched(e)
      /\ passed'[n] = <<d, p>> /\ chunk'[n] = "loading"
      /\ \A b \in Chunks \ {n} : passed'[b] = passed[b] /\ chunk'[b] = chunk[b]
      /\ saved'[Chunk(n)] = d
      /\ \A x \in Coroutines \ {Chunk(n)} : saved'[x] = saved[x]
      /\ passed' \in [Chunks -> (0 .. NumDevices) \X (1 .. 2)]
      /\ chunk' \in [Chunks -> {"none", "done"} \cup InProgress]
      /\ saved' \in [Coroutines -> 0 .. NumDevices]
      /\ next' = n + 1 /\ device' \in 0 .. NumDevices
  BY <1>1, <1>2, AfterLaunch
<1>4. /\ impl'[d] = "await" /\ fut'[d] = n
      /\ \A e \in Devices \ {d} : impl'[e] = impl[e] /\ fut'[e] = fut[e]
      /\ impl' \in [Devices -> {"none", "loop", "await", "last", "done"}]
      /\ fut' \in [Devices -> 0 .. NumChunks]
  <2>1. n \in 0 .. NumChunks
    BY <1>1, UsedDevices
  <2> QED BY <1>1, <2>1 DEF TypeOK
<1>5. /\ ctx'[d][p].chunk = n /\ ctx'[d][p].alt = ctx[d][p].alt
      /\ \A w \in (1 .. 2) \ {p} : ctx'[d][w] = ctx[d][w]
      /\ \A e \in Devices \ {d} : ctx'[e] = ctx[e]
      /\ ctx' \in [Devices -> [1 .. 2 -> Contexts]]
  <2>1. ctx[d] \in [1 .. 2 -> Contexts] /\ ctx \in [Devices -> [1 .. 2 -> Contexts]]
    BY <1>1 DEF TypeOK
  <2> DEFINE own == [ctx[d][p] EXCEPT !.chunk = n]
             two == [ctx[d] EXCEPT ![p] = own]
  <2>2. ctx' = [ctx EXCEPT ![d] = two]
    BY <1>1, <2>1
  <2>3. own \in Contexts /\ own.chunk = n /\ own.alt = ctx[d][p].alt
    BY <1>1, <2>1, UsedDevices DEF Contexts
  <2> HIDE DEF own
  <2>4. /\ two \in [1 .. 2 -> Contexts] /\ two[p] = own
        /\ \A w \in (1 .. 2) \ {p} : two[w] = ctx[d][w]
    BY <2>1, <2>3
  <2> HIDE DEF two
  <2> QED BY <2>1, <2>2, <2>3, <2>4
<1>6. ~NotYet(d) /\ parent.at # "launch" /\ InLoop(d)
  BY <1>1, Started
<1>7. PICK l \in Launched(d) :
        /\ \A b \in Launched(d) \ {l} : b < l /\ chunk[b] = "done"
        /\ passed[l][2] = cur[d] /\ OwnContext(l, d)
        /\ ctx[d][p].alt = l
  BY <1>1, <1>6 DEF InLoop
<1>8. l < n /\ l \in Chunks /\ l # n /\ passed'[l] = passed[l] /\ chunk'[l] = chunk[l]
  BY <1>2, <1>3 DEF Launched
<1>9. cur[d] \in 1 .. 2 /\ cur[d] # p /\ ctx'[d][cur[d]] = ctx[d][cur[d]]
  <2>1. cur[d] \in 1 .. 2 /\ p = 3 - cur[d]
    BY <1>1 DEF TypeOK, CtxP
  <2> QED BY <1>5, <2>1
<1>10. TypeOK'
  BY <1>1, <1>2, <1>3, <1>4, <1>5 DEF TypeOK
<1>11. Awaiting(d)'
  <2>1. Launched(d) \subseteq Nat /\ Launched(d)' \subseteq Nat
    BY <1>2, <1>3, UsedDevices DEF Launched, Chunks
  <2>2. OwnContext(l, d)'
    <3>1. \A b \in Nat : b < l => (b \in Launched(d)' <=> b \in Launched(d))
      BY <1>3, <1>8, <2>1
    <3> QED BY <1>7, <1>8, <1>9, <2>1, <3>1, OwnContextKept
  <2>3. OwnContext(n, d)'
    <3>1. {b \in Launched(d)' : b < n} = Launched(d)
      BY <1>3, <2>1
    <3>2. \A b \in Launched(d) : b <= l
      BY <1>7, <2>1
    <3>3. passed'[n][2] = p /\ ctx'[d][p].chunk = n /\ ctx'[d][p].alt = l
      BY <1>3, <1>5, <1>7
    <3> QED BY <3>1, <3>2, <3>3 DEF OwnContext
  <2>4. CtxP(d)' = p /\ cur'[d] = cur[d]
    BY <1>1 DEF CtxP
  <2>5. /\ l \in Launched(d)' /\ n \in Launched(d)'
        /\ \A b \in Launched(d)' \ {l, n} : b < l /\ chunk'[b] = "done"
    <3>1. \A b \in Launched(d) \ {l} : b \in Chunks \ {n}
      BY <1>3 DEF Launched
    <3> QED BY <1>3, <1>7, <3>1
  <2>6. ctx'[d][p].alt = l /\ passed'[n][2] = p /\ passed'[l][2] = cur'[d]
    BY <1>1, <1>3, <1>5, <1>7, <1>8
  <2> QED BY <1>4, <1>8, <2>2, <2>3, <2>4, <2>5, <2>6 DEF Awaiting
<1>12. \A e \in Devices : NotYet(e)' = NotYet(e)
  BY <1>1 DEF NotYet
<1>13. ASSUME NEW e \in Devices PROVE DeviceOK(e)'
  <2>1. CASE e = d
    BY <1>6, <1>11, <1>12, <2>1 DEF DeviceOK
  <2>2. CASE e # d
    <3>1. \A c \in Chunks : chunk'[c] # "none" /\ passed'[c][1] = e <=> c \in Launched(e)
      BY <1>3, <2>2 DEF Launched
    <3>2. \A c \in Chunks : /\ c \in Launched(e) => passed'[c] = passed[c]
                            /\ chunk[c] = "done" => chunk'[c] = "done"
      BY <1>2, <1>3 DEF Launched
    <3>3. Kept(e)
      BY <1>1, <1>4, <1>5, <1>12, <2>2, <3>1, <3>2 DEF Kept
    <3> QED BY <3>3, DeviceKept DEF FInv
  <2> QED BY <2>1, <2>2
<1>14. ProgressOK'
  <2>1. ASSUME NEW c \in Chunks
        PROVE  /\ chunk'[c] # "none" <=> c < next'
               /\ chunk'[c] # "none" => passed'[c][1] \in DevicesUsed
    <3>1. c \in Nat /\ n \in Nat /\ next' = n + 1 /\ (chunk[c] # "none" <=> c < n)
      BY <1>1, <1>3, UsedDevices DEF ProgressOK, Chunks
    <3>2. IF c = n THEN chunk'[c] = "loading" /\ passed'[c][1] = d
                   ELSE chunk'[c] = chunk[c] /\ passed'[c] = passed[c]
      BY <1>3
    <3>3. d \in DevicesUsed
      BY <1>6, UsedDevices DEF NotYet, DevicesUsed, Devices
    <3>4. chunk[c] # "none" => passed[c][1] \in DevicesUsed
      BY <1>1 DEF ProgressOK
    <3> QED BY <3>1, <3>2, <3>3, <3>4
  <2>2. \A e \in Devices : impl[e] \notin {"last", "done"}
    BY <1>1 DEF ProgressOK
  <2>3. \A e \in Devices : impl'[e] \notin {"last", "done"}
    BY <1>4, <2>2
  <2>4. parent'.at = "start" => \A e \in Devices : e >= parent'.k => impl'[e] = "none"
    BY <1>1, <1>4 DEF ProgressOK
  <2>5. parent'.at # "launch"
    BY <1>1, <1>6
  <2>6. /\ parent'.at = "wait" => \A e \in Devices : ~(e < parent'.k)
        /\ parent'.at # "done"
    <3>1. parent.at = "wait" => \A e \in Devices : ~(e < parent.k)
      BY <1>1, <2>2 DEF ProgressOK
    <3>2. parent.at = "done" => \A e \in DevicesUsed : FALSE
      BY <1>1, <2>2, UsedDevices DEF ProgressOK
    <3>3. 0 \in DevicesUsed
      BY UsedDevices DEF DevicesUsed
    <3> QED BY <1>1, <3>1, <3>2, <3>3
  <2>7. parent'.at = "start" => parent'.k < NumDevicesUsed
    BY <1>1 DEF ProgressOK
  <2> QED BY <2>1, <2>3, <2>4, <2>5, <2>6, <2>7 DEF ProgressOK
<1>15. WaitsOK'
  <2>1. ASSUME NEW c \in Chunks, chunk[c] \in InProgress
        PROVE  passed'[c] = passed[c] /\ ContextOf(c)' = ContextOf(c)
    <3>1. c # n /\ chunk[c] # "none" /\ chunk[c] # "done" /\ passed'[c] = passed[c]
      BY <1>2, <1>3, <2>1 DEF InProgress
    <3>2. passed[c][1] \in Devices /\ c \in Launched(passed[c][1])
      BY <3>1, ContextInDevices
    <3>3. CASE passed[c][1] = d
      <4>1. c = l
        BY <1>7, <3>1, <3>2, <3>3
      <4> QED BY <1>7, <1>9, <3>1, <3>3, <4>1 DEF ContextOf
    <3>4. CASE passed[c][1] # d
      BY <1>5, <3>1, <3>2, <3>4, SteadyContext
    <3> QED BY <3>1, <3>3, <3>4
  <2>2. Steady
    BY <1>1, <1>2, <1>3, <2>1 DEF Steady
  <2>3. \A c \in Chunks :
           \/ chunk'[c] = chunk[c] /\ saved'[Chunk(c)] = saved[Chunk(c)]
           \/ chunk[c] = "none" /\ chunk'[c] = "loading" /\ saved'[Chunk(c)] = passed'[c][1]
    BY <1>2, <1>3, CoroutinesDiffer
  <2> QED BY <1>1, <2>2, <2>3, WaitsKept
<1> QED BY <1>10, <1>13, <1>14, <1>15 DEF FInv

LEMMA ImplSwapKeeps ==
  ASSUME FInv, NEW d \in Devices, ImplSwap(d)
  PROVE  FInv'
<1> PICK p \in 1 .. 2 : p = CtxP(d)
  BY OtherContext DEF FInv
<1> PICK q \in 1 .. 2 : q = cur[d]
  BY DEF FInv, TypeOK
<1> PICK n \in 0 .. NumChunks : n = fut[d]
  BY DEF FInv, TypeOK
<1>1. /\ TypeOK /\ ProgressOK /\ impl[d] = "await" /\ CtxP(d) = p /\ cur[d] = q /\ fut[d] = n
      /\ Done(ctx[d][p].alt)
      /\ device' = (IF saved[Impl(d)] = NoDevice THEN device ELSE saved[Impl(d)])
      /\ saved' = [saved EXCEPT ![Impl(d)] = NoDevice]
      /\ ctx' = [ctx EXCEPT ![d][q].alt = n]
      /\ cur' = [cur EXCEPT ![d] = p]
      /\ impl' = [impl EXCEPT ![d] = "loop"]
      /\ UNCHANGED <<awaitsAlt, next, fut, parent, chunk, passed, waiters, runq, home, resumed>>
  BY DEF ImplSwap, FInv, Proceed, Ctx
<1>2. p # q /\ q = 3 - p
  BY <1>1 DEF CtxP
<1>3. /\ impl'[d] = "loop" /\ cur'[d] = p
      /\ \A e \in Devices \ {d} : impl'[e] = impl[e] /\ cur'[e] = cur[e]
      /\ impl' \in [Devices -> {"none", "loop", "await", "last", "done"}]
      /\ cur' \in [Devices -> 1 .. 2]
  BY <1>1 DEF TypeOK
<1>4. /\ ctx'[d][q].alt = n /\ ctx'[d][p] = ctx[d][p]
      /\ \A e \in Devices \ {d} : ctx'[e] = ctx[e]
      /\ ctx' \in [Devices -> [1 .. 2 -> Contexts]]
  <2>1. ctx[d] \in [1 .. 2 -> Contexts] /\ ctx \in [Devices -> [1 .. 2 -> Contexts]]
    BY <1>1 DEF TypeOK
  <2> DEFINE own == [ctx[d][q] EXCEPT !.alt = n]
             two == [ctx[d] EXCEPT ![q] = own]
  <2>2. ctx' = [ctx EXCEPT ![d] = two]
    BY <1>1, <2>1
  <2>3. own \in Contexts /\ own.alt = n
    BY <2>1 DEF Contexts
  <2> HIDE DEF own
  <2>4. two \in [1 .. 2 -> Contexts] /\ two[q] = own /\ two[p] = ctx[d][p]
    BY <1>2, <2>1, <2>3
  <2> HIDE DEF two
  <2> QED BY <2>1, <2>2, <2>3, <2>4
<1>5. /\ saved' \in [Coroutines -> 0 .. NumDevices] /\ device' \in 0 .. NumDevices
      /\ \A c \in Chunks : saved'[Chunk(c)] = saved[Chunk(c)]
  BY <1>1, CoroutinesDiffer, UsedDevices DEF TypeOK, NoDevice
<1>6. ~NotYet(d) /\ parent.at # "launch" /\ Awaiting(d)
  BY <1>1, Started
<1>7. /\ n \in Launched(d) /\ passed[n][2] = p /\ OwnContext(n, d)
      /\ \A b \in Launched(d) \ {n} : b < n /\ chunk[b] = "done"
  <2>1. PICK l \in Launched(d) :
          /\ l < n
          /\ \A b \in Launched(d) \ {l, n} : b < l /\ chunk[b] = "done"
          /\ ctx[d][p].alt = l
    BY <1>1, <1>6 DEF Awaiting
  <2>2. Launched(d) \subseteq Nat /\ l # NoChunk /\ chunk[l] = "done"
    BY <1>1, <2>1, UsedDevices DEF Launched, Chunks, NoChunk, Done
  <2>3. \A b \in Launched(d) \ {n} : b < n /\ chunk[b] = "done"
    BY <2>1, <2>2
  <2> QED BY <1>1, <1>6, <2>3 DEF Awaiting
<1>8. Launched(d)' = Launched(d) /\ \A e \in Devices : Launched(e)' = Launched(e)
  BY <1>1 DEF Launched
<1>9. TypeOK'
  BY <1>1, <1>3, <1>4, <1>5 DEF TypeOK
<1>10. InLoop(d)'
  <2>1. CtxP(d)' = q
    BY <1>2, <1>3 DEF CtxP
  <2>2. OwnContext(n, d)'
    BY <1>1, <1>4, <1>7, <1>8 DEF OwnContext
  <2>3. n \in Launched(d)' /\ \A b \in Launched(d)' \ {n} : b < n /\ chunk'[b] = "done"
    BY <1>1, <1>7, <1>8
  <2>4. passed'[n][2] = cur'[d] /\ ctx'[d][q].alt = n /\ impl'[d] # "await"
    BY <1>1, <1>3, <1>4, <1>7
  <2> QED BY <2>1, <2>2, <2>3, <2>4 DEF InLoop
<1>11. \A e \in Devices : NotYet(e)' = NotYet(e)
  BY <1>1 DEF NotYet
<1>12. ASSUME NEW e \in Devices PROVE DeviceOK(e)'
  <2>1. CASE e = d
    BY <1>6, <1>10, <1>11, <2>1 DEF DeviceOK
  <2>2. CASE e # d
    <3>1. Kept(e)
      BY <1>1, <1>3, <1>4, <1>11, <2>2 DEF Kept, Launched
    <3> QED BY <3>1, DeviceKept DEF FInv
  <2> QED BY <2>1, <2>2
<1>13. ProgressOK'
  <2>1. \A e \in Devices : impl'[e] \in {"last", "done"} => impl'[e] = impl[e]
    BY <1>3
  <2>2. \A e \in Devices : impl[e] \in {"none", "done"} => impl'[e] = impl[e]
    BY <1>1, <1>3
  <2>3. DevicesUsed \subseteq Devices
    BY UsedDevices
  <2>4. parent'.at # "launch"
    BY <1>1, <1>6
  <2> QED BY <1>1, <1>8, <2>1, <2>2, <2>3, <2>4 DEF ProgressOK
<1>14. WaitsOK'
  <2>1. ASSUME NEW c \in Chunks, chunk[c] \in InProgress
        PROVE  passed'[c] = passed[c] /\ ContextOf(c)' = ContextOf(c)
    <3>1. chunk[c] # "none" /\ chunk[c] # "done" /\ passed'[c] = passed[c]
      BY <1>1, <2>1 DEF InProgress
    <3>2. passed[c][1] \in Devices /\ c \in Launched(passed[c][1])
      BY <3>1, ContextInDevices
    <3>3. CASE passed[c][1] = d
      <4>1. c = n
        BY <1>7, <3>1, <3>2, <3>3
      <4> QED BY <1>4, <1>7, <3>1, <3>3, <4>1 DEF ContextOf
    <3>4. CASE passed[c][1] # d
      BY <1>4, <3>1, <3>2, <3>4, SteadyContext
    <3> QED BY <3>1, <3>3, <3>4
  <2>2. Steady
    BY <1>1, <2>1 DEF Steady
  <2> QED BY <1>1, <1>5, <2>2, WaitsKept
<1> QED BY <1>9, <1>12, <1>13, <1>14 DEF FInv

-----------------------------------------------------------------------------
(* Steps of a chunk *)

LEMMA ChunkKeeps ==
  ASSUME FInv, NEW c \in Chunks, chunk[c] \in InProgress,
         NEW s \in {"waiting", "computing", "done"}, chunk' = [chunk EXCEPT ![c] = s],
         UNCHANGED <<awaitsAlt, next, ctx, cur, fut, parent, impl, passed>>
  PROVE  /\ chunk' \in [Chunks -> {"none", "done"} \cup InProgress]
         /\ chunk'[c] = s /\ \A b \in Chunks \ {c} : chunk'[b] = chunk[b]
         /\ ProgressOK' /\ \A d \in Devices : DeviceOK(d)'
         /\ \A n \in 0 .. NumChunks : Done(n) => Done(n)'
         /\ \A b \in Chunks : ContextOf(b)' = ContextOf(b)
<1>1. /\ chunk' \in [Chunks -> {"none", "done"} \cup InProgress]
      /\ chunk'[c] = s /\ \A b \in Chunks \ {c} : chunk'[b] = chunk[b]
  BY DEF FInv, TypeOK, InProgress
<1>2. /\ \A b \in Chunks : chunk'[b] # "none" <=> chunk[b] # "none"
      /\ \A b \in Chunks : chunk[b] = "done" => chunk'[b] = "done"
  BY <1>1 DEF InProgress
<1>3. \A d \in Devices : Launched(d)' = Launched(d)
  BY <1>2 DEF Launched
<1>4. ProgressOK'
  <2>1. \A d \in Devices : \A b \in Launched(d) : chunk[b] = "done" => chunk'[b] = "done"
    BY <1>2 DEF Launched
  <2> QED BY <1>2, <1>3, <2>1 DEF FInv, ProgressOK
<1>5. ASSUME NEW d \in Devices PROVE DeviceOK(d)'
  <2>1. NotYet(d)' = NotYet(d)
    BY DEF NotYet
  <2>2. Kept(d)
    BY <1>2, <2>1 DEF Kept, Launched
  <2> QED BY <2>2, DeviceKept DEF FInv
<1>6. \A n \in 0 .. NumChunks : Done(n) => Done(n)'
  BY <1>2, UsedDevices DEF Done, NoChunk, Chunks
<1>7. \A b \in Chunks : ContextOf(b)' = ContextOf(b)
  BY DEF ContextOf
<1> QED BY <1>1, <1>4, <1>5, <1>6, <1>7

LEMMA LoadedKeeps ==
  ASSUME FInv, NEW c \in Chunks, Loaded(c)
  PROVE  FInv'
<1>1. /\ TypeOK /\ WaitsOK /\ runq = <<>> /\ chunk[c] = "loading" /\ device' = saved[Chunk(c)]
      /\ UNCHANGED <<awaitsAlt, next, ctx, cur, fut, parent, impl, passed, runq, saved, home>>
  BY DEF Loaded, FInv
<1>2. PICK n \in 0 .. NumChunks : n = ContextOf(c).alt
  BY <1>1, ContextInDevices DEF Contexts
<1>3. device' \in 0 .. NumDevices
  BY <1>1, CoroutinesDiffer DEF TypeOK
<1>4. \A x \in Coroutines : x \notin ToSet(runq)
  BY <1>1 DEF ToSet
<1>5. CASE /\ awaitsAlt /\ ~Done(n)
           /\ chunk' = [chunk EXCEPT ![c] = "waiting"]
           /\ waiters' = [waiters EXCEPT ![n] = Append(@, Chunk(c))]
  <2>1. /\ chunk' \in [Chunks -> {"none", "done"} \cup InProgress]
        /\ chunk'[c] = "waiting" /\ \A b \in Chunks \ {c} : chunk'[b] = chunk[b]
        /\ ProgressOK' /\ \A d \in Devices : DeviceOK(d)'
        /\ \A m \in 0 .. NumChunks : Done(m) => Done(m)'
        /\ \A b \in Chunks : ContextOf(b)' = ContextOf(b)
    BY <1>1, <1>5, ChunkKeeps DEF InProgress
  <2>2. n \in Chunks /\ waiters[n] \in Seq(Coroutines) /\ chunk[n] # "done"
    <3>1. n # NumChunks
      BY <1>5 DEF Done, NoChunk
    <3>2. n \in Chunks
      BY <3>1, UsedDevices DEF Chunks
    <3> QED BY <1>1, <1>5, <3>2 DEF TypeOK, Done
  <2>3. /\ Append(waiters[n], Chunk(c)) \in Seq(Coroutines)
        /\ ToSet(Append(waiters[n], Chunk(c))) = ToSet(waiters[n]) \cup {Chunk(c)}
    BY <2>2, Appended, CoroutinesDiffer
  <2>4. /\ waiters' \in [Chunks -> Seq(Coroutines)]
        /\ waiters'[n] = Append(waiters[n], Chunk(c))
        /\ \A b \in Chunks \ {n} : waiters'[b] = waiters[b]
    BY <1>1, <1>5, <2>2, <2>3 DEF TypeOK
  <2>5. TypeOK'
    BY <1>1, <1>3, <2>1, <2>4 DEF TypeOK
  <2>6. WaitsOK'
    <3>1. ASSUME NEW b \in Chunks, NEW x \in Chunks, Chunk(x) \in ToSet(waiters'[b])
          PROVE  awaitsAlt' /\ chunk'[x] = "waiting" /\ ContextOf(x)'.alt = b /\ chunk'[b] # "done"
      <4>1. CASE Chunk(x) \in ToSet(waiters[b])
        <5>1. awaitsAlt /\ chunk[x] = "waiting" /\ ContextOf(x).alt = b /\ chunk[b] # "done"
          BY <1>1, <4>1 DEF WaitsOK
        <5> QED BY <1>1, <2>1, <5>1
      <4>2. CASE x = c /\ b = n
        <5>1. awaitsAlt' /\ chunk'[c] = "waiting" /\ chunk'[n] # "done"
          BY <1>1, <1>5, <2>1, <2>2
        <5>2. ContextOf(c)'.alt = n
          BY <1>2, <2>1
        <5>3. ContextOf(x)'.alt = n
          BY <4>2, <5>2 DEF ContextOf
        <5>4. chunk'[x] = "waiting" /\ chunk'[b] # "done"
          BY <4>2, <5>1
        <5> QED BY <4>2, <5>1, <5>3, <5>4
      <4>3. CASE b = n
        <5>1. ToSet(waiters'[b]) = ToSet(waiters[b]) \cup {Chunk(c)}
          BY <2>3, <2>4, <4>3
        <5> QED BY <3>1, <4>1, <4>2, <4>3, <5>1, CoroutinesDiffer
      <4>4. CASE b # n
        <5>1. waiters'[b] = waiters[b]
          BY <2>4, <4>4
        <5> QED BY <3>1, <4>1, <5>1
      <4> QED BY <4>3, <4>4
    <3>2. ASSUME NEW x \in Chunks, awaitsAlt', chunk'[x] = "computing"
          PROVE  Done(ContextOf(x).alt)'
      <4>1. x # c /\ chunk[x] = "computing" /\ awaitsAlt
        BY <1>1, <2>1, <3>2
      <4>2. Done(ContextOf(x).alt) /\ ContextOf(x).alt \in 0 .. NumChunks
        BY <1>1, <4>1, ContextInDevices DEF WaitsOK, Contexts
      <4> QED BY <2>1, <4>2
    <3>3. \A x \in Chunks : chunk'[x] \in InProgress => saved'[Chunk(x)] = passed'[x][1]
      <4>1. \A x \in Chunks : chunk'[x] \in InProgress => chunk[x] \in InProgress
        BY <1>1, <2>1 DEF InProgress
      <4> QED BY <1>1, <4>1 DEF WaitsOK
    <3>4. \A x \in Chunks : Chunk(x) \notin ToSet(runq')
      BY <1>1, <1>4, CoroutinesDiffer
    <3> QED BY <3>1, <3>2, <3>3, <3>4 DEF WaitsOK
  <2> QED BY <2>1, <2>5, <2>6 DEF FInv
<1>6. CASE /\ awaitsAlt => Done(n)
           /\ chunk' = [chunk EXCEPT ![c] = "computing"]
           /\ waiters' = waiters
  <2>1. /\ chunk' \in [Chunks -> {"none", "done"} \cup InProgress]
        /\ chunk'[c] = "computing" /\ \A b \in Chunks \ {c} : chunk'[b] = chunk[b]
        /\ ProgressOK' /\ \A d \in Devices : DeviceOK(d)'
        /\ \A m \in 0 .. NumChunks : Done(m) => Done(m)'
        /\ \A b \in Chunks : ContextOf(b)' = ContextOf(b)
    BY <1>1, <1>6, ChunkKeeps DEF InProgress
  <2>2. TypeOK'
    BY <1>1, <1>3, <1>6, <2>1 DEF TypeOK
  <2>3. WaitsOK'
    <3>1. ASSUME NEW b \in Chunks, NEW x \in Chunks, Chunk(x) \in ToSet(waiters'[b])
          PROVE  awaitsAlt' /\ chunk'[x] = "waiting" /\ ContextOf(x)'.alt = b /\ chunk'[b] # "done"
      <4>1. awaitsAlt /\ chunk[x] = "waiting" /\ ContextOf(x).alt = b /\ chunk[b] # "done"
        BY <1>1, <1>6, <3>1 DEF WaitsOK
      <4> QED BY <1>1, <2>1, <4>1
    <3>2. ASSUME NEW x \in Chunks, awaitsAlt', chunk'[x] = "computing"
          PROVE  Done(ContextOf(x).alt)'
      <4>1. CASE x = c
        BY <1>1, <1>2, <1>6, <2>1, <3>2, <4>1
      <4>2. CASE x # c
        <5>1. Done(ContextOf(x).alt) /\ ContextOf(x).alt \in 0 .. NumChunks
          BY <1>1, <2>1, <3>2, <4>2, ContextInDevices DEF WaitsOK, Contexts
        <5> QED BY <2>1, <5>1
      <4> QED BY <4>1, <4>2
    <3>3. \A x \in Chunks : chunk'[x] \in InProgress => saved'[Chunk(x)] = passed'[x][1]
      <4>1. \A x \in Chunks : chunk'[x] \in InProgress => chunk[x] \in InProgress
        BY <1>1, <2>1 DEF InProgress
      <4> QED BY <1>1, <4>1 DEF WaitsOK
    <3>4. \A x \in Chunks : Chunk(x) \notin ToSet(runq')
      BY <1>1, <1>4, CoroutinesDiffer
    <3> QED BY <3>1, <3>2, <3>3, <3>4 DEF WaitsOK
  <2> QED BY <2>1, <2>2, <2>3 DEF FInv
<1> QED BY <1>2, <1>5, <1>6 DEF Loaded

LEMMA ChunkResumedKeeps ==
  ASSUME FInv, NEW c \in Chunks, ChunkResumed(c)
  PROVE  FInv'
<1>1. /\ TypeOK /\ WaitsOK /\ Running(Chunk(c)) /\ chunk[c] = "waiting" /\ device' = saved[Chunk(c)]
      /\ chunk' = [chunk EXCEPT ![c] = "computing"]
      /\ runq' = Tail(runq)
      /\ UNCHANGED <<awaitsAlt, next, ctx, cur, fut, parent, impl, passed, waiters, saved, home>>
  BY DEF ChunkResumed, FInv
<1>2. device' \in 0 .. NumDevices
  BY <1>1, CoroutinesDiffer DEF TypeOK
<1>3. /\ Chunk(c) \in ToSet(runq) /\ runq' \in Seq(Coroutines) /\ ToSet(runq') \subseteq ToSet(runq)
  BY <1>1, RunningFirst, CoroutinesDiffer
<1>4. /\ chunk' \in [Chunks -> {"none", "done"} \cup InProgress]
      /\ chunk'[c] = "computing" /\ \A b \in Chunks \ {c} : chunk'[b] = chunk[b]
      /\ ProgressOK' /\ \A d \in Devices : DeviceOK(d)'
      /\ \A m \in 0 .. NumChunks : Done(m) => Done(m)'
      /\ \A b \in Chunks : ContextOf(b)' = ContextOf(b)
  BY <1>1, ChunkKeeps DEF InProgress
<1>5. TypeOK'
  BY <1>1, <1>2, <1>3, <1>4 DEF TypeOK
<1>6. Done(ContextOf(c).alt)
  BY <1>1, <1>3 DEF WaitsOK
<1>7. WaitsOK'
  <2>1. ASSUME NEW b \in Chunks, NEW x \in Chunks, Chunk(x) \in ToSet(waiters'[b])
        PROVE  awaitsAlt' /\ chunk'[x] = "waiting" /\ ContextOf(x)'.alt = b /\ chunk'[b] # "done"
    <3>1. awaitsAlt /\ chunk[x] = "waiting" /\ ContextOf(x).alt = b /\ chunk[b] # "done"
      BY <1>1, <2>1 DEF WaitsOK
    <3>2. x # c
      BY <1>6, <3>1, UsedDevices DEF Done, NoChunk, Chunks
    <3> QED BY <1>1, <1>4, <3>1, <3>2
  <2>2. ASSUME NEW x \in Chunks, Chunk(x) \in ToSet(runq'), chunk'[x] = "waiting"
        PROVE  Done(ContextOf(x).alt)'
    <3>1. chunk[x] = "waiting" /\ Chunk(x) \in ToSet(runq)
      BY <1>3, <1>4, <2>2
    <3>2. Done(ContextOf(x).alt) /\ ContextOf(x).alt \in 0 .. NumChunks
      BY <1>1, <3>1, ContextInDevices DEF WaitsOK, Contexts
    <3> QED BY <1>4, <3>2
  <2>3. ASSUME NEW x \in Chunks, awaitsAlt', chunk'[x] = "computing"
        PROVE  Done(ContextOf(x).alt)'
    <3>1. Done(ContextOf(x).alt) /\ chunk[x] # "none"
      BY <1>1, <1>4, <1>6, <2>3 DEF WaitsOK
    <3>2. ContextOf(x).alt \in 0 .. NumChunks
      BY <3>1, ContextInDevices DEF Contexts
    <3> QED BY <1>4, <3>1, <3>2
  <2>4. \A x \in Chunks : chunk'[x] \in InProgress => saved'[Chunk(x)] = passed'[x][1]
    <3>1. \A x \in Chunks : chunk'[x] \in InProgress => chunk[x] \in InProgress
      BY <1>1, <1>4 DEF InProgress
    <3> QED BY <1>1, <3>1 DEF WaitsOK
  <2> QED BY <2>1, <2>2, <2>3, <2>4 DEF WaitsOK
<1> QED BY <1>4, <1>5, <1>7 DEF FInv

LEMMA ComputedKeeps ==
  ASSUME FInv, NEW c \in Chunks, Computed(c)
  PROVE  FInv'
<1>1. /\ TypeOK /\ WaitsOK /\ chunk[c] = "computing" /\ device' = saved[Chunk(c)]
      /\ saved' = [saved EXCEPT ![Chunk(c)] = NoDevice]
      /\ chunk' = [chunk EXCEPT ![c] = "done"]
      /\ runq' = Reverse(waiters[c])
      /\ waiters' = [waiters EXCEPT ![c] = <<>>]
      /\ UNCHANGED <<awaitsAlt, next, ctx, cur, fut, parent, impl, passed, home>>
  BY DEF Computed, FInv
<1>2. /\ device' \in 0 .. NumDevices /\ saved' \in [Coroutines -> 0 .. NumDevices]
      /\ \A b \in Chunks \ {c} : saved'[Chunk(b)] = saved[Chunk(b)]
  BY <1>1, CoroutinesDiffer, UsedDevices DEF TypeOK, NoDevice
<1>3. runq' \in Seq(Coroutines) /\ ToSet(runq') = ToSet(waiters[c])
  <2>1. waiters[c] \in Seq(Coroutines)
    BY <1>1 DEF TypeOK
  <2> QED BY <1>1, <2>1, Reversed
<1>4. /\ chunk' \in [Chunks -> {"none", "done"} \cup InProgress]
      /\ chunk'[c] = "done" /\ \A b \in Chunks \ {c} : chunk'[b] = chunk[b]
      /\ ProgressOK' /\ \A d \in Devices : DeviceOK(d)'
      /\ \A m \in 0 .. NumChunks : Done(m) => Done(m)'
      /\ \A b \in Chunks : ContextOf(b)' = ContextOf(b)
  BY <1>1, ChunkKeeps DEF InProgress
<1>5. /\ waiters' \in [Chunks -> Seq(Coroutines)] /\ waiters'[c] = <<>>
      /\ \A b \in Chunks \ {c} : waiters'[b] = waiters[b]
  <2>1. <<>> \in Seq(Coroutines)
    OBVIOUS
  <2> QED BY <1>1, <2>1 DEF TypeOK
<1>6. TypeOK'
  BY <1>1, <1>2, <1>3, <1>4, <1>5 DEF TypeOK
<1>7. WaitsOK'
  <2>1. ASSUME NEW b \in Chunks, NEW x \in Chunks, Chunk(x) \in ToSet(waiters'[b])
        PROVE  awaitsAlt' /\ chunk'[x] = "waiting" /\ ContextOf(x)'.alt = b /\ chunk'[b] # "done"
    <3>1. b # c
      BY <1>5, <2>1 DEF ToSet
    <3>2. awaitsAlt /\ chunk[x] = "waiting" /\ ContextOf(x).alt = b /\ chunk[b] # "done"
      BY <1>1, <1>5, <2>1, <3>1 DEF WaitsOK
    <3> QED BY <1>1, <1>4, <3>1, <3>2
  <2>2. ASSUME NEW x \in Chunks, Chunk(x) \in ToSet(runq'), chunk'[x] = "waiting"
        PROVE  Done(ContextOf(x).alt)'
    <3>1. ContextOf(x).alt = c
      BY <1>1, <1>3, <2>2 DEF WaitsOK
    <3>2. ContextOf(x)'.alt = c
      BY <1>4, <3>1
    <3> QED BY <1>4, <3>2 DEF Done
  <2>3. ASSUME NEW x \in Chunks, awaitsAlt', chunk'[x] = "computing"
        PROVE  Done(ContextOf(x).alt)'
    <3>1. Done(ContextOf(x).alt) /\ chunk[x] # "none"
      BY <1>1, <1>4, <2>3 DEF WaitsOK
    <3>2. ContextOf(x).alt \in 0 .. NumChunks
      BY <3>1, ContextInDevices DEF Contexts
    <3> QED BY <1>4, <3>1, <3>2
  <2>4. \A x \in Chunks : chunk'[x] \in InProgress => saved'[Chunk(x)] = passed'[x][1]
    <3>1. \A x \in Chunks : chunk'[x] \in InProgress => x # c /\ chunk[x] \in InProgress
      BY <1>4 DEF InProgress
    <3> QED BY <1>1, <1>2, <3>1 DEF WaitsOK
  <2> QED BY <2>1, <2>2, <2>3, <2>4 DEF WaitsOK
<1> QED BY <1>4, <1>6, <1>7 DEF FInv

-----------------------------------------------------------------------------
(* The invariant *)

LEMMA InitEstablishes ==
  ASSUME Init
  PROVE  FInv
<1>1. /\ awaitsAlt \in BOOLEAN /\ next = 0
      /\ ctx = [d \in Devices |-> [w \in 1 .. 2 |-> Context(0, NoChunk)]]
      /\ cur = [d \in Devices |-> 1]
      /\ fut = [d \in Devices |-> NoChunk]
      /\ parent = [at |-> "launch", k |-> 0]
      /\ impl = [d \in Devices |-> "none"]
      /\ chunk = [c \in Chunks |-> "none"]
      /\ passed = [c \in Chunks |-> <<NoDevice, 1>>]
      /\ waiters = [c \in Chunks |-> <<>>]
      /\ runq = <<Parent>>
      /\ device \in Devices /\ home = device
      /\ saved = [x \in Coroutines |-> NoDevice]
  BY DEF Init
<1>2. /\ Context(0, NoChunk) \in Contexts /\ Context(0, NoChunk).alt = NoChunk
      /\ NoChunk \in 0 .. NumChunks /\ NoDevice \in 0 .. NumDevices
      /\ 0 \in 0 .. NumChunks /\ 0 \in 0 .. NumDevicesUsed
      /\ Devices \subseteq 0 .. NumDevices
  BY UsedDevices DEF Context, Contexts, NoChunk, NoDevice, Devices
<1>3. ctx \in [Devices -> [1 .. 2 -> Contexts]]
  BY <1>1, <1>2
<1>4. runq \in Seq(Coroutines) /\ ToSet(runq) = {Parent}
  BY <1>1, CoroutinesDiffer DEF ToSet
<1>5. waiters \in [Chunks -> Seq(Coroutines)] /\ \A c \in Chunks : ToSet(waiters[c]) = {}
  <2>1. <<>> \in Seq(Coroutines) /\ ToSet(<<>>) = {}
    BY DEF ToSet
  <2> QED BY <1>1, <2>1
<1>6. TypeOK
  <2>1. passed \in [Chunks -> (0 .. NumDevices) \X (1 .. 2)]
    BY <1>1, <1>2
  <2>2. chunk \in [Chunks -> {"none", "done"} \cup InProgress]
    BY <1>1
  <2>3. fut \in [Devices -> 0 .. NumChunks] /\ cur \in [Devices -> 1 .. 2]
    BY <1>1, <1>2
  <2>4. parent \in [at : {"launch", "start", "wait", "done"}, k : 0 .. NumDevicesUsed]
    BY <1>1, <1>2
  <2>5. saved \in [Coroutines -> 0 .. NumDevices]
    BY <1>1, <1>2
  <2> QED BY <1>1, <1>2, <1>3, <1>4, <1>5, <2>1, <2>2, <2>3, <2>4, <2>5 DEF TypeOK
<1>7. \A c \in Chunks : chunk[c] = "none"
  BY <1>1
<1>8. \A d \in Devices : Launched(d) = {} /\ NotYet(d) /\ Untouched(d)
  <2> SUFFICES ASSUME NEW d \in Devices
               PROVE  Launched(d) = {} /\ NotYet(d) /\ Untouched(d)
    OBVIOUS
  <2>1. Launched(d) = {}
    BY <1>7 DEF Launched
  <2>2. NotYet(d)
    BY <1>1, UsedDevices DEF NotYet, Devices
  <2>3. ctx[d][1].alt = NoChunk /\ impl[d] = "none" /\ cur[d] = 1
    BY <1>1, <1>2
  <2> QED BY <2>1, <2>2, <2>3 DEF Untouched
<1>9. ProgressOK
  BY <1>1, <1>7, <1>8, UsedDevices DEF ProgressOK, Chunks
<1>10. WaitsOK
  BY <1>5, <1>7 DEF WaitsOK, InProgress
<1> QED BY <1>6, <1>8, <1>9, <1>10 DEF FInv, DeviceOK

LEMMA StutterKeeps ==
  ASSUME FInv, UNCHANGED vars
  PROVE  FInv'
<1>1. UNCHANGED <<awaitsAlt, next, ctx, cur, fut, parent, impl, chunk, passed, waiters, runq,
                  device, saved, home>>
  BY DEF vars
<1>2. TypeOK' /\ ProgressOK' /\ \A d \in Devices : NotYet(d)' = NotYet(d)
  BY <1>1 DEF FInv, TypeOK, ProgressOK, NotYet, Launched
<1> QED BY <1>1, <1>2, QuietKeeps

LEMMA NextKeeps ==
  ASSUME FInv, [Next]_vars
  PROVE  FInv'
<1>1. CASE ParentStep
  BY <1>1, ParentLaunchKeeps, ParentStartKeeps, ParentSuspendKeeps, ParentAdvanceKeeps,
     ParentReturnKeeps DEF ParentStep
<1>2. CASE \E d \in Devices : ImplStep(d)
  BY <1>2, ImplLaunchKeeps, ImplLastKeeps, ImplSuspendKeeps, ImplSwapKeeps, ImplReturnKeeps
     DEF ImplStep
<1>3. CASE \E c \in Chunks : Loaded(c) \/ ChunkResumed(c) \/ Computed(c)
  BY <1>3, LoadedKeeps, ChunkResumedKeeps, ComputedKeeps
<1>4. CASE UNCHANGED vars
  BY <1>4, StutterKeeps
<1> QED BY <1>1, <1>2, <1>3, <1>4 DEF Next

(***************************************************************************)
(* FInv is an invariant of for_each_device, however its chunks run.        *)
(***************************************************************************)
THEOREM ForEachInvariance == Init /\ [][Next]_vars => []FInv
<1>1. Init => FInv
  BY InitEstablishes
<1>2. FInv /\ [Next]_vars => FInv'
  BY NextKeeps
<1> QED BY <1>1, <1>2, PTL

-----------------------------------------------------------------------------
(* What follows from it *)

(* At most two chunks of a device run: each has its own context. *)
LEMMA RunningChunk ==
  ASSUME FInv, NEW d \in Devices, NEW c \in InFlight(d)
  PROVE  /\ c \in Launched(d) /\ OwnContext(c, d) /\ ContextOf(c) = ctx[d][passed[c][2]]
         /\ Launched(d) \subseteq Nat
<1>1. c \in Launched(d) /\ chunk[c] # "done" /\ passed[c][1] = d /\ Launched(d) \subseteq Nat
  BY UsedDevices DEF InFlight, Launched, Chunks
<1>2. InLoop(d) \/ Awaiting(d)
  BY <1>1 DEF FInv, DeviceOK, Untouched
<1>3. OwnContext(c, d)
  <2>1. CASE InLoop(d)
    BY <1>1, <2>1 DEF InLoop
  <2>2. CASE Awaiting(d)
    BY <1>1, <2>2 DEF Awaiting
  <2> QED BY <1>2, <2>1, <2>2
<1> QED BY <1>1, <1>3 DEF ContextOf

LEMMA ContextStableFollows == FInv => ContextStable
<1> SUFFICES ASSUME FInv, NEW d \in Devices, NEW c \in InFlight(d)
             PROVE  /\ ContextOf(c).chunk = c
                    /\ ContextOf(c).alt = IF LaunchedBefore(c, d) = {} THEN NoChunk
                                          ELSE Max(LaunchedBefore(c, d))
  BY DEF ContextStable
<1> DEFINE before == {b \in Launched(d) : b < c}
<1>1. LaunchedBefore(c, d) = before
  BY DEF LaunchedBefore, Launched
<1>2. /\ ContextOf(c).chunk = c
      /\ \/ before = {} /\ ContextOf(c).alt = NoChunk
         \/ ContextOf(c).alt \in before /\ \A b \in before : b <= ContextOf(c).alt
      /\ before \subseteq Nat
  BY RunningChunk DEF OwnContext
<1> HIDE DEF before
<1>3. ASSUME ContextOf(c).alt \in before, \A b \in before : b <= ContextOf(c).alt
      PROVE  Max(before) = ContextOf(c).alt
  <2>1. PICK l \in before : l = ContextOf(c).alt
    BY <1>3
  <2>2. \A b \in before : l >= b
    BY <1>2, <1>3, <2>1
  <2>3. PICK m \in before : m = Max(before) /\ \A b \in before : m >= b
    BY <2>2 DEF Max
  <2>4. l \in Nat /\ m \in Nat /\ l >= m /\ m >= l
    BY <1>2, <2>2, <2>3
  <2>5. l = m
    BY <2>4
  <2> QED BY <2>1, <2>3, <2>5
<1> QED BY <1>1, <1>2, <1>3

(* Two chunks that compute on one device would each have waited for the   *)
(* chunk launched before it, and so the later for the earlier.            *)
LEMMA NotOversubscribedFollows == FInv => NotOversubscribed
<1> SUFFICES ASSUME FInv, awaitsAlt, NEW d \in Devices
             PROVE  Cardinality({c \in InFlight(d) : chunk[c] = "computing"}) <= 1
  BY DEF NotOversubscribed
<1> DEFINE busy == {c \in InFlight(d) : chunk[c] = "computing"}
<1>1. ASSUME NEW b \in busy, NEW c \in busy, b < c
      PROVE  FALSE
  <2>1. /\ b \in Launched(d) /\ c \in Launched(d) /\ OwnContext(c, d)
        /\ ContextOf(c) = ctx[d][passed[c][2]]
        /\ Launched(d) \subseteq Nat
    BY RunningChunk
  <2>2. PICK l \in Launched(d) : l = ContextOf(c).alt /\ b <= l
    BY <1>1, <2>1 DEF OwnContext
  <2>3. chunk[l] = "done"
    <3>1. Done(ContextOf(c).alt) /\ l # NoChunk
      BY <2>2, UsedDevices DEF FInv, WaitsOK, Launched, Chunks, NoChunk, InFlight
    <3> QED BY <2>2, <3>1 DEF Done
  <2>4. l < c
    BY <1>1, <2>1, <2>2 DEF OwnContext
  <2>5. InLoop(d) \/ Awaiting(d)
    BY <2>1 DEF FInv, DeviceOK, Untouched
  <2>6. b # l /\ chunk[b] # "done" /\ chunk[c] # "done" /\ b # c
    BY <1>1, <2>1, <2>3
  <2>7. CASE InLoop(d)
    BY <2>1, <2>6, <2>7 DEF InLoop
  <2>8. CASE Awaiting(d)
    <3>1. PICK m \in Launched(d) : \A x \in Launched(d) \ {m, fut[d]} : x < m /\ chunk[x] = "done"
      BY <2>8 DEF Awaiting
    <3>2. {b, c} = {m, fut[d]}
      BY <2>1, <2>6, <3>1
    <3>3. m < fut[d]
      BY <2>1, <2>6, <2>8, <3>1 DEF Awaiting
    <3> QED BY <1>1, <2>1, <2>2, <2>4, <2>6, <3>1, <3>2, <3>3
  <2> QED BY <2>5, <2>7, <2>8
<1>2. busy \subseteq Nat
  BY UsedDevices DEF InFlight, Chunks
<1> HIDE DEF busy
<1>3. \A b, c \in busy : b = c
  BY <1>1, <1>2
<1>4. Cardinality(busy) <= 1
  <2>1. CASE busy = {}
    BY <2>1, FS_EmptySet
  <2>2. CASE busy # {}
    <3>1. PICK c \in busy : TRUE
      BY <2>2
    <3>2. busy = {c}
      BY <1>3, <3>1
    <3>3. Cardinality({c}) = 1
      BY FS_Singleton
    <3> QED BY <3>2, <3>3
  <2> QED BY <2>1, <2>2
<1> QED BY <1>4 DEF busy

(* A coroutine that a step resumes or launches has its device made active. *)
LEMMA OnItsDevice ==
  ASSUME FInv, [Next]_vars, NEW c \in Chunks, chunk[c] # chunk'[c]
  PROVE  device' = passed'[c][1]
<1>1. TypeOK /\ ProgressOK /\ WaitsOK
  BY DEF FInv
<1>2. ASSUME NEW d \in Devices, NEW w \in 1 .. 2, Launch(d, w), next \in Chunks
      PROVE  device' = passed'[c][1]
  <2>1. device' = d /\ passed'[next] = <<d, w>> /\ \A b \in Chunks \ {next} : chunk'[b] = chunk[b]
    BY <1>1, <1>2 DEF Launch, TypeOK
  <2>2. c = next
    BY <2>1
  <2> QED BY <2>1, <2>2
<1>3. CASE ParentLaunch
  <2>1. next \in Chunks
    BY <1>1, <1>3, NextChunk
  <2>2. parent.k \in Devices
    BY <1>1, <1>3, UsedDevices DEF ParentLaunch, ProgressOK, TypeOK, Devices
  <2> QED BY <1>2, <1>3, <2>1, <2>2 DEF ParentLaunch
<1>4. ASSUME NEW d \in Devices, ImplLaunch(d)
      PROVE  device' = passed'[c][1]
  <2>1. next \in Chunks
    BY <1>1, <1>4, NextChunk
  <2>2. CtxP(d) \in 1 .. 2
    BY <1>1, OtherContext
  <2> QED BY <1>2, <1>4, <2>1, <2>2 DEF ImplLaunch
<1>5. ASSUME NEW b \in Chunks, Loaded(b) \/ ChunkResumed(b) \/ Computed(b)
      PROVE  device' = passed'[c][1]
  <2>1. /\ chunk[b] \in InProgress /\ device' = saved[Chunk(b)] /\ passed' = passed
        /\ \E s \in {"waiting", "computing", "done"} : chunk' = [chunk EXCEPT ![b] = s]
    BY <1>5 DEF Loaded, ChunkResumed, Computed, InProgress
  <2>2. b = c
    BY <1>1, <2>1 DEF TypeOK
  <2> QED BY <1>1, <2>1, <2>2 DEF WaitsOK
<1>6. CASE ParentStep
  BY <1>3, <1>6 DEF ParentStep, ParentStart, ParentSuspend, ParentAdvance, ParentReturn
<1>7. CASE \E d \in Devices : ImplStep(d)
  BY <1>4, <1>7 DEF ImplStep, ImplLast, ImplSuspend, ImplSwap, ImplReturn
<1>8. CASE UNCHANGED vars
  BY <1>8 DEF vars
<1> QED BY <1>5, <1>6, <1>7, <1>8 DEF Next

(***************************************************************************)
(* The chunk_context a running chunk refers to is its own, with the future *)
(* of the chunk launched before it on its device, for any numbers of       *)
(* devices and chunks and in whatever order the chunks finish.             *)
(***************************************************************************)
THEOREM ContextStableAlways == Init /\ [][Next]_vars => []ContextStable
BY ForEachInvariance, ContextStableFollows, PTL

(***************************************************************************)
(* If chunks await alt_future, no device computes two at a time.           *)
(***************************************************************************)
THEOREM NotOversubscribedAlways == Init /\ [][Next]_vars => []NotOversubscribed
BY ForEachInvariance, NotOversubscribedFollows, PTL

(***************************************************************************)
(* A chunk is launched, and resumed, with its own device active, although  *)
(* set_device is called for others while it is suspended.                  *)
(***************************************************************************)
THEOREM ChunkOnItsDeviceAlways == Init /\ [][Next]_vars => ChunkOnItsDevice
<1>1. FInv /\ [Next]_vars => [\A c \in Chunks : chunk[c] # chunk'[c] => device' = passed'[c][1]]_vars
  BY OnItsDevice
<1> QED BY <1>1, ForEachInvariance, PTL DEF ChunkOnItsDevice

-----------------------------------------------------------------------------
(* The rounds of sumcheck *)

(* A step of the round is a step of for_each_device, or leaves it alone. *)
LEMMA RoundStep == [RoundNext]_allVars => [Next]_vars
<1> SUFFICES ASSUME [RoundNext]_allVars PROVE [Next]_vars
  OBVIOUS
<1>1. CASE ForEachStep
  BY <1>1 DEF ForEachStep, Next
<1>2. CASE \E c \in Chunks : LoadedStep(c) \/ SumKernel(c) \/ ComputedStep(c)
  BY <1>2 DEF LoadedStep, SumLoaded, FoldLoaded, SumKernel, ComputedStep, SumComputed, FoldComputed, Next
<1>3. CASE \E d \in Devices : TableCopied(d)
  BY <1>3 DEF TableCopied
<1>4. CASE UNCHANGED allVars
  BY <1>4 DEF allVars
<1> QED BY <1>1, <1>2, <1>3, <1>4 DEF RoundNext

RoundTypeOK ==
  /\ cached \in [Devices -> 0 .. NumChunks]
  /\ copied \subseteq Devices
  /\ kernel \in [Chunks -> {"not run", "read table", "read garbage"}]
  /\ counter \in Nat
  /\ result \in [Chunks \cup {NoChunk} -> Nat]

(* A chunk that got past its lookup finds a table in the cache; its kernel *)
(* has run when it is done, and behind the copy if the copy is its own.    *)
CacheOK ==
  /\ \A d \in Devices : cached[d] # NoChunk => cached[d] \in Launched(d)
  /\ \A c \in Chunks :
       /\ awaitsAlt /\ chunk[c] \in {"waiting", "computing", "done"} =>
            cached[passed[c][1]] # NoChunk
       /\ awaitsAlt /\ chunk[c] = "done" => kernel[c] # "not run"
       /\ kernel[c] # "not run" => awaitsAlt /\ chunk[c] \in {"computing", "done"}
       /\ kernel[c] # "not run" /\ cached[passed[c][1]] = c => passed[c][1] \in copied

ResultOK ==
  /\ awaitsAlt => (counter = 0 <=> \A c \in Chunks : chunk[c] # "done")
  /\ \/ awaitsAlt /\ counter = 0
     \/ \A c \in Chunks \cup {NoChunk} : result[c] = IF c # NoChunk /\ Done(c) THEN 1 ELSE 0

RInv == FInv /\ RoundTypeOK /\ CacheOK /\ ResultOK /\ EarlierCopySeen

LEMMA RoundInitEstablishes ==
  ASSUME RoundInit
  PROVE  RInv
<1>1. FInv
  BY InitEstablishes DEF RoundInit
<1>2. /\ \A c \in Chunks : chunk[c] = "none" /\ kernel[c] = "not run"
      /\ cached = [d \in Devices |-> NoChunk] /\ copied = {} /\ counter = 0
      /\ kernel = [c \in Chunks |-> "not run"]
      /\ result = [c \in Chunks \cup {NoChunk} |-> IF awaitsAlt /\ c = NoChunk THEN 1 ELSE 0]
  BY DEF RoundInit, Init
<1>3. NoChunk \in 0 .. NumChunks
  BY UsedDevices DEF NoChunk
<1>4. RoundTypeOK /\ CacheOK /\ EarlierCopySeen
  BY <1>2, <1>3 DEF RoundTypeOK, CacheOK, EarlierCopySeen
<1>5. ResultOK
  <2>1. \A c \in Chunks : ~(c # NoChunk /\ Done(c))
    BY <1>2, UsedDevices DEF Done, NoChunk, Chunks
  <2> QED BY <1>2, <2>1 DEF ResultOK
<1> QED BY <1>1, <1>4, <1>5 DEF RInv

(* Steps that finish no chunk and touch neither cache nor result *)
LEMMA RoundQuietKeeps ==
  ASSUME RInv, FInv', UNCHANGED <<awaitsAlt, roundVars>>,
         \A c \in Chunks :
           /\ chunk[c] = "done" <=> chunk'[c] = "done"
           /\ chunk[c] \in {"computing", "done"} => chunk'[c] \in {"computing", "done"}
           /\ chunk[c] # "none" => chunk'[c] # "none" /\ passed'[c] = passed[c]
           /\ awaitsAlt /\ chunk'[c] \in {"waiting", "computing", "done"} =>
                chunk[c] \in {"waiting", "computing", "done"}
  PROVE  RInv'
<1>1. UNCHANGED <<cached, copied, kernel, result, counter>>
  BY DEF roundVars
<1>2. \A c \in Chunks : kernel[c] # "not run" => passed'[c] = passed[c]
  BY DEF RInv, CacheOK
<1>3. RoundTypeOK' /\ EarlierCopySeen'
  BY <1>1, <1>2 DEF RInv, RoundTypeOK, EarlierCopySeen
<1>4. CacheOK'
  <2>1. \A d \in Devices : cached'[d] # NoChunk => cached'[d] \in Launched(d)'
    BY <1>1 DEF RInv, CacheOK, Launched
  <2>2. \A c \in Chunks : awaitsAlt' /\ chunk'[c] \in {"waiting", "computing", "done"} =>
                            cached'[passed'[c][1]] # NoChunk
    BY <1>1 DEF RInv, CacheOK
  <2>3. \A c \in Chunks :
          /\ awaitsAlt' /\ chunk'[c] = "done" => kernel'[c] # "not run"
          /\ kernel'[c] # "not run" => awaitsAlt' /\ chunk'[c] \in {"computing", "done"}
          /\ kernel'[c] # "not run" /\ cached'[passed'[c][1]] = c => passed'[c][1] \in copied'
    BY <1>1, <1>2 DEF RInv, CacheOK
  <2> QED BY <2>1, <2>2, <2>3 DEF CacheOK
<1>5. ResultOK'
  <2>1. \A c \in Chunks \cup {NoChunk} : c # NoChunk /\ Done(c)' <=> c # NoChunk /\ Done(c)
    BY DEF Done
  <2>2. awaitsAlt' => (counter' = 0 <=> \A c \in Chunks : chunk'[c] # "done")
    BY <1>1 DEF RInv, ResultOK
  <2> QED BY <1>1, <2>1, <2>2 DEF RInv, ResultOK
<1> QED BY <1>3, <1>4, <1>5 DEF RInv

(* All steps of for_each_device but the Loaded and Computed of a chunk *)
LEMMA ForEachStepKeeps ==
  ASSUME RInv, ForEachStep
  PROVE  RInv'
<1>1. FInv /\ TypeOK /\ ProgressOK /\ WaitsOK
  BY DEF RInv, FInv
<1>2. [Next]_vars /\ UNCHANGED roundVars
  BY DEF ForEachStep, Next
<1>3. FInv'
  BY <1>1, <1>2, NextKeeps
<1>4. ASSUME NEW d \in Devices, NEW w \in 1 .. 2, Launch(d, w), next \in Chunks, chunk[next] = "none",
             awaitsAlt' = awaitsAlt
      PROVE  RInv'
  <2>1. /\ chunk'[next] = "loading"
        /\ \A b \in Chunks \ {next} : chunk'[b] = chunk[b] /\ passed'[b] = passed[b]
    BY <1>1, <1>4 DEF Launch, TypeOK
  <2>2. \A c \in Chunks :
           /\ chunk[c] = "done" <=> chunk'[c] = "done"
           /\ chunk[c] \in {"computing", "done"} => chunk'[c] \in {"computing", "done"}
           /\ chunk[c] # "none" => chunk'[c] # "none" /\ passed'[c] = passed[c]
           /\ chunk'[c] \in {"waiting", "computing", "done"} =>
                chunk[c] \in {"waiting", "computing", "done"}
    BY <1>4, <2>1
  <2> QED BY <1>2, <1>3, <1>4, <2>2, RoundQuietKeeps
<1>5. CASE ParentLaunch
  <2>1. next \in Chunks /\ chunk[next] = "none"
    BY <1>1, <1>5, NextChunk
  <2>2. parent.k \in Devices
    BY <1>1, <1>5, UsedDevices DEF ParentLaunch, ProgressOK, TypeOK, Devices
  <2> QED BY <1>4, <1>5, <2>1, <2>2 DEF ParentLaunch
<1>6. ASSUME NEW d \in Devices, ImplLaunch(d)
      PROVE  RInv'
  <2>1. next \in Chunks /\ chunk[next] = "none"
    BY <1>1, <1>6, NextChunk
  <2>2. CtxP(d) \in 1 .. 2
    BY <1>1, OtherContext
  <2> QED BY <1>4, <1>6, <2>1, <2>2 DEF ImplLaunch
<1>7. ASSUME UNCHANGED <<awaitsAlt, chunk, passed>>
      PROVE  RInv'
  BY <1>2, <1>3, <1>7, RoundQuietKeeps
<1>8. ASSUME NEW c \in Chunks, ChunkResumed(c)
      PROVE  RInv'
  <2>1. /\ chunk[c] = "waiting" /\ awaitsAlt' = awaitsAlt /\ passed' = passed
        /\ chunk' = [chunk EXCEPT ![c] = "computing"]
    BY <1>8 DEF ChunkResumed
  <2>2. chunk'[c] = "computing" /\ \A b \in Chunks \ {c} : chunk'[b] = chunk[b]
    BY <1>1, <2>1 DEF TypeOK
  <2>3. \A b \in Chunks :
           /\ chunk[b] = "done" <=> chunk'[b] = "done"
           /\ chunk[b] \in {"computing", "done"} => chunk'[b] \in {"computing", "done"}
           /\ chunk[b] # "none" => chunk'[b] # "none" /\ passed'[b] = passed[b]
           /\ chunk'[b] \in {"waiting", "computing", "done"} =>
                chunk[b] \in {"waiting", "computing", "done"}
    BY <2>1, <2>2
  <2> QED BY <1>2, <1>3, <2>1, <2>3, RoundQuietKeeps
<1>9. CASE ParentStep
  BY <1>5, <1>7, <1>9 DEF ParentStep, ParentStart, ParentSuspend, ParentAdvance, ParentReturn
<1>10. CASE \E d \in Devices : ImplStep(d)
  BY <1>6, <1>7, <1>10 DEF ImplStep, ImplLast, ImplSuspend, ImplSwap, ImplReturn
<1> QED BY <1>8, <1>9, <1>10 DEF ForEachStep

LEMMA LoadedStepKeeps ==
  ASSUME RInv, NEW c \in Chunks, LoadedStep(c)
  PROVE  RInv'
<1>1. /\ FInv /\ TypeOK /\ WaitsOK /\ RoundTypeOK /\ CacheOK /\ ResultOK /\ EarlierCopySeen
      /\ Loaded(c) /\ UNCHANGED <<copied, kernel, result, counter>>
  BY DEF RInv, FInv, LoadedStep, SumLoaded, FoldLoaded, roundVars
<1>2. FInv'
  BY <1>1, NextKeeps DEF Next
<1>3. /\ chunk[c] = "loading" /\ passed' = passed /\ awaitsAlt' = awaitsAlt
      /\ chunk'[c] \in {"waiting", "computing"} /\ \A b \in Chunks \ {c} : chunk'[b] = chunk[b]
  BY <1>1 DEF Loaded, TypeOK
<1>4. \A b \in Chunks :
         /\ chunk[b] = "done" <=> chunk'[b] = "done"
         /\ chunk[b] \in {"computing", "done"} => chunk'[b] \in {"computing", "done"}
         /\ chunk[b] # "none" <=> chunk'[b] # "none"
  BY <1>3
<1>5. CASE ~awaitsAlt
  <2>1. UNCHANGED <<awaitsAlt, roundVars>>
    BY <1>3, <1>5 DEF LoadedStep, SumLoaded, FoldLoaded
  <2> QED BY <1>2, <1>3, <1>4, <1>5, <2>1, RoundQuietKeeps
<1>6. CASE awaitsAlt
  <2> PICK d \in Devices : d = passed[c][1]
    BY <1>1, <1>3, ContextInDevices
  <2>1. device' = d
    BY <1>1, <1>3 DEF Loaded, WaitsOK, InProgress
  <2>2. /\ cached' = IF cached[d] = NoChunk THEN [cached EXCEPT ![d] = c] ELSE cached
        /\ c \in 0 .. NumChunks /\ c # NoChunk /\ c < NoChunk
    BY <1>6, <2>1, UsedDevices DEF LoadedStep, SumLoaded, FoldLoaded, Lookup, Chunks, NoChunk
  <2>3. /\ cached' \in [Devices -> 0 .. NumChunks]
        /\ \A e \in Devices : cached[e] # NoChunk => cached'[e] = cached[e]
        /\ \A e \in Devices : cached[e] = NoChunk => cached'[e] = IF e = d THEN c ELSE NoChunk
        /\ cached'[d] # NoChunk
    BY <1>1, <2>2 DEF RoundTypeOK
  <2>4. \A b \in Chunks : kernel[b] # "not run" =>
          chunk[b] \in {"computing", "done"} /\ cached[passed[b][1]] # NoChunk /\ passed[b][1] \in Devices
    <3>1. \A b \in Chunks : kernel[b] # "not run" => chunk[b] \in {"computing", "done"}
      BY <1>1 DEF CacheOK
    <3> QED BY <1>1, <1>6, <3>1, ContextInDevices DEF CacheOK
  <2>5. CacheOK'
    <3>1. \A e \in Devices : cached'[e] # NoChunk => cached'[e] \in Launched(e)'
      <4>1. \A e \in Devices : Launched(e)' = Launched(e)
        BY <1>3, <1>4 DEF Launched
      <4>2. c \in Launched(d)
        BY <1>3 DEF Launched
      <4> QED BY <1>1, <2>3, <4>1, <4>2 DEF CacheOK
    <3>2. ASSUME NEW b \in Chunks, chunk'[b] \in {"waiting", "computing", "done"}
          PROVE  cached'[passed'[b][1]] # NoChunk
      <4>1. CASE b = c
        BY <1>3, <2>3, <4>1
      <4>2. CASE b # c
        <5>1. chunk[b] # "none" /\ cached[passed[b][1]] # NoChunk
          BY <1>1, <1>3, <1>6, <3>2, <4>2 DEF CacheOK
        <5>2. passed[b][1] \in Devices
          BY <1>1, <5>1, ContextInDevices
        <5> QED BY <1>3, <2>3, <5>1, <5>2
      <4> QED BY <4>1, <4>2
    <3>3. \A b \in Chunks :
            /\ awaitsAlt' /\ chunk'[b] = "done" => kernel'[b] # "not run"
            /\ kernel'[b] # "not run" => awaitsAlt' /\ chunk'[b] \in {"computing", "done"}
      BY <1>1, <1>3, <1>4 DEF CacheOK
    <3>4. \A b \in Chunks :
            kernel'[b] # "not run" /\ cached'[passed'[b][1]] = b => passed'[b][1] \in copied'
      BY <1>1, <1>3, <2>3, <2>4 DEF CacheOK
    <3> QED BY <3>1, <3>2, <3>3, <3>4 DEF CacheOK
  <2>6. EarlierCopySeen'
    BY <1>1, <1>3, <2>3, <2>4 DEF EarlierCopySeen
  <2>7. RoundTypeOK'
    BY <1>1, <2>3 DEF RoundTypeOK
  <2>8. ResultOK'
    <3>1. \A b \in Chunks \cup {NoChunk} : b # NoChunk /\ Done(b)' <=> b # NoChunk /\ Done(b)
      BY <1>4 DEF Done
    <3>2. awaitsAlt' => (counter' = 0 <=> \A b \in Chunks : chunk'[b] # "done")
      BY <1>1, <1>3, <1>4 DEF ResultOK
    <3> QED BY <1>1, <1>3, <3>1, <3>2 DEF ResultOK
  <2> QED BY <1>2, <2>5, <2>6, <2>7, <2>8 DEF RInv
<1> QED BY <1>5, <1>6

LEMMA TableCopiedKeeps ==
  ASSUME RInv, NEW d \in Devices, TableCopied(d)
  PROVE  RInv'
<1>1. /\ UNCHANGED vars /\ UNCHANGED <<cached, kernel, result, counter>>
      /\ copied' = copied \cup {d}
  BY DEF TableCopied
<1>2. FInv'
  BY <1>1, StutterKeeps DEF RInv
<1>3. UNCHANGED <<awaitsAlt, chunk, passed>>
  BY <1>1 DEF vars
<1>4. RoundTypeOK' /\ EarlierCopySeen'
  BY <1>1, <1>3 DEF RInv, RoundTypeOK, EarlierCopySeen
<1>5. CacheOK' /\ ResultOK'
  BY <1>1, <1>3 DEF RInv, CacheOK, ResultOK, Launched, Done
<1> QED BY <1>2, <1>4, <1>5 DEF RInv

(* If a chunk computes, those launched before it on its device are done.  *)
LEMMA EarlierDone ==
  ASSUME FInv, awaitsAlt, NEW c \in Chunks, chunk[c] = "computing", NEW b \in Launched(passed[c][1]),
         b < c
  PROVE  chunk[b] = "done"
<1> PICK d \in Devices : d = passed[c][1]
  BY ContextInDevices
<1>1. c \in InFlight(d)
  BY DEF InFlight
<1>2. c \in Launched(d) /\ b \in Launched(d) /\ OwnContext(c, d) /\ ContextOf(c) = ctx[d][passed[c][2]]
      /\ Launched(d) \subseteq Nat
  BY <1>1, RunningChunk
<1>3. PICK l \in Launched(d) : l = ContextOf(c).alt /\ b <= l /\ l < c
  BY <1>2 DEF OwnContext
<1>4. chunk[l] = "done"
  <2>1. Done(ContextOf(c).alt) /\ l # NoChunk
    BY <1>3, UsedDevices DEF FInv, WaitsOK, Launched, Chunks, NoChunk
  <2> QED BY <1>3, <2>1 DEF Done
<1>5. InLoop(d) \/ Awaiting(d)
  BY <1>2 DEF FInv, DeviceOK, Untouched
<1>6. SUFFICES ASSUME chunk[b] # "done"
               PROVE  FALSE
  OBVIOUS
<1>7. b # l /\ b < l /\ chunk[c] # "done" /\ b # c
  BY <1>2, <1>3, <1>4, <1>6
<1>8. CASE InLoop(d)
  BY <1>2, <1>7, <1>6, <1>8 DEF InLoop
<1>9. CASE Awaiting(d)
  <2>1. PICK m \in Launched(d) : /\ m < fut[d]
                                 /\ \A x \in Launched(d) \ {m, fut[d]} : x < m /\ chunk[x] = "done"
    BY <1>9 DEF Awaiting
  <2>2. {b, c} = {m, fut[d]} /\ fut[d] \in Launched(d)
    BY <1>2, <1>6, <1>7, <1>9, <2>1 DEF Awaiting
  <2>3. b = m /\ c = fut[d]
    BY <1>2, <2>1, <2>2
  <2>4. l # b /\ l # c
    BY <1>2, <1>3, <1>7
  <2>5. l < b
    BY <1>3, <2>1, <2>3, <2>4
  <2>6. l \in Nat /\ b \in Nat
    BY <1>2, <1>3
  <2> QED BY <1>7, <2>5, <2>6
<1> QED BY <1>5, <1>8, <1>9

LEMMA SumKernelKeeps ==
  ASSUME RInv, NEW c \in Chunks, SumKernel(c)
  PROVE  RInv'
<1>1. FInv /\ RoundTypeOK /\ CacheOK /\ ResultOK /\ EarlierCopySeen
  BY DEF RInv
<1> PICK d \in Devices : d = passed[c][1]
  BY <1>1, ContextInDevices DEF SumKernel
<1> DEFINE found == IF d \in copied THEN "read table" ELSE "read garbage"
<1>2. /\ awaitsAlt /\ chunk[c] = "computing" /\ kernel[c] = "not run"
      /\ cached[d] = c => d \in copied
      /\ kernel' = [kernel EXCEPT ![c] = found]
      /\ UNCHANGED vars /\ UNCHANGED <<cached, copied, result, counter>>
  BY DEF SumKernel
<1>3. FInv' /\ UNCHANGED <<awaitsAlt, chunk, passed>>
  BY <1>1, <1>2, StutterKeeps DEF vars
<1>4. /\ kernel' \in [Chunks -> {"not run", "read table", "read garbage"}]
      /\ kernel'[c] = found /\ \A b \in Chunks \ {c} : kernel'[b] = kernel[b]
      /\ found # "not run"
  BY <1>1, <1>2 DEF RoundTypeOK
<1>5. RoundTypeOK' /\ ResultOK'
  BY <1>1, <1>2, <1>3, <1>4 DEF RoundTypeOK, ResultOK, Done
<1>6. CacheOK'
  <2>1. \A e \in Devices : Launched(e)' = Launched(e)
    BY <1>3 DEF Launched
  <2> QED BY <1>1, <1>2, <1>3, <1>4, <2>1 DEF CacheOK
<1>7. ASSUME d \notin copied PROVE cached[d] > c
  <2>1. cached[d] # NoChunk /\ cached[d] # c
    BY <1>1, <1>2, <1>7 DEF CacheOK
  <2>2. cached[d] \in Launched(d) /\ cached[d] \in Chunks /\ passed[cached[d]][1] = d
    BY <1>1, <2>1 DEF CacheOK, Launched
  <2>3. c \in Nat /\ cached[d] \in Nat
    BY <2>2, UsedDevices DEF Chunks
  <2>4. ASSUME cached[d] < c PROVE FALSE
    <3>1. chunk[cached[d]] = "done"
      BY <1>1, <1>2, <2>2, <2>4, EarlierDone
    <3>2. kernel[cached[d]] # "not run"
      BY <1>1, <1>2, <2>2, <3>1 DEF CacheOK
    <3>3. passed[cached[d]][1] \in copied
      BY <1>1, <2>2, <3>2 DEF CacheOK
    <3> QED BY <1>7, <2>2, <3>3
  <2> QED BY <2>1, <2>3, <2>4
<1>8. EarlierCopySeen'
  BY <1>1, <1>2, <1>3, <1>4, <1>7 DEF EarlierCopySeen
<1> QED BY <1>3, <1>5, <1>6, <1>8 DEF RInv

LEMMA ComputedStepKeeps ==
  ASSUME RInv, NEW c \in Chunks, ComputedStep(c)
  PROVE  RInv'
<1>1. /\ FInv /\ TypeOK /\ RoundTypeOK /\ CacheOK /\ ResultOK /\ EarlierCopySeen
      /\ Computed(c) /\ UNCHANGED <<cached, copied, kernel>>
      /\ awaitsAlt => kernel[c] # "not run"
  BY DEF RInv, FInv, ComputedStep, SumComputed, FoldComputed
<1>2. FInv'
  BY <1>1, NextKeeps DEF Next
<1>3. /\ chunk[c] = "computing" /\ passed' = passed /\ awaitsAlt' = awaitsAlt
      /\ chunk'[c] = "done" /\ \A b \in Chunks \ {c} : chunk'[b] = chunk[b]
  BY <1>1 DEF Computed, TypeOK
<1>4. EarlierCopySeen'
  BY <1>1, <1>3 DEF EarlierCopySeen
<1>5. CacheOK'
  <2>1. \A e \in Devices : Launched(e)' = Launched(e)
    BY <1>3 DEF Launched
  <2> QED BY <1>1, <1>3, <2>1 DEF CacheOK
<1>6. /\ \A b \in Chunks : Done(b)' <=> Done(b) \/ b = c
      /\ \A b \in Chunks : b # NoChunk
      /\ ~Done(c)
  BY <1>3, UsedDevices DEF Done, Chunks, NoChunk
<1>7. CASE awaitsAlt /\ counter = 0
  <2>1. /\ counter' = 1 /\ result' = [b \in DOMAIN result |-> IF b = c THEN 1 ELSE 0]
    <3>1. SumComputed(c)
      BY <1>7 DEF ComputedStep, FoldComputed
    <3>2. counter' = counter + 1
      BY <3>1 DEF SumComputed
    <3>3. counter' = 1
      BY <1>7, <3>2
    <3>4. result' = [b \in DOMAIN result |-> IF b = c THEN 1 ELSE 0]
      BY <1>7, <3>1 DEF SumComputed
    <3> QED BY <3>3, <3>4
  <2>2. \A b \in Chunks : ~Done(b)
    BY <1>1, <1>6, <1>7 DEF ResultOK, Done
  <2>3. RoundTypeOK'
    BY <1>1, <2>1 DEF RoundTypeOK
  <2>4. ResultOK'
    <3>1. ASSUME NEW b \in Chunks \cup {NoChunk}
          PROVE  result'[b] = IF b # NoChunk /\ Done(b)' THEN 1 ELSE 0
      BY <1>1, <1>6, <2>1, <2>2 DEF RoundTypeOK
    <3> QED BY <1>3, <2>1, <3>1 DEF ResultOK
  <2> QED BY <1>2, <1>4, <1>5, <2>3, <2>4 DEF RInv
<1>8. CASE ~(awaitsAlt /\ counter = 0)
  <2>1. /\ counter' = IF awaitsAlt THEN counter + 1 ELSE counter
        /\ result' = [result EXCEPT ![c] = @ + 1]
    BY <1>8 DEF ComputedStep, SumComputed, FoldComputed
  <2>2. \A b \in Chunks \cup {NoChunk} : result[b] = IF b # NoChunk /\ Done(b) THEN 1 ELSE 0
    BY <1>1, <1>8 DEF ResultOK
  <2>3. result[c] = 0
    BY <1>6, <2>2
  <2>4. result' = [result EXCEPT ![c] = 1]
    BY <2>1, <2>3
  <2>5. result \in [Chunks \cup {NoChunk} -> Nat] /\ counter \in Nat
    BY <1>1 DEF RoundTypeOK
  <2>6. counter' \in Nat /\ (awaitsAlt => counter' # 0)
    BY <1>8, <2>1, <2>5
  <2>7. result' \in [Chunks \cup {NoChunk} -> Nat]
    BY <2>4, <2>5
  <2>8. RoundTypeOK'
    BY <1>1, <2>6, <2>7 DEF RoundTypeOK
  <2>9. ResultOK'
    <3>1. result'[c] = 1
      BY <2>4, <2>5
    <3>2. \A b \in (Chunks \cup {NoChunk}) \ {c} : result'[b] = result[b]
      BY <2>4, <2>5
    <3>3. ASSUME NEW b \in Chunks \cup {NoChunk}
          PROVE  result'[b] = IF b # NoChunk /\ Done(b)' THEN 1 ELSE 0
      BY <1>6, <2>2, <3>1, <3>2
    <3> QED BY <1>3, <2>6, <3>3 DEF ResultOK
  <2> QED BY <1>2, <1>4, <1>5, <2>8, <2>9 DEF RInv
<1> QED BY <1>7, <1>8

LEMMA RoundInvariance == RoundSpec => []RInv
<1>1. RoundInit => RInv
  BY RoundInitEstablishes
<1>2. RInv /\ [RoundNext]_allVars => RInv'
  <2> SUFFICES ASSUME RInv, [RoundNext]_allVars PROVE RInv'
    OBVIOUS
  <2>1. CASE UNCHANGED allVars
    <3>1. FInv' /\ UNCHANGED <<awaitsAlt, chunk, passed, roundVars>>
      BY <2>1, StutterKeeps DEF RInv, allVars, vars
    <3> QED BY <3>1, RoundQuietKeeps
  <2>2. CASE \E c \in Chunks : LoadedStep(c) \/ SumKernel(c) \/ ComputedStep(c)
    BY <2>2, LoadedStepKeeps, SumKernelKeeps, ComputedStepKeeps
  <2>3. CASE \E d \in Devices : TableCopied(d)
    BY <2>3, TableCopiedKeeps
  <2> QED BY <2>1, <2>2, <2>3, ForEachStepKeeps DEF RoundNext
<1> QED BY <1>1, <1>2, PTL DEF RoundSpec

(***************************************************************************)
(* Of what the cache hands out unordered, a chunk never meets the copy of  *)
(* a chunk launched before it unfinished: only those launched later, which *)
(* the wait for alt_future does not cover, can be seen too early.          *)
(***************************************************************************)
THEOREM EarlierCopySeenAlways == RoundSpec => []EarlierCopySeen
<1>1. RInv => EarlierCopySeen
  BY DEF RInv
<1> QED BY <1>1, RoundInvariance, PTL

(***************************************************************************)
(* When the round returns, every chunk's contribution is in the result     *)
(* once, and nothing else, for any numbers of devices and chunks.          *)
(***************************************************************************)
THEOREM EachChunkCountedOnceAlways == RoundSpec => []EachChunkCountedOnce
<1>1. RInv => EachChunkCountedOnce
  <2> SUFFICES ASSUME RInv, parent.at = "done"
               PROVE  /\ \A c \in Chunks : chunk[c] = "done"
                      /\ result = [c \in Chunks \cup {NoChunk} |-> IF c = NoChunk THEN 0 ELSE 1]
    BY DEF EachChunkCountedOnce
  <2>1. TypeOK /\ ProgressOK /\ ResultOK /\ result \in [Chunks \cup {NoChunk} -> Nat]
    BY DEF RInv, FInv, RoundTypeOK
  <2>2. 0 \in DevicesUsed /\ DevicesUsed \subseteq Devices /\ 0 \in Chunks /\ NoChunk \notin Chunks
    BY UsedDevices DEF DevicesUsed, Chunks, NoChunk
  <2>3. next = NumChunks
    BY <2>1, <2>2 DEF ProgressOK
  <2>4. \A c \in Chunks : chunk[c] # "none" /\ passed[c][1] \in DevicesUsed
    BY <2>1, <2>3, UsedDevices DEF ProgressOK, Chunks
  <2>5. \A c \in Chunks : chunk[c] = "done"
    BY <2>1, <2>2, <2>4 DEF ProgressOK, Launched
  <2>6. \A c \in Chunks \cup {NoChunk} : result[c] = IF c = NoChunk THEN 0 ELSE 1
    BY <2>1, <2>2, <2>5 DEF ResultOK, Done
  <2>7. result = [c \in Chunks \cup {NoChunk} |-> result[c]]
    BY <2>1
  <2> QED BY <2>5, <2>6, <2>7
<1> QED BY <1>1, RoundInvariance, PTL

-----------------------------------------------------------------------------
(* ToDeviceCopier *)

Places == {"idle", "fill", "await_alt", "send", "last", "await_end"}
Contents == {Garbage} \cup (Copiers \X Nat)
Transfers == [handle : Handles, size : Nat, to : Nat]

CopyTypeOK ==
  /\ pc \in [Copiers -> Places]
  /\ size \in [Copiers -> 0 .. MaxSize]
  /\ supplied \in [Copiers -> Nat]
  /\ src \in [Copiers -> Nat]
  /\ offset \in [Copiers -> Nat]
  /\ left \in [Copiers -> Nat]
  /\ active \in [Copiers -> Buffers]
  /\ alt \in [Copiers -> Buffers]
  /\ pool \in Seq(Handles)
  /\ allocated \in 0 .. MaxHandles
  /\ pinned \in [Handles -> [Slots -> Contents]]
  /\ stream \in [Copiers -> Seq(Transfers)]
  /\ memory \in [Copiers -> [Offsets -> Contents]]

(* The copiers hold pinned memory that is theirs alone. *)
OwnersOK ==
  /\ IsInjective(pool)
  /\ ToSet(pool) \subseteq 1 .. allocated
  /\ \A c \in Copiers :
       /\ active[c].handle # NoHandle => active[c].handle \in (1 .. allocated) \ ToSet(pool)
       /\ alt[c].handle # NoHandle => alt[c].handle \in (1 .. allocated) \ ToSet(pool)
  /\ \A c, d \in Copiers :
       /\ active[c].handle # NoHandle => active[c].handle # alt[d].handle
       /\ c # d /\ active[c].handle # NoHandle => active[c].handle # active[d].handle
       /\ c # d /\ alt[c].handle # NoHandle => alt[c].handle # alt[d].handle
  /\ \A h \in 1 .. allocated :
       h \in ToSet(pool) \/ \E c \in Copiers : h = active[c].handle \/ h = alt[c].handle

(* The sizes and positions of copier c, wherever its copy() is. *)
PlaceOK(c) ==
  /\ active[c].size = 0 <=> active[c].handle = NoHandle
  /\ alt[c].handle # NoHandle => alt[c].size = Capacity /\ Capacity <= offset[c]
  /\ alt[c].handle = NoHandle => alt[c].size = 0
  /\ offset[c] + left[c] = size[c]
  /\ offset[c] + active[c].size + src[c] = supplied[c]
  /\ supplied[c] <= size[c]
  /\ left[c] = 0 => pc[c] = "idle" /\ alt[c].handle = NoHandle
  /\ pc[c] = "idle" => src[c] = 0
  /\ pc[c] \in {"idle", "fill"} => active[c].size < Capacity
  /\ pc[c] \in {"idle", "fill"} /\ left[c] > 0 => active[c].size < left[c]
  /\ pc[c] \in {"await_alt", "send"} => active[c].size = Capacity /\ Capacity < left[c]
  /\ pc[c] = "send" => alt[c].handle = NoHandle
  /\ pc[c] \in {"last", "await_end"} => active[c].size = left[c]

(* The transfers of a full buffer and of the last one *)
FullTransfer(c) == [handle |-> alt[c].handle, size |-> Capacity, to |-> offset[c] - Capacity]
LastTransfer(c) == [handle |-> active[c].handle, size |-> left[c], to |-> offset[c]]

(* What may be in the stream of copier c *)
StreamOK(c) ==
  \/ stream[c] = <<>>
  \/ pc[c] = "await_end" /\ stream[c] = <<LastTransfer(c)>>
  \/ /\ pc[c] = "await_end" /\ alt[c].handle # NoHandle
     /\ stream[c] = <<FullTransfer(c), LastTransfer(c)>>
  \/ /\ pc[c] # "await_end" /\ alt[c].handle # NoHandle
     /\ stream[c] = <<FullTransfer(c)>>

(* How much of the destination of c the GPU has written *)
Reached(c) ==
  IF stream[c] # <<>> THEN stream[c][1].to
  ELSE IF pc[c] = "await_end" THEN size[c]
  ELSE offset[c]

ArrivedOK(c) == \A i \in 0 .. Reached(c) - 1 : memory[c][i] = Byte(c, i)

(* The buffers of c hold what they were filled with *)
BuffersOK(c) ==
  /\ \A s \in 0 .. active[c].size - 1 : pinned[active[c].handle][s] = Byte(c, offset[c] + s)
  /\ alt[c].handle # NoHandle /\ Reached(c) < offset[c] =>
       \A s \in 0 .. Capacity - 1 : pinned[alt[c].handle][s] = Byte(c, offset[c] - Capacity + s)

CopierOK(c) == PlaceOK(c) /\ StreamOK(c) /\ ArrivedOK(c) /\ BuffersOK(c)

CopyIInv == CopyTypeOK /\ OwnersOK /\ \A c \in Copiers : CopierOK(c)

-----------------------------------------------------------------------------
(* A copier is unaffected by the others *)

(* Nobody touched copier d or the pinned memory it holds. *)
CopierUntouched(d) ==
  /\ pc'[d] = pc[d] /\ size'[d] = size[d] /\ supplied'[d] = supplied[d] /\ src'[d] = src[d]
  /\ offset'[d] = offset[d] /\ left'[d] = left[d]
  /\ active'[d] = active[d] /\ alt'[d] = alt[d]
  /\ stream'[d] = stream[d] /\ memory'[d] = memory[d]
  /\ active[d].handle # NoHandle => pinned'[active[d].handle] = pinned[active[d].handle]
  /\ alt[d].handle # NoHandle => pinned'[alt[d].handle] = pinned[alt[d].handle]

LEMMA OtherCopier ==
  ASSUME NEW d \in Copiers, CopyTypeOK, CopierOK(d), CopierUntouched(d)
  PROVE  CopierOK(d)'
<1>1. PlaceOK(d)' /\ StreamOK(d)' /\ Reached(d)' = Reached(d)
  BY DEF CopierOK, CopierUntouched, PlaceOK, StreamOK, Reached, FullTransfer, LastTransfer
<1>2. ArrivedOK(d)'
  BY <1>1 DEF CopierOK, CopierUntouched, ArrivedOK
<1>3. BuffersOK(d)'
  <2>1. active[d].size # 0 => active[d].handle # NoHandle
    BY DEF CopierOK, PlaceOK
  <2>2. active[d].size \in Nat
    BY DEF CopyTypeOK, Buffers, Slots
  <2> QED BY <1>1, <2>1, <2>2 DEF CopierOK, CopierUntouched, BuffersOK
<1> QED BY <1>1, <1>2, <1>3 DEF CopierOK

(* The transfers of a stream, by their numbers *)
LEMMA StreamElements ==
  ASSUME NEW c \in Copiers, CopyTypeOK, StreamOK(c), NEW k \in 1 .. Len(stream[c])
  PROVE  \/ /\ stream[c][k] = FullTransfer(c) /\ alt[c].handle # NoHandle
            /\ k = 1 /\ Reached(c) = offset[c] - Capacity
         \/ stream[c][k] = LastTransfer(c) /\ pc[c] = "await_end"
<1>1. CASE stream[c] = <<>>
  BY <1>1
<1>2. CASE pc[c] = "await_end" /\ stream[c] = <<LastTransfer(c)>>
  BY <1>2
<1>3. CASE /\ pc[c] = "await_end" /\ alt[c].handle # NoHandle
           /\ stream[c] = <<FullTransfer(c), LastTransfer(c)>>
  <2>1. k = 1 \/ k = 2
    BY <1>3
  <2>2. stream[c] # <<>> /\ stream[c][1] = FullTransfer(c) /\ stream[c][2] = LastTransfer(c)
    BY <1>3
  <2> QED BY <1>3, <2>1, <2>2 DEF Reached, FullTransfer
<1>4. CASE /\ pc[c] # "await_end" /\ alt[c].handle # NoHandle
           /\ stream[c] = <<FullTransfer(c)>>
  <2>1. k = 1 /\ stream[c] # <<>> /\ stream[c][1] = FullTransfer(c)
    BY <1>4
  <2> QED BY <1>4, <2>1 DEF Reached, FullTransfer
<1> QED BY <1>1, <1>2, <1>3, <1>4 DEF StreamOK

-----------------------------------------------------------------------------
(* Every step keeps the invariant *)

(* What a step of copier c that touches nothing of the others has to show *)
LEMMA OnlyOwnCopier ==
  ASSUME NEW c \in Copiers, CopyIInv, CopyTypeOK', OwnersOK', CopierOK(c)',
         \A d \in Copiers \ {c} : CopierUntouched(d)
  PROVE  CopyIInv'
<1> SUFFICES ASSUME NEW d \in Copiers PROVE CopierOK(d)'
  BY DEF CopyIInv
<1>1. CASE d = c
  BY <1>1
<1>2. CASE d # c
  BY <1>2, OtherCopier DEF CopyIInv
<1> QED BY <1>1, <1>2

(* The steps that leave the pinned memory and the buffers alone *)
LEMMA BuffersAlone ==
  ASSUME CopyIInv, UNCHANGED <<active, alt, pool, allocated>>
  PROVE  OwnersOK'
BY DEF CopyIInv, OwnersOK

LEMMA CopyKeeps ==
  ASSUME NEW c \in Copiers, NEW n \in 0 .. MaxSize, CopyIInv, Copy(c, n)
  PROVE  CopyIInv'
<1> USE DEF Copy
<1>1. CopyTypeOK'
  <2>1. supplied[c] + n \in Nat /\ n \in Nat
    BY DEF CopyIInv, CopyTypeOK
  <2> QED BY <2>1 DEF CopyIInv, CopyTypeOK, Places
<1>2. OwnersOK'
  BY BuffersAlone
<1>3. CopierOK(c)'
  <2>1. PlaceOK(c)'
    BY SMTT(30) DEF CopyIInv, CopyTypeOK, CopierOK, PlaceOK, Buffers, Slots
  <2>2. StreamOK(c)' /\ Reached(c)' = Reached(c)
    BY SMTT(30) DEF CopyIInv, CopyTypeOK, CopierOK, StreamOK, Reached, FullTransfer, LastTransfer
  <2>3. ArrivedOK(c)' /\ BuffersOK(c)'
    BY <2>2 DEF CopyIInv, CopierOK, ArrivedOK, BuffersOK
  <2> QED BY <2>1, <2>2, <2>3 DEF CopierOK
<1>4. \A d \in Copiers \ {c} : CopierUntouched(d)
  BY DEF CopyIInv, CopyTypeOK, CopierUntouched
<1> QED BY <1>1, <1>2, <1>3, <1>4, OnlyOwnCopier

LEMMA SourceEmptyKeeps ==
  ASSUME NEW c \in Copiers, CopyIInv, SourceEmpty(c)
  PROVE  CopyIInv'
<1> USE DEF SourceEmpty
<1>1. CopyTypeOK'
  BY DEF CopyIInv, CopyTypeOK, Places
<1>2. OwnersOK'
  BY BuffersAlone
<1>3. CopierOK(c)'
  <2>1. PlaceOK(c)'
    BY DEF CopyIInv, CopyTypeOK, CopierOK, PlaceOK, Buffers, Slots
  <2>2. StreamOK(c)' /\ Reached(c)' = Reached(c)
    BY DEF CopyIInv, CopyTypeOK, CopierOK, StreamOK, Reached, FullTransfer, LastTransfer
  <2>3. ArrivedOK(c)' /\ BuffersOK(c)'
    BY <2>2 DEF CopyIInv, CopierOK, ArrivedOK, BuffersOK
  <2> QED BY <2>1, <2>2, <2>3 DEF CopierOK
<1>4. \A d \in Copiers \ {c} : CopierUntouched(d)
  BY DEF CopyIInv, CopyTypeOK, CopierUntouched
<1> QED BY <1>1, <1>2, <1>3, <1>4, OnlyOwnCopier

(* The buffer that Fill writes is the copier's own, or nobody's. *)
LEMMA FillOwner ==
  ASSUME NEW c \in Copiers, CopyIInv, Fill(c)
  PROVE  /\ OwnersOK'
         /\ pool' \in Seq(Handles) /\ allocated' \in 0 .. MaxHandles
         /\ \A d \in Copiers : alt[d].handle # HandleFor(c)
         /\ \A d \in Copiers \ {c} : active[d].handle # HandleFor(c)
<1> DEFINE h == HandleFor(c)
<1>1. /\ h \in 1 .. MaxHandles
      /\ allocated' = IF h > allocated THEN h ELSE allocated
      /\ pool' = PoolAfter(c)
      /\ alt' = alt
      /\ active' = [active EXCEPT ![c] = Buffer(h, active[c].size + Taken(c))]
  BY DEF Fill, Handles
<1>2. active'[c].handle = h /\ \A d \in Copiers \ {c} : active'[d] = active[d]
  BY <1>1 DEF CopyIInv, CopyTypeOK, Buffer
<1>3. allocated \in 0 .. MaxHandles /\ MaxHandles \in Nat /\ pool \in Seq(Handles)
  BY ToDeviceCopierAssumption DEF CopyIInv, CopyTypeOK
<1>4. CASE active[c].handle # NoHandle
  <2>1. h = active[c].handle /\ pool' = pool
    BY <1>1, <1>4 DEF HandleFor, PoolAfter
  <2>2. allocated' = allocated
    BY <1>1, <1>3, <1>4, <2>1 DEF CopyIInv, OwnersOK
  <2>3. \A d \in Copiers : alt[d].handle # h
    BY <1>4, <2>1 DEF CopyIInv, OwnersOK
  <2>4. \A d \in Copiers \ {c} : active[d].handle # h
    BY <1>4, <2>1 DEF CopyIInv, OwnersOK
  <2>5. \A d \in Copiers : active'[d].handle = active[d].handle
    BY <1>2, <2>1
  <2>6. OwnersOK'
    BY <1>1, <2>1, <2>2, <2>5 DEF CopyIInv, OwnersOK
  <2> QED BY <1>3, <2>1, <2>2, <2>3, <2>4, <2>6
<1>5. CASE active[c].handle = NoHandle /\ pool # <<>>
  <2>1. h = Head(pool) /\ pool' = Tail(pool)
    BY <1>1, <1>5 DEF HandleFor, PoolAfter
  <2>2. IsInjective(pool)
    BY DEF CopyIInv, OwnersOK
  <2>3. /\ h \in ToSet(pool) /\ pool' \in Seq(Handles) /\ IsInjective(pool')
        /\ ToSet(pool') = ToSet(pool) \ {h}
    BY <1>3, <1>5, <2>1, <2>2, TailOfList
  <2>4. h \in 1 .. allocated /\ allocated' = allocated
    BY <1>1, <1>3, <2>3 DEF CopyIInv, OwnersOK
  <2>5. \A d \in Copiers : alt[d].handle # h /\ active[d].handle # h
    <3>1. h # NoHandle
      BY <1>1 DEF NoHandle
    <3> QED BY <2>3, <3>1 DEF CopyIInv, OwnersOK
  <2>6. OwnersOK'
    <3>1. \A g \in 1 .. allocated :
            g \in ToSet(pool') \/ \E d \in Copiers : g = active'[d].handle \/ g = alt'[d].handle
      BY <1>1, <1>2, <1>5, <2>3 DEF CopyIInv, OwnersOK, NoHandle
    <3>2. ToSet(pool') \subseteq 1 .. allocated
      BY <2>3 DEF CopyIInv, OwnersOK
    <3>3. \A d \in Copiers :
            /\ active'[d].handle # NoHandle => active'[d].handle \in (1 .. allocated) \ ToSet(pool')
            /\ alt'[d].handle # NoHandle => alt'[d].handle \in (1 .. allocated) \ ToSet(pool')
      BY <1>1, <1>2, <2>3, <2>4 DEF CopyIInv, OwnersOK
    <3>4. \A d, e \in Copiers :
            /\ active'[d].handle # NoHandle => active'[d].handle # alt'[e].handle
            /\ d # e /\ active'[d].handle # NoHandle => active'[d].handle # active'[e].handle
            /\ d # e /\ alt'[d].handle # NoHandle => alt'[d].handle # alt'[e].handle
      BY <1>1, <1>2, <2>5 DEF CopyIInv, OwnersOK
    <3> QED BY <2>3, <2>4, <3>1, <3>2, <3>3, <3>4 DEF OwnersOK
  <2> QED BY <1>3, <2>3, <2>4, <2>5, <2>6
<1>6. CASE active[c].handle = NoHandle /\ pool = <<>>
  <2>1. h = allocated + 1 /\ pool' = pool
    BY <1>1, <1>6 DEF HandleFor, PoolAfter
  <2>2. allocated' = h /\ 1 .. allocated' = (1 .. allocated) \cup {h}
    BY <1>1, <1>3, <2>1
  <2>3. h \notin 1 .. allocated /\ h # NoHandle
    BY <1>1, <1>3, <2>1 DEF NoHandle
  <2>4. \A d \in Copiers : alt[d].handle # h /\ active[d].handle # h
    BY <2>3 DEF CopyIInv, OwnersOK
  <2>5. OwnersOK'
    <3>1. \A g \in 1 .. allocated' :
            g \in ToSet(pool') \/ \E d \in Copiers : g = active'[d].handle \/ g = alt'[d].handle
      BY <1>1, <1>2, <1>3, <1>6, <2>1, <2>2 DEF CopyIInv, OwnersOK, NoHandle
    <3>2. ToSet(pool') \subseteq 1 .. allocated' /\ h \notin ToSet(pool')
      BY <2>1, <2>2, <2>3 DEF CopyIInv, OwnersOK
    <3>3. \A d \in Copiers :
            /\ active'[d].handle # NoHandle => active'[d].handle \in (1 .. allocated') \ ToSet(pool')
            /\ alt'[d].handle # NoHandle => alt'[d].handle \in (1 .. allocated') \ ToSet(pool')
      BY <1>1, <1>2, <2>1, <2>2, <3>2 DEF CopyIInv, OwnersOK
    <3>4. \A d, e \in Copiers :
            /\ active'[d].handle # NoHandle => active'[d].handle # alt'[e].handle
            /\ d # e /\ active'[d].handle # NoHandle => active'[d].handle # active'[e].handle
            /\ d # e /\ alt'[d].handle # NoHandle => alt'[d].handle # alt'[e].handle
      BY <1>1, <1>2, <2>4 DEF CopyIInv, OwnersOK
    <3> QED BY <2>1, <3>1, <3>2, <3>3, <3>4 DEF CopyIInv, OwnersOK
  <2>6. allocated' \in 0 .. MaxHandles
    BY <1>1, <1>3, <2>2
  <2> QED BY <1>3, <2>1, <2>4, <2>5, <2>6
<1> QED BY <1>4, <1>5, <1>6

LEMMA FillKeeps ==
  ASSUME NEW c \in Copiers, CopyIInv, Fill(c)
  PROVE  CopyIInv'
<1> DEFINE h == HandleFor(c)
           used == active[c].size
           n == Taken(c)
<1>1. /\ OwnersOK'
      /\ pool' \in Seq(Handles) /\ allocated' \in 0 .. MaxHandles
      /\ \A d \in Copiers : alt[d].handle # h
      /\ \A d \in Copiers \ {c} : active[d].handle # h
  BY FillOwner
<1>2. /\ pc[c] = "fill" /\ src[c] > 0 /\ h \in Handles
      /\ pinned' = [pinned EXCEPT ![h] = Filled(h, used, n, c, supplied[c] - src[c])]
      /\ active' = [active EXCEPT ![c] = Buffer(h, used + n)]
      /\ src' = [src EXCEPT ![c] = @ - n]
      /\ pc' = [pc EXCEPT ![c] = AfterFill(c, used + n)]
      /\ UNCHANGED <<size, supplied, offset, left, alt, stream, memory>>
  BY DEF Fill
<1>3. /\ CopyTypeOK /\ PlaceOK(c) /\ Capacity \in Nat \ {0}
      /\ used \in 0 .. Capacity /\ src[c] \in Nat /\ left[c] \in Nat /\ offset[c] \in Nat
      /\ supplied[c] \in Nat /\ size[c] \in Nat /\ alt[c].size \in 0 .. Capacity
  BY ToDeviceCopierAssumption DEF CopyIInv, CopyTypeOK, CopierOK, Buffers
<1>4. /\ n \in 1 .. src[c] /\ used + n \in 1 .. Capacity
      /\ used + n <= left[c]
      /\ used + n < Capacity => n = src[c]
      /\ supplied[c] - src[c] = offset[c] + used
  BY <1>2, <1>3 DEF Taken, PlaceOK
<1>5. /\ active'[c] = Buffer(h, used + n) /\ src'[c] = src[c] - n
      /\ pc'[c] = AfterFill(c, used + n) /\ offset'[c] = offset[c]
      /\ pinned'[h] = Filled(h, used, n, c, offset[c] + used)
      /\ \A g \in Handles \ {h} : pinned'[g] = pinned[g]
      /\ \A d \in Copiers \ {c} : active'[d] = active[d] /\ src'[d] = src[d] /\ pc'[d] = pc[d]
  BY <1>2, <1>3, <1>4 DEF CopyTypeOK
<1>6. CopyTypeOK'
  <2>1. Filled(h, used, n, c, supplied[c] - src[c]) \in [Slots -> Contents]
    <3> SUFFICES ASSUME NEW s \in Slots
                 PROVE  (IF s >= used /\ s < used + n THEN Byte(c, supplied[c] - src[c] + s - used)
                         ELSE pinned[h][s]) \in Contents
      BY DEF Filled
    <3>1. s >= used => supplied[c] - src[c] + s - used \in Nat
      BY <1>3, <1>4 DEF Slots
    <3>2. pinned[h][s] \in Contents
      BY <1>2, <1>3 DEF CopyTypeOK
    <3> QED BY <3>1, <3>2 DEF Byte, Contents
  <2>2. pinned' \in [Handles -> [Slots -> Contents]]
    BY <1>2, <1>3, <2>1 DEF CopyTypeOK
  <2>3. Buffer(h, used + n) \in Buffers
    BY <1>2, <1>4 DEF Buffer, Buffers
  <2>4. AfterFill(c, used + n) \in Places
    BY DEF AfterFill, Places
  <2>5. active' \in [Copiers -> Buffers] /\ pc' \in [Copiers -> Places]
    BY <1>2, <1>3, <2>3, <2>4 DEF CopyTypeOK
  <2>6. src' \in [Copiers -> Nat]
    BY <1>2, <1>3, <1>4, SMTT(30) DEF CopyTypeOK
  <2> QED BY <1>1, <1>2, <1>3, <2>2, <2>5, <2>6 DEF CopyTypeOK
<1>7. CopierOK(c)'
  <2>1. active'[c].handle = h /\ active'[c].size = used + n /\ h # NoHandle
    BY <1>2, <1>5 DEF Buffer, Handles, NoHandle
  <2>2. PlaceOK(c)'
    <3>1. pc'[c] = IF used + n = left[c] THEN "last"
                   ELSE IF used + n < Capacity THEN "idle"
                   ELSE IF alt[c].size > 0 THEN "await_alt"
                   ELSE "send"
      BY <1>5 DEF AfterFill
    <3>2. left[c] # 0
      BY <1>2, <1>3 DEF PlaceOK
    <3> QED BY <1>2, <1>3, <1>4, <1>5, <2>1, <3>1, <3>2 DEF PlaceOK
  <2>3. pc[c] # "await_end" /\ pc'[c] # "await_end"
    BY <1>2, <1>5 DEF AfterFill
  <2>4. StreamOK(c)' /\ Reached(c)' = Reached(c)
    BY <1>2, <2>3 DEF CopyIInv, CopierOK, StreamOK, Reached, FullTransfer
  <2>5. ArrivedOK(c)'
    BY <1>2, <2>4 DEF CopyIInv, CopierOK, ArrivedOK
  <2>6. BuffersOK(c)'
    <3>1. ASSUME NEW s \in 0 .. used + n - 1
          PROVE  pinned'[h][s] = Byte(c, offset[c] + s)
      <4>1. s \in Slots
        BY <1>3, <1>4 DEF Slots
      <4>2. pinned'[h][s] = IF s >= used /\ s < used + n THEN Byte(c, offset[c] + used + s - used)
                            ELSE pinned[h][s]
        BY <1>5, <4>1 DEF Filled
      <4>3. CASE s >= used
        <5>1. offset[c] + used + s - used = offset[c] + s
          BY <1>3, <1>4
        <5> QED BY <1>3, <1>4, <4>2, <4>3, <5>1
      <4>4. CASE s < used
        <5>1. active[c].handle = h
          BY <1>3, <4>4 DEF PlaceOK, HandleFor
        <5>2. s \in 0 .. used - 1
          BY <1>3, <4>4
        <5> QED BY <1>3, <4>2, <4>4, <5>1, <5>2 DEF CopyIInv, CopierOK, BuffersOK
      <4> QED BY <1>3, <1>4, <4>3, <4>4
    <3>2. alt[c].handle # NoHandle => pinned'[alt[c].handle] = pinned[alt[c].handle]
      BY <1>1, <1>3, <1>5 DEF CopyTypeOK, Buffers
    <3>3. \A s \in 0 .. active'[c].size - 1 : pinned'[active'[c].handle][s] = Byte(c, offset'[c] + s)
      <4>1. offset'[c] = offset[c] /\ active'[c].size - 1 = used + n - 1
        BY <1>3, <1>4, <1>5, <2>1
      <4> HIDE DEF h, used, n
      <4> QED BY <2>1, <3>1, <4>1
    <3>4. ASSUME alt'[c].handle # NoHandle, Reached(c)' < offset'[c],
                 NEW s \in 0 .. Capacity - 1
          PROVE  pinned'[alt'[c].handle][s] = Byte(c, offset'[c] - Capacity + s)
      <4>1. alt[c].handle # NoHandle /\ Reached(c) < offset[c]
        BY <1>2, <2>4, <3>4
      <4>2. pinned[alt[c].handle][s] = Byte(c, offset[c] - Capacity + s)
        BY <4>1 DEF CopyIInv, CopierOK, BuffersOK
      <4> QED BY <1>2, <3>2, <4>1, <4>2
    <3> QED BY <3>3, <3>4 DEF BuffersOK
  <2> QED BY <2>2, <2>4, <2>5, <2>6 DEF CopierOK
<1>8. ASSUME NEW d \in Copiers \ {c}
      PROVE  CopierUntouched(d)
  <2>1. active[d].handle # NoHandle => active[d].handle \in Handles \ {h}
    BY <1>1, <1>3 DEF CopyTypeOK, Buffers
  <2>2. alt[d].handle # NoHandle => alt[d].handle \in Handles \ {h}
    BY <1>1, <1>3 DEF CopyTypeOK, Buffers
  <2> QED BY <1>2, <1>5, <2>1, <2>2 DEF CopierUntouched
<1> QED BY <1>1, <1>6, <1>7, <1>8, OnlyOwnCopier

LEMMA SendKeeps ==
  ASSUME NEW c \in Copiers, CopyIInv, Send(c)
  PROVE  CopyIInv'
<1> DEFINE op == [handle |-> active[c].handle, size |-> active[c].size, to |-> offset[c]]
<1>1. /\ CopyTypeOK /\ PlaceOK(c) /\ StreamOK(c) /\ Capacity \in Nat \ {0}
      /\ active[c].size = Capacity /\ Capacity < left[c] /\ alt[c].handle = NoHandle
      /\ alt[c].size = 0 /\ active[c].handle \in Handles
      /\ offset[c] \in Nat /\ left[c] \in Nat /\ pc[c] = "send"
  <2>1. CopyTypeOK /\ PlaceOK(c) /\ StreamOK(c)
    BY DEF CopyIInv, CopierOK
  <2>2. Capacity \in Nat \ {0}
    BY ToDeviceCopierAssumption
  <2>3. pc[c] = "send"
    BY DEF Send
  <2>4. /\ active[c].size = Capacity /\ Capacity < left[c]
        /\ alt[c].handle = NoHandle /\ alt[c].size = 0
    BY <2>1, <2>3 DEF PlaceOK
  <2>5. offset[c] \in Nat /\ left[c] \in Nat /\ active[c] \in Buffers
    BY <2>1 DEF CopyTypeOK
  <2>6. active[c].handle # NoHandle
    BY <2>1, <2>2, <2>4 DEF PlaceOK
  <2>7. active[c].handle \in Handles
    BY <2>5, <2>6 DEF Buffers
  <2> QED BY <2>1, <2>2, <2>3, <2>4, <2>5, <2>7
<1>2. stream[c] = <<>>
  BY <1>1 DEF StreamOK
<1>3. /\ stream' = [stream EXCEPT ![c] = <<op>>]
      /\ offset' = [offset EXCEPT ![c] = @ + active[c].size]
      /\ left' = [left EXCEPT ![c] = @ - active[c].size]
      /\ active' = [active EXCEPT ![c] = alt[c]]
      /\ alt' = [alt EXCEPT ![c] = active[c]]
      /\ pc' = [pc EXCEPT ![c] = "fill"]
      /\ UNCHANGED <<size, supplied, src, pool, allocated, pinned, memory>>
  BY <1>1, <1>2 DEF Send, Enqueue, CopyTypeOK
<1>4. /\ stream'[c] = <<op>> /\ offset'[c] = offset[c] + Capacity
      /\ left'[c] = left[c] - Capacity /\ left'[c] \in Nat /\ offset'[c] \in Nat
      /\ active'[c] = alt[c] /\ alt'[c] = active[c] /\ pc'[c] = "fill"
  BY <1>1, <1>3 DEF CopyTypeOK
<1>5. CopyTypeOK'
  <2>1. op \in Transfers /\ <<op>> \in Seq(Transfers)
    BY <1>1 DEF Transfers
  <2>2. stream' \in [Copiers -> Seq(Transfers)]
    BY <1>1, <1>3, <2>1 DEF CopyTypeOK
  <2>3. offset' \in [Copiers -> Nat] /\ left' \in [Copiers -> Nat]
    BY <1>1, <1>3, <1>4 DEF CopyTypeOK
  <2>4. pc' \in [Copiers -> Places]
    BY <1>1, <1>3 DEF CopyTypeOK, Places
  <2> QED BY <1>1, <1>3, <2>2, <2>3, <2>4 DEF CopyTypeOK
<1>6. OwnersOK'
  <2>1. /\ active'[c].handle = NoHandle /\ alt'[c].handle = active[c].handle
        /\ \A d \in Copiers \ {c} : active'[d] = active[d] /\ alt'[d] = alt[d]
    BY <1>1, <1>3, <1>4 DEF CopyTypeOK
  <2>2. \A d \in Copiers :
          /\ active'[d].handle # NoHandle => active'[d].handle \in (1 .. allocated) \ ToSet(pool)
          /\ alt'[d].handle # NoHandle => alt'[d].handle \in (1 .. allocated) \ ToSet(pool)
    BY <2>1 DEF CopyIInv, OwnersOK
  <2>3. \A d, e \in Copiers :
          /\ active'[d].handle # NoHandle => active'[d].handle # alt'[e].handle
          /\ d # e /\ active'[d].handle # NoHandle => active'[d].handle # active'[e].handle
          /\ d # e /\ alt'[d].handle # NoHandle => alt'[d].handle # alt'[e].handle
    BY <2>1 DEF CopyIInv, OwnersOK
  <2>4. \A g \in 1 .. allocated :
          g \in ToSet(pool) \/ \E d \in Copiers : g = active'[d].handle \/ g = alt'[d].handle
    BY <1>1, <2>1 DEF CopyIInv, OwnersOK, NoHandle
  <2> QED BY <1>3, <2>2, <2>3, <2>4 DEF CopyIInv, OwnersOK
<1>7. CopierOK(c)'
  <2>1. PlaceOK(c)'
    <3>1. size'[c] = size[c] /\ supplied'[c] = supplied[c] /\ src'[c] = src[c]
      BY <1>3
    <3>2. active'[c].size = 0 /\ active'[c].handle = NoHandle
      BY <1>1, <1>4
    <3>3. alt'[c].size = Capacity /\ alt'[c].handle # NoHandle
      BY <1>1, <1>4 DEF Handles, NoHandle
    <3>4. size[c] \in Nat /\ supplied[c] \in Nat /\ src[c] \in Nat
      BY <1>1 DEF CopyTypeOK
    <3> QED BY <1>1, <1>4, <3>1, <3>2, <3>3, <3>4 DEF PlaceOK
  <2>2. stream'[c] # <<>> /\ stream'[c][1] = op
    BY <1>4
  <2>3. Reached(c) = offset[c] /\ Reached(c)' = offset[c]
    BY <1>1, <1>2, <2>2 DEF Reached
  <2>4. StreamOK(c)'
    <3>1. FullTransfer(c)' = op
      BY <1>1, <1>4 DEF FullTransfer
    <3>2. pc'[c] # "await_end" /\ alt'[c].handle # NoHandle
      BY <1>1, <1>4 DEF Handles, NoHandle
    <3> QED BY <1>4, <3>1, <3>2 DEF StreamOK
  <2>5. ArrivedOK(c)'
    BY <1>3, <2>3 DEF CopyIInv, CopierOK, ArrivedOK
  <2>6. BuffersOK(c)'
    <3>1. \A s \in 0 .. Capacity - 1 : pinned[active[c].handle][s] = Byte(c, offset[c] + s)
      BY <1>1 DEF CopyIInv, CopierOK, BuffersOK
    <3>2. offset'[c] - Capacity = offset[c]
      BY <1>1, <1>4
    <3> QED BY <1>1, <1>3, <1>4, <3>1, <3>2 DEF BuffersOK
  <2> QED BY <2>1, <2>4, <2>5, <2>6 DEF CopierOK
<1>8. \A d \in Copiers \ {c} : CopierUntouched(d)
  BY <1>1, <1>3 DEF CopyTypeOK, CopierUntouched
<1> QED BY <1>5, <1>6, <1>7, <1>8, OnlyOwnCopier

LEMMA AppendToOne ==
  ASSUME NEW x \in Transfers, NEW y \in Transfers
  PROVE  Append(<<x>>, y) = <<x, y>>
<1>1. <<x>> \in Seq(Transfers) /\ Len(<<x>>) = 1
  OBVIOUS
<1>2. /\ Append(<<x>>, y) \in Seq(Transfers) /\ Len(Append(<<x>>, y)) = 2
      /\ Append(<<x>>, y)[1] = x /\ Append(<<x>>, y)[2] = y
  BY <1>1, AppendProperties
<1>3. /\ <<x, y>> \in Seq(Transfers) /\ Len(<<x, y>>) = 2
      /\ <<x, y>>[1] = x /\ <<x, y>>[2] = y
  OBVIOUS
<1>4. \A i \in 1 .. 2 : i = 1 \/ i = 2
  OBVIOUS
<1> QED BY <1>2, <1>3, <1>4, SeqEqual

LEMMA SendLastKeeps ==
  ASSUME NEW c \in Copiers, CopyIInv, SendLast(c)
  PROVE  CopyIInv'
<1> DEFINE op == LastTransfer(c)
<1>1. /\ CopyTypeOK /\ PlaceOK(c) /\ StreamOK(c) /\ pc[c] = "last"
      /\ active[c].size = left[c] /\ left[c] # 0 /\ active[c].handle \in Handles
      /\ offset[c] \in Nat /\ left[c] \in Nat /\ offset[c] + left[c] = size[c]
  BY DEF CopyIInv, CopyTypeOK, CopierOK, PlaceOK, SendLast, Buffers, Slots
<1>2. /\ stream' = [stream EXCEPT ![c] = Append(@, op)]
      /\ pc' = [pc EXCEPT ![c] = "await_end"]
      /\ UNCHANGED <<size, supplied, src, offset, left, active, alt, pool, allocated, pinned, memory>>
  BY <1>1 DEF SendLast, Enqueue, LastTransfer
<1>3. op \in Transfers
  BY <1>1 DEF LastTransfer, Transfers
<1>4. stream'[c] = Append(stream[c], op) /\ pc'[c] = "await_end"
  BY <1>1, <1>2 DEF CopyTypeOK
<1>5. CopyTypeOK'
  <2>1. stream' \in [Copiers -> Seq(Transfers)]
    BY <1>1, <1>2, <1>3, AppendProperties DEF CopyTypeOK
  <2>2. pc' \in [Copiers -> Places]
    BY <1>1, <1>2 DEF CopyTypeOK, Places
  <2> QED BY <1>1, <1>2, <2>1, <2>2 DEF CopyTypeOK
<1>6. OwnersOK'
  BY <1>2, BuffersAlone
<1>7. CopierOK(c)'
  <2>1. PlaceOK(c)'
    BY <1>1, <1>2, <1>4 DEF PlaceOK
  <2>2. FullTransfer(c)' = FullTransfer(c) /\ LastTransfer(c)' = op
    BY <1>2 DEF FullTransfer, LastTransfer
  <2>3. StreamOK(c)' /\ Reached(c)' = Reached(c)
    <3>1. CASE stream[c] = <<>>
      <4>1. stream'[c] = <<op>>
        BY <1>4, <3>1
      <4>2. stream'[c] # <<>> /\ stream'[c][1].to = offset[c]
        BY <4>1 DEF LastTransfer
      <4> QED BY <1>1, <1>4, <2>2, <3>1, <4>1, <4>2 DEF StreamOK, Reached
    <3>2. CASE alt[c].handle # NoHandle /\ stream[c] = <<FullTransfer(c)>>
      <4>1. stream'[c] = <<FullTransfer(c), op>>
        <5>1. FullTransfer(c) \in Transfers
          BY <1>1, <3>2 DEF FullTransfer, Transfers, PlaceOK, CopyTypeOK, Buffers
        <5>2. Append(<<FullTransfer(c)>>, op) = <<FullTransfer(c), op>>
          BY <1>3, <5>1, AppendToOne
        <5> QED BY <1>4, <3>2, <5>2
      <4>2. /\ stream'[c] # <<>> /\ stream'[c][1] = FullTransfer(c)
            /\ stream[c] # <<>> /\ stream[c][1] = FullTransfer(c)
        BY <3>2, <4>1
      <4> QED BY <1>2, <1>4, <2>2, <3>2, <4>1, <4>2 DEF StreamOK, Reached
    <3> QED BY <1>1, <3>1, <3>2 DEF StreamOK
  <2>4. ArrivedOK(c)' /\ BuffersOK(c)'
    BY <1>2, <2>3 DEF CopyIInv, CopierOK, ArrivedOK, BuffersOK
  <2> QED BY <2>1, <2>3, <2>4 DEF CopierOK
<1>8. \A d \in Copiers \ {c} : CopierUntouched(d)
  BY <1>1, <1>2 DEF CopyTypeOK, CopierUntouched
<1> QED BY <1>5, <1>6, <1>7, <1>8, OnlyOwnCopier

(* A buffer that is reset goes back to the pool; the others stay. *)
LEMMA ReleaseOwned ==
  ASSUME NEW list \in Seq(Handles), NEW b \in Buffers, IsInjective(list),
         b.handle # NoHandle => b.handle \notin ToSet(list)
  PROVE  /\ Release(b, list) \in Seq(Handles)
         /\ IsInjective(Release(b, list))
         /\ ToSet(Release(b, list)) =
              ToSet(list) \cup (IF b.handle = NoHandle THEN {} ELSE {b.handle})
<1>1. CASE b.handle = NoHandle
  <2>1. Release(b, list) = list
    BY <1>1 DEF Release
  <2>2. ToSet(list) = ToSet(list) \cup {}
    OBVIOUS
  <2> QED BY <1>1, <2>1, <2>2
<1>2. CASE b.handle # NoHandle
  <2>1. b.handle \in Handles
    BY <1>2 DEF Buffers
  <2>2. Release(b, list) = Cons(b.handle, list)
    BY <1>2 DEF Release
  <2>3. ASSUME NEW h \in Handles, h \notin ToSet(list)
        PROVE  /\ Cons(h, list) \in Seq(Handles)
               /\ IsInjective(Cons(h, list))
               /\ ToSet(Cons(h, list)) = ToSet(list) \cup {h}
    BY <2>3, ConsProperties
  <2>4. b.handle \notin ToSet(list)
    BY <1>2
  <2> QED BY <1>2, <2>1, <2>2, <2>3, <2>4
<1> QED BY <1>1, <1>2

LEMMA AltReadyKeeps ==
  ASSUME NEW c \in Copiers, CopyIInv, AltReady(c)
  PROVE  CopyIInv'
<1>1. /\ CopyTypeOK /\ OwnersOK /\ PlaceOK(c) /\ pc[c] = "await_alt" /\ stream[c] = <<>>
      /\ alt[c] \in Buffers /\ pool \in Seq(Handles)
  BY DEF CopyIInv, CopyTypeOK, CopierOK, AltReady
<1>2. /\ pool' = Release(alt[c], pool)
      /\ alt' = [alt EXCEPT ![c] = NoBuffer]
      /\ pc' = [pc EXCEPT ![c] = "send"]
      /\ UNCHANGED <<size, supplied, src, offset, left, active, allocated, pinned, stream, memory>>
  BY DEF AltReady
<1>3. NoBuffer \in Buffers /\ NoBuffer.handle = NoHandle /\ NoBuffer.size = 0
  BY ToDeviceCopierAssumption DEF NoBuffer, Buffer, Buffers
<1>4. /\ alt'[c] = NoBuffer /\ pc'[c] = "send"
      /\ \A d \in Copiers \ {c} : alt'[d] = alt[d] /\ pc'[d] = pc[d]
  BY <1>1, <1>2 DEF CopyTypeOK
<1>5. /\ pool' \in Seq(Handles) /\ IsInjective(pool')
      /\ ToSet(pool') = ToSet(pool) \cup (IF alt[c].handle = NoHandle THEN {} ELSE {alt[c].handle})
  <2>1. alt[c].handle # NoHandle => alt[c].handle \notin ToSet(pool)
    BY <1>1 DEF OwnersOK
  <2>2. IsInjective(pool)
    BY <1>1 DEF OwnersOK
  <2> QED BY <1>1, <1>2, <2>1, <2>2, ReleaseOwned
<1>6. CopyTypeOK'
  <2>1. alt' \in [Copiers -> Buffers] /\ pc' \in [Copiers -> Places]
    BY <1>1, <1>2, <1>3 DEF CopyTypeOK, Places
  <2> QED BY <1>1, <1>2, <1>5, <2>1 DEF CopyTypeOK
<1>7. OwnersOK'
  <2>1. ToSet(pool') \subseteq 1 .. allocated
    BY <1>1, <1>5 DEF OwnersOK
  <2>2. \A d \in Copiers :
          /\ active[d].handle # NoHandle => active[d].handle \in (1 .. allocated) \ ToSet(pool')
          /\ alt'[d].handle # NoHandle => alt'[d].handle \in (1 .. allocated) \ ToSet(pool')
    BY <1>1, <1>3, <1>4, <1>5 DEF OwnersOK
  <2>3. \A d, e \in Copiers :
          /\ active[d].handle # NoHandle => active[d].handle # alt'[e].handle
          /\ d # e /\ active[d].handle # NoHandle => active[d].handle # active[e].handle
          /\ d # e /\ alt'[d].handle # NoHandle => alt'[d].handle # alt'[e].handle
    BY <1>1, <1>3, <1>4 DEF OwnersOK
  <2>4. \A h \in 1 .. allocated :
          h \in ToSet(pool') \/ \E d \in Copiers : h = active[d].handle \/ h = alt'[d].handle
    BY <1>1, <1>4, <1>5 DEF OwnersOK, NoHandle
  <2> QED BY <1>2, <1>5, <2>1, <2>2, <2>3, <2>4 DEF OwnersOK
<1>8. CopierOK(c)'
  <2>1. PlaceOK(c)'
    BY <1>1, <1>2, <1>3, <1>4 DEF PlaceOK
  <2>2. StreamOK(c)' /\ Reached(c)' = offset[c] /\ Reached(c) = offset[c]
    BY <1>1, <1>2, <1>4 DEF StreamOK, Reached
  <2>3. ArrivedOK(c)' /\ BuffersOK(c)'
    BY <1>2, <1>3, <1>4, <2>2 DEF CopyIInv, CopierOK, ArrivedOK, BuffersOK
  <2> QED BY <2>1, <2>2, <2>3 DEF CopierOK
<1>9. \A d \in Copiers \ {c} : CopierUntouched(d)
  BY <1>2, <1>4 DEF CopierUntouched
<1> QED BY <1>6, <1>7, <1>8, <1>9, OnlyOwnCopier

LEMMA FinishKeeps ==
  ASSUME NEW c \in Copiers, CopyIInv, Finish(c)
  PROVE  CopyIInv'
<1> DEFINE first == Release(active[c], pool)
<1>1. /\ CopyTypeOK /\ OwnersOK /\ PlaceOK(c) /\ pc[c] = "await_end" /\ stream[c] = <<>>
      /\ active[c] \in Buffers /\ alt[c] \in Buffers /\ pool \in Seq(Handles)
      /\ offset[c] \in Nat /\ left[c] \in Nat /\ size[c] \in Nat
      /\ offset[c] + left[c] = size[c]
  BY DEF CopyIInv, CopyTypeOK, CopierOK, PlaceOK, Finish
<1>2. /\ pool' = Release(alt[c], first)
      /\ offset' = [offset EXCEPT ![c] = @ + left[c]]
      /\ left' = [left EXCEPT ![c] = 0]
      /\ active' = [active EXCEPT ![c] = NoBuffer]
      /\ alt' = [alt EXCEPT ![c] = NoBuffer]
      /\ pc' = [pc EXCEPT ![c] = "idle"]
      /\ UNCHANGED <<size, supplied, src, allocated, pinned, stream, memory>>
  BY DEF Finish
<1>3. NoBuffer \in Buffers /\ NoBuffer.handle = NoHandle /\ NoBuffer.size = 0
  BY ToDeviceCopierAssumption DEF NoBuffer, Buffer, Buffers
<1>4. /\ active'[c] = NoBuffer /\ alt'[c] = NoBuffer /\ pc'[c] = "idle"
      /\ offset'[c] = size[c] /\ left'[c] = 0
      /\ \A d \in Copiers \ {c} :
           /\ active'[d] = active[d] /\ alt'[d] = alt[d] /\ pc'[d] = pc[d]
           /\ offset'[d] = offset[d] /\ left'[d] = left[d]
  BY <1>1, <1>2 DEF CopyTypeOK
<1>5. /\ pool' \in Seq(Handles) /\ IsInjective(pool')
      /\ ToSet(pool') = ToSet(pool) \cup (IF active[c].handle = NoHandle THEN {} ELSE {active[c].handle})
                                   \cup (IF alt[c].handle = NoHandle THEN {} ELSE {alt[c].handle})
  <2>1. /\ IsInjective(pool)
        /\ active[c].handle # NoHandle => active[c].handle \notin ToSet(pool)
    BY <1>1 DEF OwnersOK
  <2>2. /\ first \in Seq(Handles) /\ IsInjective(first)
        /\ ToSet(first) = ToSet(pool) \cup (IF active[c].handle = NoHandle THEN {} ELSE {active[c].handle})
    BY <1>1, <2>1, ReleaseOwned
  <2>3. alt[c].handle # NoHandle => alt[c].handle \notin ToSet(first)
    BY <1>1, <2>2 DEF OwnersOK
  <2> HIDE DEF first
  <2>4. /\ pool' \in Seq(Handles) /\ IsInjective(pool')
        /\ ToSet(pool') = ToSet(first) \cup (IF alt[c].handle = NoHandle THEN {} ELSE {alt[c].handle})
    BY <1>1, <1>2, <2>2, <2>3, ReleaseOwned
  <2> QED BY <2>2, <2>4
<1>6. CopyTypeOK'
  <2>1. /\ alt' \in [Copiers -> Buffers] /\ active' \in [Copiers -> Buffers]
        /\ pc' \in [Copiers -> Places]
    BY <1>1, <1>2, <1>3 DEF CopyTypeOK, Places
  <2>2. offset' \in [Copiers -> Nat] /\ left' \in [Copiers -> Nat]
    BY <1>1, <1>2 DEF CopyTypeOK
  <2> QED BY <1>1, <1>2, <1>5, <2>1, <2>2 DEF CopyTypeOK
<1>7. OwnersOK'
  <2>1. ToSet(pool') \subseteq 1 .. allocated
    BY <1>1, <1>5 DEF OwnersOK
  <2>2. \A d \in Copiers :
          /\ active'[d].handle # NoHandle => active'[d].handle \in (1 .. allocated) \ ToSet(pool')
          /\ alt'[d].handle # NoHandle => alt'[d].handle \in (1 .. allocated) \ ToSet(pool')
    BY <1>1, <1>3, <1>4, <1>5 DEF OwnersOK
  <2>3. \A d, e \in Copiers :
          /\ active'[d].handle # NoHandle => active'[d].handle # alt'[e].handle
          /\ d # e /\ active'[d].handle # NoHandle => active'[d].handle # active'[e].handle
          /\ d # e /\ alt'[d].handle # NoHandle => alt'[d].handle # alt'[e].handle
    BY <1>1, <1>3, <1>4 DEF OwnersOK
  <2>4. \A h \in 1 .. allocated :
          h \in ToSet(pool') \/ \E d \in Copiers : h = active'[d].handle \/ h = alt'[d].handle
    BY <1>1, <1>4, <1>5 DEF OwnersOK, NoHandle
  <2> QED BY <1>2, <1>5, <2>1, <2>2, <2>3, <2>4 DEF OwnersOK
<1>8. CopierOK(c)'
  <2>1. PlaceOK(c)'
    <3>1. /\ size'[c] = size[c] /\ supplied'[c] = supplied[c] /\ src'[c] = src[c]
          /\ supplied[c] \in Nat /\ src[c] \in Nat /\ Capacity \in Nat \ {0}
      BY <1>1, <1>2, ToDeviceCopierAssumption DEF CopyTypeOK
    <3>2. active[c].size = left[c] /\ offset[c] + left[c] + src[c] = supplied[c]
          /\ supplied[c] <= size[c]
      BY <1>1 DEF PlaceOK
    <3> QED BY <1>1, <1>3, <1>4, <3>1, <3>2 DEF PlaceOK
  <2>2. StreamOK(c)' /\ Reached(c)' = size[c] /\ Reached(c) = size[c]
    BY <1>1, <1>2, <1>4 DEF StreamOK, Reached
  <2>3. ArrivedOK(c)' /\ BuffersOK(c)'
    BY <1>2, <1>3, <1>4, <2>2 DEF CopyIInv, CopierOK, ArrivedOK, BuffersOK
  <2> QED BY <2>1, <2>2, <2>3 DEF CopierOK
<1>9. \A d \in Copiers \ {c} : CopierUntouched(d)
  BY <1>2, <1>4 DEF CopierUntouched
<1> QED BY <1>6, <1>7, <1>8, <1>9, OnlyOwnCopier

(* What the GPU still has to read is what it was enqueued for. *)
LEMMA TransferInFlight ==
  ASSUME NEW c \in Copiers, CopyIInv, NEW k \in 1 .. Len(stream[c])
  PROVE  LET op == stream[c][k] IN
         /\ op.handle \in {active[c].handle, alt[c].handle}
         /\ \A s \in 0 .. op.size - 1 : pinned[op.handle][s] = Byte(c, op.to + s)
<1>1. CopyTypeOK /\ PlaceOK(c) /\ StreamOK(c) /\ BuffersOK(c)
  BY DEF CopyIInv, CopierOK
<1>2. CASE /\ stream[c][k] = FullTransfer(c) /\ alt[c].handle # NoHandle
           /\ Reached(c) = offset[c] - Capacity
  <2>1. Reached(c) < offset[c]
    BY <1>1, <1>2, ToDeviceCopierAssumption DEF CopyTypeOK
  <2> QED BY <1>1, <1>2, <2>1 DEF BuffersOK, FullTransfer
<1>3. CASE stream[c][k] = LastTransfer(c) /\ pc[c] = "await_end"
  <2>1. active[c].size = left[c]
    BY <1>1, <1>3 DEF PlaceOK
  <2> QED BY <1>1, <1>3, <2>1 DEF BuffersOK, LastTransfer
<1> QED BY <1>1, <1>2, <1>3, StreamElements

(* The oldest transfer continues where the GPU got to. *)
LEMMA OldestTransfer ==
  ASSUME NEW c \in Copiers, CopyTypeOK, PlaceOK(c), StreamOK(c), stream[c] # <<>>
  PROVE  LET op == Head(stream[c])
             rest == Tail(stream[c])
         IN
         /\ op = stream[c][1] /\ 1 \in 1 .. Len(stream[c])
         /\ op \in Transfers /\ rest \in Seq(Transfers)
         /\ op.to = Reached(c) /\ op.to + op.size <= size[c]
         /\ \/ /\ rest = <<>>
               /\ op.to + op.size = IF pc[c] = "await_end" THEN size[c] ELSE offset[c]
            \/ /\ rest = <<LastTransfer(c)>> /\ pc[c] = "await_end"
               /\ op.to + op.size = offset[c]
<1>1. /\ offset[c] \in Nat /\ left[c] \in Nat /\ size[c] \in Nat /\ Capacity \in Nat
      /\ offset[c] + left[c] = size[c]
      /\ stream[c] \in Seq(Transfers)
  BY ToDeviceCopierAssumption DEF CopyTypeOK, PlaceOK
<1>2. /\ Head(stream[c]) = stream[c][1] /\ 1 \in 1 .. Len(stream[c])
      /\ Head(stream[c]) \in Transfers /\ Tail(stream[c]) \in Seq(Transfers)
      /\ Head(stream[c]).to = Reached(c)
  BY <1>1, HeadTailProperties DEF Reached
<1>3. CASE pc[c] = "await_end" /\ stream[c] = <<LastTransfer(c)>>
  <2>1. Head(stream[c]) = LastTransfer(c) /\ Tail(stream[c]) = <<>>
    BY <1>3
  <2> QED BY <1>1, <1>2, <1>3, <2>1 DEF LastTransfer
<1>4. CASE /\ pc[c] = "await_end" /\ alt[c].handle # NoHandle
           /\ stream[c] = <<FullTransfer(c), LastTransfer(c)>>
  <2>1. Head(stream[c]) = FullTransfer(c) /\ Tail(stream[c]) = <<LastTransfer(c)>>
    BY <1>4
  <2>2. FullTransfer(c).to + FullTransfer(c).size = offset[c]
    BY <1>1 DEF FullTransfer
  <2> QED BY <1>1, <1>2, <1>4, <2>1, <2>2
<1>5. CASE /\ pc[c] # "await_end" /\ alt[c].handle # NoHandle
           /\ stream[c] = <<FullTransfer(c)>>
  <2>1. Head(stream[c]) = FullTransfer(c) /\ Tail(stream[c]) = <<>>
    BY <1>5
  <2>2. FullTransfer(c).to + FullTransfer(c).size = offset[c]
    BY <1>1 DEF FullTransfer
  <2> QED BY <1>1, <1>2, <1>5, <2>1, <2>2
<1> QED BY <1>3, <1>4, <1>5 DEF StreamOK

LEMMA TransferKeeps ==
  ASSUME NEW c \in Copiers, CopyIInv, Transfer(c)
  PROVE  CopyIInv'
<1> DEFINE op == Head(stream[c])
           rest == Tail(stream[c])
           after == [i \in Offsets |->
                       IF i >= op.to /\ i < op.to + op.size
                       THEN pinned[op.handle][i - op.to] ELSE memory[c][i]]
<1>1. /\ CopyTypeOK /\ PlaceOK(c) /\ StreamOK(c) /\ ArrivedOK(c) /\ BuffersOK(c)
      /\ stream[c] # <<>>
      /\ size[c] \in 0 .. MaxSize /\ MaxSize \in Nat /\ Capacity \in Nat \ {0}
  BY ToDeviceCopierAssumption DEF CopyIInv, CopyTypeOK, CopierOK, Transfer
<1>2. /\ memory' = [memory EXCEPT ![c] = after]
      /\ stream' = [stream EXCEPT ![c] = rest]
      /\ UNCHANGED <<pc, size, supplied, src, offset, left, active, alt, pool, allocated, pinned>>
  BY DEF Transfer
<1>3. /\ op \in Transfers /\ rest \in Seq(Transfers)
      /\ op.to = Reached(c) /\ op.to + op.size <= size[c]
      /\ \/ /\ rest = <<>>
            /\ op.to + op.size = IF pc[c] = "await_end" THEN size[c] ELSE offset[c]
         \/ /\ rest = <<LastTransfer(c)>> /\ pc[c] = "await_end"
            /\ op.to + op.size = offset[c]
  BY <1>1, OldestTransfer
<1>4. \A s \in 0 .. op.size - 1 : pinned[op.handle][s] = Byte(c, op.to + s)
  <2>1. op = stream[c][1] /\ 1 \in 1 .. Len(stream[c])
    BY <1>1, OldestTransfer
  <2> QED BY <2>1, TransferInFlight
<1> HIDE DEF op, rest
<1>5. op.to \in Nat /\ op.size \in Nat /\ op.handle \in Handles
  BY <1>3 DEF Transfers
<1>6. /\ memory'[c] = after /\ stream'[c] = rest
      /\ \A d \in Copiers \ {c} : memory'[d] = memory[d] /\ stream'[d] = stream[d]
  BY <1>1, <1>2 DEF CopyTypeOK
<1>7. CopyTypeOK'
  <2>1. after \in [Offsets -> Contents]
    <3> SUFFICES ASSUME NEW i \in Offsets
                 PROVE  (IF i >= op.to /\ i < op.to + op.size
                         THEN pinned[op.handle][i - op.to] ELSE memory[c][i]) \in Contents
      OBVIOUS
    <3>1. memory[c][i] \in Contents /\ i \in Nat
      BY <1>1 DEF CopyTypeOK, Offsets
    <3>2. ASSUME i >= op.to, i < op.to + op.size
          PROVE  pinned[op.handle][i - op.to] \in Contents
      <4>1. i - op.to \in 0 .. op.size - 1
        BY <1>5, <3>1, <3>2
      <4>2. pinned[op.handle][i - op.to] = Byte(c, op.to + (i - op.to)) /\ op.to + (i - op.to) \in Nat
        BY <1>4, <1>5, <4>1
      <4> QED BY <4>2 DEF Byte, Contents
    <3> QED BY <3>1, <3>2
  <2> HIDE DEF after
  <2>2. memory' \in [Copiers -> [Offsets -> Contents]]
    BY <1>1, <1>2, <2>1 DEF CopyTypeOK
  <2>3. stream' \in [Copiers -> Seq(Transfers)]
    BY <1>1, <1>2, <1>3 DEF CopyTypeOK
  <2> QED BY <1>1, <1>2, <2>2, <2>3 DEF CopyTypeOK
<1>8. OwnersOK'
  BY <1>2, BuffersAlone
<1>9. CopierOK(c)'
  <2>1. PlaceOK(c)'
    BY <1>1, <1>2 DEF PlaceOK
  <2>2. StreamOK(c)' /\ Reached(c)' = op.to + op.size
    <3>1. CASE rest = <<>>
      BY <1>2, <1>3, <1>6, <3>1 DEF StreamOK, Reached
    <3>2. CASE rest = <<LastTransfer(c)>>
      <4>1. LastTransfer(c)' = LastTransfer(c) /\ LastTransfer(c).to = offset[c]
        BY <1>2 DEF LastTransfer
      <4>2. stream'[c] # <<>> /\ stream'[c][1] = LastTransfer(c)
        BY <1>6, <3>2
      <4>3. op.to + op.size = offset[c] /\ pc[c] = "await_end"
        BY <1>3, <3>2
      <4> QED BY <1>2, <1>6, <3>2, <4>1, <4>2, <4>3 DEF StreamOK, Reached
    <3> QED BY <1>3, <3>1, <3>2
  <2>3. ArrivedOK(c)'
    <3> HIDE DEF after
    <3> SUFFICES ASSUME NEW i \in 0 .. op.to + op.size - 1
                 PROVE  memory'[c][i] = Byte(c, i)
      BY <1>5, <2>2 DEF ArrivedOK
    <3>1. i \in Offsets /\ i \in Nat
      BY <1>1, <1>3, <1>5 DEF Offsets
    <3>2. CASE i < op.to
      <4>1. memory'[c][i] = memory[c][i]
        BY <1>5, <1>6, <3>1, <3>2 DEF after
      <4>2. i \in 0 .. Reached(c) - 1
        BY <1>3, <1>5, <3>1, <3>2
      <4> QED BY <1>1, <4>1, <4>2 DEF ArrivedOK
    <3>3. CASE i >= op.to
      <4>1. i - op.to \in 0 .. op.size - 1 /\ op.to + (i - op.to) = i /\ i < op.to + op.size
        BY <1>5, <3>1, <3>3
      <4>2. memory'[c][i] = pinned[op.handle][i - op.to]
        BY <1>6, <3>1, <3>3, <4>1 DEF after
      <4> QED BY <1>4, <4>1, <4>2
    <3> QED BY <1>5, <3>1, <3>2, <3>3
  <2>4. BuffersOK(c)'
    <3>1. Reached(c)' >= Reached(c) /\ Reached(c) \in Nat /\ offset[c] \in Nat
      BY <1>1, <1>3, <1>5, <2>2 DEF CopyTypeOK
    <3>2. Reached(c)' < offset[c] => Reached(c) < offset[c]
      BY <1>3, <1>5, <2>2, <3>1
    <3> QED BY <1>1, <1>2, <3>2 DEF BuffersOK
  <2> QED BY <2>1, <2>2, <2>3, <2>4 DEF CopierOK
<1>10. \A d \in Copiers \ {c} : CopierUntouched(d)
  BY <1>2, <1>6 DEF CopierUntouched
<1> QED BY <1>7, <1>8, <1>9, <1>10, OnlyOwnCopier

-----------------------------------------------------------------------------
(* The invariant, and the properties that it implies *)

LEMMA CopyInitInvariant == CopyInit => CopyIInv
<1> SUFFICES ASSUME CopyInit PROVE CopyIInv
  OBVIOUS
<1> USE ToDeviceCopierAssumption DEF CopyInit
<1>1. NoBuffer \in Buffers /\ NoBuffer.handle = NoHandle /\ NoBuffer.size = 0
  BY DEF NoBuffer, Buffer, Buffers
<1>2. CopyTypeOK
  <2>1. Garbage \in Contents
    BY DEF Contents
  <2>2. <<>> \in Seq(Handles) /\ <<>> \in Seq(Transfers)
    OBVIOUS
  <2>3. left \in [Copiers -> Nat]
    OBVIOUS
  <2> QED BY <1>1, <2>1, <2>2, <2>3 DEF CopyTypeOK, Places
<1>3. ToSet(pool) = {} /\ IsInjective(pool)
  BY DEF ToSet, IsInjective
<1>4. OwnersOK
  <2>1. \A c \in Copiers : active[c].handle = NoHandle /\ alt[c].handle = NoHandle
    BY <1>1
  <2>2. 1 .. allocated = {}
    OBVIOUS
  <2> QED BY <1>3, <2>1, <2>2 DEF OwnersOK
<1>5. ASSUME NEW c \in Copiers PROVE CopierOK(c)
  <2>1. /\ active[c] = NoBuffer /\ alt[c] = NoBuffer /\ pc[c] = "idle" /\ stream[c] = <<>>
        /\ offset[c] = 0 /\ left[c] = size[c] /\ size[c] \in Nat /\ src[c] = 0 /\ supplied[c] = 0
    OBVIOUS
  <2>2. PlaceOK(c)
    BY <1>1, <2>1 DEF PlaceOK
  <2>3. StreamOK(c) /\ Reached(c) = 0
    BY <2>1 DEF StreamOK, Reached
  <2>4. ArrivedOK(c) /\ BuffersOK(c)
    BY <1>1, <2>1, <2>3 DEF ArrivedOK, BuffersOK
  <2> QED BY <2>2, <2>3, <2>4 DEF CopierOK
<1> QED BY <1>2, <1>4, <1>5 DEF CopyIInv

LEMMA CopyStutterKeeps ==
  ASSUME CopyIInv, UNCHANGED copyVars
  PROVE  CopyIInv'
<1> USE DEF copyVars
<1>1. CopyTypeOK'
  BY DEF CopyIInv, CopyTypeOK
<1>2. OwnersOK'
  BY BuffersAlone
<1>3. \A d \in Copiers : CopierUntouched(d)
  BY DEF CopierUntouched
<1> QED BY <1>1, <1>2, <1>3, OtherCopier DEF CopyIInv

LEMMA CopyNextKeeps == CopyIInv /\ [CopyNext]_copyVars => CopyIInv'
<1> SUFFICES ASSUME CopyIInv, [CopyNext]_copyVars PROVE CopyIInv'
  OBVIOUS
<1>1. ASSUME NEW c \in Copiers, NEW n \in 0 .. MaxSize, Copy(c, n) PROVE CopyIInv'
  BY <1>1, CopyKeeps
<1>2. ASSUME NEW c \in Copiers, Run(c) PROVE CopyIInv'
  BY <1>2, SourceEmptyKeeps, FillKeeps, AltReadyKeeps, SendKeeps, SendLastKeeps, FinishKeeps DEF Run
<1>3. ASSUME NEW c \in Copiers, Transfer(c) PROVE CopyIInv'
  BY <1>3, TransferKeeps
<1>4. CASE UNCHANGED copyVars
  BY <1>4, CopyStutterKeeps
<1> QED BY <1>1, <1>2, <1>3, <1>4 DEF CopyNext

(***************************************************************************)
(* Whatever the copiers are called with and however the GPU's transfers    *)
(* fall between their steps, sizes, streams, buffers and destinations are  *)
(* as CopyIInv describes them.                                                 *)
(***************************************************************************)
THEOREM CopierInvariance == CopySpec => []CopyIInv
<1> QED BY CopyInitInvariant, CopyNextKeeps, PTL DEF CopySpec

(***************************************************************************)
(* to_device_copier and pinned_buffer_pool never share, free twice or leak *)
(* a pinned allocation, for any number of copiers.                         *)
(***************************************************************************)
THEOREM OneOwnerAlways == CopySpec => []OneOwner
<1>1. CopyIInv => OneOwner
  <2> SUFFICES ASSUME CopyIInv PROVE OneOwner
    OBVIOUS
  <2> DEFINE buffers == {<<c, 1>> : c \in Copiers} \cup {<<c, 2>> : c \in Copiers}
             handle(b) == IF b[2] = 1 THEN active[b[1]].handle ELSE alt[b[1]].handle
             used == {b \in buffers : handle(b) # NoHandle}
  <2>1. OwnersOK
    BY DEF CopyIInv
  <2>2. \A b \in used : handle(b) \in (1 .. allocated) \ ToSet(pool)
    BY <2>1 DEF OwnersOK
  <2>3. ASSUME NEW a \in used, NEW b \in used, handle(a) = handle(b)
        PROVE  a = b
    <3>1. PICK c \in Copiers, d \in Copiers : a \in {<<c, 1>>, <<c, 2>>} /\ b \in {<<d, 1>>, <<d, 2>>}
      OBVIOUS
    <3>2. CASE a = <<c, 1>> /\ b = <<d, 1>>
      BY <2>1, <2>3, <3>2 DEF OwnersOK
    <3>3. CASE a = <<c, 2>> /\ b = <<d, 2>>
      BY <2>1, <2>3, <3>3 DEF OwnersOK
    <3>4. CASE a = <<c, 1>> /\ b = <<d, 2>>
      BY <2>1, <2>3, <3>4 DEF OwnersOK
    <3>5. CASE a = <<c, 2>> /\ b = <<d, 1>>
      BY <2>1, <2>3, <3>5 DEF OwnersOK
    <3> QED BY <3>1, <3>2, <3>3, <3>4, <3>5
  <2>4. 1 .. allocated = ToSet(pool) \cup {handle(b) : b \in used}
    <3>1. ASSUME NEW h \in 1 .. allocated, h \notin ToSet(pool)
          PROVE  h \in {handle(b) : b \in used}
      <4>1. PICK c \in Copiers : h = active[c].handle \/ h = alt[c].handle
        BY <2>1, <3>1 DEF OwnersOK
      <4>2. h # NoHandle
        BY DEF NoHandle
      <4>3. CASE h = active[c].handle
        <5>1. <<c, 1>> \in used /\ handle(<<c, 1>>) = h
          BY <4>2, <4>3
        <5> QED BY <5>1
      <4>4. CASE h = alt[c].handle
        <5>1. <<c, 2>> \in used /\ handle(<<c, 2>>) = h
          BY <4>2, <4>4
        <5> QED BY <5>1
      <4> QED BY <4>1, <4>3, <4>4
    <3>2. ToSet(pool) \subseteq 1 .. allocated
      BY <2>1 DEF OwnersOK
    <3> HIDE DEF handle, used
    <3> QED BY <2>2, <3>1, <3>2
  <2>5. IsInjective(pool)
    BY <2>1 DEF OwnersOK
  <2> QED BY <2>2, <2>3, <2>4, <2>5 DEF OneOwner
<1> QED BY CopierInvariance, <1>1, PTL

(***************************************************************************)
(* to_device_copier::copy never touches, and never gives back, a pinned    *)
(* buffer that the GPU has still to read.                                  *)
(***************************************************************************)
THEOREM InFlightIntactAlways == CopySpec => []InFlightIntact
<1>1. CopyIInv => InFlightIntact
  BY TransferInFlight DEF InFlightIntact
<1> QED BY CopierInvariance, <1>1, PTL

(***************************************************************************)
(* to_device_copier::copy skips no byte and takes none twice, however the  *)
(* caller cuts the source into pieces.                                     *)
(***************************************************************************)
THEOREM BytesAccountedAlways == CopySpec => []BytesAccounted
<1>1. CopyIInv => BytesAccounted
  <2> SUFFICES ASSUME CopyIInv, NEW c \in Copiers
               PROVE  /\ offset[c] + left[c] = size[c]
                      /\ pc[c] = "idle" => offset[c] + active[c].size = supplied[c]
                      /\ \A s \in 0 .. active[c].size - 1 :
                           pinned[active[c].handle][s] = Byte(c, offset[c] + s)
    BY DEF BytesAccounted
  <2>1. offset[c] \in Nat /\ active[c].size \in Nat
    BY ToDeviceCopierAssumption DEF CopyIInv, CopyTypeOK, Buffers
  <2> QED BY <2>1 DEF CopyIInv, CopierOK, PlaceOK, BuffersOK
<1> QED BY CopierInvariance, <1>1, PTL

(***************************************************************************)
(* When the copy() that completes the destination has returned, the device *)
(* holds the caller's bytes, for all sizes of buffers and destinations.    *)
(***************************************************************************)
THEOREM DeliveredAlways == CopySpec => []Delivered
<1>1. CopyIInv => Delivered
  <2> SUFFICES ASSUME CopyIInv, NEW c \in Copiers, supplied[c] = size[c], pc[c] = "idle",
                      NEW i \in 0 .. size[c] - 1
               PROVE  memory[c][i] = Byte(c, i)
    BY DEF Delivered
  <2>1. /\ PlaceOK(c) /\ StreamOK(c) /\ ArrivedOK(c)
        /\ offset[c] \in Nat /\ active[c].size \in Nat /\ left[c] \in Nat /\ size[c] \in Nat
    BY ToDeviceCopierAssumption DEF CopyIInv, CopierOK, CopyTypeOK, Buffers
  <2>2. left[c] = 0 /\ offset[c] = size[c] /\ alt[c].handle = NoHandle
    BY <2>1 DEF PlaceOK
  <2>3. stream[c] = <<>>
    BY <2>1, <2>2 DEF StreamOK
  <2> QED BY <2>1, <2>2, <2>3 DEF ArrivedOK, Reached
<1> QED BY CopierInvariance, <1>1, PTL

=============================================================================
