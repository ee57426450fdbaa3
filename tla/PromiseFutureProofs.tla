-------------------------- MODULE PromiseFutureProofs --------------------------
(***************************************************************************)
(* Proofs about PromiseFuture, for any sets of promises, futures, tasks    *)
(* and results and any interleaving of the calls of clients that leave the *)
(* future of a continuation's result alone while its function runs.        *)
(*                                                                         *)
(* The three safety properties hold each other up: that a pointer may be   *)
(* followed depends on who owns the tasks, and that depends on the         *)
(* pointers.  They are proved from one inductive invariant, IInv.  Its     *)
(* first part, ObjectsOK, says besides ObjectsAgree where the result of a  *)
(* pending promise is stored (StorageOK), that a result has one promise    *)
(* and one future (PromisesOK, FuturesOK), what a frame of the stack       *)
(* stands for (StackOK), who owns a task (TasksOK), and that a result that *)
(* was handed over is not held anywhere else (ReceivedOK).  Its second,    *)
(* AddressesOK, says that the address a running continuation has taken is  *)
(* where its promise still wants the result.                               *)
(*                                                                         *)
(* There is one lemma per action and part.  That for ObjectsOK first says  *)
(* what the action's assignments amount to, object by object, then takes   *)
(* the conjuncts one at a time; only for Finish does it need AddressesOK.  *)
(* That for AddressesOK needs the clients' restraint, ResultsLeftAlone.    *)
(***************************************************************************)
EXTENDS PromiseFuture, DataLemmas, SequenceTheorems, FiniteSetTheorems, TLAPS

-----------------------------------------------------------------------------
(* The inductive invariant *)

FrameSet == [task : Tasks, phase : Phases, state : FutureAddress \cup {Null}]

PromiseType ==
  [live : BOOLEAN, future : FutureAddress \cup {Null}, state : FutureAddress \cup {Null},
   cont : Tasks \cup {Null}, result : Results \cup {Null}]

FutureType ==
  [live : BOOLEAN, promise : PromiseAddress \cup {Null}, ready : BOOLEAN,
   value : Results \cup {Null}, result : Results \cup {Null}]

TypeOK ==
  /\ promise \in [PromiseAddress -> PromiseType]
  /\ future \in [FutureAddress -> FutureType]
  /\ task \in [Tasks -> {"free", "leaf", "then", "coroutine"}]
  /\ stack \in Seq(FrameSet)
  /\ status \in [Results -> {"unused", "pending", "ready"}]
  /\ received \in [Results -> Nat]

(***************************************************************************)
(* A pending promise stores its result in the future that has not been     *)
(* moved away from it yet, or in the task that continues it.  In the       *)
(* second case it has no future any more, or (a coroutine that awaits it)  *)
(* the future is in the task.                                              *)
(***************************************************************************)
StorageOK ==
  \A p \in Unresolved :
    \/ /\ promise[p].cont = Null
       /\ promise[p].state \in Futures
       /\ promise[p].future = promise[p].state
    \/ /\ promise[p].cont \in Tasks
       /\ promise[p].state = promise[p].cont
       /\ promise[p].future \in {Null, promise[p].state}

(* A result that is promised is no longer unused, and promised once. *)
PromisesOK ==
  /\ \A p \in PromiseAddress :
       promise[p].live /\ promise[p].result # Null => status[promise[p].result] # "unused"
  /\ \A p, q \in PromiseAddress :
       /\ promise[p].live /\ promise[p].result # Null
       /\ promise[q].live /\ promise[q].result = promise[p].result
       => p = q

(***************************************************************************)
(* A result has one future.  The future of client code has its value or    *)
(* knows its promise; a ready future, or one that was moved from, points   *)
(* at no promise.                                                          *)
(***************************************************************************)
FuturesOK ==
  /\ \A f \in FutureAddress :
       future[f].live /\ future[f].result # Null =>
         /\ future[f].ready => /\ status[future[f].result] = "ready"
                               /\ future[f].value = future[f].result
         /\ ~future[f].ready => status[future[f].result] = "pending"
         /\ future[f].ready => future[f].promise = Null
         /\ ~future[f].ready /\ f \in Futures => future[f].promise # Null
  /\ \A f, g \in FutureAddress :
       /\ future[f].live /\ future[f].result # Null
       /\ future[g].live /\ future[g].result = future[f].result
       => f = g
  /\ \A f \in FutureAddress : future[f].live /\ future[f].result = Null => future[f].promise = Null

(***************************************************************************)
(* The frames of the stack are those of different tasks, none of which     *)
(* waits for anything.  Their promises are pending unless all that is left *)
(* to do is to dispose of the task.                                        *)
(***************************************************************************)
StackOK ==
  /\ \A i, j \in 1 .. Len(stack) : stack[i].task = stack[j].task => i = j
  /\ \A i \in 1 .. Len(stack) :
       /\ task[stack[i].task] \in {"then", "coroutine"}
       /\ stack[i].phase # "dispose" <=> stack[i].task \in Unresolved
       /\ \A p \in Unresolved : promise[p].cont # stack[i].task

(***************************************************************************)
(* Nothing is left of a task that was freed; a leaf_continuation has no    *)
(* promise of its own.  A task runs or continues a pending promise, one    *)
(* only, and its own promise is then pending.                              *)
(***************************************************************************)
TasksOK ==
  /\ \A t \in Tasks : task[t] = "free" => ~promise[t].live /\ ~future[t].live
  /\ \A t \in Tasks : task[t] = "leaf" => ~promise[t].live
  /\ \A t \in Tasks : task[t] # "free" =>
       \/ \E i \in 1 .. Len(stack) : stack[i].task = t
       \/ \E p \in Unresolved : promise[p].cont = t
  /\ \A p, q \in Unresolved : promise[p].cont # Null /\ promise[q].cont = promise[p].cont => p = q
  /\ \A p \in Unresolved : promise[p].cont # Null =>
       /\ task[promise[p].cont] # "free"
       /\ task[promise[p].cont] # "leaf" => promise[p].cont \in Unresolved

(* A result that a consumer has received exists, and no future has it. *)
ReceivedOK ==
  \A r \in Results :
    /\ received[r] = 0 \/ received[r] = 1
    /\ received[r] = 1 => /\ status[r] = "ready"
                          /\ \A f \in FutureAddress : future[f].live => future[f].result # r

ObjectsOK ==
  /\ TypeOK
  /\ ObjectsAgree
  /\ StorageOK
  /\ PromisesOK
  /\ FuturesOK
  /\ StackOK
  /\ TasksOK
  /\ ReceivedOK

(***************************************************************************)
(* The continuations whose functions run have taken the addresses of their *)
(* results' states, nobody else has; those are their promises' states yet. *)
(***************************************************************************)
AddressOK(fr) ==
  /\ fr.state # Null <=> fr.phase # "dispose" /\ task[fr.task] = "then"
  /\ fr.state # Null => fr.state = promise[fr.task].state

AddressesOK == \A fr \in ToSet(stack) : AddressOK(fr)

IInv == ObjectsOK /\ AddressesOK

USE PromiseFutureAssumption


-----------------------------------------------------------------------------
(* What the operators of the model return *)

(* Promises and futures of clients are not tasks, and null is no object. *)
LEMMA Addresses ==
  /\ Null \notin PromiseAddress /\ Null \notin FutureAddress
  /\ Null \notin Tasks /\ Null \notin Results
  /\ Promises \subseteq PromiseAddress /\ Futures \subseteq FutureAddress
  /\ Tasks \subseteq PromiseAddress /\ Tasks \subseteq FutureAddress
  /\ \A x \in Promises \cup Futures : x \notin Tasks
  BY DEF PromiseAddress, FutureAddress

(* A frame of the stack. *)
LEMMA Frames ==
  ASSUME TypeOK
  PROVE  \A i \in 1 .. Len(stack) :
           stack[i] \in FrameSet /\ stack[i].task \in Tasks /\ stack[i].phase \in Phases
<1>1. \A i \in 1 .. Len(stack) : stack[i] \in FrameSet
  BY ElementOfSeq DEF TypeOK
<1> QED
  BY <1>1 DEF FrameSet

(* The members of the objects. *)
LEMMA FieldTypes ==
  ASSUME TypeOK
  PROVE  /\ \A p \in PromiseAddress :
              /\ promise[p].live \in BOOLEAN
              /\ promise[p].future \in FutureAddress \cup {Null}
              /\ promise[p].state \in FutureAddress \cup {Null}
              /\ promise[p].cont \in Tasks \cup {Null}
              /\ promise[p].result \in Results \cup {Null}
         /\ \A f \in FutureAddress :
              /\ future[f].live \in BOOLEAN /\ future[f].ready \in BOOLEAN
              /\ future[f].promise \in PromiseAddress \cup {Null}
              /\ future[f].value \in Results \cup {Null}
              /\ future[f].result \in Results \cup {Null}
  BY DEF TypeOK, PromiseType, FutureType

(* The members of a promise that is still to be made ready. *)
LEMMA UnresolvedPromises ==
  ASSUME TypeOK, NEW p \in Unresolved
  PROVE  /\ p \in PromiseAddress
         /\ promise[p].live
         /\ promise[p].result \in Results /\ promise[p].result # Null
         /\ status[promise[p].result] = "pending"
         /\ promise[p].cont \in Tasks \cup {Null}
         /\ promise[p].state \in FutureAddress \cup {Null}
         /\ promise[p].future \in FutureAddress \cup {Null}
  BY DEF TypeOK, PromiseType, Unresolved

(* A promise follows its future to the address f. *)
LEMMA AttachIs ==
  ASSUME NEW ps \in [PromiseAddress -> PromiseType], NEW f \in FutureAddress,
         NEW fut, fut.promise \in PromiseAddress \cup {Null}
  PROVE  /\ Attach(ps, fut, f) \in [PromiseAddress -> PromiseType]
         /\ \A x \in PromiseAddress : x # fut.promise => Attach(ps, fut, f)[x] = ps[x]
         /\ \A x \in PromiseAddress :
              /\ Attach(ps, fut, f)[x].live <=> ps[x].live
              /\ Attach(ps, fut, f)[x].cont = ps[x].cont
              /\ Attach(ps, fut, f)[x].result = ps[x].result
         /\ fut.promise # Null => /\ Attach(ps, fut, f)[fut.promise].future = f
                                  /\ Attach(ps, fut, f)[fut.promise].state = f
<1> DEFINE q == fut.promise
           r == [ps[q] EXCEPT !.future = f, !.state = f]
<1>1. CASE q = Null
  BY <1>1 DEF Attach, PromiseAddress
<1>2. CASE q # Null
  <2>1. q \in PromiseAddress /\ ps[q] \in PromiseType
    BY <1>2
  <2>2. r \in PromiseType
    BY <2>1 DEF PromiseType
  <2>3. /\ r.future = f /\ r.state = f /\ r.cont = ps[q].cont /\ r.result = ps[q].result
        /\ r.live = ps[q].live
    BY <2>1 DEF PromiseType
  <2>4. Attach(ps, fut, f) = [ps EXCEPT ![q] = r]
    BY <1>2, <2>1 DEF Attach
  <2> HIDE DEF q, r
  <2>5. Attach(ps, fut, f) \in [PromiseAddress -> PromiseType]
    BY <2>1, <2>2, <2>4
  <2>6. \A x \in PromiseAddress : Attach(ps, fut, f)[x] = IF x = q THEN r ELSE ps[x]
    BY <2>4
  <2> QED
    BY <1>2, <2>1, <2>3, <2>5, <2>6 DEF q
<1> QED
  BY <1>1, <1>2

(* A future that was moved from. *)
LEMMA MovedFromIs ==
  ASSUME NEW u \in FutureType
  PROVE  /\ MovedFrom(u) \in FutureType
         /\ MovedFrom(u).live <=> u.live
         /\ MovedFrom(u).ready <=> u.ready
         /\ MovedFrom(u).promise = Null /\ MovedFrom(u).value = Null /\ MovedFrom(u).result = Null
  BY DEF FutureType, MovedFrom

(* The promise at p after a continuation at t was set. *)
HandedTo(ps, p, t) == [ps EXCEPT ![p] = [@ EXCEPT !.state = t, !.cont = t, !.future = Null]]

(* ... that promise stores its result in t, and has no future. *)
LEMMA HandedToIs ==
  ASSUME NEW ps \in [PromiseAddress -> PromiseType], NEW p \in PromiseAddress, NEW t \in Tasks
  PROVE  /\ HandedTo(ps, p, t) \in [PromiseAddress -> PromiseType]
         /\ \A x \in PromiseAddress : x # p => HandedTo(ps, p, t)[x] = ps[x]
         /\ HandedTo(ps, p, t)[p].live <=> ps[p].live
         /\ HandedTo(ps, p, t)[p].result = ps[p].result
         /\ HandedTo(ps, p, t)[p].state = t
         /\ HandedTo(ps, p, t)[p].cont = t
         /\ HandedTo(ps, p, t)[p].future = Null
<1> DEFINE r == [ps[p] EXCEPT !.state = t, !.cont = t, !.future = Null]
<1>1. r \in PromiseType
  BY Addresses, ZenonT(30) DEF PromiseType
<1>2. /\ r.live = ps[p].live /\ r.result = ps[p].result
      /\ r.state = t /\ r.cont = t /\ r.future = Null
  BY DEF PromiseType
<1>3. HandedTo(ps, p, t) = [ps EXCEPT ![p] = r]
  BY DEF HandedTo
<1> HIDE DEF r
<1> QED
  BY <1>1, <1>2, <1>3

-----------------------------------------------------------------------------
(* Frames of the stack *)

(* A new frame on the stack. *)
LEMMA PushFrame ==
  ASSUME NEW s \in Seq(FrameSet), NEW x \in FrameSet
  PROVE  /\ <<x>> \o s \in Seq(FrameSet)
         /\ ToSet(<<x>> \o s) = ToSet(s) \cup {x}
         /\ (\A fr \in ToSet(s) : fr.task # x.task)
              /\ (\A i, j \in 1 .. Len(s) : s[i].task = s[j].task => i = j)
            => \A i, j \in 1 .. Len(<<x>> \o s) :
                 (<<x>> \o s)[i].task = (<<x>> \o s)[j].task => i = j
<1> DEFINE n == <<x>> \o s
<1>1. /\ n \in Seq(FrameSet) /\ Len(n) = Len(s) + 1 /\ n[1] = x
      /\ \A i \in 1 .. Len(s) : n[i + 1] = s[i]
      /\ ToSet(n) = ToSet(s) \cup {x}
  BY ConsProperties DEF Cons
<1>2. Len(s) \in Nat /\ \A i \in 1 .. Len(s) : s[i] \in ToSet(s)
  BY LenProperties DEF ToSet
<1> HIDE DEF n
<1>3. \A i \in 1 .. Len(n) : i # 1 => i - 1 \in 1 .. Len(s) /\ n[i] = s[i - 1]
  BY <1>1, <1>2
<1>4. ASSUME \A fr \in ToSet(s) : fr.task # x.task,
             \A i, j \in 1 .. Len(s) : s[i].task = s[j].task => i = j,
             NEW i \in 1 .. Len(n), NEW j \in 1 .. Len(n), n[i].task = n[j].task
      PROVE  i = j
  <2>1. CASE i = 1 \/ j = 1
    BY <1>1, <1>2, <1>3, <1>4, <2>1
  <2>2. CASE i # 1 /\ j # 1
    <3>1. i - 1 = j - 1
      BY <1>3, <1>4, <2>2
    <3> QED
      BY <1>1, <1>2, <3>1
  <2> QED
    BY <2>1, <2>2
<1> QED
  BY <1>1, <1>4 DEF n

(* The innermost frame returns. *)
LEMMA PopFrame ==
  ASSUME NEW s \in Seq(FrameSet), s # <<>>,
         \A i, j \in 1 .. Len(s) : s[i].task = s[j].task => i = j
  PROVE  /\ Tail(s) \in Seq(FrameSet)
         /\ Head(s) \in FrameSet /\ Head(s) \in ToSet(s)
         /\ ToSet(Tail(s)) = ToSet(s) \ {Head(s)}
         /\ \A fr \in ToSet(Tail(s)) : fr.task # Head(s).task
         /\ \A i, j \in 1 .. Len(Tail(s)) : Tail(s)[i].task = Tail(s)[j].task => i = j
<1> DEFINE n == Tail(s)
<1>1. /\ Head(s) \in FrameSet /\ n \in Seq(FrameSet) /\ Len(n) = Len(s) - 1 /\ Len(s) \in Nat
      /\ \A i \in 1 .. Len(n) : n[i] = s[i + 1]
  BY HeadTailProperties, LenProperties
<1>2. IsInjective(s)
  BY LenProperties DEF IsInjective
<1>3. /\ Head(s) \in ToSet(s)
      /\ ToSet(n) = ToSet(s) \ {Head(s)}
  BY <1>2, TailOfList
<1>4. Head(s) = s[1] /\ 1 \in 1 .. Len(s)
  BY <1>1, EmptySeq
<1> HIDE DEF n
<1>5. \A i \in 1 .. Len(n) : i + 1 \in 1 .. Len(s) /\ n[i] = s[i + 1] /\ i + 1 # 1
  BY <1>1
<1>6. DOMAIN n = 1 .. Len(n)
  BY <1>1, LenProperties
<1>7. \A fr \in ToSet(n) : fr.task # Head(s).task
  BY <1>4, <1>5, <1>6 DEF ToSet
<1>8. \A i, j \in 1 .. Len(n) : n[i].task = n[j].task => i = j
  <2> SUFFICES ASSUME NEW i \in 1 .. Len(n), NEW j \in 1 .. Len(n), n[i].task = n[j].task
               PROVE  i = j
    OBVIOUS
  <2>1. i + 1 = j + 1
    BY <1>5
  <2> QED
    BY <2>1
<1> QED
  BY <1>1, <1>3, <1>7, <1>8 DEF n

(* The frames of the stack, as a set: what StackOK says of them. *)
LEMMA FramesOnStack ==
  ASSUME TypeOK, StackOK
  PROVE  /\ ToSet(stack) \subseteq FrameSet
         /\ \A fr \in ToSet(stack) :
              /\ fr.task \in Tasks /\ fr.task \in PromiseAddress /\ fr.task \in FutureAddress
              /\ task[fr.task] \in {"then", "coroutine"}
              /\ fr.phase # "dispose" <=> fr.task \in Unresolved
              /\ \A p \in Unresolved : promise[p].cont # fr.task
         /\ \A i \in 1 .. Len(stack) : stack[i] \in ToSet(stack)
         /\ \A fr \in ToSet(stack) : \E i \in 1 .. Len(stack) : fr = stack[i]
         /\ \A i, j \in 1 .. Len(stack) : stack[i].task = stack[j].task => i = j
<1>1. ToSet(stack) = {stack[i] : i \in 1 .. Len(stack)}
  BY LenProperties DEF TypeOK, ToSet
<1> QED
  BY <1>1, Frames, Addresses DEF StackOK

(* The frames of any stack, as a set. *)
LEMMA ElementsOfStack ==
  ASSUME NEW s \in Seq(FrameSet)
  PROVE  /\ \A i \in 1 .. Len(s) : s[i] \in ToSet(s)
         /\ \A fr \in ToSet(s) : \E i \in 1 .. Len(s) : s[i] = fr
BY LenProperties DEF ToSet

-----------------------------------------------------------------------------
(* Construction, moves and destruction *)

(***************************************************************************)
(* The promise of a future that client code holds stores its result in     *)
(* that very future and has no continuation; no other promise points at    *)
(* the future.                                                             *)
(***************************************************************************)
LEMMA OnlyItsPromise ==
  ASSUME ObjectsOK, NEW f \in Futures, future[f].live
  PROVE  /\ \A q \in Unresolved :
              promise[q].state = f \/ promise[q].future = f => q = future[f].promise
         /\ future[f].promise # Null =>
              LET p == promise[future[f].promise] IN
              /\ future[f].promise \in Unresolved
              /\ p.future = f /\ p.state = f /\ p.cont = Null
              /\ p.result = future[f].result
              /\ future[f].result \in Results /\ future[f].result # Null /\ ~future[f].ready
<1>0. TypeOK /\ ObjectsAgree /\ StorageOK /\ f \in FutureAddress /\ f \notin Tasks /\ f # Null
  BY DEF ObjectsOK, FutureAddress
<1>1. ASSUME NEW q \in Unresolved, promise[q].state = f \/ promise[q].future = f
      PROVE  q = future[f].promise
  BY <1>0, <1>1 DEF ObjectsAgree, StorageOK
<1>2. ASSUME future[f].promise # Null
      PROVE  LET p == promise[future[f].promise] IN
              /\ future[f].promise \in Unresolved
              /\ p.future = f /\ p.state = f /\ p.cont = Null
              /\ p.result = future[f].result
              /\ future[f].result \in Results /\ future[f].result # Null /\ ~future[f].ready
  BY <1>0, <1>2, UnresolvedPromises DEF ObjectsAgree, StorageOK
<1> QED
  BY <1>1, <1>2

(* A promise and its future are created together, for an unused result. *)
LEMMA MakePairKeeps ==
  ASSUME ObjectsOK, NEW p \in Promises, NEW f \in Futures, NEW r \in Results, MakePair(p, f, r)
  PROVE  ObjectsOK'
<1>0. /\ TypeOK /\ ObjectsAgree /\ StorageOK /\ PromisesOK /\ FuturesOK /\ StackOK /\ TasksOK /\ ReceivedOK
      /\ p \in PromiseAddress /\ f \in FutureAddress /\ p \notin Tasks /\ f \notin Tasks /\ r # Null
  BY DEF ObjectsOK, PromiseAddress, FutureAddress
<1>1. TypeOK'
  BY <1>0 DEF TypeOK, PromiseType, FutureType, MakePair, PendingPromise, PendingFuture
<1>2. /\ \A q \in PromiseAddress \ {p} : promise'[q] = promise[q]
      /\ promise'[p] = PendingPromise(f, r)
      /\ \A g \in FutureAddress \ {f} : future'[g] = future[g]
      /\ future'[f] = PendingFuture(p, r)
      /\ \A s \in Results \ {r} : status'[s] = status[s]
      /\ status'[r] = "pending" /\ status[r] = "unused"
      /\ ~promise[p].live /\ ~future[f].live
      /\ task' = task /\ stack' = stack /\ received' = received
  BY <1>0 DEF TypeOK, MakePair
<1> USE DEF PendingPromise, PendingFuture
<1>3. Unresolved' = Unresolved \cup {p} /\ p \notin Unresolved
  BY <1>0, <1>2, FieldTypes DEF Unresolved, PromisesOK
<1>4. ObjectsAgree'
  BY <1>0, <1>2, <1>3, UnresolvedPromises DEF ObjectsAgree
<1>5. StorageOK'
  BY <1>0, <1>2, <1>3, UnresolvedPromises DEF StorageOK
<1>6. PromisesOK'
  BY <1>0, <1>2, FieldTypes DEF PromisesOK
<1>7. FuturesOK'
  BY <1>0, <1>2, FieldTypes DEF FuturesOK
<1>8. StackOK'
  BY <1>0, <1>2, <1>3, Frames, UnresolvedPromises DEF StackOK
<1>9. TasksOK'
  BY <1>0, <1>2, <1>3, Frames, UnresolvedPromises DEF TasksOK, PromiseAddress, FutureAddress
<1>10. ReceivedOK'
  BY <1>0, <1>2, FieldTypes DEF ReceivedOK
<1> QED
  BY <1>1, <1>4, <1>5, <1>6, <1>7, <1>8, <1>9, <1>10 DEF ObjectsOK

(* make_ready_future creates a result nobody has promised. *)
LEMMA MakeReadyFutureKeeps ==
  ASSUME ObjectsOK, NEW f \in Futures, NEW r \in Results, MakeReadyFuture(f, r)
  PROVE  ObjectsOK'
<1>0. /\ TypeOK /\ ObjectsAgree /\ StorageOK /\ PromisesOK /\ FuturesOK /\ StackOK /\ TasksOK /\ ReceivedOK
      /\ f \in FutureAddress /\ f \notin Tasks /\ r # Null
  BY DEF ObjectsOK, FutureAddress
<1>1. TypeOK'
  BY <1>0 DEF TypeOK, FutureType, MakeReadyFuture, ReadyFuture
<1>2. /\ promise' = promise
      /\ \A g \in FutureAddress \ {f} : future'[g] = future[g]
      /\ future'[f] = ReadyFuture(r)
      /\ \A s \in Results \ {r} : status'[s] = status[s]
      /\ status'[r] = "ready" /\ status[r] = "unused"
      /\ ~future[f].live
      /\ task' = task /\ stack' = stack /\ received' = received
  BY <1>0 DEF TypeOK, MakeReadyFuture
<1> USE DEF ReadyFuture
<1>3. Unresolved' = Unresolved
  BY <1>0, <1>2, FieldTypes DEF Unresolved, PromisesOK
<1>4. ObjectsAgree'
  BY <1>0, <1>2, <1>3, UnresolvedPromises DEF ObjectsAgree
<1>5. StorageOK'
  BY <1>0, <1>2, <1>3 DEF StorageOK
<1>6. PromisesOK'
  BY <1>0, <1>2, FieldTypes DEF PromisesOK
<1>7. FuturesOK'
  BY <1>0, <1>2, FieldTypes DEF FuturesOK
<1>8. StackOK'
  BY <1>0, <1>2, <1>3 DEF StackOK
<1>9. TasksOK'
  BY <1>0, <1>2, <1>3, FieldTypes, UnresolvedPromises DEF TasksOK, FutureAddress
<1>10. ReceivedOK'
  BY <1>0, <1>2, FieldTypes DEF ReceivedOK
<1> QED
  BY <1>1, <1>4, <1>5, <1>6, <1>7, <1>8, <1>9, <1>10 DEF ObjectsOK

(* The future of a promise that moves follows it. *)
LEMMA MovePromiseKeeps ==
  ASSUME ObjectsOK, NEW p \in Promises, NEW q \in Promises, MovePromise(p, q)
  PROVE  ObjectsOK'
<1> DEFINE f == promise[p].future
<1>0. /\ TypeOK /\ ObjectsAgree /\ StorageOK /\ PromisesOK /\ FuturesOK /\ StackOK /\ TasksOK /\ ReceivedOK
      /\ p \in PromiseAddress /\ q \in PromiseAddress /\ p \notin Tasks /\ q \notin Tasks /\ q # Null
  BY DEF ObjectsOK, PromiseAddress
<1>1. TypeOK'
  BY <1>0, ZenonT(30) DEF TypeOK, PromiseType, FutureType, MovePromise, EmptyPromise
<1>2. /\ \A x \in PromiseAddress \ {p, q} : promise'[x] = promise[x]
      /\ promise'[q] = promise[p]
      /\ promise'[p] = EmptyPromise
      /\ p # q /\ p \in Unresolved /\ q \notin Unresolved
      /\ promise[q].result = Null
      /\ task' = task /\ stack' = stack /\ received' = received /\ status' = status
  BY <1>0 DEF TypeOK, MovePromise, EmptyPromise, NoPromise, Promised, Unresolved
<1>3. Unresolved' = (Unresolved \ {p}) \cup {q}
  BY <1>0, <1>2, FieldTypes DEF Unresolved, EmptyPromise
<1>31. \A g \in FutureAddress :
          /\ future'[g].live <=> future[g].live
          /\ future'[g].ready <=> future[g].ready
          /\ future'[g].value = future[g].value
          /\ future'[g].result = future[g].result
          /\ g # f => future'[g].promise = future[g].promise
  BY <1>0 DEF TypeOK, FutureType, MovePromise
<1>32. f # Null => /\ future'[f].promise = q /\ future[f].live /\ future[f].promise = p
                   /\ f \in FutureAddress
  BY <1>0, <1>2, UnresolvedPromises DEF TypeOK, FutureType, MovePromise, ObjectsAgree
<1> HIDE DEF f
<1>33. \A g \in FutureAddress : future[g].live =>
         future'[g].promise = IF future[g].promise = p THEN q ELSE future[g].promise
  <2> SUFFICES ASSUME NEW g \in FutureAddress, future[g].live
               PROVE  future'[g].promise = IF future[g].promise = p THEN q ELSE future[g].promise
    OBVIOUS
  <2>1. future[g].promise = p => g = f
    BY <1>0, UnresolvedPromises DEF ObjectsAgree, f
  <2>2. CASE g = f
    BY <1>0, <1>32, <2>2, Addresses
  <2>3. CASE g # f
    BY <1>31, <2>1, <2>3
  <2> QED
    BY <2>2, <2>3
<1>4. ObjectsAgree'
  BY <1>0, <1>2, <1>3, <1>31, <1>33, UnresolvedPromises DEF ObjectsAgree
<1>5. StorageOK'
  BY <1>0, <1>2, <1>3, UnresolvedPromises DEF StorageOK
<1>6. PromisesOK'
  BY <1>0, <1>2, <1>3, UnresolvedPromises, FieldTypes DEF PromisesOK, EmptyPromise
<1>7. FuturesOK'
  BY <1>0, <1>2, <1>31, <1>33, FieldTypes DEF FuturesOK
<1>8. StackOK'
  BY <1>0, <1>2, <1>3, Frames, UnresolvedPromises DEF StackOK
<1>9. TasksOK'
  BY <1>0, <1>2, <1>3, <1>31, <1>33, FieldTypes, UnresolvedPromises DEF TasksOK, FutureAddress, PromiseAddress
<1>10. ReceivedOK'
  BY <1>0, <1>2, <1>31, <1>33, FieldTypes DEF ReceivedOK
<1> QED
  BY <1>1, <1>4, <1>5, <1>6, <1>7, <1>8, <1>9, <1>10 DEF ObjectsOK

(* Nothing points at a promise that is not pending. *)
LEMMA DestroyPromiseKeeps ==
  ASSUME ObjectsOK, NEW p \in Promises, DestroyPromise(p)
  PROVE  ObjectsOK'
<1>0. /\ TypeOK /\ ObjectsAgree /\ StorageOK /\ PromisesOK /\ FuturesOK /\ StackOK /\ TasksOK /\ ReceivedOK
      /\ p \in PromiseAddress /\ p \notin Tasks
  BY DEF ObjectsOK, PromiseAddress
<1>1. TypeOK'
  BY <1>0 DEF TypeOK, PromiseType, DestroyPromise, NoPromise
<1>2. /\ \A x \in PromiseAddress \ {p} : promise'[x] = promise[x]
      /\ promise'[p] = NoPromise
      /\ p \notin Unresolved
      /\ UNCHANGED <<future, task, stack, status, received>>
  BY <1>0 DEF TypeOK, DestroyPromise, Promised, Unresolved
<1>3. Unresolved' = Unresolved
  BY <1>0, <1>2, FieldTypes DEF Unresolved, NoPromise
<1>4. ObjectsAgree'
  BY <1>0, <1>2, <1>3, UnresolvedPromises DEF ObjectsAgree
<1>5. StorageOK'
  BY <1>0, <1>2, <1>3, UnresolvedPromises DEF StorageOK
<1>6. PromisesOK'
  BY <1>0, <1>2, FieldTypes DEF PromisesOK, NoPromise
<1>7. FuturesOK'
  BY <1>0, <1>2 DEF FuturesOK
<1>8. StackOK'
  BY <1>0, <1>2, <1>3, UnresolvedPromises DEF StackOK
<1>9. TasksOK'
  BY <1>0, <1>2, <1>3, UnresolvedPromises DEF TasksOK, PromiseAddress
<1>10. ReceivedOK'
  BY <1>0, <1>2 DEF ReceivedOK
<1> QED
  BY <1>1, <1>4, <1>5, <1>6, <1>7, <1>8, <1>9, <1>10 DEF ObjectsOK

(* What a future assignment or move does to the future it overwrites. *)
MoveOver(f, g) ==
  /\ promise' = Attach(promise, future[f], g)
  /\ future' = [future EXCEPT ![g] = future[f], ![f] = MovedFrom(@)]
  /\ UNCHANGED <<task, stack, status, received>>

(* ... which must not have a promise any more. *)
LEMMA MoveOverKeeps ==
  ASSUME ObjectsOK, NEW f \in Futures, NEW g \in Futures, f # g, future[f].live,
         future[g].live => future[g].promise = Null,
         MoveOver(f, g)
  PROVE  ObjectsOK'
<1> DEFINE p == future[f].promise
<1>0. /\ TypeOK /\ ObjectsAgree /\ StorageOK /\ PromisesOK /\ FuturesOK /\ StackOK /\ TasksOK /\ ReceivedOK
      /\ f \in FutureAddress /\ g \in FutureAddress /\ f \notin Tasks /\ g \notin Tasks /\ g # Null
  BY DEF ObjectsOK, FutureAddress
<1>1. TypeOK'
  <2>1. p \in PromiseAddress \cup {Null} /\ future[f] \in FutureType
    BY <1>0 DEF TypeOK, FutureType, MoveOver
  <2>2. promise' \in [PromiseAddress -> PromiseType]
    BY <1>0, <2>1, AttachIs DEF TypeOK, MoveOver
  <2>3. future' \in [FutureAddress -> FutureType]
    BY <1>0, <2>1, MovedFromIs DEF TypeOK, MoveOver
  <2> QED
    BY <1>0, <2>2, <2>3 DEF TypeOK, MoveOver
<1>2. /\ \A x \in FutureAddress \ {f, g} : future'[x] = future[x]
      /\ future'[g] = future[f]
      /\ future'[f].live /\ future'[f].promise = Null /\ future'[f].result = Null
      /\ future[f].live /\ f # g
      /\ UNCHANGED <<task, stack, status, received>>
  BY <1>0, MovedFromIs DEF TypeOK, MoveOver
<1>21. /\ \A x \in PromiseAddress :
            /\ promise'[x].live <=> promise[x].live
            /\ promise'[x].cont = promise[x].cont
            /\ promise'[x].result = promise[x].result
       /\ \A x \in PromiseAddress : x # p => promise'[x] = promise[x]
       /\ p # Null => promise'[p].future = g /\ promise'[p].state = g
  <2>1. /\ promise \in [PromiseAddress -> PromiseType]
        /\ p \in PromiseAddress \cup {Null}
        /\ promise' = Attach(promise, future[f], g)
    BY <1>0 DEF TypeOK, FutureType, MoveOver
  <2> QED
    BY <1>0, <2>1, AttachIs
<1> HIDE DEF p
<1>3. Unresolved' = Unresolved
  BY <1>2, <1>21 DEF Unresolved
<1>31. /\ \A q \in Unresolved : promise[q].state = f \/ promise[q].future = f => q = p
       /\ p = future[f].promise
       /\ p # Null => /\ p \in Unresolved
              /\ promise[p].cont = Null
              /\ promise[p].result = future[f].result /\ promise[p].future = f
              /\ future[f].result # Null /\ ~future[f].ready
  BY <1>2, OnlyItsPromise DEF p
<1>4. ObjectsAgree'
  <2>1. ASSUME NEW x \in FutureAddress, future'[x].live, future'[x].promise # Null
        PROVE  future'[x].promise \in Unresolved /\ promise'[future'[x].promise].future = x
    BY <1>0, <1>2, <1>21, <1>31, <2>1, UnresolvedPromises DEF ObjectsAgree
  <2>2. ASSUME NEW q \in Unresolved
        PROVE  /\ promise'[q].future # Null =>
                    /\ future'[promise'[q].future].live
                    /\ future'[promise'[q].future].promise = q
                    /\ promise'[q].state = promise'[q].future
               /\ promise'[q].state # Null
               /\ LET s == future'[promise'[q].state] IN
                    s.live /\ ~s.ready /\ s.result = promise'[q].result
    <3>1. CASE q = p
      BY <1>0, <1>2, <1>21, <1>31, <2>2, <3>1, Addresses, UnresolvedPromises
    <3>2. CASE q # p
      <4>1. promise'[q] = promise[q] /\ promise[q].state # f /\ promise[q].future # f
        BY <1>21, <1>31, <3>2, UnresolvedPromises, <1>0
      <4>2. promise[q].state # g /\ promise[q].future # g
        BY <1>0, OnlyItsPromise, UnresolvedPromises, Addresses DEF ObjectsAgree
      <4> QED
        BY <1>0, <1>2, <2>2, <4>1, <4>2, UnresolvedPromises DEF ObjectsAgree
    <3> QED
      BY <3>1, <3>2
  <2> QED
    BY <1>3, <2>1, <2>2 DEF ObjectsAgree
<1>5. StorageOK'
  <2> SUFFICES ASSUME NEW q \in Unresolved
               PROVE  \/ /\ promise'[q].cont = Null
                         /\ promise'[q].state \in Futures
                         /\ promise'[q].future = promise'[q].state
                      \/ /\ promise'[q].cont \in Tasks
                         /\ promise'[q].state = promise'[q].cont
                         /\ promise'[q].future \in {Null, promise'[q].state}
    BY <1>3 DEF StorageOK
  <2>1. CASE q = p
    BY <1>0, <1>21, <1>31, <2>1, Addresses, UnresolvedPromises
  <2>2. CASE q # p
    BY <1>0, <1>21, <2>2, UnresolvedPromises DEF StorageOK
  <2> QED
    BY <2>1, <2>2
<1>6. PromisesOK'
  BY <1>0, <1>2, <1>21 DEF PromisesOK
<1>7. FuturesOK'
  BY <1>0, <1>2, FieldTypes DEF FuturesOK
<1>8. StackOK'
  BY <1>0, <1>2, <1>21, <1>3, UnresolvedPromises DEF StackOK
<1>9. TasksOK'
  BY <1>0, <1>2, <1>21, <1>3, UnresolvedPromises DEF TasksOK, PromiseAddress, FutureAddress
<1>10. ReceivedOK'
  BY <1>0, <1>2, FieldTypes DEF ReceivedOK
<1> QED
  BY <1>1, <1>4, <1>5, <1>6, <1>7, <1>8, <1>9, <1>10 DEF ObjectsOK

(* A future is moved to where there is none. *)
LEMMA MoveFutureKeeps ==
  ASSUME ObjectsOK, NEW f \in Futures, NEW g \in Futures, MoveFuture(f, g)
  PROVE  ObjectsOK'
BY MoveOverKeeps DEF MoveFuture, Held, MoveOver

(* A future without promise gives its value away, or is destroyed. *)
LEMMA ForgetFutureKeeps ==
  ASSUME ObjectsOK, NEW f \in Futures, future[f].live, future[f].promise = Null,
         future' \in [FutureAddress -> FutureType],
         \A x \in FutureAddress \ {f} : future'[x] = future[x],
         future'[f].live => future'[f].promise = Null /\ future'[f].result = Null,
         UNCHANGED <<promise, task, stack, status>>,
         \/ received' = received
         \/ /\ future[f].ready /\ future[f].result # Null
            /\ received' = [received EXCEPT ![future[f].result] = @ + 1]
  PROVE  ObjectsOK'
<1>0. /\ TypeOK /\ ObjectsAgree /\ StorageOK /\ PromisesOK /\ FuturesOK /\ StackOK /\ TasksOK /\ ReceivedOK
      /\ f \in FutureAddress /\ f \notin Tasks
  BY Addresses DEF ObjectsOK
<1>1. TypeOK'
  BY <1>0, FieldTypes DEF TypeOK
<1>2. Unresolved' = Unresolved
  BY DEF Unresolved
<1>3. \A q \in Unresolved : promise[q].state # f /\ promise[q].future # f
  BY <1>0, OnlyItsPromise, UnresolvedPromises, Addresses
<1>4. ObjectsAgree'
  BY <1>0, <1>2, <1>3, UnresolvedPromises DEF ObjectsAgree
<1>5. StorageOK'
  BY <1>0, <1>2 DEF StorageOK
<1>6. PromisesOK'
  BY <1>0 DEF PromisesOK
<1>7. FuturesOK'
  BY <1>0, FieldTypes DEF FuturesOK
<1>8. StackOK'
  BY <1>0, <1>2 DEF StackOK
<1>9. TasksOK'
  BY <1>0, <1>2, Addresses DEF TasksOK
<1>10. ReceivedOK'
  <2>1. CASE received' = received
    BY <1>0, <2>1 DEF ReceivedOK
  <2>2. CASE received' # received
    <3>1. /\ future[f].result \in Results /\ status[future[f].result] = "ready"
          /\ received' = [received EXCEPT ![future[f].result] = @ + 1]
      BY <1>0, <2>2, FieldTypes DEF FuturesOK
    <3>2. received[future[f].result] = 0
      BY <1>0, <3>1 DEF ReceivedOK
    <3>3. \A r \in Results : received'[r] = IF r = future[f].result THEN 1 ELSE received[r]
      BY <1>0, <3>1, <3>2 DEF TypeOK
    <3>4. \A x \in FutureAddress : future'[x].live => future'[x].result # future[f].result
      BY <1>0, <2>2, FieldTypes DEF FuturesOK
    <3> QED
      BY <1>0, <3>1, <3>3, <3>4 DEF ReceivedOK
  <2> QED
    BY <2>1, <2>2
<1> QED
  BY <1>1, <1>4, <1>5, <1>6, <1>7, <1>8, <1>9, <1>10 DEF ObjectsOK

(* The value of a ready future is taken. *)
LEMMA TakeValueKeeps ==
  ASSUME ObjectsOK, NEW f \in Futures, TakeValue(f)
  PROVE  ObjectsOK'
<1>0. TypeOK /\ FuturesOK /\ f \in FutureAddress /\ future[f] \in FutureType
  BY Addresses DEF ObjectsOK, TypeOK
<1>1. future[f].live /\ future[f].result # Null /\ future[f].ready
  BY DEF TakeValue, Held
<1>2. future[f].promise = Null /\ future[f].value = future[f].result
  BY <1>0, <1>1 DEF FuturesOK
<1>3. /\ future' \in [FutureAddress -> FutureType]
      /\ \A x \in FutureAddress \ {f} : future'[x] = future[x]
      /\ future'[f].promise = Null /\ future'[f].result = Null
  BY <1>0, MovedFromIs DEF TakeValue, TypeOK
<1>4. received' = [received EXCEPT ![future[f].result] = @ + 1]
  BY <1>2 DEF TakeValue, Receive
<1>5. UNCHANGED <<promise, task, stack, status>>
  BY DEF TakeValue
<1> QED
  BY <1>1, <1>2, <1>3, <1>4, <1>5, ForgetFutureKeeps

(* A continuation that is called at once makes one ready future of another. *)
LEMMA ThenReadyKeeps ==
  ASSUME ObjectsOK, NEW f \in Futures, NEW g \in Futures, NEW r \in Results, ThenReady(f, g, r)
  PROVE  ObjectsOK'
<1> DEFINE v == future[f].result
<1>0. /\ TypeOK /\ ObjectsAgree /\ StorageOK /\ PromisesOK /\ FuturesOK /\ StackOK /\ TasksOK /\ ReceivedOK
      /\ f \in FutureAddress /\ f \notin Tasks /\ g \in FutureAddress /\ g \notin Tasks
      /\ future[f] \in FutureType
  BY Addresses DEF ObjectsOK, TypeOK
<1>1. /\ future[f].live /\ v # Null /\ v \in Results /\ future[f].ready
      /\ future[f].promise = Null /\ future[f].value = v
      /\ ~future[g].live /\ f # g /\ status[r] = "unused"
  BY <1>0, FieldTypes DEF ThenReady, Held, FuturesOK
<1>2. /\ UNCHANGED <<promise, task, stack>>
      /\ \A x \in FutureAddress \ {f, g} : future'[x] = future[x]
      /\ future'[g] = ReadyFuture(r)
      /\ future'[f].live /\ future'[f].promise = Null /\ future'[f].result = Null
      /\ \A s \in Results \ {r} : status'[s] = status[s]
      /\ status'[r] = "ready"
  BY <1>0, <1>1, MovedFromIs DEF TypeOK, ThenReady
<1>3. received' = [received EXCEPT ![v] = @ + 1]
  BY <1>1 DEF ThenReady, Receive
<1>4. TypeOK'
  <2>1. ReadyFuture(r) \in FutureType
    BY DEF ReadyFuture, FutureType
  <2>2. future' \in [FutureAddress -> FutureType]
    BY <1>0, <2>1, MovedFromIs DEF TypeOK, ThenReady
  <2> QED
    BY <1>0, <1>1, <1>3, <2>2 DEF TypeOK, ThenReady
<1> HIDE DEF v
<1>5. Unresolved' = Unresolved
  BY <1>0, <1>1, <1>2, FieldTypes DEF Unresolved, PromisesOK
<1>6. \A q \in Unresolved : promise[q].state # f /\ promise[q].future # f
  BY <1>0, <1>1, OnlyItsPromise, UnresolvedPromises, Addresses
<1>7. ObjectsAgree'
  BY <1>0, <1>1, <1>2, <1>5, <1>6, UnresolvedPromises DEF ObjectsAgree, ReadyFuture
<1>8. StorageOK'
  BY <1>0, <1>2, <1>5 DEF StorageOK
<1>9. PromisesOK'
  BY <1>0, <1>1, <1>2, FieldTypes DEF PromisesOK
<1>10. FuturesOK'
  BY <1>0, <1>1, <1>2, FieldTypes DEF FuturesOK, ReadyFuture
<1>11. StackOK'
  BY <1>0, <1>2, <1>5 DEF StackOK
<1>12. TasksOK'
  BY <1>0, <1>2, <1>5, Addresses DEF TasksOK
<1>13. ReceivedOK'
  <2>1. status[v] = "ready" /\ v # r
    BY <1>0, <1>1 DEF FuturesOK, v
  <2>2. received[v] = 0
    BY <1>0, <1>1, <2>1 DEF ReceivedOK, v
  <2>3. \A s \in Results : received'[s] = IF s = v THEN 1 ELSE received[s]
    BY <1>0, <1>1, <1>3, <2>2 DEF TypeOK
  <2>4. \A x \in FutureAddress : future'[x].live => future'[x].result # v
    BY <1>0, <1>1, <1>2, <2>1, FieldTypes DEF FuturesOK, ReadyFuture, v
  <2>5. ASSUME NEW s \in Results, s # v, received[s] = 1
        PROVE  status'[s] = "ready" /\ \A x \in FutureAddress : future'[x].live => future'[x].result # s
    BY <1>0, <1>1, <1>2, <2>5, Addresses DEF ReceivedOK, ReadyFuture
  <2> QED
    BY <1>0, <1>1, <1>2, <2>1, <2>3, <2>4, <2>5 DEF ReceivedOK
<1> QED
  BY <1>4, <1>7, <1>8, <1>9, <1>10, <1>11, <1>12, <1>13 DEF ObjectsOK

(* A pending future leaves a leaf_continuation behind; any other, nothing. *)
LEMMA DestroyFutureKeeps ==
  ASSUME ObjectsOK, NEW f \in Futures, NEW t \in Tasks \cup {Null}, DestroyFuture(f, t)
  PROVE  ObjectsOK'
<1> DEFINE p == future[f].promise
           v == future[f].result
<1>0. /\ TypeOK /\ ObjectsAgree /\ StorageOK /\ PromisesOK /\ FuturesOK /\ StackOK /\ TasksOK /\ ReceivedOK
      /\ f \in FutureAddress /\ f \notin Tasks /\ f # t /\ future[f].live
  BY Addresses DEF ObjectsOK, DestroyFuture
<1>1. NoFuture \in FutureType
  BY DEF NoFuture, FutureType
<1>2. CASE t = Null
  <2>1. UNCHANGED <<promise, task, stack, status, received>>
    BY <1>2 DEF DestroyFuture, PromisesWithLeaf, TasksWithLeaf
  <2>2. p = Null
    BY <1>0, <1>2, OnlyItsPromise DEF DestroyFuture, LeafAt, NeedsLeaf
  <2>3. future' = [future EXCEPT ![f] = NoFuture]
    BY <1>2 DEF DestroyFuture, FuturesWithLeaf
  <2>4. future' \in [FutureAddress -> FutureType]
    BY <1>0, <1>1, <2>3 DEF TypeOK
  <2>5. ~future'[f].live /\ \A x \in FutureAddress \ {f} : future'[x] = future[x]
    BY <1>0, <2>3 DEF TypeOK, NoFuture
  <2> QED
    BY <1>0, <2>1, <2>2, <2>4, <2>5, ForgetFutureKeeps
<1>3. CASE t \in Tasks
  <2>1. task[t] = "free" /\ p # Null /\ t # Null
    BY <1>3, Addresses DEF DestroyFuture, LeafAt, NeedsLeaf
  <2>2. /\ \A q \in Unresolved : promise[q].state = f \/ promise[q].future = f => q = p
        /\ p \in Unresolved /\ p \in PromiseAddress
        /\ promise[p].result = v /\ future[f].result = v /\ v \in Results /\ v # Null /\ ~future[f].ready
        /\ promise[p].live /\ status[v] = "pending" /\ promise[p].cont = Null
    BY <1>0, <2>1, OnlyItsPromise, UnresolvedPromises
  <2>3. ~promise[t].live /\ ~future[t].live /\ t # p
    BY <1>0, <1>3, <2>1, <2>2 DEF TasksOK
  <2>4. /\ promise' = HandedTo(promise, p, t)
        /\ future' = [[future EXCEPT ![t] = PendingFuture(Null, v), ![f] = MovedFrom(@)]
                        EXCEPT ![f] = NoFuture]
        /\ task' = [task EXCEPT ![t] = "leaf"]
        /\ UNCHANGED <<stack, status, received>>
    BY <2>1 DEF DestroyFuture, PromisesWithLeaf, FuturesWithLeaf, TasksWithLeaf, HandedTo
  <2>5. /\ promise' \in [PromiseAddress -> PromiseType]
        /\ \A x \in PromiseAddress \ {p} : promise'[x] = promise[x]
        /\ promise'[p].live /\ promise'[p].result = v
        /\ promise'[p].state = t /\ promise'[p].cont = t /\ promise'[p].future = Null
    BY <1>0, <1>3, <2>2, <2>4, HandedToIs DEF TypeOK
  <2>6. /\ \A x \in FutureAddress \ {f, t} : future'[x] = future[x]
        /\ future'[t].live /\ ~future'[t].ready /\ future'[t].promise = Null /\ future'[t].result = v
        /\ ~future'[f].live
    BY <1>0, <1>3, <2>4, Addresses DEF TypeOK, NoFuture, PendingFuture
  <2>7. TypeOK'
    <3>1. PendingFuture(Null, v) \in FutureType
      BY <2>2 DEF PendingFuture, FutureType
    <3>2. future' \in [FutureAddress -> FutureType]
      BY <1>0, <1>1, <2>4, <3>1, MovedFromIs DEF TypeOK
    <3> QED
      BY <1>0, <2>4, <2>5, <3>2 DEF TypeOK
  <2>8. \A x \in Tasks : task'[x] = IF x = t THEN "leaf" ELSE task[x]
    BY <1>0, <2>4 DEF TypeOK
  <2> HIDE DEF p
  <2>9. Unresolved' = Unresolved
    BY <1>0, <2>2, <2>4, <2>5 DEF Unresolved
  <2>10. ObjectsAgree'
    <3>1. \A q \in Unresolved : q # p => promise[q].future # t /\ promise[q].state # t
      BY <1>0, <1>3, <2>1, <2>3 DEF ObjectsAgree
    <3>2. ASSUME NEW x \in FutureAddress, future'[x].live, future'[x].promise # Null
          PROVE  future'[x].promise \in Unresolved /\ promise'[future'[x].promise].future = x
      <4>1. x # f /\ x # t /\ future[x].live /\ future[x].promise = future'[x].promise
        BY <2>6, <3>2
      <4>2. future[x].promise \in Unresolved /\ promise[future[x].promise].future = x
        BY <1>0, <3>2, <4>1 DEF ObjectsAgree
      <4>3. future[x].promise # p
        BY <1>0, <2>1, <4>1, <4>2 DEF ObjectsAgree, p
      <4> QED
        BY <2>5, <4>1, <4>2, <4>3, UnresolvedPromises, <1>0
    <3>3. ASSUME NEW q \in Unresolved
          PROVE  /\ promise'[q].future # Null =>
                      /\ future'[promise'[q].future].live
                      /\ future'[promise'[q].future].promise = q
                      /\ promise'[q].state = promise'[q].future
                 /\ promise'[q].state # Null
                 /\ LET s == future'[promise'[q].state] IN
                      s.live /\ ~s.ready /\ s.result = promise'[q].result
      <4>1. CASE q = p
        BY <2>1, <2>5, <2>6, <4>1
      <4>2. CASE q # p
        <5>1. promise'[q] = promise[q] /\ promise[q].state \notin {f, t} /\ promise[q].future \notin {f, t}
          BY <1>0, <2>2, <2>5, <3>1, <4>2, UnresolvedPromises
        <5> QED
          BY <1>0, <2>6, <5>1, UnresolvedPromises DEF ObjectsAgree
      <4> QED
        BY <4>1, <4>2
    <3> QED
      BY <2>9, <3>2, <3>3 DEF ObjectsAgree
  <2>11. StorageOK'
    BY <1>0, <1>3, <2>2, <2>5, <2>9, UnresolvedPromises DEF StorageOK
  <2>12. PromisesOK'
    BY <1>0, <2>2, <2>4, <2>5 DEF PromisesOK
  <2>13. FuturesOK'
    <3>1. ASSUME NEW x \in FutureAddress, future'[x].live, future'[x].result # Null
          PROVE  /\ future'[x].ready => /\ status'[future'[x].result] = "ready"
                                        /\ future'[x].value = future'[x].result
                                        /\ future'[x].promise = Null
                 /\ ~future'[x].ready => status'[future'[x].result] = "pending"
                 /\ ~future'[x].ready /\ x \in Futures => future'[x].promise # Null
      <4>1. CASE x = t
        BY <1>0, <1>3, <2>2, <2>4, <2>6, <4>1, Addresses
      <4>2. CASE x # t
        <5>1. future'[x] = future[x] /\ status' = status
          BY <2>4, <2>6, <3>1, <4>2
        <5> QED
          BY <1>0, <3>1, <5>1 DEF FuturesOK
      <4> QED
        BY <4>1, <4>2
    <3>2. ASSUME NEW x \in FutureAddress, future'[x].live, future'[x].result = Null
          PROVE  future'[x].promise = Null
      BY <1>0, <2>6, <3>2 DEF FuturesOK
    <3>3. ASSUME NEW x \in FutureAddress, future'[x].live, future'[x].result # Null,
                 NEW y \in FutureAddress, future'[y].live, future'[y].result = future'[x].result
          PROVE  x = y
      <4>1. x # f /\ y # f
        BY <2>6, <3>3
      <4>2. ASSUME x # t, y # t
            PROVE  x = y
        BY <1>0, <2>6, <3>3, <4>1, <4>2 DEF FuturesOK
      <4>3. ASSUME NEW z \in FutureAddress \ {f, t}, future'[z].live
            PROVE  future'[z].result # v
        BY <1>0, <2>2, <2>6, <4>3 DEF FuturesOK
      <4> QED
        BY <2>6, <3>3, <4>1, <4>2, <4>3
    <3> QED
      BY <3>1, <3>2, <3>3 DEF FuturesOK
  <2>14. StackOK'
    BY <1>0, <1>3, <2>1, <2>2, <2>4, <2>5, <2>8, <2>9, Frames, UnresolvedPromises DEF StackOK
  <2>15. TasksOK'
    <3>1. \A u \in Tasks : promise'[u].live <=> promise[u].live
      BY <2>2, <2>5, Addresses
    <3>2. \A u \in Tasks : task'[u] = "free" => ~promise'[u].live /\ ~future'[u].live
      BY <1>0, <2>6, <2>8, <3>1, Addresses DEF TasksOK
    <3>3. \A u \in Tasks : task'[u] = "leaf" => ~promise'[u].live
      BY <1>0, <2>3, <2>8, <3>1 DEF TasksOK
    <3>4. \A q \in Unresolved : q # p => promise'[q].cont = promise[q].cont /\ promise[q].cont # t
      BY <1>0, <2>1, <2>5, UnresolvedPromises DEF TasksOK
    <3>5. ASSUME NEW u \in Tasks, task'[u] # "free"
          PROVE  \/ \E i \in 1 .. Len(stack) : stack[i].task = u
                 \/ \E q \in Unresolved : promise'[q].cont = u
      <4>1. CASE u = t
        BY <2>2, <2>5, <4>1
      <4>2. CASE u # t
        BY <1>0, <2>2, <2>8, <3>4, <3>5, <4>2, Addresses DEF TasksOK
      <4> QED
        BY <4>1, <4>2
    <3>6. ASSUME NEW q \in Unresolved, NEW x \in Unresolved,
                 promise'[q].cont # Null, promise'[x].cont = promise'[q].cont
          PROVE  q = x
      BY <1>0, <2>5, <3>4, <3>6 DEF TasksOK
    <3>7. ASSUME NEW q \in Unresolved, promise'[q].cont # Null
          PROVE  /\ task'[promise'[q].cont] # "free"
                 /\ task'[promise'[q].cont] # "leaf" => promise'[q].cont \in Unresolved
      BY <1>0, <1>3, <2>5, <2>8, <3>4, <3>7, UnresolvedPromises DEF TasksOK
    <3> QED
      BY <2>4, <2>9, <3>2, <3>3, <3>5, <3>6, <3>7 DEF TasksOK
  <2>16. ReceivedOK'
    <3>1. ASSUME NEW s \in Results, received[s] = 1, NEW x \in FutureAddress, future'[x].live
          PROVE  future'[x].result # s
      <4>1. s # v
        BY <1>0, <2>2, <3>1 DEF ReceivedOK
      <4> QED
        BY <1>0, <2>6, <3>1, <4>1 DEF ReceivedOK
    <3> QED
      BY <1>0, <2>4, <3>1 DEF ReceivedOK
  <2> QED
    BY <2>7, <2>10, <2>11, <2>12, <2>13, <2>14, <2>15, <2>16 DEF ObjectsOK
<1> QED
  BY <1>2, <1>3

(* The same, before another future takes the place of the first. *)
LEMMA AssignFutureKeeps ==
  ASSUME ObjectsOK, NEW f \in Futures, NEW g \in Futures, NEW t \in Tasks \cup {Null},
         AssignFuture(f, g, t)
  PROVE  ObjectsOK'
<1> DEFINE p == future[f].promise
           q == future[g].promise
           v == future[f].result
<1>0. /\ TypeOK /\ ObjectsAgree /\ StorageOK /\ PromisesOK /\ FuturesOK /\ StackOK /\ TasksOK /\ ReceivedOK
      /\ f \in FutureAddress /\ f \notin Tasks /\ f # t /\ future[f].live
      /\ g \in FutureAddress /\ g \notin Tasks /\ g # t /\ future[g].live /\ f # g
      /\ q \in PromiseAddress \cup {Null} /\ future[g] \in FutureType
  BY Addresses, FieldTypes DEF ObjectsOK, TypeOK, AssignFuture, Held
<1>1. CASE t = Null
  <2>1. p = Null
    BY <1>0, <1>1, OnlyItsPromise DEF AssignFuture, LeafAt, NeedsLeaf
  <2>2. MoveOver(g, f)
    BY <1>1 DEF AssignFuture, FuturesWithLeaf, PromisesWithLeaf, TasksWithLeaf, MoveOver
  <2> QED
    BY <1>0, <2>1, <2>2, MoveOverKeeps
<1>2. CASE t \in Tasks
  <2>1. task[t] = "free" /\ p # Null /\ t # Null
    BY <1>2, Addresses DEF AssignFuture, LeafAt, NeedsLeaf
  <2>2. /\ \A x \in Unresolved : promise[x].state = f \/ promise[x].future = f => x = p
        /\ \A x \in Unresolved : promise[x].state = g \/ promise[x].future = g => x = q
        /\ p \in Unresolved /\ p \in PromiseAddress
        /\ promise[p].result = v /\ future[f].result = v /\ v \in Results /\ v # Null
        /\ ~future[f].ready /\ promise[p].live /\ status[v] = "pending"
        /\ promise[p].future = f /\ promise[p].cont = Null
    BY <1>0, <2>1, OnlyItsPromise, UnresolvedPromises
  <2>3. q # Null => /\ q \in Unresolved /\ q # p /\ promise[q].cont = Null
                    /\ promise[q].result = future[g].result /\ ~future[g].ready
    BY <1>0, <2>2, OnlyItsPromise
  <2>4. ~promise[t].live /\ ~future[t].live /\ t # p
    BY <1>0, <1>2, <2>1, <2>2 DEF TasksOK
  <2>5. /\ promise' = Attach(HandedTo(promise, p, t), future[g], f)
        /\ future' = [[future EXCEPT ![t] = PendingFuture(Null, v), ![f] = MovedFrom(@)]
                        EXCEPT ![f] = future[g], ![g] = MovedFrom(@)]
        /\ task' = [task EXCEPT ![t] = "leaf"]
        /\ UNCHANGED <<stack, status, received>>
    BY <2>1 DEF AssignFuture, PromisesWithLeaf, FuturesWithLeaf, TasksWithLeaf, HandedTo
  <2>6. /\ HandedTo(promise, p, t) \in [PromiseAddress -> PromiseType]
        /\ \A x \in PromiseAddress : x # p => HandedTo(promise, p, t)[x] = promise[x]
        /\ HandedTo(promise, p, t)[p].live <=> promise[p].live
        /\ HandedTo(promise, p, t)[p].result = promise[p].result
        /\ HandedTo(promise, p, t)[p].state = t
        /\ HandedTo(promise, p, t)[p].cont = t
        /\ HandedTo(promise, p, t)[p].future = Null
    BY <1>0, <1>2, <2>2, HandedToIs DEF TypeOK
  <2> DEFINE ps == HandedTo(promise, p, t)
  <2>7. /\ promise' \in [PromiseAddress -> PromiseType]
        /\ \A x \in PromiseAddress : x # q => promise'[x] = ps[x]
        /\ \A x \in PromiseAddress : /\ promise'[x].live <=> ps[x].live
                                     /\ promise'[x].cont = ps[x].cont
                                     /\ promise'[x].result = ps[x].result
        /\ q # Null => promise'[q].future = f /\ promise'[q].state = f
    BY <1>0, <2>5, <2>6, AttachIs
  <2>8. /\ \A x \in PromiseAddress : /\ promise'[x].live <=> promise[x].live
                                     /\ promise'[x].result = promise[x].result
                                     /\ promise'[x].cont = IF x = p THEN t ELSE promise[x].cont
        /\ \A x \in PromiseAddress \ {p, q} : promise'[x] = promise[x]
        /\ promise'[p].state = t /\ promise'[p].future = Null
    <3>1. p # q /\ p \in PromiseAddress
      BY <2>1, <2>2, <2>3
    <3> HIDE DEF p, q, ps
    <3>2. promise'[p] = ps[p]
      BY <2>7, <3>1
    <3>3. \A x \in PromiseAddress \ {p} : ps[x] = promise[x]
      BY <2>6 DEF ps
    <3>4. /\ ps[p].live <=> promise[p].live
          /\ ps[p].result = promise[p].result /\ ps[p].state = t /\ ps[p].cont = t
          /\ ps[p].future = Null
      BY <2>6 DEF ps
    <3> QED
      BY <2>7, <3>1, <3>2, <3>3, <3>4
  <2>9. /\ \A x \in FutureAddress \ {f, g, t} : future'[x] = future[x]
        /\ future'[t].live /\ ~future'[t].ready /\ future'[t].promise = Null /\ future'[t].result = v
        /\ future'[f] = future[g]
        /\ future'[g].live /\ future'[g].promise = Null /\ future'[g].result = Null
    BY <1>0, <1>2, <2>5, MovedFromIs, Addresses DEF TypeOK, PendingFuture
  <2>10. \A x \in Tasks : task'[x] = IF x = t THEN "leaf" ELSE task[x]
    BY <1>0, <2>5 DEF TypeOK
  <2>11. TypeOK'
    <3>1. PendingFuture(Null, v) \in FutureType
      BY <2>2 DEF PendingFuture, FutureType
    <3>2. future' \in [FutureAddress -> FutureType]
      BY <1>0, <2>5, <3>1, MovedFromIs DEF TypeOK
    <3> QED
      BY <1>0, <2>5, <2>7, <3>2 DEF TypeOK
  <2> UNCHANGED <<stack, status, received>>
    BY <2>5
  <2> HIDE DEF p, q, v, ps
  <2>12. Unresolved' = Unresolved
    BY <2>8 DEF Unresolved
  <2>13. ObjectsAgree'
    <3>1. \A x \in Unresolved : x # p => promise[x].future # t /\ promise[x].state # t
      BY <1>0, <1>2, <2>1, <2>4 DEF ObjectsAgree
    <3>2. ASSUME NEW x \in FutureAddress, future'[x].live, future'[x].promise # Null
          PROVE  future'[x].promise \in Unresolved /\ promise'[future'[x].promise].future = x
      <4>1. CASE x = f
        BY <2>3, <2>7, <2>9, <3>2, <4>1 DEF q
      <4>2. CASE x # f
        <5>1. x # g /\ x # t /\ future[x].live /\ future[x].promise = future'[x].promise
          BY <2>9, <3>2, <4>2
        <5>2. future[x].promise \in Unresolved /\ promise[future[x].promise].future = x
          BY <1>0, <3>2, <5>1 DEF ObjectsAgree
        <5>3. future[x].promise # p /\ future[x].promise # q
          BY <1>0, <2>2, <3>2, <4>2, <5>1, <5>2 DEF ObjectsAgree, q
        <5> QED
          BY <2>8, <5>1, <5>2, <5>3, UnresolvedPromises, <1>0
      <4> QED
        BY <4>1, <4>2
    <3>3. ASSUME NEW x \in Unresolved
          PROVE  /\ promise'[x].future # Null =>
                      /\ future'[promise'[x].future].live
                      /\ future'[promise'[x].future].promise = x
                      /\ promise'[x].state = promise'[x].future
                 /\ promise'[x].state # Null
                 /\ LET s == future'[promise'[x].state] IN
                      s.live /\ ~s.ready /\ s.result = promise'[x].result
      <4>1. CASE x = p
        BY <2>1, <2>2, <2>8, <2>9, <4>1
      <4>2. CASE x = q
        BY <1>0, <2>3, <2>7, <2>8, <2>9, <4>2, Addresses, UnresolvedPromises DEF q
      <4>3. CASE x # p /\ x # q
        <5>1. promise'[x] = promise[x] /\ promise[x].state \notin {f, g, t} /\ promise[x].future \notin {f, g, t}
          BY <1>0, <2>2, <2>8, <3>1, <4>3, UnresolvedPromises
        <5> QED
          BY <1>0, <2>9, <5>1, UnresolvedPromises DEF ObjectsAgree
      <4> QED
        BY <4>1, <4>2, <4>3
    <3> QED
      BY <2>12, <3>2, <3>3 DEF ObjectsAgree
  <2>14. StorageOK'
    <3> SUFFICES ASSUME NEW x \in Unresolved
                 PROVE  \/ /\ promise'[x].cont = Null
                           /\ promise'[x].state \in Futures
                           /\ promise'[x].future = promise'[x].state
                        \/ /\ promise'[x].cont \in Tasks
                           /\ promise'[x].state = promise'[x].cont
                           /\ promise'[x].future \in {Null, promise'[x].state}
      BY <2>12 DEF StorageOK
    <3>1. CASE x = p
      BY <1>2, <2>2, <2>8, <3>1
    <3>2. CASE x = q
      BY <1>0, <2>3, <2>7, <2>8, <3>2, Addresses, UnresolvedPromises
    <3>3. CASE x # p /\ x # q
      BY <1>0, <2>8, <3>3, UnresolvedPromises DEF StorageOK
    <3> QED
      BY <3>1, <3>2, <3>3
  <2>15. PromisesOK'
    BY <1>0, <2>8 DEF PromisesOK
  <2>16. FuturesOK'
    <3>1. ASSUME NEW x \in FutureAddress, future'[x].live, future'[x].result # Null
          PROVE  /\ future'[x].ready => /\ status'[future'[x].result] = "ready"
                                        /\ future'[x].value = future'[x].result
                                        /\ future'[x].promise = Null
                 /\ ~future'[x].ready => status'[future'[x].result] = "pending"
                 /\ ~future'[x].ready /\ x \in Futures => future'[x].promise # Null
      <4>1. CASE x = t
        BY <1>0, <1>2, <2>2, <2>9, <4>1, Addresses
      <4>2. CASE x = f
        BY <1>0, <2>9, <3>1, <4>2 DEF FuturesOK
      <4>3. CASE x # t /\ x # f
        <5>1. future'[x] = future[x]
          BY <2>9, <3>1, <4>3
        <5> QED
          BY <1>0, <3>1, <5>1 DEF FuturesOK
      <4> QED
        BY <4>1, <4>2, <4>3
    <3>2. ASSUME NEW x \in FutureAddress, future'[x].live, future'[x].result = Null
          PROVE  future'[x].promise = Null
      BY <1>0, <2>9, <3>2 DEF FuturesOK
    <3>3. ASSUME NEW x \in FutureAddress, future'[x].live, future'[x].result # Null,
                 NEW y \in FutureAddress, future'[y].live, future'[y].result = future'[x].result
          PROVE  x = y
      <4> DEFINE from(z) == IF z = t THEN f ELSE IF z = f THEN g ELSE z
      <4>1. x # g /\ y # g
        BY <2>9, <3>3
      <4>2. ASSUME NEW z \in FutureAddress, z # g, future'[z].live
            PROVE  from(z) \in FutureAddress /\ future[from(z)].live
                     /\ future[from(z)].result = future'[z].result
        BY <1>0, <2>2, <2>9, <4>2
      <4>3. from(x) = from(y)
        BY <1>0, <3>3, <4>1, <4>2 DEF FuturesOK
      <4>4. from(x) = t \/ from(y) = t => FALSE
        BY <1>0
      <4> QED
        BY <4>1, <4>3, <4>4
    <3> QED
      BY <3>1, <3>2, <3>3 DEF FuturesOK
  <2>17. StackOK'
    BY <1>0, <1>2, <2>1, <2>8, <2>10, <2>12, Frames, UnresolvedPromises DEF StackOK
  <2>18. TasksOK'
    <3>1. \A u \in Tasks : promise'[u].live <=> promise[u].live
      BY <2>8, Addresses
    <3>2. \A u \in Tasks : task'[u] = "free" => ~promise'[u].live /\ ~future'[u].live
      BY <1>0, <2>9, <2>10, <3>1, Addresses DEF TasksOK
    <3>3. \A u \in Tasks : task'[u] = "leaf" => ~promise'[u].live
      BY <1>0, <2>4, <2>10, <3>1 DEF TasksOK
    <3>4. \A x \in Unresolved : x # p => promise'[x].cont = promise[x].cont /\ promise[x].cont # t
      BY <1>0, <2>1, <2>8, UnresolvedPromises DEF TasksOK
    <3>5. ASSUME NEW u \in Tasks, task'[u] # "free"
          PROVE  \/ \E i \in 1 .. Len(stack) : stack[i].task = u
                 \/ \E x \in Unresolved : promise'[x].cont = u
      <4>1. CASE u = t
        BY <2>2, <2>8, <4>1
      <4>2. CASE u # t
        BY <1>0, <2>2, <2>10, <3>4, <3>5, <4>2, Addresses DEF TasksOK
      <4> QED
        BY <4>1, <4>2
    <3>6. ASSUME NEW y \in Unresolved, NEW x \in Unresolved,
                 promise'[y].cont # Null, promise'[x].cont = promise'[y].cont
          PROVE  y = x
      BY <1>0, <2>2, <2>8, <3>4, <3>6 DEF TasksOK
    <3>7. ASSUME NEW x \in Unresolved, promise'[x].cont # Null
          PROVE  /\ task'[promise'[x].cont] # "free"
                 /\ task'[promise'[x].cont] # "leaf" => promise'[x].cont \in Unresolved
      BY <1>0, <1>2, <2>2, <2>8, <2>10, <3>4, <3>7, UnresolvedPromises DEF TasksOK
    <3> QED
      BY <2>12, <3>2, <3>3, <3>5, <3>6, <3>7 DEF TasksOK
  <2>19. ReceivedOK'
    <3>1. ASSUME NEW s \in Results, received[s] = 1, NEW x \in FutureAddress, future'[x].live
          PROVE  future'[x].result # s
      <4>1. s # v
        BY <1>0, <2>2, <3>1 DEF ReceivedOK
      <4>2. CASE x = g
        BY <2>9, <4>2, Addresses
      <4>3. CASE x = f
        BY <1>0, <2>9, <3>1, <4>3 DEF ReceivedOK
      <4> QED
        BY <1>0, <2>9, <3>1, <4>1, <4>2, <4>3 DEF ReceivedOK
    <3> QED
      BY <1>0, <3>1 DEF ReceivedOK
  <2> QED
    BY <2>11, <2>13, <2>14, <2>15, <2>16, <2>17, <2>18, <2>19 DEF ObjectsOK
<1> QED
  BY <1>1, <1>2

-----------------------------------------------------------------------------
(* Continuations *)

(* A pending future that client code holds has a promise. *)
LEMMA PendingFutureOf ==
  ASSUME ObjectsOK, NEW f \in Futures, Held(f), ~future[f].ready
  PROVE  future[f].live /\ future[f].result # Null /\ future[f].promise # Null
BY Addresses DEF ObjectsOK, Held, FuturesOK

(* A continuation takes the future's place and promises a result of its own. *)
LEMMA ThenPendingKeeps ==
  ASSUME ObjectsOK, NEW f \in Futures, NEW t \in Tasks, NEW g \in Futures, NEW r \in Results,
         ThenPending(f, t, g, r)
  PROVE  ObjectsOK'
<1> DEFINE p == future[f].promise
           v == future[f].result
           ps == HandedTo(promise, p, t)
<1>0. /\ TypeOK /\ ObjectsAgree /\ StorageOK /\ PromisesOK /\ FuturesOK /\ StackOK /\ TasksOK /\ ReceivedOK
      /\ f \in FutureAddress /\ f \notin Tasks /\ f # t
      /\ g \in FutureAddress /\ g \notin Tasks /\ g # t /\ g # Null
      /\ t \in PromiseAddress /\ t \in FutureAddress /\ t # Null /\ r # Null
  BY Addresses DEF ObjectsOK
<1>1. /\ future[f].live /\ p # Null /\ task[t] = "free" /\ ~future[g].live /\ f # g
      /\ status[r] = "unused"
  BY PendingFutureOf DEF ThenPending
<1>2. /\ \A x \in Unresolved : promise[x].state = f \/ promise[x].future = f => x = p
      /\ p \in Unresolved /\ p \in PromiseAddress
      /\ promise[p].result = v /\ future[f].result = v /\ v \in Results /\ v # Null
      /\ ~future[f].ready /\ promise[p].live /\ status[v] = "pending"
      /\ promise[p].future = f /\ promise[p].cont = Null
  BY <1>0, <1>1, OnlyItsPromise, UnresolvedPromises
<1>3. ~promise[t].live /\ ~future[t].live /\ t # p /\ t \notin Unresolved /\ v # r
  BY <1>0, <1>1, <1>2, UnresolvedPromises DEF TasksOK
<1>4. /\ promise' = [ps EXCEPT ![t] = PendingPromise(g, r)]
      /\ future' = [future EXCEPT ![t] = PendingFuture(Null, v), ![f] = MovedFrom(@),
                                  ![g] = PendingFuture(t, r)]
      /\ task' = [task EXCEPT ![t] = "then"]
      /\ status' = [status EXCEPT ![r] = "pending"]
      /\ UNCHANGED <<stack, received>>
  BY DEF ThenPending, HandedTo
<1>5. /\ ps \in [PromiseAddress -> PromiseType]
      /\ \A x \in PromiseAddress : x # p => ps[x] = promise[x]
      /\ ps[p].live <=> promise[p].live
      /\ ps[p].result = promise[p].result
      /\ ps[p].state = t /\ ps[p].cont = t /\ ps[p].future = Null
  BY <1>0, <1>2, HandedToIs DEF TypeOK
<1> HIDE DEF ps
<1>6. /\ \A x \in PromiseAddress \ {p, t} : promise'[x] = promise[x]
      /\ promise'[p].live /\ promise'[p].result = v
      /\ promise'[p].state = t /\ promise'[p].cont = t /\ promise'[p].future = Null
      /\ promise'[t].live /\ promise'[t].result = r
      /\ promise'[t].state = g /\ promise'[t].cont = Null /\ promise'[t].future = g
  BY <1>0, <1>2, <1>3, <1>4, <1>5 DEF PendingPromise
<1>7. /\ \A x \in FutureAddress \ {f, g, t} : future'[x] = future[x]
      /\ future'[t].live /\ ~future'[t].ready /\ future'[t].promise = Null /\ future'[t].result = v
      /\ future'[f].live /\ future'[f].promise = Null /\ future'[f].result = Null
      /\ future'[g].live /\ ~future'[g].ready /\ future'[g].promise = t /\ future'[g].result = r
  BY <1>0, <1>1, <1>4, MovedFromIs DEF TypeOK, PendingFuture
<1>8. \A x \in Tasks : task'[x] = IF x = t THEN "then" ELSE task[x]
  BY <1>0, <1>4 DEF TypeOK
<1>9. \A s \in Results : status'[s] = IF s = r THEN "pending" ELSE status[s]
  BY <1>0, <1>4 DEF TypeOK
<1>10. TypeOK'
  <2>1. PendingFuture(Null, v) \in FutureType /\ PendingFuture(t, r) \in FutureType
    BY <1>0, <1>2 DEF PendingFuture, FutureType
  <2>2. future' \in [FutureAddress -> FutureType]
    BY <1>0, <1>4, <2>1, MovedFromIs DEF TypeOK
  <2>3. PendingPromise(g, r) \in PromiseType
    BY <1>0 DEF PendingPromise, PromiseType
  <2>4. promise' \in [PromiseAddress -> PromiseType]
    BY <1>0, <1>4, <1>5, <2>3
  <2> QED
    BY <1>0, <1>4, <2>2, <2>4 DEF TypeOK
<1>11. UNCHANGED <<stack, received>>
  BY <1>4
<1> HIDE DEF p, v
<1>12. Unresolved' = Unresolved \cup {t}
  <2>1. \A x \in PromiseAddress : promise[x].live => promise[x].result # r
    BY <1>0, <1>1 DEF PromisesOK
  <2>2. \A x \in PromiseAddress \ {p, t} : x \in Unresolved' <=> x \in Unresolved
    BY <1>0, <1>6, <1>9, <2>1, FieldTypes DEF Unresolved
  <2>3. p \in Unresolved' /\ t \in Unresolved'
    BY <1>0, <1>2, <1>6, <1>9, <1>3 DEF Unresolved
  <2>4. Unresolved' \subseteq PromiseAddress /\ Unresolved \subseteq PromiseAddress
    BY DEF Unresolved
  <2> QED
    BY <1>2, <2>2, <2>3, <2>4
<1>13. ObjectsAgree'
  <2>1. \A x \in Unresolved : x # p => promise[x].future \notin {t, g} /\ promise[x].state \notin {t, g}
    BY <1>0, <1>1, <1>3 DEF ObjectsAgree
  <2>2. ASSUME NEW x \in FutureAddress, future'[x].live, future'[x].promise # Null
        PROVE  future'[x].promise \in Unresolved' /\ promise'[future'[x].promise].future = x
    <3>1. CASE x = g
      BY <1>6, <1>7, <1>12, <3>1
    <3>2. CASE x # g
      <4>1. x # f /\ x # t /\ future[x].live /\ future[x].promise = future'[x].promise
        BY <1>7, <2>2, <3>2
      <4>2. future[x].promise \in Unresolved /\ promise[future[x].promise].future = x
        BY <1>0, <2>2, <4>1 DEF ObjectsAgree
      <4>3. future[x].promise # p /\ future[x].promise # t
        BY <1>2, <1>3, <4>1, <4>2
      <4> QED
        BY <1>6, <1>12, <4>1, <4>2, <4>3, UnresolvedPromises, <1>0
    <3> QED
      BY <3>1, <3>2
  <2>3. ASSUME NEW x \in Unresolved'
        PROVE  /\ promise'[x].future # Null =>
                    /\ future'[promise'[x].future].live
                    /\ future'[promise'[x].future].promise = x
                    /\ promise'[x].state = promise'[x].future
               /\ promise'[x].state # Null
               /\ LET s == future'[promise'[x].state] IN
                    s.live /\ ~s.ready /\ s.result = promise'[x].result
    <3>1. CASE x = p
      BY <1>0, <1>6, <1>7, <3>1
    <3>2. CASE x = t
      BY <1>0, <1>6, <1>7, <3>2
    <3>3. CASE x # p /\ x # t
      <4>1. /\ x \in Unresolved /\ promise'[x] = promise[x]
            /\ promise[x].state \notin {f, g, t} /\ promise[x].future \notin {f, g, t}
        BY <1>0, <1>2, <1>6, <1>12, <2>1, <2>3, <3>3, UnresolvedPromises
      <4> QED
        BY <1>0, <1>7, <4>1, UnresolvedPromises DEF ObjectsAgree
    <3> QED
      BY <3>1, <3>2, <3>3
  <2> QED
    BY <2>2, <2>3 DEF ObjectsAgree
<1>14. StorageOK'
  <2> SUFFICES ASSUME NEW x \in Unresolved'
               PROVE  \/ /\ promise'[x].cont = Null
                         /\ promise'[x].state \in Futures
                         /\ promise'[x].future = promise'[x].state
                      \/ /\ promise'[x].cont \in Tasks
                         /\ promise'[x].state = promise'[x].cont
                         /\ promise'[x].future \in {Null, promise'[x].state}
    BY DEF StorageOK
  <2>1. CASE x \in {p, t}
    BY <1>6, <2>1
  <2>2. CASE x \notin {p, t}
    BY <1>0, <1>6, <1>12, <2>2, UnresolvedPromises DEF StorageOK
  <2> QED
    BY <2>1, <2>2
<1>15. PromisesOK'
  BY <1>0, <1>1, <1>2, <1>3, <1>6, <1>9, FieldTypes DEF PromisesOK
<1>16. FuturesOK'
  <2>1. ASSUME NEW x \in FutureAddress, future'[x].live, future'[x].result # Null
        PROVE  /\ future'[x].ready => /\ status'[future'[x].result] = "ready"
                                      /\ future'[x].value = future'[x].result
                                      /\ future'[x].promise = Null
               /\ ~future'[x].ready => status'[future'[x].result] = "pending"
               /\ ~future'[x].ready /\ x \in Futures => future'[x].promise # Null
    <3>1. CASE x \in {f, g, t}
      BY <1>0, <1>2, <1>3, <1>7, <1>9, <2>1, <3>1
    <3>2. CASE x \notin {f, g, t}
      <4>1. future'[x] = future[x] /\ future[x].result \in Results
        BY <1>0, <1>7, <2>1, <3>2, FieldTypes
      <4>2. status'[future[x].result] = status[future[x].result]
        BY <1>0, <1>1, <1>9, <2>1, <4>1 DEF FuturesOK
      <4> QED
        BY <1>0, <2>1, <4>1, <4>2 DEF FuturesOK
    <3> QED
      BY <3>1, <3>2
  <2>2. ASSUME NEW x \in FutureAddress, future'[x].live, future'[x].result = Null
        PROVE  future'[x].promise = Null
    BY <1>0, <1>7, <2>2 DEF FuturesOK
  <2>3. ASSUME NEW x \in FutureAddress, future'[x].live, future'[x].result # Null,
               NEW y \in FutureAddress, future'[y].live, future'[y].result = future'[x].result
        PROVE  x = y
    <3> DEFINE from(z) == IF z = t THEN f ELSE z
    <3>1. x # f /\ y # f
      BY <1>7, <2>3
    <3>2. \A z \in FutureAddress \ {g} : future'[z].live => future'[z].result # r
      BY <1>0, <1>1, <1>3, <1>7 DEF FuturesOK
    <3>3. CASE x = g \/ y = g
      BY <1>7, <2>3, <3>2, <3>3
    <3>4. CASE x # g /\ y # g
      <4>1. ASSUME NEW z \in FutureAddress, z # g, z # f, future'[z].live
            PROVE  from(z) \in FutureAddress /\ future[from(z)].live
                     /\ future[from(z)].result = future'[z].result
        BY <1>0, <1>1, <1>2, <1>7, <4>1
      <4>2. from(x) = from(y)
        BY <1>0, <2>3, <3>1, <3>4, <4>1 DEF FuturesOK
      <4> QED
        BY <3>1, <4>2
    <3> QED
      BY <3>3, <3>4
  <2> QED
    BY <2>1, <2>2, <2>3 DEF FuturesOK
<1>17. StackOK'
  <2>1. \A x \in Unresolved \ {p} : promise'[x].cont = promise[x].cont
    BY <1>3, <1>6, UnresolvedPromises, <1>0
  <2>2. \A i \in 1 .. Len(stack) : stack[i].task # t
    BY <1>0, <1>1 DEF StackOK
  <2> QED
    BY <1>0, <1>2, <1>6, <1>8, <1>11, <1>12, <2>1, <2>2, Frames DEF StackOK
<1>18. TasksOK'
  <2>1. \A u \in Tasks : u # t => (promise'[u].live <=> promise[u].live)
    BY <1>2, <1>6, Addresses
  <2>2. \A u \in Tasks : task'[u] = "free" => ~promise'[u].live /\ ~future'[u].live
    BY <1>0, <1>7, <1>8, <2>1, Addresses DEF TasksOK
  <2>3. \A u \in Tasks : task'[u] = "leaf" => ~promise'[u].live
    BY <1>0, <1>8, <2>1 DEF TasksOK
  <2>4. \A x \in Unresolved : x # p => promise'[x].cont = promise[x].cont /\ promise[x].cont # t
    BY <1>0, <1>1, <1>3, <1>6, UnresolvedPromises DEF TasksOK
  <2>5. ASSUME NEW u \in Tasks, task'[u] # "free"
        PROVE  \/ \E i \in 1 .. Len(stack) : stack[i].task = u
               \/ \E x \in Unresolved' : promise'[x].cont = u
    <3>1. CASE u = t
      BY <1>2, <1>6, <1>12, <3>1
    <3>2. CASE u # t
      BY <1>0, <1>2, <1>8, <1>12, <2>4, <2>5, <3>2, Addresses DEF TasksOK
    <3> QED
      BY <3>1, <3>2
  <2>6. ASSUME NEW y \in Unresolved', NEW x \in Unresolved',
               promise'[y].cont # Null, promise'[x].cont = promise'[y].cont
        PROVE  y = x
    BY <1>0, <1>2, <1>6, <1>12, <2>4, <2>6 DEF TasksOK
  <2>7. ASSUME NEW x \in Unresolved', promise'[x].cont # Null
        PROVE  /\ task'[promise'[x].cont] # "free"
               /\ task'[promise'[x].cont] # "leaf" => promise'[x].cont \in Unresolved'
    BY <1>0, <1>2, <1>6, <1>8, <1>12, <2>4, <2>7, UnresolvedPromises DEF TasksOK
  <2> QED
    BY <1>11, <2>2, <2>3, <2>5, <2>6, <2>7 DEF TasksOK
<1>19. ReceivedOK'
  <2>1. ASSUME NEW s \in Results, received[s] = 1
        PROVE  /\ status'[s] = "ready"
               /\ \A x \in FutureAddress : future'[x].live => future'[x].result # s
    <3>1. s # v /\ s # r /\ status[s] = "ready"
      BY <1>0, <1>1, <1>2, <2>1 DEF ReceivedOK
    <3> QED
      BY <1>0, <1>7, <1>9, <2>1, <3>1, Addresses DEF ReceivedOK
  <2> QED
    BY <1>0, <1>11, <2>1 DEF ReceivedOK
<1> QED
  BY <1>10, <1>13, <1>14, <1>15, <1>16, <1>17, <1>18, <1>19 DEF ObjectsOK

(* The futures after the state of promise p became ready, before its       *)
(* continuation runs.                                                      *)
Readied(p) ==
  Unlinked([Emplaced(promise[p].state, promise[p].result) EXCEPT ![promise[p].state].ready = TRUE],
           promise[p].future)

(* It is the future or the task that waits for this result, and no other. *)
LEMMA ReadiedIs ==
  ASSUME ObjectsOK, NEW p \in Unresolved
  PROVE  LET s  == promise[p].state
             v  == promise[p].result
             fs == Readied(p)
         IN  /\ s \in FutureAddress /\ s # Null
             /\ future[s].live /\ ~future[s].ready /\ future[s].result = v
             /\ fs \in [FutureAddress -> FutureType]
             /\ \A x \in FutureAddress : x # s => fs[x] = future[x]
             /\ fs[s].live /\ fs[s].ready /\ fs[s].promise = Null
             /\ fs[s].value = v /\ fs[s].result = v
<1> DEFINE s == promise[p].state
           v == promise[p].result
           b == promise[p].future
           e == [[future[s] EXCEPT !.value = v] EXCEPT !.ready = TRUE]
           es == [future EXCEPT ![s] = e]
<1>0. TypeOK /\ ObjectsAgree /\ PromisesOK
  BY DEF ObjectsOK
<1>1. /\ p \in PromiseAddress /\ v \in Results /\ v # Null /\ promise[p].live
      /\ s \in FutureAddress /\ s # Null
      /\ future[s].live /\ ~future[s].ready /\ future[s].result = v
      /\ b # Null => b = s
  BY <1>0, UnresolvedPromises, Addresses DEF ObjectsAgree
<1>2. b = Null => future[s].promise = Null
  BY <1>0, <1>1, UnresolvedPromises DEF ObjectsAgree, PromisesOK
<1>3. e \in FutureType /\ e.live /\ e.ready /\ e.value = v /\ e.result = v
      /\ e.promise = future[s].promise
  <2> DEFINE u == future[s]
  <2>1. u \in FutureType /\ u.live /\ u.result = v /\ v \in Results
    BY <1>0, <1>1 DEF TypeOK
  <2>2. e = [[u EXCEPT !.value = v] EXCEPT !.ready = TRUE]
    OBVIOUS
  <2>3. e.promise = u.promise
    BY <2>1 DEF FutureType
  <2> HIDE DEF e, u, v
  <2> QED
    BY <2>1, <2>2, <2>3 DEF FutureType, u
<1>4. Readied(p) = IF b = Null THEN es ELSE [es EXCEPT ![b].promise = Null]
  <2>1. [Emplaced(s, v) EXCEPT ![s].ready = TRUE] = es
    BY <1>0, <1>1 DEF Emplaced, TypeOK
  <2> QED
    BY <2>1 DEF Readied, Unlinked
<1>5. CASE b = Null
  <2>1. Readied(p) = es
    BY <1>4, <1>5
  <2> HIDE DEF e
  <2> QED
    BY <1>0, <1>1, <1>2, <1>3, <1>5, <2>1 DEF TypeOK
<1>6. CASE b # Null
  <2> DEFINE d == [e EXCEPT !.promise = Null]
  <2>1. d \in FutureType /\ d.live /\ d.ready /\ d.value = v /\ d.result = v /\ d.promise = Null
    <3> HIDE DEF e, v
    <3> QED
      BY <1>3 DEF FutureType
  <2>2. Readied(p) = [future EXCEPT ![s] = d]
    <3> HIDE DEF e
    <3> QED
      BY <1>0, <1>1, <1>4, <1>6, ZenonT(30) DEF TypeOK
  <2> HIDE DEF d
  <2> QED
    BY <1>0, <1>1, <2>1, <2>2 DEF TypeOK
<1> QED
  BY <1>5, <1>6

(***************************************************************************)
(* Making p ready, whatever the stack it returns to: `below` is the stack  *)
(* without the frame of a task whose own promise p is, or with that frame  *)
(* about to be disposed of.                                                *)
(***************************************************************************)
LEMMA MakeReadyOverKeeps ==
  ASSUME ObjectsOK, NEW p \in Unresolved, NEW below \in Seq(FrameSet),
         \A i, j \in 1 .. Len(below) : below[i].task = below[j].task => i = j,
         \A fr \in ToSet(below) :
           /\ fr.task \in Tasks
           /\ task[fr.task] \in {"then", "coroutine"}
           /\ fr.phase # "dispose" <=> fr.task \in Unresolved \ {p}
           /\ \A x \in Unresolved : promise[x].cont # fr.task,
         \A i \in 1 .. Len(stack) : \E fr \in ToSet(below) : fr.task = stack[i].task,
         p \in Tasks => \E fr \in ToSet(below) : fr.task = p,
         MakeReadyOver(p, Emplaced(promise[p].state, promise[p].result), below),
         promise' = promise
  PROVE  ObjectsOK'
<1> DEFINE s  == promise[p].state
           v  == promise[p].result
           t  == promise[p].cont
           fs == Readied(p)
           x1 == Frame(t, "run", IF task[t] = "then" THEN promise[t].state ELSE Null)
<1>0. /\ TypeOK /\ ObjectsAgree /\ StorageOK /\ PromisesOK /\ FuturesOK /\ StackOK /\ TasksOK /\ ReceivedOK
      /\ p \in PromiseAddress /\ v \in Results /\ v # Null /\ promise[p].live
      /\ status[v] = "pending" /\ t \in Tasks \cup {Null}
  BY UnresolvedPromises DEF ObjectsOK
<1>1. /\ s \in FutureAddress /\ s # Null
      /\ future[s].live /\ ~future[s].ready /\ future[s].result = v
      /\ fs \in [FutureAddress -> FutureType]
      /\ \A x \in FutureAddress : x # s => fs[x] = future[x]
      /\ fs[s].live /\ fs[s].ready /\ fs[s].promise = Null
      /\ fs[s].value = v /\ fs[s].result = v
  BY ReadiedIs
<1>2. t # Null => /\ t = s /\ t \in Tasks /\ t \in FutureAddress /\ t \in PromiseAddress
                  /\ task[t] # "free" /\ (task[t] # "leaf" => t \in Unresolved)
  BY <1>0, Addresses DEF StorageOK, TasksOK
<1>3. /\ status' = [status EXCEPT ![v] = "ready"]
      /\ \/ /\ t = Null /\ future' = fs /\ stack' = below /\ UNCHANGED <<task, received>>
         \/ /\ t # Null /\ task[t] = "leaf"
            /\ future' = [fs EXCEPT ![t] = NoFuture]
            /\ task' = [task EXCEPT ![t] = "free"]
            /\ stack' = below /\ UNCHANGED received
         \/ /\ t # Null /\ task[t] = "then"
            /\ received' = [received EXCEPT ![fs[t].value] = @ + 1]
            /\ future' = [fs EXCEPT ![t] = MovedFrom(@)]
            /\ stack' = <<x1>> \o below
            /\ UNCHANGED task
         \/ /\ t # Null /\ task[t] = "coroutine"
            /\ received' = [received EXCEPT ![fs[t].value] = @ + 1]
            /\ future' = [fs EXCEPT ![t] = NoFuture]
            /\ stack' = <<x1>> \o below
            /\ UNCHANGED task
  BY DEF MakeReadyOver, Readied, Receive
<1>4. NoFuture \in FutureType /\ ~NoFuture.live
  BY DEF NoFuture, FutureType
<1>5. x1.task = t /\ x1.phase = "run" /\ (t \in Tasks => x1 \in FrameSet)
  <2> DEFINE taken == IF task[t] = "then" THEN promise[t].state ELSE Null
  <2>1. t \in Tasks => taken \in FutureAddress \cup {Null}
    BY <1>0, FieldTypes, Addresses
  <2> HIDE DEF taken
  <2> QED
    BY <2>1 DEF Frame, FrameSet, Phases, taken
<1> HIDE DEF x1
<1>6. \A fr \in ToSet(below) : fr.task # t
  OBVIOUS
<1>7. t \in Tasks =>
        /\ <<x1>> \o below \in Seq(FrameSet)
        /\ ToSet(<<x1>> \o below) = ToSet(below) \cup {x1}
        /\ \A i, j \in 1 .. Len(<<x1>> \o below) :
             (<<x1>> \o below)[i].task = (<<x1>> \o below)[j].task => i = j
  BY <1>5, <1>6, PushFrame
<1> HIDE DEF s, v, t, fs
<1>8. /\ future' \in [FutureAddress -> FutureType]
      /\ \A x \in FutureAddress : x # s => future'[x] = future[x]
      /\ future'[s].live => /\ future'[s].promise = Null
                            /\ \/ future'[s].result = Null
                               \/ /\ t = Null /\ received' = received
                                  /\ future'[s].ready
                                  /\ future'[s].value = v /\ future'[s].result = v
  BY <1>1, <1>2, <1>3, <1>4, MovedFromIs
<1>9. \/ received' = received
      \/ /\ received' = [received EXCEPT ![v] = @ + 1]
         /\ future'[s].live => future'[s].result = Null
  BY <1>1, <1>2, <1>3, <1>4, MovedFromIs
<1>10. /\ task' \in [Tasks -> {"free", "leaf", "then", "coroutine"}]
       /\ \A u \in Tasks : task'[u] # task[u] =>
            u = t /\ task[u] = "leaf" /\ task'[u] = "free" /\ ~future'[u].live
  <2>1. CASE task' = task
    BY <1>0, <2>1 DEF TypeOK
  <2>2. CASE task' # task
    <3>1. /\ t \in Tasks /\ task[t] = "leaf" /\ task' = [task EXCEPT ![t] = "free"]
          /\ t \in FutureAddress /\ future' = [fs EXCEPT ![t] = NoFuture]
      BY <1>2, <1>3, <2>2
    <3>2. ~future'[t].live
      BY <1>1, <1>4, <3>1
    <3> QED
      BY <1>0, <3>1, <3>2 DEF TypeOK
  <2> QED
    BY <2>1, <2>2
<1>11. \/ /\ stack' = below
          /\ t # Null => task'[t] = "free"
       \/ /\ stack' = <<x1>> \o below
          /\ t \in Tasks /\ task[t] \in {"then", "coroutine"}
  BY <1>0, <1>2, <1>3 DEF TypeOK
<1>12. /\ stack' \in Seq(FrameSet)
       /\ \A i, j \in 1 .. Len(stack') : stack'[i].task = stack'[j].task => i = j
       /\ ToSet(below) \subseteq ToSet(stack')
       /\ \A fr \in ToSet(stack') : fr \in ToSet(below) \/ (fr = x1 /\ t \in Tasks /\ task[t] \in {"then", "coroutine"})
       /\ t # Null /\ task'[t] # "free" => x1 \in ToSet(stack')
  BY <1>7, <1>11
<1>13. \A r \in Results : status'[r] = IF r = v THEN "ready" ELSE status[r]
  BY <1>0, <1>3 DEF TypeOK
<1>14. TypeOK'
  <2>1. received' \in [Results -> Nat]
    BY <1>0, <1>9 DEF TypeOK
  <2>2. status' \in [Results -> {"unused", "pending", "ready"}]
    BY <1>0, <1>3 DEF TypeOK
  <2> QED
    BY <1>0, <1>8, <1>10, <1>12, <2>1, <2>2 DEF TypeOK
<1>15. \A x \in Unresolved : x # p => promise[x].result # v /\ promise[x].state # s
  BY <1>0, <1>1, UnresolvedPromises DEF ObjectsAgree, PromisesOK, v
<1>16. Unresolved' = Unresolved \ {p}
  <2>1. \A x \in PromiseAddress : x # p /\ promise[x].live => promise[x].result # v
    BY <1>0 DEF PromisesOK, v
  <2> QED
    BY <1>0, <1>13, <2>1, FieldTypes DEF Unresolved, v
<1>17. ObjectsAgree'
  <2>1. ASSUME NEW x \in FutureAddress, future'[x].live, future'[x].promise # Null
        PROVE  future'[x].promise \in Unresolved' /\ promise[future'[x].promise].future = x
    <3>1. x # s /\ future'[x] = future[x]
      BY <1>8, <2>1
    <3>2. future[x].promise \in Unresolved /\ promise[future[x].promise].future = x
      BY <1>0, <2>1, <3>1 DEF ObjectsAgree
    <3>3. future[x].promise # p
      BY <1>0, <2>1, <3>1, <3>2, Addresses DEF ObjectsAgree, s
    <3> QED
      BY <1>16, <3>1, <3>2, <3>3
  <2>2. ASSUME NEW x \in Unresolved'
        PROVE  /\ promise[x].future # Null =>
                    /\ future'[promise[x].future].live
                    /\ future'[promise[x].future].promise = x
                    /\ promise[x].state = promise[x].future
               /\ promise[x].state # Null
               /\ LET st == future'[promise[x].state] IN
                    st.live /\ ~st.ready /\ st.result = promise[x].result
    <3>1. x \in Unresolved /\ promise[x].state # s
      BY <1>15, <1>16, <2>2
    <3> QED
      BY <1>0, <1>8, <3>1, UnresolvedPromises DEF ObjectsAgree
  <2> QED
    BY <2>1, <2>2 DEF ObjectsAgree
<1>18. StorageOK'
  BY <1>0, <1>16 DEF StorageOK
<1>19. PromisesOK'
  BY <1>0, <1>13, FieldTypes DEF PromisesOK
<1>20. FuturesOK'
  <2>1. \A x \in FutureAddress : x # s /\ future[x].live => future[x].result # v
    BY <1>0, <1>1 DEF FuturesOK
  <2>2. ASSUME NEW x \in FutureAddress, future'[x].live, future'[x].result # Null
        PROVE  /\ future'[x].ready => /\ status'[future'[x].result] = "ready"
                                      /\ future'[x].value = future'[x].result
                                      /\ future'[x].promise = Null
               /\ ~future'[x].ready => status'[future'[x].result] = "pending"
               /\ ~future'[x].ready /\ x \in Futures => future'[x].promise # Null
    <3>1. CASE x = s
      BY <1>0, <1>8, <1>13, <2>2, <3>1
    <3>2. CASE x # s
      <4>1. future'[x] = future[x] /\ future[x].result \in Results /\ future[x].result # v
        BY <1>0, <1>8, <2>1, <2>2, <3>2, FieldTypes
      <4>2. status'[future[x].result] = status[future[x].result]
        BY <1>13, <4>1
      <4> QED
        BY <1>0, <2>2, <4>1, <4>2 DEF FuturesOK
    <3> QED
      BY <3>1, <3>2
  <2>3. ASSUME NEW x \in FutureAddress, future'[x].live, future'[x].result = Null
        PROVE  future'[x].promise = Null
    BY <1>0, <1>8, <2>3 DEF FuturesOK
  <2>4. ASSUME NEW x \in FutureAddress, future'[x].live, future'[x].result # Null,
               NEW y \in FutureAddress, future'[y].live, future'[y].result = future'[x].result
        PROVE  x = y
    <3>1. CASE x = s \/ y = s
      BY <1>8, <2>1, <2>4, <3>1
    <3>2. CASE x # s /\ y # s
      BY <1>0, <1>8, <2>4, <3>2 DEF FuturesOK
    <3> QED
      BY <3>1, <3>2
  <2> QED
    BY <2>2, <2>3, <2>4 DEF FuturesOK
<1>21. t \in Tasks => \A x \in Unresolved : x # p => promise[x].cont # t
  BY <1>0, Addresses DEF TasksOK, t
<1>22. t \in Tasks => t # p
  BY <1>6
<1>23. StackOK'
  <2>1. ASSUME NEW fr \in ToSet(stack')
        PROVE  /\ task'[fr.task] \in {"then", "coroutine"}
               /\ fr.phase # "dispose" <=> fr.task \in Unresolved'
               /\ \A x \in Unresolved' : promise[x].cont # fr.task
    <3>1. CASE fr \in ToSet(below)
      <4>1. fr.task \in Tasks /\ task'[fr.task] = task[fr.task]
        BY <1>10, <3>1
      <4> QED
        BY <1>16, <3>1, <4>1
    <3>2. CASE fr = x1 /\ t \in Tasks /\ task[t] \in {"then", "coroutine"}
      <4>1. task'[t] = task[t] /\ t \in Unresolved /\ t # p
        BY <1>0, <1>2, <1>10, <1>22, <3>2, Addresses
      <4> QED
        BY <1>5, <1>16, <1>21, <3>2, <4>1
    <3> QED
      BY <1>12, <2>1, <3>1, <3>2
  <2> QED
    BY <1>12, <1>14, <2>1, ElementsOfStack DEF TypeOK, StackOK
<1>24. TasksOK'
  <2>1. ASSUME NEW u \in Tasks, task'[u] = "free"
        PROVE  ~promise[u].live /\ ~future'[u].live
    <3>1. CASE task[u] = "free"
      <4>1. u # s
        BY <1>0, <1>1, <3>1 DEF TasksOK
      <4> QED
        BY <1>0, <1>8, <3>1, <4>1, Addresses DEF TasksOK
    <3>2. CASE task[u] # "free"
      BY <1>0, <1>10, <2>1, <3>2 DEF TasksOK
    <3> QED
      BY <3>1, <3>2
  <2>2. \A u \in Tasks : task'[u] = "leaf" => ~promise[u].live
    BY <1>0, <1>10 DEF TasksOK
  <2>3. ASSUME NEW u \in Tasks, task'[u] # "free"
        PROVE  \/ \E i \in 1 .. Len(stack') : stack'[i].task = u
               \/ \E x \in Unresolved' : promise[x].cont = u
    <3>1. ASSUME NEW fr \in ToSet(stack'), fr.task = u
          PROVE  \E i \in 1 .. Len(stack') : stack'[i].task = u
      BY <1>12, <3>1, ElementsOfStack
    <3>2. task[u] # "free"
      BY <1>10, <2>3
    <3>3. CASE \E i \in 1 .. Len(stack) : stack[i].task = u
      BY <1>12, <3>1, <3>3
    <3>4. CASE \E x \in Unresolved : promise[x].cont = u
      <4>1. CASE u = t
        BY <1>5, <1>12, <2>3, <3>1, <4>1, Addresses
      <4>2. CASE u # t
        BY <1>16, <3>4, <4>2 DEF t
      <4> QED
        BY <4>1, <4>2
    <3> QED
      BY <1>0, <3>2, <3>3, <3>4 DEF TasksOK
  <2>4. ASSUME NEW y \in Unresolved', NEW x \in Unresolved',
               promise[y].cont # Null, promise[x].cont = promise[y].cont
        PROVE  y = x
    BY <1>0, <1>16, <2>4 DEF TasksOK
  <2>5. ASSUME NEW x \in Unresolved', promise[x].cont # Null
        PROVE  /\ task'[promise[x].cont] # "free"
               /\ task'[promise[x].cont] # "leaf" => promise[x].cont \in Unresolved'
    <3>1. /\ x \in Unresolved /\ x # p /\ promise[x].cont \in Tasks /\ promise[x].cont # t
          /\ task[promise[x].cont] # "free"
          /\ task[promise[x].cont] # "leaf" => promise[x].cont \in Unresolved
      BY <1>0, <1>16, <1>21, <2>5, UnresolvedPromises DEF TasksOK
    <3>2. promise[x].cont # p
      BY <3>1
    <3> QED
      BY <1>10, <1>16, <3>1, <3>2
  <2> QED
    BY <2>1, <2>2, <2>3, <2>4, <2>5 DEF TasksOK
<1>25. ReceivedOK'
  <2>1. received[v] = 0
    BY <1>0 DEF ReceivedOK
  <2>2. \A r \in Results : \/ received'[r] = received[r]
                           \/ /\ r = v /\ received'[r] = 1
                              /\ future'[s].live => future'[s].result = Null
    BY <1>0, <1>9, <2>1 DEF TypeOK
  <2>3. \A x \in FutureAddress : x # s /\ future[x].live => future[x].result # v
    BY <1>0, <1>1 DEF FuturesOK
  <2>4. ASSUME NEW r \in Results, received'[r] = 1
        PROVE  /\ status'[r] = "ready"
               /\ \A x \in FutureAddress : future'[x].live => future'[x].result # r
    <3>1. CASE r = v
      BY <1>0, <1>8, <1>13, <2>1, <2>2, <2>3, <2>4, <3>1
    <3>2. CASE r # v
      <4>1. received[r] = 1
        BY <2>2, <2>4, <3>2
      <4> QED
        BY <1>0, <1>8, <1>13, <3>2, <4>1, Addresses DEF ReceivedOK
    <3> QED
      BY <3>1, <3>2
  <2>5. \A r \in Results : received'[r] = 0 \/ received'[r] = 1
    BY <1>0, <2>2 DEF ReceivedOK
  <2> QED
    BY <2>4, <2>5 DEF ReceivedOK
<1> QED
  BY <1>14, <1>17, <1>18, <1>19, <1>20, <1>23, <1>24, <1>25 DEF ObjectsOK

(* Client code makes a promise ready. *)
LEMMA MakeReadyKeeps ==
  ASSUME ObjectsOK, NEW p \in Promises, MakeReady(p)
  PROVE  ObjectsOK'
<1>0. TypeOK /\ StackOK /\ p \notin Tasks /\ p \in PromiseAddress
  BY Addresses DEF ObjectsOK
<1>1. p \in Unresolved
  BY <1>0 DEF MakeReady, Promised, Unresolved
<1>2. /\ MakeReadyOver(p, Emplaced(promise[p].state, promise[p].result), stack)
      /\ promise' = promise
  BY DEF MakeReady
<1>3. stack \in Seq(FrameSet)
  BY <1>0 DEF TypeOK
<1> QED
  BY <1>0, <1>1, <1>2, <1>3, FramesOnStack, MakeReadyOverKeeps

(* The address a task will write its result to is its promise's state. *)
LEMMA AddressTaken ==
  ASSUME TypeOK, StackOK, AddressesOK, stack # <<>>, Head(stack).phase # "dispose"
  PROVE  ResultAddress(Head(stack).task) = promise[Head(stack).task].state
<1>1. Head(stack) \in ToSet(stack)
  BY FramesOnStack, PopFrame DEF TypeOK
<1> QED
  BY <1>1 DEF AddressesOK, AddressOK, ResultAddress

(* A task makes its own promise ready; its frame waits to be disposed of. *)
LEMMA FinishKeeps ==
  ASSUME IInv, NEW t \in Tasks, Finish(t)
  PROVE  ObjectsOK'
<1> DEFINE x == Frame(t, "dispose", Null)
           below == <<x>> \o Tail(stack)
<1>0. /\ ObjectsOK /\ TypeOK /\ StackOK
      /\ stack # <<>> /\ Head(stack).task = t /\ Head(stack).phase # "dispose"
  BY DEF IInv, ObjectsOK, Finish, Running
<1>1. /\ MakeReadyOver(t, Emplaced(promise[t].state, promise[t].result), below)
      /\ promise' = promise
  <2>1. ResultAddress(t) = promise[t].state
    BY <1>0, AddressTaken DEF IInv, ResultAddress
  <2> QED
    BY <2>1 DEF Finish
<1>2. x \in FrameSet /\ x.task = t /\ x.phase = "dispose"
  BY DEF Frame, FrameSet, Phases
<1> HIDE DEF x
<1>3. /\ Head(stack) \in ToSet(stack)
      /\ Tail(stack) \in Seq(FrameSet)
      /\ ToSet(Tail(stack)) = ToSet(stack) \ {Head(stack)}
      /\ \A fr \in ToSet(Tail(stack)) : fr.task # t
      /\ \A i, j \in 1 .. Len(Tail(stack)) :
           Tail(stack)[i].task = Tail(stack)[j].task => i = j
  BY <1>0, FramesOnStack, PopFrame DEF TypeOK
<1>4. /\ below \in Seq(FrameSet)
      /\ ToSet(below) = ToSet(Tail(stack)) \cup {x}
      /\ \A i, j \in 1 .. Len(below) : below[i].task = below[j].task => i = j
  BY <1>2, <1>3, PushFrame
<1> HIDE DEF below
<1>5. t \in Unresolved
  BY <1>0, <1>3, FramesOnStack
<1>6. ASSUME NEW fr \in ToSet(below)
      PROVE  /\ fr.task \in Tasks
             /\ task[fr.task] \in {"then", "coroutine"}
             /\ fr.phase # "dispose" <=> fr.task \in Unresolved \ {t}
             /\ \A y \in Unresolved : promise[y].cont # fr.task
  <2>1. CASE fr = x
    BY <1>0, <1>2, <1>3, <2>1, FramesOnStack
  <2>2. CASE fr # x
    <3>1. fr \in ToSet(stack) /\ fr.task # t
      BY <1>3, <1>4, <1>6, <2>2
    <3> QED
      BY <1>0, <3>1, FramesOnStack
  <2> QED
    BY <2>1, <2>2
<1>7. ASSUME NEW i \in 1 .. Len(stack)
      PROVE  \E fr \in ToSet(below) : fr.task = stack[i].task
  <2>1. stack[i] \in ToSet(stack)
    BY <1>0, FramesOnStack
  <2>2. CASE stack[i] = Head(stack)
    BY <1>0, <1>2, <1>4, <2>2
  <2>3. CASE stack[i] # Head(stack)
    BY <1>3, <1>4, <2>1, <2>3
  <2> QED
    BY <2>2, <2>3
<1>8. \E fr \in ToSet(below) : fr.task = t
  BY <1>2, <1>4
<1> QED
  BY <1>0, <1>1, <1>4, <1>5, <1>6, <1>7, <1>8, MakeReadyOverKeeps

(* Nothing points at a task whose promise was made ready: it can be freed. *)
LEMMA DisposeKeeps ==
  ASSUME ObjectsOK, Dispose
  PROVE  ObjectsOK'
<1> DEFINE t == Head(stack).task
<1>0. /\ TypeOK /\ ObjectsAgree /\ StorageOK /\ PromisesOK /\ FuturesOK /\ StackOK /\ TasksOK /\ ReceivedOK
      /\ stack # <<>> /\ Head(stack).phase = "dispose"
  BY DEF ObjectsOK, Dispose
<1>1. /\ Head(stack) \in ToSet(stack)
      /\ Tail(stack) \in Seq(FrameSet)
      /\ ToSet(Tail(stack)) = ToSet(stack) \ {Head(stack)}
      /\ \A fr \in ToSet(Tail(stack)) : fr.task # t
      /\ \A i, j \in 1 .. Len(Tail(stack)) :
           Tail(stack)[i].task = Tail(stack)[j].task => i = j
  BY <1>0, FramesOnStack, PopFrame DEF TypeOK
<1>2. /\ t \in Tasks /\ t \in PromiseAddress /\ t \in FutureAddress /\ t # Null
      /\ t \notin Unresolved /\ \A x \in Unresolved : promise[x].cont # t
  BY <1>0, <1>1, FramesOnStack, Addresses
<1>3. /\ promise' = [promise EXCEPT ![t] = NoPromise]
      /\ future' = [future EXCEPT ![t] = NoFuture]
      /\ task' = [task EXCEPT ![t] = "free"]
      /\ stack' = Tail(stack)
      /\ UNCHANGED <<status, received>>
  BY DEF Dispose
<1> HIDE DEF t
<1>4. TypeOK'
  <2>1. NoPromise \in PromiseType /\ NoFuture \in FutureType
    BY DEF NoPromise, NoFuture, PromiseType, FutureType
  <2> QED
    BY <1>0, <1>1, <1>3, <2>1 DEF TypeOK
<1>5. /\ \A x \in PromiseAddress \ {t} : promise'[x] = promise[x]
      /\ ~promise'[t].live
      /\ \A x \in FutureAddress \ {t} : future'[x] = future[x]
      /\ ~future'[t].live
      /\ \A u \in Tasks : task'[u] = IF u = t THEN "free" ELSE task[u]
      /\ stack' = Tail(stack) /\ status' = status /\ received' = received
  BY <1>0, <1>2, <1>3 DEF TypeOK, NoPromise, NoFuture
<1>6. Unresolved' = Unresolved
  BY <1>2, <1>5 DEF Unresolved
<1>7. \A x \in Unresolved : promise'[x] = promise[x] /\ promise[x].state # t /\ promise[x].future # t
  BY <1>0, <1>2, <1>5, UnresolvedPromises DEF StorageOK
<1>8. ObjectsAgree'
  BY <1>0, <1>2, <1>5, <1>6, <1>7, UnresolvedPromises DEF ObjectsAgree
<1>9. StorageOK'
  BY <1>0, <1>6, <1>7 DEF StorageOK
<1>10. PromisesOK'
  BY <1>0, <1>5 DEF PromisesOK
<1>11. FuturesOK'
  BY <1>0, <1>5 DEF FuturesOK
<1>12. StackOK'
  <2>1. ASSUME NEW fr \in ToSet(stack')
        PROVE  /\ task'[fr.task] \in {"then", "coroutine"}
               /\ fr.phase # "dispose" <=> fr.task \in Unresolved'
               /\ \A x \in Unresolved' : promise'[x].cont # fr.task
    <3>1. fr \in ToSet(stack) /\ fr.task # t
      BY <1>1, <1>5, <2>1
    <3> QED
      BY <1>0, <1>5, <1>6, <1>7, <3>1, FramesOnStack
  <2> QED
    BY <1>1, <1>4, <1>5, <2>1, ElementsOfStack DEF TypeOK, StackOK
<1>13. TasksOK'
  <2>1. \A u \in Tasks : task'[u] = "free" => ~promise'[u].live /\ ~future'[u].live
    BY <1>0, <1>5, Addresses DEF TasksOK
  <2>2. \A u \in Tasks : task'[u] = "leaf" => ~promise'[u].live
    BY <1>0, <1>5, Addresses DEF TasksOK
  <2>3. ASSUME NEW u \in Tasks, task'[u] # "free"
        PROVE  \/ \E i \in 1 .. Len(stack') : stack'[i].task = u
               \/ \E x \in Unresolved' : promise'[x].cont = u
    <3>1. u # t /\ task[u] # "free"
      BY <1>5, <2>3
    <3>2. CASE \E i \in 1 .. Len(stack) : stack[i].task = u
      <4>1. PICK i \in 1 .. Len(stack) : stack[i].task = u
        BY <3>2
      <4>2. stack[i] \in ToSet(stack')
        BY <1>0, <1>1, <1>5, <3>1, <4>1, FramesOnStack DEF t
      <4> QED
        BY <1>4, <4>1, <4>2, ElementsOfStack DEF TypeOK
    <3>3. CASE \E x \in Unresolved : promise[x].cont = u
      BY <1>6, <1>7, <3>3
    <3> QED
      BY <1>0, <3>1, <3>2, <3>3 DEF TasksOK
  <2>4. ASSUME NEW y \in Unresolved, NEW x \in Unresolved,
               promise'[y].cont # Null, promise'[x].cont = promise'[y].cont
        PROVE  y = x
    BY <1>0, <1>7, <2>4 DEF TasksOK
  <2>5. ASSUME NEW x \in Unresolved, promise'[x].cont # Null
        PROVE  /\ task'[promise'[x].cont] # "free"
               /\ task'[promise'[x].cont] # "leaf" => promise'[x].cont \in Unresolved
    BY <1>0, <1>2, <1>5, <1>7, <2>5, UnresolvedPromises DEF TasksOK
  <2> QED
    BY <1>6, <2>1, <2>2, <2>3, <2>4, <2>5 DEF TasksOK
<1>14. ReceivedOK'
  BY <1>0, <1>5 DEF ReceivedOK
<1> QED
  BY <1>4, <1>8, <1>9, <1>10, <1>11, <1>12, <1>13, <1>14 DEF ObjectsOK

-----------------------------------------------------------------------------
(* Coroutines *)

(* A coroutine starts: its frame is pushed, its future is not handed out yet. *)
LEMMA StartCoroutineKeeps ==
  ASSUME ObjectsOK, NEW t \in Tasks, NEW f \in Futures, NEW r \in Results, StartCoroutine(t, f, r)
  PROVE  ObjectsOK'
<1>0. /\ TypeOK /\ ObjectsAgree /\ StorageOK /\ PromisesOK /\ FuturesOK /\ StackOK /\ TasksOK /\ ReceivedOK
      /\ t \in PromiseAddress /\ t \in FutureAddress /\ f \in FutureAddress /\ f \notin Tasks
      /\ t # Null /\ f # Null /\ r # Null
  BY Addresses DEF ObjectsOK
<1>1. /\ \A q \in PromiseAddress \ {t} : promise'[q] = promise[q]
      /\ promise'[t] = PendingPromise(f, r)
      /\ \A g \in FutureAddress \ {f} : future'[g] = future[g]
      /\ future'[f] = PendingFuture(t, r)
      /\ \A s \in Results \ {r} : status'[s] = status[s]
      /\ status'[r] = "pending" /\ status[r] = "unused" /\ task[t] = "free"
      /\ ~promise[t].live /\ ~future[t].live /\ ~future[f].live
      /\ \A u \in Tasks : task'[u] = IF u = t THEN "coroutine" ELSE task[u]
      /\ received' = received
  BY <1>0 DEF TypeOK, TasksOK, StartCoroutine
<1> DEFINE x == Frame(t, "start", Null)
<1>2. x \in FrameSet /\ x.task = t /\ x.phase = "start" /\ stack' = <<x>> \o stack
  BY DEF FrameSet, Frame, Phases, StartCoroutine
<1> HIDE DEF x
<1>3. TypeOK'
  <2>1. stack' \in Seq(FrameSet)
    BY <1>0, <1>2, PushFrame DEF TypeOK
  <2>2. PendingPromise(f, r) \in PromiseType /\ PendingFuture(t, r) \in FutureType
    BY <1>0 DEF PendingPromise, PendingFuture, PromiseType, FutureType
  <2> QED
    BY <1>0, <2>1, <2>2 DEF TypeOK, StartCoroutine
<1> USE DEF PendingPromise, PendingFuture
<1>4. Unresolved' = Unresolved \cup {t} /\ t \notin Unresolved
  BY <1>0, <1>1, FieldTypes DEF Unresolved, PromisesOK
<1>5. ObjectsAgree'
  BY <1>0, <1>1, <1>4, UnresolvedPromises DEF ObjectsAgree
<1>6. StorageOK'
  BY <1>0, <1>1, <1>4, UnresolvedPromises DEF StorageOK
<1>7. PromisesOK'
  BY <1>0, <1>1, FieldTypes DEF PromisesOK
<1>8. FuturesOK'
  BY <1>0, <1>1, FieldTypes DEF FuturesOK
<1>9. \A q \in Unresolved : promise'[q].cont = promise[q].cont /\ promise[q].cont # t
  BY <1>0, <1>1, <1>4, UnresolvedPromises DEF TasksOK
<1>10. \A fr \in ToSet(stack) : fr.task # t
  BY <1>0, <1>1, FramesOnStack
<1>11. ToSet(stack') = ToSet(stack) \cup {x}
  BY <1>0, <1>2, PushFrame DEF TypeOK
<1>12. StackOK'
  <2>1. ASSUME NEW fr \in ToSet(stack')
        PROVE  /\ task'[fr.task] \in {"then", "coroutine"}
               /\ fr.phase # "dispose" <=> fr.task \in Unresolved'
               /\ \A p \in Unresolved' : promise'[p].cont # fr.task
    <3>1. CASE fr = x
      BY <1>0, <1>1, <1>2, <1>4, <1>9, <3>1, SMTT(30)
    <3>2. CASE fr \in ToSet(stack)
      BY <1>0, <1>1, <1>4, <1>9, <1>10, <3>2, FramesOnStack, Addresses
    <3> QED
      BY <1>11, <2>1, <3>1, <3>2
  <2>2. \A i, j \in 1 .. Len(stack') : stack'[i].task = stack'[j].task => i = j
    BY <1>0, <1>2, <1>10, FramesOnStack, PushFrame DEF TypeOK
  <2> QED
    BY <1>3, <2>1, <2>2, ElementsOfStack DEF TypeOK, StackOK
<1>13. TasksOK'
  <2>1. \A u \in Tasks : task'[u] = "free" => ~promise'[u].live /\ ~future'[u].live
    BY <1>0, <1>1, Addresses DEF TasksOK
  <2>2. \A u \in Tasks : task'[u] = "leaf" => ~promise'[u].live
    BY <1>0, <1>1, Addresses DEF TasksOK
  <2>3. \A fr \in ToSet(stack') : \E i \in 1 .. Len(stack') : stack'[i] = fr
    BY <1>3, ElementsOfStack DEF TypeOK
  <2>4. ASSUME NEW u \in Tasks, task'[u] # "free"
        PROVE  \/ \E i \in 1 .. Len(stack') : stack'[i].task = u
               \/ \E q \in Unresolved' : promise'[q].cont = u
    <3>1. CASE u = t
      BY <1>2, <1>11, <2>3, <3>1
    <3>2. CASE u # t
      <4>1. \/ \E i \in 1 .. Len(stack) : stack[i].task = u
            \/ \E q \in Unresolved : promise[q].cont = u
        BY <1>0, <1>1, <2>4, <3>2 DEF TasksOK
      <4> QED
        BY <1>0, <1>4, <1>9, <1>11, <2>3, <4>1, FramesOnStack
    <3> QED
      BY <3>1, <3>2
  <2>5. ASSUME NEW y \in Unresolved', NEW z \in Unresolved',
               promise'[y].cont # Null, promise'[z].cont = promise'[y].cont
        PROVE  y = z
    BY <1>0, <1>1, <1>4, <1>9, <2>5 DEF TasksOK
  <2>6. ASSUME NEW y \in Unresolved', promise'[y].cont # Null
        PROVE  /\ task'[promise'[y].cont] # "free"
               /\ task'[promise'[y].cont] # "leaf" => promise'[y].cont \in Unresolved'
    BY <1>0, <1>1, <1>4, <1>9, <2>6, UnresolvedPromises DEF TasksOK
  <2> QED
    BY <2>1, <2>2, <2>4, <2>5, <2>6 DEF TasksOK
<1>14. ReceivedOK'
  BY <1>0, <1>1, FieldTypes DEF ReceivedOK
<1> QED
  BY <1>3, <1>5, <1>6, <1>7, <1>8, <1>12, <1>13, <1>14 DEF ObjectsOK

(* Awaiting a ready future takes its value. *)
LEMMA AwaitReadyKeeps ==
  ASSUME ObjectsOK, NEW t \in Tasks, NEW f \in Futures, AwaitReady(t, f)
  PROVE  ObjectsOK'
BY TakeValueKeeps DEF AwaitReady

(***************************************************************************)
(* Awaiting a pending future: the frame leaves the stack and becomes the   *)
(* continuation of that future's promise.                                  *)
(***************************************************************************)
LEMMA AwaitPendingKeeps ==
  ASSUME ObjectsOK, NEW t \in Tasks, NEW f \in Futures, AwaitPending(t, f)
  PROVE  ObjectsOK'
<1> DEFINE p == future[f].promise
           v == future[f].result
           ps == Attach(promise, future[f], t)
<1>0. /\ TypeOK /\ ObjectsAgree /\ StorageOK /\ PromisesOK /\ FuturesOK /\ StackOK /\ TasksOK /\ ReceivedOK
      /\ f \in FutureAddress /\ f \notin Tasks /\ f # t
      /\ t \in PromiseAddress /\ t \in FutureAddress /\ t # Null
      /\ future[f] \in FutureType
  BY Addresses DEF ObjectsOK, TypeOK
<1>1. /\ future[f].live /\ p # Null /\ ~future[f].ready
      /\ stack # <<>> /\ Head(stack).task = t /\ Head(stack).phase # "dispose"
      /\ task[t] = "coroutine"
  BY PendingFutureOf DEF AwaitPending, Running
<1>2. /\ \A x \in Unresolved : promise[x].state = f \/ promise[x].future = f => x = p
      /\ p \in Unresolved /\ p \in PromiseAddress
      /\ promise[p].result = v /\ future[f].result = v /\ v \in Results /\ v # Null
      /\ promise[p].live /\ status[v] = "pending"
      /\ promise[p].future = f /\ promise[p].cont = Null
  BY <1>0, <1>1, OnlyItsPromise, UnresolvedPromises
<1>3. /\ Head(stack) \in ToSet(stack)
      /\ Tail(stack) \in Seq(FrameSet)
      /\ ToSet(Tail(stack)) = ToSet(stack) \ {Head(stack)}
      /\ \A fr \in ToSet(Tail(stack)) : fr.task # t
      /\ \A i, j \in 1 .. Len(Tail(stack)) :
           Tail(stack)[i].task = Tail(stack)[j].task => i = j
  BY <1>0, <1>1, FramesOnStack, PopFrame DEF TypeOK
<1>4. t \in Unresolved /\ \A x \in Unresolved : promise[x].cont # t
  BY <1>0, <1>1, <1>3, FramesOnStack
<1>5. /\ promise' = [ps EXCEPT ![p].cont = t]
      /\ future' = [future EXCEPT ![t] = future[f], ![f] = MovedFrom(@)]
      /\ stack' = Tail(stack)
      /\ UNCHANGED <<task, status, received>>
  BY DEF AwaitPending
<1>6. /\ ps \in [PromiseAddress -> PromiseType]
      /\ \A x \in PromiseAddress : x # p => ps[x] = promise[x]
      /\ ps[p].live <=> promise[p].live
      /\ ps[p].result = promise[p].result
      /\ ps[p].state = t /\ ps[p].future = t
  BY <1>0, <1>1, <1>2, AttachIs DEF TypeOK
<1> HIDE DEF ps
<1>7. /\ promise' \in [PromiseAddress -> PromiseType]
      /\ \A x \in PromiseAddress \ {p} : promise'[x] = promise[x]
      /\ promise'[p].live /\ promise'[p].result = v
      /\ promise'[p].state = t /\ promise'[p].cont = t /\ promise'[p].future = t
  <2> DEFINE r == [ps[p] EXCEPT !.cont = t]
  <2>1. r \in PromiseType
    BY <1>0, <1>2, <1>6 DEF PromiseType
  <2>2. /\ r.live <=> ps[p].live
        /\ r.result = ps[p].result /\ r.state = ps[p].state
        /\ r.cont = t /\ r.future = ps[p].future
    BY <1>0, <1>2, <1>6 DEF PromiseType
  <2>3. promise' = [ps EXCEPT ![p] = r]
    BY <1>2, <1>5, <1>6
  <2> HIDE DEF p, v, r
  <2> QED
    BY <1>2, <1>6, <2>1, <2>2, <2>3
<1>8. /\ \A x \in FutureAddress \ {f, t} : future'[x] = future[x]
      /\ future'[t] = future[f]
      /\ future'[f].live /\ future'[f].promise = Null /\ future'[f].result = Null
  BY <1>0, <1>1, <1>5, MovedFromIs DEF TypeOK
<1>9. TypeOK'
  <2>1. future' \in [FutureAddress -> FutureType]
    BY <1>0, <1>5, MovedFromIs DEF TypeOK
  <2> QED
    BY <1>0, <1>3, <1>5, <1>7, <2>1 DEF TypeOK
<1>10. UNCHANGED <<task, status, received>> /\ stack' = Tail(stack)
  BY <1>5
<1>11. future[f].promise = p
  OBVIOUS
<1> HIDE DEF p, v
<1>12. Unresolved' = Unresolved
  BY <1>0, <1>2, <1>7, <1>10 DEF Unresolved
<1>13. \A x \in Unresolved : promise[x].future # t /\ promise[x].state # t
  BY <1>0, <1>4, UnresolvedPromises DEF StorageOK
<1>14. ObjectsAgree'
  <2>1. ASSUME NEW x \in FutureAddress, future'[x].live, future'[x].promise # Null
        PROVE  future'[x].promise \in Unresolved /\ promise'[future'[x].promise].future = x
    <3>1. CASE x = t
      BY <1>2, <1>7, <1>8, <1>11, <3>1
    <3>2. CASE x # t
      <4>1. x # f /\ future[x].live /\ future[x].promise = future'[x].promise
        BY <1>8, <2>1, <3>2
      <4>2. future[x].promise \in Unresolved /\ promise[future[x].promise].future = x
        BY <1>0, <2>1, <4>1 DEF ObjectsAgree
      <4>3. future[x].promise # p
        BY <1>2, <4>1, <4>2
      <4> QED
        BY <1>0, <1>7, <4>1, <4>2, <4>3, UnresolvedPromises
    <3> QED
      BY <3>1, <3>2
  <2>2. ASSUME NEW x \in Unresolved
        PROVE  /\ promise'[x].future # Null =>
                    /\ future'[promise'[x].future].live
                    /\ future'[promise'[x].future].promise = x
                    /\ promise'[x].state = promise'[x].future
               /\ promise'[x].state # Null
               /\ LET s == future'[promise'[x].state] IN
                    s.live /\ ~s.ready /\ s.result = promise'[x].result
    <3>1. CASE x = p
      BY <1>0, <1>1, <1>2, <1>7, <1>8, <1>11, <3>1
    <3>2. CASE x # p
      <4>1. /\ promise'[x] = promise[x]
            /\ promise[x].state \notin {f, t} /\ promise[x].future \notin {f, t}
        BY <1>0, <1>2, <1>7, <1>13, <2>2, <3>2, UnresolvedPromises
      <4> QED
        BY <1>0, <1>8, <2>2, <4>1, UnresolvedPromises DEF ObjectsAgree
    <3> QED
      BY <3>1, <3>2
  <2> QED
    BY <1>12, <2>1, <2>2 DEF ObjectsAgree
<1>15. StorageOK'
  <2> SUFFICES ASSUME NEW x \in Unresolved
               PROVE  \/ /\ promise'[x].cont = Null
                         /\ promise'[x].state \in Futures
                         /\ promise'[x].future = promise'[x].state
                      \/ /\ promise'[x].cont \in Tasks
                         /\ promise'[x].state = promise'[x].cont
                         /\ promise'[x].future \in {Null, promise'[x].state}
    BY <1>12 DEF StorageOK
  <2>1. CASE x = p
    BY <1>7, <2>1
  <2>2. CASE x # p
    BY <1>0, <1>7, <2>2, UnresolvedPromises DEF StorageOK
  <2> QED
    BY <2>1, <2>2
<1>16. PromisesOK'
  BY <1>0, <1>2, <1>7, <1>10 DEF PromisesOK
<1>17. FuturesOK'
  BY <1>0, <1>2, <1>8, <1>10, FieldTypes DEF FuturesOK
<1>18. \A x \in Unresolved : x # p => promise'[x].cont = promise[x].cont
  BY <1>0, <1>7, UnresolvedPromises
<1>19. StackOK'
  <2>1. ASSUME NEW fr \in ToSet(stack')
        PROVE  /\ task'[fr.task] \in {"then", "coroutine"}
               /\ fr.phase # "dispose" <=> fr.task \in Unresolved'
               /\ \A x \in Unresolved' : promise'[x].cont # fr.task
    <3>1. fr \in ToSet(stack) /\ fr.task # t
      BY <1>3, <1>10, <2>1
    <3> QED
      BY <1>0, <1>7, <1>10, <1>12, <1>18, <3>1, FramesOnStack
  <2> QED
    BY <1>3, <1>9, <1>10, <2>1, ElementsOfStack DEF TypeOK, StackOK
<1>20. TasksOK'
  <2>1. \A u \in Tasks : promise'[u].live <=> promise[u].live
    BY <1>2, <1>7, Addresses
  <2>2. \A u \in Tasks : task'[u] = "free" => ~promise'[u].live /\ ~future'[u].live
    BY <1>0, <1>1, <1>8, <1>10, <2>1, Addresses DEF TasksOK
  <2>3. \A u \in Tasks : task'[u] = "leaf" => ~promise'[u].live
    BY <1>0, <1>10, <2>1 DEF TasksOK
  <2>4. ASSUME NEW u \in Tasks, task'[u] # "free"
        PROVE  \/ \E i \in 1 .. Len(stack') : stack'[i].task = u
               \/ \E x \in Unresolved' : promise'[x].cont = u
    <3>1. CASE u = t
      BY <1>2, <1>7, <1>12, <3>1
    <3>2. CASE u # t
      <4>1. \/ \E i \in 1 .. Len(stack) : stack[i].task = u
            \/ \E x \in Unresolved : promise[x].cont = u
        BY <1>0, <1>10, <2>4 DEF TasksOK
      <4>2. CASE \E i \in 1 .. Len(stack) : stack[i].task = u
        <5>1. PICK i \in 1 .. Len(stack) : stack[i].task = u
          BY <4>2
        <5>2. stack[i] \in ToSet(stack')
          BY <1>0, <1>1, <1>3, <1>10, <3>2, <5>1, FramesOnStack
        <5> QED
          BY <1>9, <5>1, <5>2, ElementsOfStack DEF TypeOK
      <4>3. CASE \E x \in Unresolved : promise[x].cont = u
        BY <1>2, <1>12, <1>18, <4>3, Addresses
      <4> QED
        BY <4>1, <4>2, <4>3
    <3> QED
      BY <3>1, <3>2
  <2>5. ASSUME NEW y \in Unresolved, NEW x \in Unresolved,
               promise'[y].cont # Null, promise'[x].cont = promise'[y].cont
        PROVE  y = x
    BY <1>0, <1>2, <1>4, <1>7, <1>18, <2>5 DEF TasksOK
  <2>6. ASSUME NEW x \in Unresolved, promise'[x].cont # Null
        PROVE  /\ task'[promise'[x].cont] # "free"
               /\ task'[promise'[x].cont] # "leaf" => promise'[x].cont \in Unresolved
    BY <1>0, <1>1, <1>4, <1>7, <1>10, <1>18, <2>6 DEF TasksOK
  <2> QED
    BY <1>12, <2>2, <2>3, <2>4, <2>5, <2>6 DEF TasksOK
<1>21. ReceivedOK'
  BY <1>0, <1>2, <1>8, <1>10, FieldTypes DEF ReceivedOK
<1> QED
  BY <1>9, <1>14, <1>15, <1>16, <1>17, <1>19, <1>20, <1>21 DEF ObjectsOK

-----------------------------------------------------------------------------
(* The addresses that running continuations have taken *)

(* No frame is new, and its task and its promise's state stay what they are. *)
LEMMA AddressesKept ==
  ASSUME AddressesOK, ToSet(stack') \subseteq ToSet(stack),
         \A fr \in ToSet(stack') :
           /\ task'[fr.task] = task[fr.task]
           /\ fr.state # Null => promise'[fr.task].state = promise[fr.task].state
  PROVE  AddressesOK'
BY DEF AddressesOK, AddressOK

(* The promise of a future that may be used is none of such a continuation. *)
LEMMA HeldElsewhere ==
  ASSUME ResultsLeftAlone, TypeOK, NEW f \in Futures, Held(f)
  PROVE  \A fr \in ToSet(stack) : fr.state # Null => future[f].promise # fr.task
BY ElementsOfStack DEF Held, TypeOK

(* Operations on promises of clients and on futures without a promise. *)
LEMMA MakePairKeepsAddresses ==
  ASSUME IInv, NEW p \in Promises, NEW f \in Futures, NEW r \in Results, MakePair(p, f, r)
  PROVE  AddressesOK'
<1>1. \A t \in Tasks : promise'[t] = promise[t]
  BY Addresses DEF IInv, ObjectsOK, TypeOK, MakePair
<1> QED
  BY <1>1, AddressesKept, FramesOnStack DEF IInv, ObjectsOK, MakePair

LEMMA MakeReadyFutureKeepsAddresses ==
  ASSUME IInv, NEW f \in Futures, NEW r \in Results, MakeReadyFuture(f, r)
  PROVE  AddressesOK'
BY AddressesKept DEF IInv, MakeReadyFuture

LEMMA MovePromiseKeepsAddresses ==
  ASSUME IInv, NEW p \in Promises, NEW q \in Promises, MovePromise(p, q)
  PROVE  AddressesOK'
<1>1. \A t \in Tasks : promise'[t] = promise[t]
  BY Addresses DEF IInv, ObjectsOK, TypeOK, MovePromise
<1> QED
  BY <1>1, AddressesKept, FramesOnStack DEF IInv, ObjectsOK, MovePromise

LEMMA DestroyPromiseKeepsAddresses ==
  ASSUME IInv, NEW p \in Promises, DestroyPromise(p)
  PROVE  AddressesOK'
<1>1. \A t \in Tasks : promise'[t] = promise[t]
  BY Addresses DEF IInv, ObjectsOK, TypeOK, DestroyPromise
<1> QED
  BY <1>1, AddressesKept, FramesOnStack DEF IInv, ObjectsOK, DestroyPromise

LEMMA TakeValueKeepsAddresses ==
  ASSUME IInv, NEW f \in Futures, TakeValue(f)
  PROVE  AddressesOK'
BY AddressesKept DEF IInv, TakeValue

LEMMA ThenReadyKeepsAddresses ==
  ASSUME IInv, NEW f \in Futures, NEW g \in Futures, NEW r \in Results, ThenReady(f, g, r)
  PROVE  AddressesOK'
BY AddressesKept DEF IInv, ThenReady

LEMMA AwaitReadyKeepsAddresses ==
  ASSUME IInv, NEW t \in Tasks, NEW f \in Futures, AwaitReady(t, f)
  PROVE  AddressesOK'
BY TakeValueKeepsAddresses DEF AwaitReady

(* A future that moves changes the pointers of its own promise only. *)
LEMMA AttachElsewhere ==
  ASSUME TypeOK, NEW ps \in [PromiseAddress -> PromiseType], NEW g \in Futures, NEW f \in FutureAddress,
         NEW t \in Tasks, future[g].promise # t
  PROVE  Attach(ps, future[g], f)[t] = ps[t]
BY AttachIs, FieldTypes, Addresses

LEMMA MoveFutureKeepsAddresses ==
  ASSUME ResultsLeftAlone, IInv, NEW f \in Futures, NEW g \in Futures, MoveFuture(f, g)
  PROVE  AddressesOK'
<1>0. TypeOK /\ StackOK /\ AddressesOK
  BY DEF IInv, ObjectsOK
<1>1. Held(f) /\ promise' = Attach(promise, future[f], g) /\ UNCHANGED <<task, stack>>
  BY DEF MoveFuture
<1>2. \A fr \in ToSet(stack) : fr.state # Null => promise'[fr.task] = promise[fr.task]
  <2>1. promise \in [PromiseAddress -> PromiseType] /\ g \in FutureAddress
    BY <1>0, Addresses DEF TypeOK
  <2>2. \A fr \in ToSet(stack) : fr.state # Null => fr.task \in Tasks /\ future[f].promise # fr.task
    BY <1>0, <1>1, HeldElsewhere, FramesOnStack
  <2> QED
    BY <1>0, <1>1, <2>1, <2>2, AttachElsewhere
<1> QED
  BY <1>0, <1>1, <1>2, AddressesKept

(* Nor does a future that leaves a leaf_continuation behind. *)
LEMMA LeafElsewhere ==
  ASSUME ResultsLeftAlone, IInv, NEW f \in Futures, future[f].live, future[f].result # Null => Held(f),
         NEW t \in Tasks \cup {Null}, LeafAt(f, t)
  PROVE  /\ PromisesWithLeaf(f, t) \in [PromiseAddress -> PromiseType]
         /\ \A fr \in ToSet(stack) :
              /\ fr.state # Null => PromisesWithLeaf(f, t)[fr.task] = promise[fr.task]
              /\ TasksWithLeaf(t)[fr.task] = task[fr.task]
<1>0. TypeOK /\ StackOK /\ FuturesOK /\ f \in FutureAddress
  BY Addresses DEF IInv, ObjectsOK
<1>1. CASE t = Null
  BY <1>0, <1>1 DEF TypeOK, PromisesWithLeaf, TasksWithLeaf
<1>2. CASE t # Null
  <2>1. t \in Tasks /\ task[t] = "free" /\ future[f].promise # Null
    BY <1>2 DEF LeafAt, NeedsLeaf
  <2>2. future[f].promise \in PromiseAddress /\ Held(f)
    BY <1>0, <2>1, FieldTypes DEF FuturesOK
  <2>3. PromisesWithLeaf(f, t) = HandedTo(promise, future[f].promise, t)
    BY <1>2 DEF PromisesWithLeaf, HandedTo
  <2>4. \A fr \in ToSet(stack) : fr.state # Null => future[f].promise # fr.task
    BY <1>0, <2>2, HeldElsewhere
  <2>5. \A fr \in ToSet(stack) : fr.task # t /\ fr.task \in Tasks /\ fr.task \in PromiseAddress
    BY <1>0, <2>1, FramesOnStack
  <2>6. \A u \in Tasks : u # t => TasksWithLeaf(t)[u] = task[u]
    BY <1>0, <1>2 DEF TypeOK, TasksWithLeaf
  <2>7. /\ HandedTo(promise, future[f].promise, t) \in [PromiseAddress -> PromiseType]
        /\ \A x \in PromiseAddress :
             x # future[f].promise => HandedTo(promise, future[f].promise, t)[x] = promise[x]
    BY <1>0, <2>1, <2>2, HandedToIs DEF TypeOK
  <2> QED
    BY <2>3, <2>4, <2>5, <2>6, <2>7
<1> QED
  BY <1>1, <1>2

LEMMA DestroyFutureKeepsAddresses ==
  ASSUME ResultsLeftAlone, IInv, NEW f \in Futures, NEW t \in Tasks \cup {Null}, DestroyFuture(f, t)
  PROVE  AddressesOK'
<1>1. /\ future[f].live /\ (future[f].result # Null => Held(f)) /\ LeafAt(f, t)
      /\ promise' = PromisesWithLeaf(f, t) /\ task' = TasksWithLeaf(t) /\ stack' = stack
  BY DEF DestroyFuture
<1> QED
  BY <1>1, LeafElsewhere, AddressesKept DEF IInv

LEMMA AssignFutureKeepsAddresses ==
  ASSUME ResultsLeftAlone, IInv, NEW f \in Futures, NEW g \in Futures, NEW t \in Tasks \cup {Null},
         AssignFuture(f, g, t)
  PROVE  AddressesOK'
<1> DEFINE ps == PromisesWithLeaf(f, t)
<1>0. TypeOK /\ StackOK /\ AddressesOK /\ f \in FutureAddress
  BY Addresses DEF IInv, ObjectsOK
<1>1. /\ future[f].live /\ (future[f].result # Null => Held(f)) /\ LeafAt(f, t) /\ Held(g)
      /\ promise' = Attach(ps, future[g], f) /\ task' = TasksWithLeaf(t) /\ stack' = stack
  BY DEF AssignFuture
<1>2. /\ ps \in [PromiseAddress -> PromiseType]
      /\ \A fr \in ToSet(stack) :
           /\ fr.state # Null => ps[fr.task] = promise[fr.task]
           /\ task'[fr.task] = task[fr.task]
  BY <1>1, LeafElsewhere
<1> HIDE DEF ps
<1>3. \A fr \in ToSet(stack) : fr.state # Null => promise'[fr.task] = ps[fr.task]
  BY <1>0, <1>1, <1>2, HeldElsewhere, AttachElsewhere, FramesOnStack
<1> QED
  BY <1>0, <1>1, <1>2, <1>3, AddressesKept

(* Nor does a future that hands its promise to a continuation. *)
LEMMA ThenPendingKeepsAddresses ==
  ASSUME ResultsLeftAlone, IInv, NEW f \in Futures, NEW t \in Tasks, NEW g \in Futures, NEW r \in Results,
         ThenPending(f, t, g, r)
  PROVE  AddressesOK'
<1> DEFINE p == future[f].promise
<1>0. TypeOK /\ StackOK /\ AddressesOK /\ f \in FutureAddress /\ t \in PromiseAddress /\ t # Null
  BY Addresses DEF IInv, ObjectsOK
<1>1. /\ Held(f) /\ task[t] = "free" /\ p \in PromiseAddress
      /\ task' = [task EXCEPT ![t] = "then"] /\ stack' = stack
      /\ promise' = [HandedTo(promise, p, t) EXCEPT ![t] = PendingPromise(g, r)]
  BY <1>0, PendingFutureOf, FieldTypes DEF IInv, ThenPending, HandedTo
<1> HIDE DEF p
<1>2. \A x \in PromiseAddress \ {p, t} : promise'[x] = promise[x]
  BY <1>0, <1>1, HandedToIs DEF TypeOK
<1>3. \A fr \in ToSet(stack) :
        /\ fr.task # t /\ fr.task \in PromiseAddress /\ fr.task \in Tasks
        /\ fr.state # Null => fr.task # p
  BY <1>0, <1>1, HeldElsewhere, FramesOnStack DEF p
<1>4. \A u \in Tasks : u # t => task'[u] = task[u]
  BY <1>0, <1>1 DEF TypeOK
<1> QED
  BY <1>0, <1>1, <1>2, <1>3, <1>4, AddressesKept

(* Nor does a future that a coroutine awaits, whose frame leaves the stack. *)
LEMMA AwaitPendingKeepsAddresses ==
  ASSUME ResultsLeftAlone, IInv, NEW t \in Tasks, NEW f \in Futures, AwaitPending(t, f)
  PROVE  AddressesOK'
<1> DEFINE p == future[f].promise
           ps == Attach(promise, future[f], t)
<1>0. TypeOK /\ StackOK /\ AddressesOK /\ f \in FutureAddress /\ t \in FutureAddress
  BY Addresses DEF IInv, ObjectsOK
<1>1. /\ Held(f) /\ p \in PromiseAddress /\ stack # <<>>
      /\ task' = task /\ stack' = Tail(stack)
      /\ promise' = [ps EXCEPT ![p].cont = t]
  BY <1>0, PendingFutureOf, FieldTypes DEF IInv, AwaitPending, Running
<1>2. ps \in [PromiseAddress -> PromiseType] /\ \A x \in PromiseAddress \ {p} : ps[x] = promise[x]
  <2>1. promise \in [PromiseAddress -> PromiseType]
    BY <1>0 DEF TypeOK
  <2> QED
    BY <1>0, <1>1, <2>1, AttachIs
<1> HIDE DEF p, ps
<1>3. \A x \in PromiseAddress \ {p} : promise'[x] = promise[x]
  BY <1>1, <1>2
<1>4. ToSet(stack') \subseteq ToSet(stack)
  <2>1. ToSet(Tail(stack)) = ToSet(stack) \ {Head(stack)}
    BY <1>0, <1>1, FramesOnStack, PopFrame DEF TypeOK
  <2> QED
    BY <1>1, <2>1
<1>5. \A fr \in ToSet(stack) : fr.state # Null => promise'[fr.task] = promise[fr.task]
  BY <1>0, <1>1, <1>3, HeldElsewhere, FramesOnStack DEF p
<1> QED
  BY <1>0, <1>1, <1>4, <1>5, AddressesKept

(***************************************************************************)
(* A continuation that is about to run its function takes the address of   *)
(* its result's state; a leaf_continuation has no frame.                   *)
(***************************************************************************)
LEMMA MakeReadyOverKeepsAddresses ==
  ASSUME IInv, NEW p \in Unresolved, NEW emplaced, NEW below \in Seq(FrameSet),
         \A fr \in ToSet(below) :
           /\ task[fr.task] \in {"then", "coroutine"} /\ fr.task \in Tasks
           /\ AddressOK(fr),
         MakeReadyOver(p, emplaced, below), promise' = promise
  PROVE  AddressesOK'
<1> DEFINE t  == promise[p].cont
           x1 == Frame(t, "run", promise[t].state)
           x2 == Frame(t, "run", Null)
<1>0. TypeOK /\ StorageOK /\ ObjectsAgree /\ TasksOK
  BY DEF IInv, ObjectsOK
<1>1. /\ \A u \in Tasks : task[u] \in {"then", "coroutine"} => task'[u] = task[u]
      /\ \/ stack' = below
         \/ t \in Tasks /\ task[t] = "then" /\ stack' = <<x1>> \o below
         \/ t \in Tasks /\ task[t] = "coroutine" /\ stack' = <<x2>> \o below
  BY <1>0, FieldTypes, UnresolvedPromises DEF MakeReadyOver, TypeOK
<1>2. t \in Tasks /\ task[t] = "then" =>
        promise[t].state # Null /\ promise[t].state \in FutureAddress /\ t \in PromiseAddress
  BY <1>0, Addresses, UnresolvedPromises DEF TasksOK, ObjectsAgree
<1>3. /\ x1.task = t /\ x1.phase = "run" /\ x1.state = promise[t].state
      /\ x2.task = t /\ x2.phase = "run" /\ x2.state = Null
      /\ t \in Tasks /\ task[t] = "then" => x1 \in FrameSet
      /\ t \in Tasks => x2 \in FrameSet
  BY <1>2 DEF Frame, FrameSet, Phases
<1> HIDE DEF t, x1, x2
<1>4. \A fr \in ToSet(below) : AddressOK(fr)'
  BY <1>1 DEF AddressOK
<1>5. CASE stack' = below
  BY <1>4, <1>5 DEF AddressesOK
<1>6. CASE t \in Tasks /\ task[t] = "then" /\ stack' = <<x1>> \o below
  <2>1. ToSet(stack') = ToSet(below) \cup {x1}
    BY <1>3, <1>6, PushFrame
  <2>2. ASSUME NEW fr, fr = x1
        PROVE  AddressOK(fr)'
    BY <1>1, <1>2, <1>3, <1>6, <2>2 DEF AddressOK
  <2> QED
    BY <1>4, <2>1, <2>2 DEF AddressesOK
<1>7. CASE t \in Tasks /\ task[t] = "coroutine" /\ stack' = <<x2>> \o below
  <2>1. ToSet(stack') = ToSet(below) \cup {x2}
    BY <1>3, <1>7, PushFrame
  <2>2. ASSUME NEW fr, fr = x2
        PROVE  AddressOK(fr)'
    BY <1>1, <1>3, <1>7, <2>2 DEF AddressOK
  <2> QED
    BY <1>4, <2>1, <2>2 DEF AddressesOK
<1> QED
  BY <1>1, <1>5, <1>6, <1>7

LEMMA MakeReadyKeepsAddresses ==
  ASSUME IInv, NEW p \in Promises, MakeReady(p)
  PROVE  AddressesOK'
<1>0. TypeOK /\ StackOK /\ AddressesOK /\ stack \in Seq(FrameSet)
  BY DEF IInv, ObjectsOK, TypeOK
<1>1. p \in Unresolved
  BY Addresses DEF MakeReady, Promised, Unresolved
<1>2. /\ MakeReadyOver(p, Emplaced(promise[p].state, promise[p].result), stack)
      /\ promise' = promise
  BY DEF MakeReady
<1> QED
  BY <1>0, <1>1, <1>2, FramesOnStack, MakeReadyOverKeepsAddresses DEF AddressesOK

LEMMA FinishKeepsAddresses ==
  ASSUME IInv, NEW t \in Tasks, Finish(t)
  PROVE  AddressesOK'
<1> DEFINE x == Frame(t, "dispose", Null)
           below == <<x>> \o Tail(stack)
           emplaced == Emplaced(ResultAddress(t), promise[t].result)
<1>0. /\ TypeOK /\ StackOK /\ AddressesOK
      /\ stack # <<>> /\ Head(stack).task = t /\ Head(stack).phase # "dispose"
  BY DEF IInv, ObjectsOK, Finish, Running
<1>1. MakeReadyOver(t, emplaced, below) /\ promise' = promise
  BY DEF Finish
<1>2. x \in FrameSet /\ x.task = t /\ x.phase = "dispose" /\ x.state = Null
  BY DEF Frame, FrameSet, Phases
<1> HIDE DEF x, emplaced
<1>3. /\ Head(stack) \in ToSet(stack)
      /\ Tail(stack) \in Seq(FrameSet)
      /\ ToSet(Tail(stack)) = ToSet(stack) \ {Head(stack)}
  BY <1>0, FramesOnStack, PopFrame DEF TypeOK
<1>4. /\ below \in Seq(FrameSet)
      /\ ToSet(below) = ToSet(Tail(stack)) \cup {x}
  BY <1>2, <1>3, PushFrame
<1> HIDE DEF below
<1>5. t \in Unresolved /\ task[t] \in {"then", "coroutine"}
  BY <1>0, <1>3, FramesOnStack
<1>6. ASSUME NEW fr \in ToSet(below)
      PROVE  task[fr.task] \in {"then", "coroutine"} /\ fr.task \in Tasks /\ AddressOK(fr)
  <2>1. CASE fr = x
    BY <1>2, <1>5, <2>1 DEF AddressOK
  <2>2. CASE fr # x
    <3>1. fr \in ToSet(stack)
      BY <1>3, <1>4, <1>6, <2>2
    <3> QED
      BY <1>0, <3>1, FramesOnStack DEF AddressesOK
  <2> QED
    BY <2>1, <2>2
<1> QED
  BY <1>1, <1>4, <1>5, <1>6, MakeReadyOverKeepsAddresses

(* The frames below that of a task that is disposed of are other tasks'. *)
LEMMA DisposeKeepsAddresses ==
  ASSUME IInv, Dispose
  PROVE  AddressesOK'
<1> DEFINE t == Head(stack).task
<1>0. TypeOK /\ StackOK /\ AddressesOK /\ stack # <<>>
  BY DEF IInv, ObjectsOK, Dispose
<1>1. /\ promise' = [promise EXCEPT ![t] = NoPromise]
      /\ task' = [task EXCEPT ![t] = "free"]
      /\ stack' = Tail(stack)
  BY DEF Dispose
<1>2. /\ ToSet(Tail(stack)) = ToSet(stack) \ {Head(stack)}
      /\ \A fr \in ToSet(Tail(stack)) : fr.task # t
  BY <1>0, FramesOnStack, PopFrame DEF TypeOK
<1> HIDE DEF t
<1>3. \A fr \in ToSet(Tail(stack)) : task'[fr.task] = task[fr.task] /\ promise'[fr.task] = promise[fr.task]
  BY <1>0, <1>1, <1>2, FramesOnStack DEF TypeOK
<1> QED
  BY <1>0, <1>1, <1>2, <1>3, AddressesKept

(* A coroutine has no address to take. *)
LEMMA StartCoroutineKeepsAddresses ==
  ASSUME IInv, NEW t \in Tasks, NEW f \in Futures, NEW r \in Results, StartCoroutine(t, f, r)
  PROVE  AddressesOK'
<1> DEFINE x == Frame(t, "start", Null)
<1>0. TypeOK /\ StackOK /\ AddressesOK /\ stack \in Seq(FrameSet)
  BY DEF IInv, ObjectsOK, TypeOK
<1>1. /\ x \in FrameSet /\ x.task = t /\ x.state = Null /\ stack' = <<x>> \o stack /\ task[t] = "free"
  BY DEF FrameSet, Frame, Phases, StartCoroutine
<1> HIDE DEF x
<1>2. /\ \A u \in Tasks : task'[u] = IF u = t THEN "coroutine" ELSE task[u]
      /\ \A u \in Tasks : u # t => promise'[u] = promise[u]
  BY <1>0, Addresses DEF TypeOK, StartCoroutine
<1>3. ToSet(stack') = ToSet(stack) \cup {x}
  BY <1>0, <1>1, PushFrame
<1>4. ASSUME NEW fr \in ToSet(stack)
      PROVE  AddressOK(fr)'
  <2>1. fr.task \in Tasks /\ fr.task # t /\ AddressOK(fr)
    BY <1>0, <1>1, FramesOnStack DEF AddressesOK
  <2>2. task'[fr.task] = task[fr.task] /\ promise'[fr.task] = promise[fr.task]
    BY <1>2, <2>1
  <2> QED
    BY <2>1, <2>2 DEF AddressOK
<1>5. ASSUME NEW fr, fr = x
      PROVE  AddressOK(fr)'
  BY <1>1, <1>2, <1>5 DEF AddressOK
<1> QED
  BY <1>3, <1>4, <1>5 DEF AddressesOK

-----------------------------------------------------------------------------
(* The start, and steps of others *)

(* There are no objects at first. *)
LEMMA InitEstablishes == Init => IInv
<1> SUFFICES ASSUME Init
             PROVE  IInv
  OBVIOUS
<1>1. TypeOK
  <2>1. NoPromise \in PromiseType /\ NoFuture \in FutureType
    BY DEF NoPromise, NoFuture, PromiseType, FutureType
  <2>2. stack \in Seq(FrameSet)
    BY DEF Init
  <2> QED
    BY <2>1, <2>2 DEF Init, TypeOK
<1>2. /\ \A p \in PromiseAddress : ~promise[p].live
      /\ \A f \in FutureAddress : ~future[f].live
      /\ \A t \in Tasks : task[t] = "free"
      /\ Len(stack) = 0
      /\ \A r \in Results : received[r] = 0
  BY DEF Init, NoPromise, NoFuture
<1>3. Unresolved = {}
  BY <1>2 DEF Unresolved
<1>4. ObjectsAgree /\ StorageOK
  BY <1>2, <1>3 DEF ObjectsAgree, StorageOK
<1>5. PromisesOK /\ FuturesOK
  BY <1>2 DEF PromisesOK, FuturesOK
<1>6. StackOK
  BY <1>2 DEF StackOK
<1>7. TasksOK
  BY <1>2, <1>3, Addresses DEF TasksOK
<1>8. ReceivedOK
  BY <1>2 DEF ReceivedOK
<1>9. AddressesOK
  <2>1. stack \in Seq(FrameSet) /\ 1 .. Len(stack) = {}
    BY <1>1, <1>2 DEF TypeOK
  <2> QED
    BY <2>1, ElementsOfStack DEF AddressesOK
<1> QED
  BY <1>1, <1>4, <1>5, <1>6, <1>7, <1>8, <1>9 DEF ObjectsOK, IInv

(* Nothing happens. *)
LEMMA StutterKeeps ==
  ASSUME IInv, UNCHANGED vars
  PROVE  IInv'
<1> /\ promise' = promise /\ future' = future /\ task' = task /\ stack' = stack
    /\ status' = status /\ received' = received
  BY DEF vars
<1>1. Unresolved' = Unresolved
  BY DEF Unresolved
<1> QED
  BY <1>1 DEF IInv, ObjectsOK, TypeOK, ObjectsAgree, StorageOK, PromisesOK, FuturesOK, StackOK, TasksOK,
     ReceivedOK, AddressesOK, AddressOK

-----------------------------------------------------------------------------
(* The invariant and what follows from it *)

(***************************************************************************)
(* Whatever else clients do with their promises and futures, in whatever   *)
(* order continuations and coroutines run, if they leave the future of a   *)
(* continuation's result alone while its function runs, then the objects   *)
(* stay as IInv says.                                                      *)
(***************************************************************************)
THEOREM Invariance ==
  ASSUME ResultsLeftAlone
  PROVE  Spec => []IInv
<1>1. Init => IInv
  BY InitEstablishes
<1>2. IInv /\ [Next]_vars => IInv'
  <2> SUFFICES ASSUME IInv, [Next]_vars
               PROVE  IInv'
    OBVIOUS
  <2>1. CASE UNCHANGED vars
    BY <2>1, StutterKeeps
  <2>2. ASSUME NEW p \in Promises, NEW f \in Futures, NEW r \in Results, MakePair(p, f, r)
        PROVE  IInv'
    BY <2>2, MakePairKeeps, MakePairKeepsAddresses DEF IInv
  <2>3. ASSUME NEW f \in Futures, NEW r \in Results, MakeReadyFuture(f, r)
        PROVE  IInv'
    BY <2>3, MakeReadyFutureKeeps, MakeReadyFutureKeepsAddresses DEF IInv
  <2>4. ASSUME NEW p \in Promises, NEW q \in Promises, MovePromise(p, q)
        PROVE  IInv'
    BY <2>4, MovePromiseKeeps, MovePromiseKeepsAddresses DEF IInv
  <2>5. ASSUME NEW p \in Promises, DestroyPromise(p)
        PROVE  IInv'
    BY <2>5, DestroyPromiseKeeps, DestroyPromiseKeepsAddresses DEF IInv
  <2>6. ASSUME NEW f \in Futures, NEW g \in Futures, MoveFuture(f, g)
        PROVE  IInv'
    BY <2>6, MoveFutureKeeps, MoveFutureKeepsAddresses DEF IInv
  <2>7. ASSUME NEW f \in Futures, NEW g \in Futures, NEW t \in Tasks \cup {Null}, AssignFuture(f, g, t)
        PROVE  IInv'
    BY <2>7, AssignFutureKeeps, AssignFutureKeepsAddresses DEF IInv
  <2>8. ASSUME NEW f \in Futures, NEW t \in Tasks \cup {Null}, DestroyFuture(f, t)
        PROVE  IInv'
    BY <2>8, DestroyFutureKeeps, DestroyFutureKeepsAddresses DEF IInv
  <2>9. ASSUME NEW f \in Futures, TakeValue(f)
        PROVE  IInv'
    BY <2>9, TakeValueKeeps, TakeValueKeepsAddresses DEF IInv
  <2>10. ASSUME NEW f \in Futures, NEW g \in Futures, NEW r \in Results, ThenReady(f, g, r)
         PROVE  IInv'
    BY <2>10, ThenReadyKeeps, ThenReadyKeepsAddresses DEF IInv
  <2>11. ASSUME NEW f \in Futures, NEW g \in Futures, NEW t \in Tasks, NEW r \in Results,
                ThenPending(f, t, g, r)
         PROVE  IInv'
    BY <2>11, ThenPendingKeeps, ThenPendingKeepsAddresses DEF IInv
  <2>12. ASSUME NEW p \in Promises, MakeReady(p)
         PROVE  IInv'
    BY <2>12, MakeReadyKeeps, MakeReadyKeepsAddresses DEF IInv
  <2>13. ASSUME NEW t \in Tasks, Finish(t)
         PROVE  IInv'
    BY <2>13, FinishKeeps, FinishKeepsAddresses DEF IInv
  <2>14. CASE Dispose
    BY <2>14, DisposeKeeps, DisposeKeepsAddresses DEF IInv
  <2>15. ASSUME NEW t \in Tasks, NEW f \in Futures, NEW r \in Results, StartCoroutine(t, f, r)
         PROVE  IInv'
    BY <2>15, StartCoroutineKeeps, StartCoroutineKeepsAddresses DEF IInv
  <2>16. ASSUME NEW t \in Tasks, NEW f \in Futures, AwaitReady(t, f)
         PROVE  IInv'
    BY <2>16, AwaitReadyKeeps, AwaitReadyKeepsAddresses DEF IInv
  <2>17. ASSUME NEW t \in Tasks, NEW f \in Futures, AwaitPending(t, f)
         PROVE  IInv'
    BY <2>17, AwaitPendingKeeps, AwaitPendingKeepsAddresses DEF IInv
  <2> QED
    BY <2>1, <2>2, <2>3, <2>4, <2>5, <2>6, <2>7, <2>8, <2>9, <2>10, <2>11, <2>12, <2>13,
       <2>14, <2>15, <2>16, <2>17 DEF Next
<1> QED
  BY <1>1, <1>2, PTL DEF Spec

(* AddressesAgree, which speaks of the places of the stack. *)
LEMMA AddressesAgreeInState ==
  ASSUME IInv
  PROVE  AddressesAgree
BY ElementsOfStack DEF IInv, ObjectsOK, TypeOK, AddressesOK, AddressOK, AddressesAgree

(***************************************************************************)
(* No pointer between a promise, its future and the storage of its result  *)
(* is ever left behind by a move, an assignment, a destruction or a        *)
(* hand-over to a continuation, nor is the address that a continuation     *)
(* took before its function ran.                                           *)
(***************************************************************************)
THEOREM PointersAlwaysAgree ==
  ASSUME ResultsLeftAlone
  PROVE  Spec => []PointersAgree
<1>1. IInv => PointersAgree
  BY AddressesAgreeInState DEF IInv, ObjectsOK, PointersAgree
<1> QED
  BY <1>1, Invariance, PTL

(* TasksOwned counts what TasksOK and StackOK say one by one. *)
LEMMA TasksOwnedInState ==
  ASSUME IInv
  PROVE  TasksOwned
<1>0. TypeOK /\ StorageOK /\ StackOK /\ TasksOK
  BY DEF IInv, ObjectsOK
<1>1. ASSUME NEW t \in Tasks, task[t] # "free"
      PROVE  Cardinality({i \in 1 .. Len(stack) : stack[i].task = t})
               + Cardinality({p \in Unresolved : promise[p].cont = t}) = 1
  <2> DEFINE F == {i \in 1 .. Len(stack) : stack[i].task = t}
             C == {p \in Unresolved : promise[p].cont = t}
  <2> SUFFICES Cardinality(F) + Cardinality(C) = 1
    OBVIOUS
  <2>1. Cardinality({}) = 0
    BY FS_EmptySet
  <2>2. CASE \E i \in 1 .. Len(stack) : stack[i].task = t
    <3>1. PICK i \in 1 .. Len(stack) : stack[i].task = t
      BY <2>2
    <3>2. F = {i}
      BY <1>0, <3>1 DEF StackOK
    <3>3. C = {}
      BY <1>0, <3>1 DEF StackOK
    <3>4. Cardinality(F) = 1
      BY <3>2, FS_Singleton
    <3>5. Cardinality(C) = 0
      BY <2>1, <3>3
    <3> HIDE DEF F, C
    <3> QED
      BY <3>4, <3>5
  <2>3. CASE ~ \E i \in 1 .. Len(stack) : stack[i].task = t
    <3>1. F = {}
      BY <2>3
    <3>2. PICK p \in Unresolved : promise[p].cont = t
      BY <1>0, <1>1, <2>3 DEF TasksOK
    <3>3. C = {p}
      BY <1>0, <3>2, Addresses DEF TasksOK
    <3>4. Cardinality(C) = 1
      BY <3>3, FS_Singleton
    <3>5. Cardinality(F) = 0
      BY <2>1, <3>1
    <3> HIDE DEF F, C
    <3> QED
      BY <3>4, <3>5
  <2> QED
    BY <2>2, <2>3
<1>2. \A p \in Unresolved : promise[p].cont # Null =>
        task[promise[p].cont] # "free" /\ promise[p].state = promise[p].cont
  BY <1>0 DEF StorageOK, TasksOK
<1>3. \A i \in 1 .. Len(stack) : task[stack[i].task] \in {"then", "coroutine"}
  BY <1>0 DEF StackOK
<1> QED
  BY <1>1, <1>2, <1>3 DEF TasksOwned

(***************************************************************************)
(* Every continuation and coroutine frame has one owner at any time: it is *)
(* never leaked, run twice or reached after `delete this`.                 *)
(***************************************************************************)
THEOREM TasksAlwaysOwned ==
  ASSUME ResultsLeftAlone
  PROVE  Spec => []TasksOwned
<1>1. IInv => TasksOwned
  BY TasksOwnedInState
<1> QED
  BY <1>1, Invariance, PTL

(* ValuesKept, from FuturesOK and ReceivedOK. *)
LEMMA ValuesKeptInState ==
  ASSUME IInv
  PROVE  ValuesKept
<1>0. TypeOK /\ FuturesOK /\ ReceivedOK
  BY DEF IInv, ObjectsOK
<1>1. ASSUME NEW f \in FutureAddress, NEW g \in FutureAddress,
             future[f].live, future[f].result # Null
      PROVE  /\ future[f].ready <=> status[future[f].result] = "ready"
             /\ future[f].ready => future[f].value = future[f].result
             /\ future[g].live /\ future[g].result = future[f].result => f = g
  BY <1>0, <1>1 DEF FuturesOK
<1>2. ASSUME NEW r \in Results
      PROVE  received[r] <= (IF status[r] = "ready" THEN 1 ELSE 0)
  BY <1>0 DEF ReceivedOK
<1> QED
  BY <1>1, <1>2 DEF ValuesKept

(***************************************************************************)
(* A future gets the value its promise was given, and one consumer gets    *)
(* it, once.                                                               *)
(***************************************************************************)
THEOREM ValuesAlwaysKept ==
  ASSUME ResultsLeftAlone
  PROVE  Spec => []ValuesKept
<1>1. IInv => ValuesKept
  BY ValuesKeptInState
<1> QED
  BY <1>1, Invariance, PTL
=============================================================================
