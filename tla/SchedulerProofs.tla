--------------------------- MODULE SchedulerProofs ---------------------------
(***************************************************************************)
(* Proofs about Scheduler, for any number of devices, any target, any      *)
(* finite set of events and any set of waiters, and about the loops of     *)
(* ConcurrentForEach, its client, for any number of loops, chunks and      *)
(* steps.                                                                  *)
(*                                                                         *)
(* The scheduler's safety properties depend on each other: the counts stay *)
(* natural because they count the outstanding events, which is so because  *)
(* the active list holds each of those once, which is so because the node  *)
(* the scan unlinks is the one it invoked.  They are therefore proved as   *)
(* one inductive invariant, IInv, which also says where the thread stands  *)
(* (StackOK).                                                              *)
(*                                                                         *)
(* Of the loops two things are shown together, because each needs the      *)
(* other: the loops use the scheduler only as module Scheduler lets a      *)
(* client use it, so IInv holds, and IInv says what the loops can rely on. *)
(* From this follow the bound on the load of a device, and that run()      *)
(* returns only when the loops have.  What is proved of the scheduler      *)
(* cites nothing of the loops and holds for every client.                  *)
(***************************************************************************)
EXTENDS ConcurrentForEach, DataLemmas, SequenceTheorems, FiniteSetTheorems, TLAPS

-----------------------------------------------------------------------------
(* Lemmas about lists without repetition *)

(* Removing the element at a position from a list. *)
LEMMA RemoveAtProperties ==
  ASSUME NEW S, NEW s \in Seq(S), NEW p \in 1 .. Len(s)
  PROVE  /\ RemoveAt(s, p) \in Seq(S)
         /\ Len(RemoveAt(s, p)) = Len(s) - 1
         /\ \A i \in 1 .. Len(s) - 1 :
              RemoveAt(s, p)[i] = IF i < p THEN s[i] ELSE s[i + 1]
         /\ IsInjective(s) => /\ IsInjective(RemoveAt(s, p))
                              /\ ToSet(RemoveAt(s, p)) = ToSet(s) \ {s[p]}
<1> DEFINE t == RemoveAt(s, p)
           a == SubSeq(s, 1, p - 1)
           b == SubSeq(s, p + 1, Len(s))
<1>1. Len(s) \in Nat /\ DOMAIN s = 1 .. Len(s) /\ p \in Int
  BY LenProperties
<1>2. \A i \in 1 .. Len(s) : s[i] \in S
  BY ElementOfSeq
<1>3. /\ a \in Seq(S)
      /\ Len(a) = p - 1
      /\ \A i \in 1 .. p - 1 : a[i] = s[i]
  <2>1. \A i \in 1 .. p - 1 : s[i] \in S
    BY <1>1, <1>2
  <2>2. /\ a \in Seq(S)
        /\ Len(a) = IF 1 <= p - 1 THEN p - 1 - 1 + 1 ELSE 0
        /\ \A i \in 1 .. p - 1 - 1 + 1 : a[i] = s[1 + i - 1]
    BY <1>1, <2>1, SubSeqProperties
  <2> QED
    BY <1>1, <2>2
<1>4. /\ b \in Seq(S)
      /\ Len(b) = Len(s) - p
      /\ \A i \in 1 .. Len(s) - p : b[i] = s[p + i]
  <2>1. \A i \in p + 1 .. Len(s) : s[i] \in S
    BY <1>1, <1>2
  <2>2. /\ b \in Seq(S)
        /\ Len(b) = IF p + 1 <= Len(s) THEN Len(s) - (p + 1) + 1 ELSE 0
        /\ \A i \in 1 .. Len(s) - (p + 1) + 1 : b[i] = s[p + 1 + i - 1]
    BY <1>1, <2>1, SubSeqProperties
  <2> HIDE DEF b
  <2>3. Len(b) = Len(s) - p
    <3>1. Len(b) = IF p + 1 <= Len(s) THEN Len(s) - (p + 1) + 1 ELSE 0
      BY <2>2
    <3>2. p \in 1 .. Len(s) /\ Len(s) \in Nat
      BY <1>1
    <3> QED
      BY <3>1, <3>2
  <2>4. ASSUME NEW i \in 1 .. Len(s) - p
        PROVE  b[i] = s[p + i]
    <3>1. i \in 1 .. Len(s) - (p + 1) + 1 /\ p + 1 + i - 1 = p + i
      BY <1>1
    <3>2. b[i] = s[p + 1 + i - 1]
      BY <2>2, <3>1
    <3> QED
      BY <3>1, <3>2
  <2> QED
    BY <2>2, <2>3, <2>4
<1>5. /\ t \in Seq(S)
      /\ Len(t) = Len(s) - 1
      /\ \A i \in 1 .. Len(s) - 1 : t[i] = IF i < p THEN s[i] ELSE s[i + 1]
  <2> HIDE DEF a, b
  <2>1. t = a \o b
    BY DEF RemoveAt, a, b
  <2>2. /\ t \in Seq(S)
        /\ Len(t) = Len(a) + Len(b)
        /\ \A i \in 1 .. Len(a) + Len(b) :
             t[i] = IF i <= Len(a) THEN a[i] ELSE b[i - Len(a)]
    <3>1. a \in Seq(S) /\ b \in Seq(S)
      BY <1>3, <1>4
    <3>2. /\ a \o b \in Seq(S)
          /\ Len(a \o b) = Len(a) + Len(b)
          /\ \A i \in 1 .. Len(a) + Len(b) :
               (a \o b)[i] = IF i <= Len(a) THEN a[i] ELSE b[i - Len(a)]
      BY <3>1, ConcatProperties
    <3> QED
      BY <2>1, <3>2
  <2> HIDE DEF t
  <2>3. Len(a) + Len(b) = Len(s) - 1
    BY <1>1, <1>3, <1>4
  <2>4. ASSUME NEW i \in 1 .. Len(s) - 1
        PROVE  t[i] = IF i < p THEN s[i] ELSE s[i + 1]
    <3>1. CASE i < p
      <4>1. i <= Len(a) /\ i \in 1 .. p - 1
        BY <1>1, <1>3, <3>1
      <4> QED
        BY <1>3, <2>2, <2>3, <3>1, <4>1
    <3>2. CASE ~(i < p)
      <4>1. ~(i <= Len(a)) /\ i - Len(a) \in 1 .. Len(s) - p /\ p + (i - Len(a)) = i + 1
        BY <1>1, <1>3, <3>2
      <4>2. t[i] = b[i - Len(a)]
        BY <2>2, <2>3, <4>1
      <4>3. b[i - Len(a)] = s[p + (i - Len(a))]
        BY <1>4, <4>1
      <4> QED
        BY <3>2, <4>1, <4>2, <4>3
    <3> QED
      BY <3>1, <3>2
  <2> QED
    BY <2>2, <2>3, <2>4
<1>6. DOMAIN t = 1 .. Len(s) - 1
  BY <1>5, LenProperties
<1>7. ASSUME IsInjective(s)
      PROVE  IsInjective(t) /\ ToSet(t) = ToSet(s) \ {s[p]}
  <2> DEFINE q(i) == IF i < p THEN i ELSE i + 1
  <2>1. \A i \in 1 .. Len(s) - 1 : q(i) \in 1 .. Len(s) /\ q(i) # p /\ t[i] = s[q(i)]
    BY <1>1, <1>5
  <2>2. \A i, j \in 1 .. Len(s) - 1 : q(i) = q(j) => i = j
    BY <1>1
  <2>3. \A k \in 1 .. Len(s) : k # p => \E i \in 1 .. Len(s) - 1 : q(i) = k
    <3> SUFFICES ASSUME NEW k \in 1 .. Len(s), k # p
                 PROVE  \E i \in 1 .. Len(s) - 1 : q(i) = k
      OBVIOUS
    <3>1. CASE k < p
      BY <1>1, <3>1
    <3>2. CASE k > p
      <4>1. k - 1 \in 1 .. Len(s) - 1 /\ q(k - 1) = k
        BY <1>1, <3>2
      <4> QED
        BY <4>1
    <3> QED
      BY <1>1, <3>1, <3>2
  <2>4. \A i, j \in 1 .. Len(s) : s[i] = s[j] => i = j
    BY <1>1, <1>7 DEF IsInjective
  <2> HIDE DEF q, t
  <2>5. IsInjective(t)
    BY <1>6, <2>1, <2>2, <2>4 DEF IsInjective
  <2>6. ToSet(t) = ToSet(s) \ {s[p]}
    <3>1. \A x \in ToSet(t) : x \in ToSet(s) /\ x # s[p]
      BY <1>1, <1>6, <2>1, <2>4 DEF ToSet
    <3>2. ASSUME NEW x \in ToSet(s), x # s[p]
          PROVE  x \in ToSet(t)
      <4>1. PICK k \in 1 .. Len(s) : x = s[k]
        BY <1>1 DEF ToSet
      <4>2. PICK i \in 1 .. Len(s) - 1 : q(i) = k
        BY <2>3, <3>2, <4>1
      <4> QED
        BY <1>6, <2>1, <4>1, <4>2 DEF ToSet
    <3> QED
      BY <3>1, <3>2
  <2> QED
    BY <2>5, <2>6
<1> HIDE DEF t
<1> QED
  BY <1>5, <1>7 DEF t

(* Dropping the head of a list. *)
LEMMA TailProperties ==
  ASSUME NEW S, NEW s \in Seq(S), s # <<>>
  PROVE  /\ Head(s) \in S
         /\ Head(s) = s[1]
         /\ 1 \in 1 .. Len(s)
         /\ Head(s) \in ToSet(s)
         /\ Tail(s) \in Seq(S)
         /\ IsInjective(s) => /\ IsInjective(Tail(s))
                              /\ ToSet(Tail(s)) = ToSet(s) \ {Head(s)}
<1>1. Len(s) \in Nat /\ DOMAIN s = 1 .. Len(s) /\ 1 \in 1 .. Len(s)
  BY EmptySeq, LenProperties
<1>2. /\ Head(s) \in S
      /\ Tail(s) \in Seq(S)
      /\ Len(Tail(s)) = Len(s) - 1
      /\ \A i \in 1 .. Len(s) - 1 : Tail(s)[i] = s[i + 1]
  BY HeadTailProperties
<1>3. Head(s) = s[1]
  BY <1>1, SubSeqFull, HeadTailOfSubSeq
<1>4. ASSUME NEW p \in 1 .. Len(s), p = 1
      PROVE  IsInjective(s) => /\ IsInjective(Tail(s))
                               /\ ToSet(Tail(s)) = ToSet(s) \ {s[p]}
  <2> DEFINE t == RemoveAt(s, p)
  <2>1. /\ t \in Seq(S)
        /\ Len(t) = Len(s) - 1
        /\ \A i \in 1 .. Len(s) - 1 : t[i] = IF i < p THEN s[i] ELSE s[i + 1]
        /\ IsInjective(s) => IsInjective(t) /\ ToSet(t) = ToSet(s) \ {s[p]}
    BY RemoveAtProperties
  <2> HIDE DEF t
  <2>2. \A i \in 1 .. Len(s) - 1 : t[i] = s[i + 1]
    BY <1>1, <1>4, <2>1
  <2>3. Tail(s) = t
    BY <1>2, <2>1, <2>2, SeqEqual
  <2> QED
    BY <2>1, <2>3
<1>5. IsInjective(s) => IsInjective(Tail(s)) /\ ToSet(Tail(s)) = ToSet(s) \ {Head(s)}
  BY <1>1, <1>3, <1>4
<1>6. Head(s) \in ToSet(s)
  BY <1>1, <1>3 DEF ToSet
<1> QED
  BY <1>1, <1>2, <1>3, <1>5, <1>6

(* In a list without repetition an element has one position. *)
LEMMA PositionProperties ==
  ASSUME NEW S, NEW s \in Seq(S), IsInjective(s),
         NEW e \in ToSet(s)
  PROVE  /\ Position(s, e) \in 1 .. Len(s)
         /\ s[Position(s, e)] = e
         /\ \A i \in 1 .. Len(s) : s[i] = e => Position(s, e) = i
<1>1. DOMAIN s = 1 .. Len(s)
  BY LenProperties
<1>2. \E i \in 1 .. Len(s) : s[i] = e
  BY <1>1 DEF ToSet
<1>3. /\ Position(s, e) \in 1 .. Len(s)
      /\ s[Position(s, e)] = e
  BY <1>2 DEF Position
<1> QED
  BY <1>1, <1>3 DEF IsInjective

(* The elements of a list over Events are events. *)
LEMMA ToSetSubset ==
  ASSUME NEW S, NEW s \in Seq(S)
  PROVE  /\ ToSet(s) \subseteq S
         /\ \A i \in 1 .. Len(s) : s[i] \in ToSet(s)
<1>1. DOMAIN s = 1 .. Len(s)
  BY LenProperties
<1> QED
  BY <1>1, ElementOfSeq DEF ToSet

-----------------------------------------------------------------------------
(* Lemmas about the counts *)

(* Some device has the smallest count, so get_available_device finds one. *)
LEMMA BestExists ==
  ASSUME counts \in [Devices -> Nat]
  PROVE  \E d \in Devices : IsBest(d)
<1> DEFINE R == {ss \in Nat \X Nat : ss[1] < ss[2]}
           C == {counts[d] : d \in Devices}
<1>1. IsWellFoundedOn(R, Nat)
  BY NatLessThanWellFounded DEF OpToRel
<1>2. \A x, y \in Nat : <<x, y>> \in R <=> x < y
  OBVIOUS
<1>3. C \subseteq Nat /\ C # {}
  <2>1. 0 \in Devices
    BY SchedulerAssumption DEF Devices
  <2> QED
    BY <2>1
<1>4. PICK m \in C : \A n \in C : ~(<<n, m>> \in R)
  <2> HIDE DEF R, C
  <2> QED
    BY <1>1, <1>3, WFMin
<1>5. \A d \in Devices : m <= counts[d]
  <2> SUFFICES ASSUME NEW d \in Devices
               PROVE  m <= counts[d]
    OBVIOUS
  <2>1. counts[d] \in C /\ counts[d] \in Nat /\ m \in Nat
    BY <1>3
  <2> HIDE DEF R, C
  <2>2. ~(counts[d] < m)
    BY <1>2, <1>4, <2>1
  <2> QED
    BY <2>1, <2>2
<1> DEFINE D == {d \in Devices : counts[d] = m}
<1>6. D \subseteq Nat /\ D # {}
  BY SchedulerAssumption DEF Devices
<1>7. PICK d \in D : \A o \in D : ~(<<o, d>> \in R)
  <2> HIDE DEF R, D
  <2> QED
    BY <1>1, <1>6, WFMin
<1>8. \A o \in D : d <= o
  <2> SUFFICES ASSUME NEW o \in D
               PROVE  d <= o
    OBVIOUS
  <2>1. o \in Nat /\ d \in Nat
    BY <1>6
  <2> HIDE DEF R, D
  <2>2. ~(o < d)
    BY <1>2, <1>7, <2>1
  <2> QED
    BY <2>1, <2>2
<1> QED
  BY <1>3, <1>5, <1>8 DEF IsBest

(* A device that an outstanding event runs on has a positive count. *)
LEMMA CountPositive ==
  ASSUME CountsMatchEvents, NEW e \in Outstanding, device[e] \in Devices,
         counts \in [Devices -> Nat]
  PROVE  counts[device[e]] > 0
<1> DEFINE T == {f \in Outstanding : device[f] = device[e]}
<1>1. IsFiniteSet(T)
  BY SchedulerAssumption, FS_Subset DEF Outstanding
<1>2. T # {}
  OBVIOUS
<1>3. Cardinality(T) \in Nat /\ Cardinality(T) # 0
  BY <1>1, <1>2, FS_CardinalityType, FS_EmptySet
<1>4. counts[device[e]] = Cardinality(T)
  BY DEF CountsMatchEvents
<1> QED
  BY <1>3, <1>4

-----------------------------------------------------------------------------
(* The inductive invariant *)

(***************************************************************************)
(* Where the thread is and what that says of its locals: cur is an event   *)
(* that was invoked until it is retired, and there is a scan position only *)
(* inside a scan.  Only events that were scheduled complete, and only      *)
(* complete ones are invoked.  Only a coroutine that asked has a device.   *)
(***************************************************************************)
StackOK ==
  /\ pc \in {"invoke", "drain", "grant"} => cur \in invoked
  /\ pc \in {"outside", "run"} => cursor = NoEvent
  /\ invoked \subseteq complete
  /\ \A e \in complete : device[e] # NoDevice
  /\ \A w \in Waiters : granted[w] # NoDevice => w \in asked

IInv ==
  /\ TypeOK
  /\ StackOK
  /\ NoEventLost
  /\ NoWaiterLost
  /\ ScanPositionLinked
  /\ CountsMatchEvents
  /\ Saturated

(* In every initial state the lists are empty and all counts are 0. *)
LEMMA InitIInv == Init => IInv
<1> SUFFICES ASSUME Init
             PROVE  IInv
  OBVIOUS
<1> USE DEF Init
<1>1. /\ active \in Seq(Events) /\ ToSet(active) = {}
      /\ pending \in Seq(Waiters) /\ ToSet(pending) = {}
  BY DEF ToSet
<1>2. TypeOK
  BY <1>1 DEF TypeOK, Locations, NoDevice
<1>3. StackOK
  BY DEF StackOK, NoDevice
<1>4. NoEventLost
  BY <1>1 DEF NoEventLost, InScanInvoke, IsInjective
<1>5. ScanPositionLinked
  BY DEF ScanPositionLinked, InScanInvoke
<1>6. CountsMatchEvents
  <2>1. ASSUME NEW d \in Devices
        PROVE  counts[d] = Cardinality({e \in Outstanding : device[e] = d})
    <3>1. {e \in Outstanding : device[e] = d} = {}
      BY DEF Outstanding
    <3> QED
      BY <3>1, FS_EmptySet
  <2> QED
    BY <2>1 DEF CountsMatchEvents
<1>7. Saturated
  BY DEF Saturated
<1>8. NoWaiterLost
  BY <1>1 DEF NoWaiterLost, IsInjective
<1> QED
  BY <1>2, <1>3, <1>4, <1>5, <1>6, <1>7, <1>8 DEF IInv

(***************************************************************************)
(* The scan's position is a node of the list, and the node behind it, if   *)
(* there is one, is another event.                                         *)
(***************************************************************************)
LEMMA CursorPosition ==
  ASSUME TypeOK, IsInjective(active), cursor \in ToSet(active)
  PROVE  LET p == Position(active, cursor) IN
           /\ p \in 1 .. Len(active)
           /\ active[p] = cursor
           /\ p < Len(active) => /\ p + 1 \in 1 .. Len(active)
                                /\ active[p + 1] \in ToSet(active)
                                /\ active[p + 1] \in Events
                                /\ active[p + 1] # cursor
<1> DEFINE p == Position(active, cursor)
<1>1. active \in Seq(Events)
  BY DEF TypeOK
<1>2. p \in 1 .. Len(active) /\ active[p] = cursor
  BY <1>1, PositionProperties
<1>3. Len(active) \in Nat /\ DOMAIN active = 1 .. Len(active)
  BY <1>1, LenProperties
<1> HIDE DEF p
<1>4. ASSUME p < Len(active)
      PROVE  /\ p + 1 \in 1 .. Len(active)
             /\ active[p + 1] \in ToSet(active)
             /\ active[p + 1] \in Events
             /\ active[p + 1] # cursor
  <2>1. p + 1 \in 1 .. Len(active) /\ p + 1 # p
    BY <1>2, <1>3, <1>4
  <2>2. active[p + 1] \in ToSet(active) /\ active[p + 1] \in Events
    BY <1>1, <2>1, ToSetSubset
  <2>3. active[p + 1] # active[p]
    BY <1>2, <1>3, <2>1 DEF IsInjective
  <2> QED
    BY <1>2, <2>1, <2>2, <2>3
<1> QED
  BY <1>2, <1>4 DEF p

(* Every action keeps the types; the counts stay natural numbers because   *)
(* an event that is retired was counted.                                   *)
LEMMA TypeStep == IInv /\ Next => TypeOK'
<1> SUFFICES ASSUME IInv, Next
             PROVE  TypeOK'
  OBVIOUS
<1> USE DEF IInv, TypeOK, Locations
<1>1. ASSUME NEW e \in Events, NEW d \in Devices, ScheduleEvent(e, d)
      PROVE  TypeOK'
  <2>1. Cons(e, active) \in Seq(Events)
    BY ConsProperties
  <2> QED
    BY <1>1, <2>1 DEF ScheduleEvent
<1>2. ASSUME NEW w \in Waiters, NEW d \in Devices, AwaitDeviceReady(w, d)
      PROVE  TypeOK'
  BY <1>2 DEF AwaitDeviceReady
<1>3. ASSUME NEW w \in Waiters, AwaitDevicePending(w)
      PROVE  TypeOK'
  <2>1. Cons(w, pending) \in Seq(Waiters)
    BY ConsProperties
  <2> QED
    BY <1>3, <2>1 DEF AwaitDevicePending
<1>4. CASE Run
  BY <1>4 DEF Run
<1>5. CASE RunReturn
  BY <1>5 DEF RunReturn
<1>6. CASE PollHeadReady
  <2>1. Head(active) \in Events /\ Tail(active) \in Seq(Events)
    BY <1>6, TailProperties DEF PollHeadReady
  <2> QED
    BY <1>6, <2>1 DEF PollHeadReady
<1>7. CASE PollHeadNotReady
  <2>1. Head(active) \in Events
    BY <1>7, TailProperties DEF PollHeadNotReady
  <2> QED
    BY <1>7, <2>1 DEF PollHeadNotReady
<1>8. CASE ScanEnd
  BY <1>8 DEF ScanEnd
<1>9. CASE ScanReady \/ ScanNotReady
  <2>1. active[Position(active, cursor) + 1] \in Events
    <3>1. /\ IsInjective(active)
          /\ cursor \in ToSet(active)
          /\ Position(active, cursor) < Len(active)
      BY <1>9 DEF ScanReady, ScanNotReady, NoEventLost, ScanPositionLinked
    <3> QED
      BY <3>1, CursorPosition
  <2> QED
    BY <1>9, <2>1 DEF ScanReady, ScanNotReady
<1>10. CASE InvokeReturn
  <2>1. cur \in Outstanding /\ device[cur] \in Devices
    BY <1>10 DEF InvokeReturn, StackOK, Outstanding
  <2>2. counts[device[cur]] > 0
    BY <2>1, CountPositive
  <2>3. counts[device[cur]] - 1 \in Nat
    BY <2>1, <2>2
  <2> QED
    BY <1>10, <2>1, <2>3 DEF InvokeReturn
<1>11. CASE Grant
  <2>1. Head(pending) \in Waiters /\ Tail(pending) \in Seq(Waiters)
    BY <1>11, TailProperties DEF Grant, DrainCondition
  <2>2. device[cur] \in Devices
    BY <1>11 DEF Grant, StackOK
  <2> QED
    BY <1>11, <2>1, <2>2 DEF Grant
<1>12. CASE GrantReturn
  BY <1>12 DEF GrantReturn
<1>13. CASE DrainDoneHead
  BY <1>13 DEF DrainDoneHead
<1>14. CASE DrainDoneScan
  <2>1. InScanInvoke
    BY <1>14 DEF DrainDoneScan, InScanInvoke
  <2>2. IsInjective(active) /\ cursor \in ToSet(active) /\ Position(active, cursor) < Len(active)
    BY <2>1 DEF NoEventLost, ScanPositionLinked
  <2>3. Position(active, cursor) + 1 \in 1 .. Len(active)
    BY <2>2, CursorPosition
  <2>4. RemoveAt(active, Position(active, cursor) + 1) \in Seq(Events)
    BY <2>3, RemoveAtProperties
  <2> QED
    BY <1>14, <2>4 DEF DrainDoneScan
<1>15. ASSUME NEW e \in Events, Complete(e)
       PROVE  TypeOK'
  BY <1>15 DEF Complete
<1> QED
  BY <1>1, <1>2, <1>3, <1>4, <1>5, <1>6, <1>7, <1>8, <1>9, <1>10, <1>11,
     <1>12, <1>13, <1>14, <1>15
  DEF Next, ClientStep, ThreadStep

(* The node behind the scan's position, when the scan polls it. *)
LEMMA ScanNext ==
  ASSUME IInv, pc = "scan", Position(active, cursor) < Len(active)
  PROVE  LET next == active[Position(active, cursor) + 1] IN
           /\ next \in Events
           /\ next \in ToSet(active)
           /\ device[next] # NoDevice
           /\ next \notin invoked
           /\ cursor \in Events
<1> DEFINE next == active[Position(active, cursor) + 1]
<1>1. cursor \in ToSet(active) /\ IsInjective(active) /\ TypeOK
  BY DEF IInv, ScanPositionLinked, NoEventLost
<1>2. next \in Events /\ next \in ToSet(active)
  BY <1>1, CursorPosition
<1> HIDE DEF next
<1>3. ~InScanInvoke
  BY DEF InScanInvoke
<1>4. \A e \in ToSet(active) : e \in Events /\ device[e] # NoDevice /\ e \notin invoked
  BY <1>3 DEF IInv, NoEventLost
<1> QED
  BY <1>1, <1>2, <1>4 DEF next

(* The head of the list, when the loop polls it. *)
LEMMA RunHead ==
  ASSUME IInv, pc = "run", active # <<>>
  PROVE  /\ Head(active) \in Events
         /\ Head(active) \in ToSet(active)
         /\ device[Head(active)] # NoDevice
         /\ Head(active) \notin invoked
<1>1. Head(active) \in Events /\ Head(active) \in ToSet(active)
  BY TailProperties DEF IInv, TypeOK
<1>2. ~InScanInvoke
  BY DEF InScanInvoke
<1>3. \A e \in ToSet(active) : device[e] # NoDevice /\ e \notin invoked
  BY <1>2 DEF IInv, NoEventLost
<1> QED
  BY <1>1, <1>3

LEMMA StackStep == IInv /\ Next => StackOK'
<1> SUFFICES ASSUME IInv, Next
             PROVE  StackOK'
  OBVIOUS
<1>0. TypeOK /\ StackOK
  BY DEF IInv
<1> USE DEF StackOK
<1>1. ASSUME NEW e \in Events, NEW d \in Devices, ScheduleEvent(e, d)
      PROVE  StackOK'
  BY <1>0, <1>1 DEF ScheduleEvent, TypeOK, Devices, NoDevice
<1>2. CASE ClientStep /\ UNCHANGED device
  BY <1>0, <1>2 DEF ClientStep, ScheduleEvent, AwaitDeviceReady, AwaitDevicePending, TypeOK,
     Devices, NoDevice
<1>3. CASE Run \/ RunReturn
  BY <1>0, <1>3 DEF Run, RunReturn
<1>4. CASE PollHeadReady
  BY <1>0, <1>4 DEF PollHeadReady
<1>5. CASE PollHeadNotReady \/ ScanEnd \/ ScanNotReady
  BY <1>0, <1>5 DEF PollHeadNotReady, ScanEnd, ScanNotReady
<1>6. CASE ScanReady
  BY <1>0, <1>6 DEF ScanReady
<1>7. CASE InvokeReturn \/ GrantReturn
  BY <1>0, <1>7 DEF InvokeReturn, GrantReturn
<1>8. CASE Grant
  <2>1. Head(pending) \in asked
    BY <1>0, <1>8, TailProperties DEF Grant, DrainCondition, IInv, NoWaiterLost, TypeOK
  <2> QED
    BY <1>0, <1>8, <2>1 DEF Grant, TypeOK
<1>9. CASE DrainDoneHead \/ DrainDoneScan
  BY <1>0, <1>9 DEF DrainDoneHead, DrainDoneScan
<1>10. ASSUME NEW e \in Events, Complete(e)
      PROVE  StackOK'
  BY <1>0, <1>10 DEF Complete
<1>11. ClientStep => UNCHANGED device \/ \E e \in Events, d \in Devices : ScheduleEvent(e, d)
  BY DEF ClientStep, AwaitDeviceReady, AwaitDevicePending
<1> QED
  BY <1>1, <1>2, <1>3, <1>4, <1>5, <1>6, <1>7, <1>8, <1>9, <1>10, <1>11 DEF Next, ThreadStep

(***************************************************************************)
(* The active list keeps holding every scheduled event that has not been   *)
(* invoked, once.                                                          *)
(***************************************************************************)
LEMMA NoEventLostStep == IInv /\ Next => NoEventLost'
<1> SUFFICES ASSUME IInv, Next
             PROVE  NoEventLost'
  OBVIOUS
<1> DEFINE Left == {e \in Events : device[e] # NoDevice /\ e \notin invoked}
<1>0. /\ TypeOK
      /\ StackOK
      /\ active \in Seq(Events)
      /\ IsInjective(active)
      /\ ToSet(active) = Left \cup (IF InScanInvoke THEN {cur} ELSE {})
  BY DEF IInv, NoEventLost, TypeOK
<1>1. ASSUME NEW e \in Events, NEW d \in Devices, ScheduleEvent(e, d)
      PROVE  NoEventLost'
  <2>1. e \notin ToSet(active) /\ e \notin invoked
    BY <1>0, <1>1 DEF ScheduleEvent, StackOK, InScanInvoke
  <2>2. IsInjective(active') /\ ToSet(active') = ToSet(active) \cup {e}
    <3>1. IsInjective(Cons(e, active)) /\ ToSet(Cons(e, active)) = ToSet(active) \cup {e}
      <4>1. active \in Seq(Events) /\ IsInjective(active) /\ e \notin ToSet(active)
        BY <1>0, <2>1
      <4> QED
        BY <4>1, ConsProperties
    <3> QED
      BY <1>1, <3>1 DEF ScheduleEvent
  <2>3. Left' = Left \cup {e} /\ InScanInvoke' = InScanInvoke /\ cur' = cur
    BY <1>0, <1>1, <2>1 DEF ScheduleEvent, TypeOK, InScanInvoke, Devices, NoDevice
  <2> QED
    BY <1>0, <2>2, <2>3 DEF NoEventLost
<1>2. CASE UNCHANGED <<active, device, invoked, cur>> /\ InScanInvoke' = InScanInvoke
  BY <1>0, <1>2 DEF NoEventLost
<1>3. CASE PollHeadReady
  <2>1. ~InScanInvoke /\ ~InScanInvoke'
    BY <1>0, <1>3 DEF PollHeadReady, StackOK, InScanInvoke
  <2>2. IsInjective(active') /\ ToSet(active') = ToSet(active) \ {Head(active)}
    BY <1>0, <1>3, TailProperties DEF PollHeadReady
  <2>3. Left' = Left \ {Head(active)}
    BY <1>3 DEF PollHeadReady
  <2> QED
    BY <1>0, <2>1, <2>2, <2>3 DEF NoEventLost
<1>4. CASE ScanReady
  <2> DEFINE next == active[Position(active, cursor) + 1]
  <2>1. next \in Left /\ cursor \in Events
    BY <1>4, ScanNext DEF ScanReady
  <2>2. ~InScanInvoke /\ InScanInvoke' /\ cur' = next
    BY <1>4, <2>1, SchedulerAssumption DEF ScanReady, InScanInvoke
  <2>3. UNCHANGED active /\ Left' = Left \ {next}
    BY <1>4 DEF ScanReady
  <2> HIDE DEF next
  <2> QED
    BY <1>0, <2>1, <2>2, <2>3 DEF NoEventLost
<1>5. CASE DrainDoneHead
  <2>1. ~InScanInvoke /\ ~InScanInvoke'
    BY <1>5 DEF DrainDoneHead, InScanInvoke
  <2> QED
    BY <1>0, <1>5, <2>1 DEF DrainDoneHead, NoEventLost
<1>6. CASE DrainDoneScan
  <2>1. InScanInvoke /\ ~InScanInvoke'
    BY <1>6 DEF DrainDoneScan, InScanInvoke
  <2>2. /\ cursor \in ToSet(active)
        /\ Position(active, cursor) < Len(active)
        /\ active[Position(active, cursor) + 1] = cur
    BY <2>1 DEF IInv, ScanPositionLinked
  <2>3. Position(active, cursor) + 1 \in 1 .. Len(active)
    BY <1>0, <2>2, CursorPosition
  <2>4. IsInjective(active') /\ ToSet(active') = ToSet(active) \ {cur}
    BY <1>0, <1>6, <2>2, <2>3, RemoveAtProperties DEF DrainDoneScan
  <2>5. cur \in invoked /\ UNCHANGED <<device, invoked>>
    BY <1>0, <1>6 DEF DrainDoneScan, StackOK
  <2> QED
    BY <1>0, <2>1, <2>4, <2>5 DEF NoEventLost
<1>7. UNCHANGED device /\ ClientStep
        => UNCHANGED <<active, device, invoked, cur>> /\ InScanInvoke' = InScanInvoke
  BY <1>0 DEF ClientStep, ScheduleEvent, AwaitDeviceReady, AwaitDevicePending, InScanInvoke,
     TypeOK, Devices, NoDevice
<1>8. Run \/ RunReturn \/ PollHeadNotReady \/ ScanEnd \/ ScanNotReady
        => UNCHANGED <<active, device, invoked, cur>> /\ InScanInvoke' = InScanInvoke
  BY DEF Run, RunReturn, PollHeadNotReady, ScanEnd, ScanNotReady, InScanInvoke
<1>9. InvokeReturn \/ Grant \/ GrantReturn \/ (\E e \in Events : Complete(e))
        => UNCHANGED <<active, device, invoked, cur>> /\ InScanInvoke' = InScanInvoke
  BY DEF InvokeReturn, Grant, GrantReturn, Complete, InScanInvoke
<1>10. ClientStep => UNCHANGED device \/ \E e \in Events, d \in Devices : ScheduleEvent(e, d)
  BY DEF ClientStep, AwaitDeviceReady, AwaitDevicePending
<1> QED
  BY <1>1, <1>2, <1>3, <1>4, <1>5, <1>6, <1>7, <1>8, <1>9, <1>10 DEF Next, ThreadStep

(***************************************************************************)
(* The scan's position stays linked, and the event it invokes stays behind *)
(* it: what client code schedules goes in front of both.                   *)
(***************************************************************************)
LEMMA ScanPositionStep == IInv /\ Next => ScanPositionLinked'
<1> SUFFICES ASSUME IInv, Next
             PROVE  ScanPositionLinked'
  OBVIOUS
<1>0. /\ TypeOK
      /\ StackOK
      /\ active \in Seq(Events)
      /\ IsInjective(active)
      /\ ScanPositionLinked
  BY DEF IInv, NoEventLost, TypeOK
<1>1. ASSUME NEW e \in Events, NEW d \in Devices, ScheduleEvent(e, d)
      PROVE  ScanPositionLinked'
  <2>1. pc # "scan" /\ pc' = pc /\ InScanInvoke' = InScanInvoke /\ UNCHANGED <<cur, cursor>>
    BY <1>1 DEF ScheduleEvent, InClient, InScanInvoke
  <2>2. ASSUME InScanInvoke
        PROVE  /\ cursor \in ToSet(active')
               /\ Position(active', cursor) < Len(active')
               /\ active'[Position(active', cursor) + 1] = cur
    <3> DEFINE p == Position(active, cursor)
    <3>1. cursor \in ToSet(active) /\ p < Len(active) /\ active[p + 1] = cur
      BY <1>0, <2>2 DEF ScanPositionLinked
    <3>2. p \in 1 .. Len(active) /\ active[p] = cursor /\ p + 1 \in 1 .. Len(active)
      BY <1>0, <3>1, CursorPosition
    <3> HIDE DEF p
    <3>3. e \notin ToSet(active)
      BY <1>0, <1>1 DEF ScheduleEvent, IInv, NoEventLost, StackOK, InScanInvoke
    <3>4. /\ active' \in Seq(Events)
          /\ IsInjective(active')
          /\ Len(active') = Len(active) + 1
          /\ \A i \in 1 .. Len(active) : active'[i + 1] = active[i]
          /\ cursor \in ToSet(active')
      <4>1. /\ Cons(e, active) \in Seq(Events)
            /\ IsInjective(Cons(e, active))
            /\ Len(Cons(e, active)) = Len(active) + 1
            /\ \A i \in 1 .. Len(active) : Cons(e, active)[i + 1] = active[i]
            /\ ToSet(Cons(e, active)) = ToSet(active) \cup {e}
        <5>1. active \in Seq(Events) /\ IsInjective(active) /\ e \notin ToSet(active)
          BY <1>0, <3>3
        <5>2. IsInjective(Cons(e, active))
          BY <5>1, ConsProperties
        <5>3. /\ Cons(e, active) \in Seq(Events)
              /\ Len(Cons(e, active)) = Len(active) + 1
              /\ ToSet(Cons(e, active)) = ToSet(active) \cup {e}
          BY <5>1, ConsProperties
        <5>4. \A i \in 1 .. Len(active) : Cons(e, active)[i + 1] = active[i]
          BY <5>1, ConsProperties
        <5> QED
          BY <5>2, <5>3, <5>4
      <4> QED
        BY <1>1, <3>1, <4>1 DEF ScheduleEvent
    <3>5. active'[p + 1] = cursor /\ active'[p + 1 + 1] = cur
      BY <3>1, <3>2, <3>4
    <3>6. p + 1 \in 1 .. Len(active')
      BY <1>0, <3>2, <3>4, LenProperties
    <3>7. Position(active', cursor) = p + 1
      BY <3>4, <3>5, <3>6, PositionProperties
    <3> QED
      BY <1>0, <3>1, <3>2, <3>4, <3>5, <3>7, LenProperties
  <2> QED
    BY <2>1, <2>2 DEF ScanPositionLinked
<1>2. CASE UNCHANGED <<active, pc, cur, cursor>>
  BY <1>0, <1>2 DEF ScanPositionLinked, InScanInvoke
<1>3. CASE InvokeReturn \/ Grant \/ GrantReturn
  <2>1. UNCHANGED <<active, cur, cursor>> /\ InScanInvoke' = InScanInvoke /\ pc' # "scan"
    BY <1>3 DEF InvokeReturn, Grant, GrantReturn, InScanInvoke
  <2> QED
    BY <1>0, <2>1 DEF ScanPositionLinked
<1>4. CASE Run \/ RunReturn \/ ScanEnd \/ DrainDoneHead
  <2>1. pc' \in {"run", "outside"}
    BY <1>4 DEF Run, RunReturn, ScanEnd, DrainDoneHead
  <2> QED
    BY <2>1 DEF ScanPositionLinked, InScanInvoke
<1>5. CASE PollHeadReady
  <2>1. pc' # "scan" /\ cursor' = NoEvent
    BY <1>0, <1>5 DEF PollHeadReady, StackOK
  <2> QED
    BY <2>1 DEF ScanPositionLinked, InScanInvoke
<1>6. CASE PollHeadNotReady
  <2>1. Head(active) \in ToSet(active)
    BY <1>0, <1>6, TailProperties DEF PollHeadNotReady
  <2> QED
    BY <1>6, <2>1 DEF PollHeadNotReady, ScanPositionLinked, InScanInvoke
<1>7. CASE ScanReady
  BY <1>0, <1>7 DEF ScanReady, ScanPositionLinked, InScanInvoke
<1>8. CASE ScanNotReady
  <2>1. active[Position(active, cursor) + 1] \in ToSet(active)
    BY <1>8, ScanNext DEF ScanNotReady
  <2> QED
    BY <1>8, <2>1 DEF ScanNotReady, ScanPositionLinked, InScanInvoke
<1>9. CASE DrainDoneScan
  <2> DEFINE p == Position(active, cursor)
  <2>1. InScanInvoke
    BY <1>9 DEF DrainDoneScan, InScanInvoke
  <2>2. cursor \in ToSet(active) /\ p < Len(active) /\ active[p + 1] = cur
    BY <1>0, <2>1 DEF ScanPositionLinked
  <2>3. p + 1 \in 1 .. Len(active) /\ cur # cursor
    BY <1>0, <2>2, CursorPosition
  <2>4. cursor \in ToSet(RemoveAt(active, p + 1))
    BY <1>0, <2>2, <2>3, RemoveAtProperties
  <2> QED
    BY <1>9, <2>4 DEF DrainDoneScan, ScanPositionLinked, InScanInvoke
<1>10. ClientStep =>
         \/ UNCHANGED <<active, pc, cur, cursor>>
         \/ \E e \in Events, d \in Devices : ScheduleEvent(e, d)
  BY DEF ClientStep, AwaitDeviceReady, AwaitDevicePending
<1>11. (\E e \in Events : Complete(e)) => UNCHANGED <<active, pc, cur, cursor>>
  BY DEF Complete
<1> QED
  BY <1>1, <1>2, <1>3, <1>4, <1>5, <1>6, <1>7, <1>8, <1>9, <1>10, <1>11 DEF Next, ThreadStep

(***************************************************************************)
(* The counts keep matching the outstanding events: an event enters both   *)
(* when it is scheduled and leaves both when its invoke() has returned.    *)
(***************************************************************************)
LEMMA CountsStep == IInv /\ Next => CountsMatchEvents'
<1> SUFFICES ASSUME IInv, Next
             PROVE  CountsMatchEvents'
  OBVIOUS
<1> DEFINE On(d) == {e \in Outstanding : device[e] = d}
<1>0. TypeOK /\ StackOK /\ (\A d \in Devices : counts[d] = Cardinality(On(d)))
  BY DEF IInv, CountsMatchEvents
<1>1. \A d \in Devices : IsFiniteSet(On(d)) /\ Cardinality(On(d)) \in Nat
  BY SchedulerAssumption, FS_Subset, FS_CardinalityType DEF Outstanding
<1>2. ASSUME NEW e \in Events, NEW d \in Devices, ScheduleEvent(e, d)
      PROVE  CountsMatchEvents'
  <2>1. e \notin Outstanding /\ e \notin invoked /\ device[e] = NoDevice
    BY <1>0, <1>2 DEF ScheduleEvent, StackOK, Outstanding
  <2>2. /\ device' = [device EXCEPT ![e] = d]
        /\ counts' = [counts EXCEPT ![d] = @ + 1]
        /\ UNCHANGED <<invoked, pc, cur>>
    BY <1>2 DEF ScheduleEvent
  <2>3. Outstanding' = Outstanding \cup {e}
    BY <1>0, <2>1, <2>2 DEF Outstanding, TypeOK, Devices, NoDevice
  <2>4. ASSUME NEW o \in Devices
        PROVE  counts'[o] = Cardinality(On(o)')
    <3>1. CASE o = d
      <4>1. On(o)' = On(o) \cup {e} /\ e \notin On(o)
        BY <1>0, <2>1, <2>2, <2>3, <3>1 DEF TypeOK, Outstanding
      <4>2. Cardinality(On(o) \cup {e}) = Cardinality(On(o)) + 1
        BY <1>1, <4>1, FS_AddElement
      <4> QED
        BY <1>0, <2>2, <3>1, <4>1, <4>2 DEF TypeOK
    <3>2. CASE o # d
      <4>1. On(o)' = On(o)
        BY <1>0, <2>1, <2>2, <2>3, <3>2 DEF TypeOK, Outstanding
      <4> QED
        BY <1>0, <2>2, <3>2, <4>1 DEF TypeOK
    <3> QED
      BY <3>1, <3>2
  <2> QED
    BY <2>4 DEF CountsMatchEvents
<1>3. CASE UNCHANGED <<counts, device>> /\ Outstanding' = Outstanding
  BY <1>0, <1>3 DEF CountsMatchEvents
<1>4. CASE PollHeadReady
  <2>1. Head(active) \in Events /\ device[Head(active)] # NoDevice /\ Head(active) \notin invoked
    BY <1>4, RunHead DEF PollHeadReady
  <2>2. Outstanding' = Outstanding
    BY <1>4, <2>1 DEF PollHeadReady, Outstanding
  <2> QED
    BY <1>3, <1>4, <2>2 DEF PollHeadReady
<1>5. CASE ScanReady
  <2> DEFINE next == active[Position(active, cursor) + 1]
  <2>1. next \in Events /\ device[next] # NoDevice /\ next \notin invoked
    BY <1>5, ScanNext DEF ScanReady
  <2>2. pc = "scan" /\ pc' = "invoke" /\ cur' = next /\ invoked' = invoked \cup {next}
        /\ UNCHANGED <<counts, device>>
    BY <1>5 DEF ScanReady
  <2> HIDE DEF next
  <2>3. Outstanding' = Outstanding
    BY <2>1, <2>2 DEF Outstanding
  <2> QED
    BY <1>3, <2>2, <2>3
<1>6. CASE InvokeReturn
  <2>1. /\ cur \in Outstanding
        /\ cur \in invoked
        /\ device[cur] \in Devices
        /\ counts' = [counts EXCEPT ![device[cur]] = @ - 1]
        /\ UNCHANGED <<device, invoked, cur>>
        /\ pc = "invoke"
        /\ pc' = "drain"
    BY <1>0, <1>6 DEF InvokeReturn, StackOK, TypeOK, Outstanding
  <2>2. Outstanding' = Outstanding \ {cur}
    BY <2>1 DEF Outstanding
  <2>3. ASSUME NEW o \in Devices
        PROVE  counts'[o] = Cardinality(On(o)')
    <3>1. CASE o = device[cur]
      <4>1. On(o)' = On(o) \ {cur} /\ cur \in On(o)
        BY <2>1, <2>2, <3>1
      <4>2. Cardinality(On(o) \ {cur}) = Cardinality(On(o)) - 1
        BY <1>1, <4>1, FS_RemoveElement
      <4> QED
        BY <1>0, <2>1, <3>1, <4>1, <4>2 DEF TypeOK
    <3>2. CASE o # device[cur]
      <4>1. On(o)' = On(o)
        BY <2>1, <2>2, <3>2
      <4> QED
        BY <1>0, <2>1, <3>2, <4>1 DEF TypeOK
    <3> QED
      BY <3>1, <3>2
  <2> QED
    BY <2>3 DEF CountsMatchEvents
<1>7. ClientStep =>
        \/ UNCHANGED <<counts, device>> /\ Outstanding' = Outstanding
        \/ \E e \in Events, d \in Devices : ScheduleEvent(e, d)
  BY DEF ClientStep, AwaitDeviceReady, AwaitDevicePending, Outstanding
<1>8. Run \/ RunReturn \/ PollHeadNotReady \/ ScanEnd \/ ScanNotReady
        => UNCHANGED <<counts, device>> /\ Outstanding' = Outstanding
  BY DEF Run, RunReturn, PollHeadNotReady, ScanEnd, ScanNotReady, Outstanding
<1>9. Grant \/ GrantReturn \/ DrainDoneHead \/ DrainDoneScan \/ (\E e \in Events : Complete(e))
        => UNCHANGED <<counts, device>> /\ Outstanding' = Outstanding
  BY DEF Grant, GrantReturn, DrainDoneHead, DrainDoneScan, Complete, Outstanding
<1> QED
  BY <1>2, <1>3, <1>4, <1>5, <1>6, <1>7, <1>8, <1>9 DEF Next, ThreadStep

(***************************************************************************)
(* A waiter is queued only when every device is at its target, and the     *)
(* device whose count drops below it is drained before the next poll.      *)
(***************************************************************************)
LEMMA SaturatedStep == IInv /\ Next => Saturated'
<1> SUFFICES ASSUME IInv, Next
             PROVE  Saturated'
  OBVIOUS
<1>0. /\ TypeOK
      /\ StackOK
      /\ Saturated
      /\ TargetMaxActive \in Nat
  BY SchedulerAssumption DEF IInv
<1>1. ASSUME NEW e \in Events, NEW d \in Devices, ScheduleEvent(e, d)
      PROVE  Saturated'
  <2>1. \A o \in Devices : counts'[o] >= counts[o]
    BY <1>0, <1>1 DEF ScheduleEvent, TypeOK
  <2>2. Draining => cur # e
    BY <1>0, <1>1 DEF ScheduleEvent, StackOK, Draining
  <2>3. UNCHANGED <<pending, pc, cur>> /\ Draining' = Draining
    BY <1>1 DEF ScheduleEvent, Draining
  <2>4. Draining => device'[cur] = device[cur]
    BY <1>0, <1>1, <2>2 DEF ScheduleEvent, TypeOK
  <2>5. \A o \in Devices : counts[o] \in Nat /\ counts'[o] \in Nat
    BY <1>0, TypeStep DEF TypeOK
  <2> QED
    BY <1>0, <2>1, <2>3, <2>4, <2>5 DEF Saturated
<1>2. ASSUME NEW w \in Waiters, NEW d \in Devices, AwaitDeviceReady(w, d)
      PROVE  Saturated'
  BY <1>0, <1>2 DEF AwaitDeviceReady, Saturated, Draining
<1>3. ASSUME NEW w \in Waiters, AwaitDevicePending(w)
      PROVE  Saturated'
  <2>1. PICK d \in Devices : IsBest(d)
    BY <1>0, BestExists DEF TypeOK
  <2>2. counts[d] >= TargetMaxActive
    BY <1>0, <1>3, <2>1 DEF AwaitDevicePending, IsAvailable, TypeOK
  <2>3. \A o \in Devices : counts[o] >= counts[d]
    BY <1>0, <2>1 DEF IsBest, TypeOK
  <2>4. \A o \in Devices : counts[o] >= TargetMaxActive
    BY <1>0, <2>2, <2>3 DEF TypeOK
  <2> QED
    BY <1>3, <2>4 DEF AwaitDevicePending, Saturated
<1>4. CASE Run \/ RunReturn \/ PollHeadNotReady \/ ScanEnd \/ ScanNotReady
  <2>1. UNCHANGED <<pending, counts, device>> /\ ~Draining
    BY <1>4 DEF Run, RunReturn, PollHeadNotReady, ScanEnd, ScanNotReady, Draining
  <2> QED
    BY <1>0, <2>1 DEF Saturated
<1>5. CASE PollHeadReady \/ ScanReady
  <2>1. UNCHANGED <<pending, counts, device>> /\ ~Draining
    BY <1>5 DEF PollHeadReady, ScanReady, Draining
  <2> QED
    BY <1>0, <2>1 DEF Saturated
<1>6. CASE InvokeReturn
  <2>1. ~Draining /\ Draining' /\ UNCHANGED <<pending, device, cur>>
    BY <1>6 DEF InvokeReturn, Draining
  <2>2. \A o \in Devices : o # device[cur] => counts'[o] = counts[o]
    BY <1>0, <1>6 DEF InvokeReturn, TypeOK
  <2> QED
    BY <1>0, <2>1, <2>2 DEF Saturated
<1>7. CASE Grant
  BY <1>0, <1>7 DEF Grant, DrainCondition, Saturated, Draining
<1>8. CASE GrantReturn
  BY <1>0, <1>8 DEF GrantReturn, Saturated, Draining
<1>9. CASE DrainDoneHead \/ DrainDoneScan
  <2>1. UNCHANGED <<pending, counts, device>>
    BY <1>9 DEF DrainDoneHead, DrainDoneScan
  <2>2. pending = <<>> \/ ~(counts[device[cur]] < TargetMaxActive)
    BY <1>9 DEF DrainDoneHead, DrainDoneScan, DrainCondition
  <2>3. counts \in [Devices -> Nat]
    BY <1>0 DEF TypeOK
  <2>4. pending # <<>> => \A d \in Devices : counts[d] >= TargetMaxActive
    BY <1>0, <2>2, <2>3 DEF Saturated
  <2> QED
    BY <2>1, <2>4 DEF Saturated
<1>10. ASSUME NEW e \in Events, Complete(e)
       PROVE  Saturated'
  BY <1>0, <1>10 DEF Complete, Saturated, Draining
<1> QED
  BY <1>1, <1>2, <1>3, <1>4, <1>5, <1>6, <1>7, <1>8, <1>9, <1>10 DEF Next, ClientStep, ThreadStep

(* The pending list keeps holding the coroutines without an answer, once. *)
LEMMA NoWaiterLostStep == IInv /\ Next => NoWaiterLost'
<1> SUFFICES ASSUME IInv, Next
             PROVE  NoWaiterLost'
  OBVIOUS
<1>0. /\ TypeOK
      /\ StackOK
      /\ pending \in Seq(Waiters)
      /\ IsInjective(pending)
      /\ ToSet(pending) = {w \in asked : granted[w] = NoDevice}
  BY DEF IInv, NoWaiterLost, TypeOK
<1>1. ASSUME NEW w \in Waiters, NEW d \in Devices, AwaitDeviceReady(w, d)
      PROVE  NoWaiterLost'
  <2>1. {x \in asked : granted[x] = NoDevice}' = {x \in asked : granted[x] = NoDevice}
    BY <1>0, <1>1 DEF AwaitDeviceReady, TypeOK, Devices, NoDevice
  <2> QED
    BY <1>0, <1>1, <2>1 DEF AwaitDeviceReady, NoWaiterLost
<1>2. ASSUME NEW w \in Waiters, AwaitDevicePending(w)
      PROVE  NoWaiterLost'
  <2>1. pending \in Seq(Waiters) /\ IsInjective(pending) /\ w \notin ToSet(pending)
    BY <1>0, <1>2 DEF AwaitDevicePending
  <2>2. IsInjective(Cons(w, pending)) /\ ToSet(Cons(w, pending)) = ToSet(pending) \cup {w}
    BY <2>1, ConsProperties
  <2>3. granted[w] = NoDevice
    BY <1>0, <1>2 DEF AwaitDevicePending, StackOK
  <2> QED
    BY <1>0, <1>2, <2>2, <2>3 DEF AwaitDevicePending, NoWaiterLost
<1>3. CASE Grant
  <2>1. pending \in Seq(Waiters) /\ pending # <<>> /\ IsInjective(pending)
    BY <1>0, <1>3 DEF Grant, DrainCondition
  <2>2. /\ Head(pending) \in Waiters
        /\ IsInjective(Tail(pending))
        /\ ToSet(Tail(pending)) = ToSet(pending) \ {Head(pending)}
    BY <2>1, TailProperties
  <2>3. device[cur] # NoDevice
    BY <1>0, <1>3 DEF Grant, StackOK
  <2>4. {w \in asked : granted[w] = NoDevice}' = ToSet(pending) \ {Head(pending)}
    BY <1>0, <1>3, <2>2, <2>3 DEF Grant, TypeOK
  <2> QED
    BY <1>3, <2>2, <2>4 DEF Grant, NoWaiterLost
<1>4. CASE UNCHANGED <<pending, asked, granted>>
  BY <1>0, <1>4 DEF NoWaiterLost
<1>5. (\E e \in Events : Complete(e) \/ \E d \in Devices : ScheduleEvent(e, d))
        => UNCHANGED <<pending, asked, granted>>
  BY DEF Complete, ScheduleEvent
<1>6. Run \/ RunReturn \/ PollHeadReady \/ PollHeadNotReady \/ ScanEnd \/ ScanReady \/ ScanNotReady
        => UNCHANGED <<pending, asked, granted>>
  BY DEF Run, RunReturn, PollHeadReady, PollHeadNotReady, ScanEnd, ScanReady, ScanNotReady
<1>7. InvokeReturn \/ GrantReturn \/ DrainDoneHead \/ DrainDoneScan
        => UNCHANGED <<pending, asked, granted>>
  BY DEF InvokeReturn, GrantReturn, DrainDoneHead, DrainDoneScan
<1> QED
  BY <1>1, <1>2, <1>3, <1>4, <1>5, <1>6, <1>7 DEF Next, ClientStep, ThreadStep

(* Every step preserves IInv. *)
LEMMA IInvStep == IInv /\ [Next]_vars => IInv'
<1>1. CASE Next
  BY <1>1, TypeStep, StackStep, NoEventLostStep, NoWaiterLostStep, ScanPositionStep,
     CountsStep, SaturatedStep
  DEF IInv
<1>2. CASE UNCHANGED vars
  <2>1. UNCHANGED <<active, pending, counts, device, complete, invoked, asked, granted, pc, cur, cursor>>
    BY <1>2 DEF vars
  <2>2. UNCHANGED <<TypeOK, StackOK>>
    BY <2>1 DEF TypeOK, StackOK
  <2>3. UNCHANGED <<NoEventLost, NoWaiterLost, ScanPositionLinked>>
    BY <2>1 DEF NoEventLost, NoWaiterLost, ScanPositionLinked, InScanInvoke
  <2>4. UNCHANGED CountsMatchEvents
    <3>1. Outstanding' = Outstanding
      BY <2>1 DEF Outstanding
    <3> QED
      BY <2>1, <3>1 DEF CountsMatchEvents
  <2>5. UNCHANGED Saturated
    BY <2>1 DEF Saturated, Draining
  <2> QED
    BY <2>2, <2>3, <2>4, <2>5 DEF IInv
<1> QED
  BY <1>1, <1>2

(* IInv is an invariant of the scheduler. *)
THEOREM Invariance == Spec => []IInv
BY InitIInv, IInvStep, PTL DEF Spec

-----------------------------------------------------------------------------
(* The properties *)

(* The members of the scheduler keep their types; no count wraps below 0. *)
THEOREM TypeCorrect == Spec => []TypeOK
BY Invariance, PTL DEF IInv

(* The assertion of pending_scheduler::schedule holds whenever it is called. *)
THEOREM AlwaysSaturated == Spec => []Saturated
BY Invariance, PTL DEF IInv

(* active_counts_ is the number of outstanding events of each device. *)
THEOREM CountsCorrect == Spec => []CountsMatchEvents
BY Invariance, PTL DEF IInv

(* No event is dropped from, or duplicated in, the active list. *)
THEOREM EventsKept == Spec => []NoEventLost
BY Invariance, PTL DEF IInv

(* No waiting coroutine is dropped from, or duplicated in, the pending list. *)
THEOREM WaitersKept == Spec => []NoWaiterLost
BY Invariance, PTL DEF IInv

(* The scan unlinks the event that it invoked. *)
THEOREM ScanCorrect == Spec => []ScanPositionLinked
BY Invariance, PTL DEF IInv

(* Without active events the counts are 0, so nobody can be waiting. *)
LEMMA NobodyWaits == IInv => NoStrandedWaiter
<1> SUFFICES ASSUME IInv, active = <<>>, pc \in {"outside", "run"}
             PROVE  pending = <<>>
  BY DEF NoStrandedWaiter
<1>1. ToSet(active) = {}
  BY DEF ToSet
<1>2. Outstanding = {}
  BY <1>1 DEF IInv, NoEventLost, Outstanding, InScanInvoke
<1>3. 0 \in Devices
  BY SchedulerAssumption DEF Devices
<1>4. counts[0] = 0
  <2>1. {e \in Outstanding : device[e] = 0} = {}
    BY <1>2
  <2> QED
    BY <1>3, <2>1, FS_EmptySet DEF IInv, CountsMatchEvents
<1> QED
  BY <1>3, <1>4, SchedulerAssumption DEF IInv, Saturated, Draining

(* When run() returns nobody is waiting for a device. *)
THEOREM NoneStranded == Spec => []NoStrandedWaiter
BY NobodyWaits, Invariance, PTL

(* An event is invoked once, after its computation is complete. *)
THEOREM InvokedOnce == Spec => InvokesOnceWhenComplete
<1>1. ASSUME IInv, [Next]_vars, pc' = "invoke", pc # "invoke"
      PROVE  cur' \in complete \ invoked
  <2>1. PollHeadReady \/ ScanReady
    BY <1>1
    DEF Next, ClientStep, ThreadStep, vars, ScheduleEvent, AwaitDeviceReady, AwaitDevicePending,
        Run, Complete, RunReturn, PollHeadNotReady, ScanEnd, ScanNotReady, InvokeReturn, Grant,
        GrantReturn, DrainDoneHead, DrainDoneScan
  <2>2. CASE PollHeadReady
    BY <1>1, <2>2, RunHead DEF PollHeadReady
  <2>3. CASE ScanReady
    BY <1>1, <2>3, ScanNext DEF ScanReady
  <2> QED
    BY <2>1, <2>2, <2>3
<1>2. IInv /\ [Next]_vars => [pc' = "invoke" /\ pc # "invoke" => cur' \in complete \ invoked]_vars
  BY <1>1
<1> QED
  BY <1>2, Invariance, PTL DEF Spec, InvokesOnceWhenComplete

(***************************************************************************)
(* on_event_done compares no counts, yet the device it hands out is a      *)
(* least loaded one: while anyone waits the others are at the target.      *)
(***************************************************************************)
LEMMA GrantIsLeastLoaded ==
  ASSUME IInv, Grant
  PROVE  /\ Head(pending) \in Waiters
         /\ granted[Head(pending)] = NoDevice
         /\ device[cur] \in Devices
         /\ counts[device[cur]] < TargetMaxActive
         /\ \A o \in Devices : counts[device[cur]] <= counts[o]
<1>1. pending \in Seq(Waiters) /\ pending # <<>> /\ counts[device[cur]] < TargetMaxActive
  BY DEF IInv, TypeOK, Grant, DrainCondition
<1>2. Head(pending) \in Waiters /\ Head(pending) \in ToSet(pending)
  BY <1>1, TailProperties
<1>3. granted[Head(pending)] = NoDevice
  BY <1>2 DEF IInv, NoWaiterLost
<1>4. device[cur] \in Devices
  BY DEF IInv, TypeOK, StackOK, Grant
<1>5. ASSUME NEW o \in Devices
      PROVE  counts[device[cur]] <= counts[o]
  <2>1. counts[o] \in Nat /\ counts[device[cur]] \in Nat /\ TargetMaxActive \in Nat
    BY <1>4, SchedulerAssumption DEF IInv, TypeOK
  <2>2. counts[o] >= TargetMaxActive \/ o = device[cur]
    BY <1>1 DEF IInv, Saturated
  <2> QED
    BY <1>1, <2>1, <2>2
<1> QED
  BY <1>1, <1>2, <1>3, <1>4, <1>5

(* The device get_available_device returns is a least loaded one. *)
LEMMA ReadyIsLeastLoaded ==
  ASSUME IInv, NEW w \in Waiters, NEW d \in Devices, AwaitDeviceReady(w, d)
  PROVE  /\ granted[w] = NoDevice
         /\ w \notin ToSet(pending)
         /\ counts[d] < TargetMaxActive
         /\ \A o \in Devices : counts[d] <= counts[o]
<1>1. granted[w] = NoDevice /\ w \notin ToSet(pending)
  BY DEF IInv, StackOK, NoWaiterLost, AwaitDeviceReady
<1>2. \A o \in Devices : counts[d] \in Nat /\ counts[o] \in Nat
  BY DEF IInv, TypeOK
<1> QED
  BY <1>1, <1>2 DEF AwaitDeviceReady, IsAvailable, IsBest

(* The steps that answer nobody. *)
LEMMA OtherStepsAnswerNobody ==
  Next => \/ Grant
          \/ \E w \in Waiters, d \in Devices : AwaitDeviceReady(w, d)
          \/ UNCHANGED granted
BY DEF Next, ClientStep, ThreadStep, ScheduleEvent, AwaitDevicePending, Run, Complete, RunReturn,
   PollHeadReady, PollHeadNotReady, ScanEnd, ScanReady, ScanNotReady, InvokeReturn, GrantReturn,
   DrainDoneHead, DrainDoneScan

(* Every answer names a device below the target and is final. *)
THEOREM GrantsCorrect == Spec => GrantsLeastLoaded
<1> DEFINE A == \A w \in Waiters : granted'[w] # granted[w] =>
                  /\ granted[w] = NoDevice
                  /\ counts[granted'[w]] < TargetMaxActive
                  /\ \A d \in Devices : counts[granted'[w]] <= counts[d]
<1>1. ASSUME IInv, Next
      PROVE  A
  <2>1. granted \in [Waiters -> Devices \cup {NoDevice}]
    BY <1>1 DEF IInv, TypeOK
  <2>2. CASE Grant
    BY <1>1, <2>1, <2>2, GrantIsLeastLoaded DEF Grant
  <2>3. ASSUME NEW w \in Waiters, NEW d \in Devices, AwaitDeviceReady(w, d)
        PROVE  A
    <3>1. granted' = [granted EXCEPT ![w] = d]
      BY <2>3 DEF AwaitDeviceReady
    <3> QED
      BY <1>1, <2>1, <2>3, <3>1, ReadyIsLeastLoaded
  <2>4. CASE UNCHANGED granted
    BY <2>4
  <2> QED
    BY <1>1, <2>2, <2>3, <2>4, OtherStepsAnswerNobody
<1>2. IInv /\ [Next]_vars => [A]_vars
  BY <1>1
<1> HIDE DEF A
<1>3. Spec => [][A]_vars
  BY <1>2, Invariance, PTL DEF Spec
<1> QED
  BY <1>3 DEF A, GrantsLeastLoaded

-----------------------------------------------------------------------------
(* The scheduler implements the device pool *)

LEMMA PoolInit == Init => Pool!Init
<1> SUFFICES ASSUME Init
             PROVE  Pool!Init
  OBVIOUS
<1>1. ToSet(pending) = {}
  BY DEF Init, ToSet
<1> QED
  BY <1>1 DEF Init, Pool!Init, Pool!Devices, Pool!NoDevice, Devices, NoDevice

LEMMA PoolStep == IInv /\ Next => Pool!Next \/ UNCHANGED Pool!vars
<1> SUFFICES ASSUME IInv, Next
             PROVE  Pool!Next \/ UNCHANGED Pool!vars
  OBVIOUS
<1>0. /\ TypeOK
      /\ StackOK
      /\ NoWaiterLost
      /\ Saturated
      /\ pending \in Seq(Waiters)
      /\ Pool!Devices = Devices
      /\ Pool!NoDevice = NoDevice
  BY DEF IInv, TypeOK, Pool!Devices, Pool!NoDevice, Devices, NoDevice
<1>1. ASSUME NEW e \in Events, NEW d \in Devices, ScheduleEvent(e, d)
      PROVE  Pool!Start(d)
  BY <1>1 DEF ScheduleEvent, Pool!Start
<1>2. ASSUME NEW w \in Waiters, NEW d \in Devices, AwaitDeviceReady(w, d)
      PROVE  Pool!Answer(w, d)
  <2>1. /\ granted[w] = NoDevice
        /\ w \notin ToSet(pending)
        /\ Pool!HasSlot(d)
        /\ Pool!IsLeastLoaded(d)
    BY <1>0, <1>2, ReadyIsLeastLoaded DEF Pool!HasSlot, Pool!IsLeastLoaded
  <2>2. granted' = [granted EXCEPT ![w] = d] /\ UNCHANGED <<counts, pending>>
    BY <1>2 DEF AwaitDeviceReady
  <2>3. ToSet(pending)' = ToSet(pending) \ {w}
    BY <2>1, <2>2
  <2> QED
    BY <1>0, <2>1, <2>2, <2>3 DEF Pool!Answer
<1>3. ASSUME NEW w \in Waiters, AwaitDevicePending(w)
      PROVE  Pool!Wait(w)
  <2>1. w \notin asked /\ (\A d \in Devices : ~IsAvailable(d))
        /\ pending' = Cons(w, pending) /\ UNCHANGED <<counts, granted>>
    BY <1>3 DEF AwaitDevicePending
  <2>2. w \notin ToSet(pending) /\ granted[w] = NoDevice
    BY <1>0, <2>1 DEF NoWaiterLost, StackOK
  <2>3. ToSet(pending)' = ToSet(pending) \cup {w}
    <3>1. ToSet(Cons(w, pending)) = ToSet(pending) \cup {w}
      BY <1>0, ConsProperties
    <3> QED
      BY <2>1, <3>1
  <2>4. ASSUME NEW d \in Devices
        PROVE  ~Pool!HasSlot(d)
    <3>1. PICK b \in Devices : IsBest(b)
      BY <1>0, BestExists DEF TypeOK
    <3>2. counts[b] \in Nat /\ counts[d] \in Nat /\ TargetMaxActive \in Nat
      BY <1>0, SchedulerAssumption DEF TypeOK
    <3>3. ~(counts[b] < TargetMaxActive) /\ counts[b] <= counts[d]
      BY <2>1, <3>1, <3>2 DEF IsAvailable, IsBest
    <3> QED
      BY <3>2, <3>3 DEF Pool!HasSlot
  <2> QED
    BY <1>0, <2>1, <2>2, <2>3, <2>4 DEF Pool!Wait
<1>4. ASSUME InvokeReturn
      PROVE  \E d \in Devices : Pool!Finish(d)
  <2>1. cur \in Outstanding /\ device[cur] \in Devices
    BY <1>0, <1>4 DEF InvokeReturn, StackOK, TypeOK, Outstanding
  <2>2. counts[device[cur]] > 0
    BY <2>1, CountPositive DEF IInv, TypeOK
  <2>3. ToSet(pending) = {} \/ \A o \in Devices : ~Pool!HasSlot(o)
    <3>1. CASE pending = <<>>
      BY <3>1 DEF ToSet
    <3>2. CASE pending # <<>>
      <4>1. \A o \in Devices : counts[o] \in Nat /\ counts[o] >= TargetMaxActive
        BY <1>0, <1>4, <3>2 DEF InvokeReturn, Saturated, Draining, TypeOK
      <4> QED
        BY <4>1, SchedulerAssumption DEF Pool!HasSlot
    <3> QED
      BY <3>1, <3>2
  <2>4. counts' = [counts EXCEPT ![device[cur]] = @ - 1] /\ UNCHANGED <<pending, granted>>
    BY <1>4 DEF InvokeReturn
  <2>5. Pool!Finish(device[cur])
    BY <1>0, <2>1, <2>2, <2>3, <2>4 DEF Pool!Finish
  <2> QED
    BY <2>1, <2>5
<1>5. ASSUME Grant
      PROVE  \E w \in Waiters, d \in Devices : Pool!Answer(w, d)
  <2> DEFINE w == Head(pending)
             d == device[cur]
  <2>1. /\ w \in Waiters
        /\ d \in Devices
        /\ granted[w] = NoDevice
        /\ Pool!HasSlot(d)
        /\ Pool!IsLeastLoaded(d)
    BY <1>0, <1>5, GrantIsLeastLoaded DEF Pool!HasSlot, Pool!IsLeastLoaded
  <2>2. pending' = Tail(pending) /\ granted' = [granted EXCEPT ![w] = d] /\ UNCHANGED counts
    BY <1>5 DEF Grant
  <2>3. ToSet(pending)' = ToSet(pending) \ {w}
    <3>1. pending # <<>> /\ IsInjective(pending)
      BY <1>0, <1>5 DEF Grant, DrainCondition, NoWaiterLost
    <3>2. ToSet(Tail(pending)) = ToSet(pending) \ {Head(pending)}
      BY <1>0, <3>1, TailProperties
    <3> QED
      BY <2>2, <3>2
  <2> HIDE DEF w, d
  <2>4. Pool!Answer(w, d)
    BY <1>0, <2>1, <2>2, <2>3 DEF Pool!Answer
  <2> QED
    BY <2>1, <2>4
<1>6. Run \/ RunReturn \/ PollHeadReady \/ PollHeadNotReady \/ ScanEnd \/ ScanReady \/ ScanNotReady
        => UNCHANGED <<counts, pending, granted>>
  BY DEF Run, RunReturn, PollHeadReady, PollHeadNotReady, ScanEnd, ScanReady, ScanNotReady
<1>7. GrantReturn \/ DrainDoneHead \/ DrainDoneScan \/ (\E e \in Events : Complete(e))
        => UNCHANGED <<counts, pending, granted>>
  BY DEF GrantReturn, DrainDoneHead, DrainDoneScan, Complete
<1>8. UNCHANGED <<counts, pending, granted>> => UNCHANGED Pool!vars
  BY DEF Pool!vars
<1> QED
  BY <1>0, <1>1, <1>2, <1>3, <1>4, <1>5, <1>6, <1>7, <1>8
  DEF Next, ClientStep, ThreadStep, Pool!Next

(* Every behaviour of the scheduler is, fairness aside, one of the pool. *)
THEOREM Refinement == Spec => StepsOfPool
<1>1. IInv /\ [Next]_vars => [Pool!Next]_(Pool!vars)
  <2>1. UNCHANGED vars => UNCHANGED Pool!vars
    BY DEF vars, Pool!vars
  <2> QED
    BY <2>1, PoolStep
<1> QED
  BY <1>1, PoolInit, Invariance, PTL DEF Spec, StepsOfPool

-----------------------------------------------------------------------------
(***************************************************************************)
(* The loops of ConcurrentForEach                                          *)
(***************************************************************************)
-----------------------------------------------------------------------------
(* Their inductive invariant *)

Places == {"idle", "ask", "asked", "launch", "join", "joining", "returned"}

(* A loop that asks, launches or waits for a chunk is at one of its chunks. *)
LoopsOK ==
  /\ loop \in [Loops -> [at : Places, k : Nat]]
  /\ \A l \in Loops :
       loop[l].at \in {"ask", "asked", "launch", "joining"} => loop[l].k \in Chunks
  /\ done \subseteq LoopWaiters

(***************************************************************************)
(* One coroutine at a time runs, and where the thread is says which: the   *)
(* chunk whose event is invoked or the loop that it resumes, a loop that   *)
(* is granted a device, or one that the backend starts.                    *)
(***************************************************************************)
RunningOK ==
  /\ running = Nothing \/ (\E l \in Loops : running = TheLoop(l)) \/ running \in LoopWaiters
  /\ \A l \in Loops : loop[l].at \in {"ask", "launch", "join"} <=> running = TheLoop(l)
  /\ pc \in {"run", "scan", "drain"} => running = Nothing
  /\ running \in LoopWaiters => pc = "invoke" /\ running = TheChunk(cur[1], cur[2])
  /\ pc = "invoke" => \A l \in Loops : loop[l].at \notin {"ask", "launch"}

(* A loop about to launch has a device, which is still below its target. *)
GrantOK ==
  \A l \in Loops : loop[l].at = "launch" =>
    LET d == granted[<<l, loop[l].k>>] IN d \in Devices /\ counts[d] < TargetMaxActive

(* The event that is being retired is what a device has above its target. *)
BoundOK ==
  /\ NotOversubscribed
  /\ running \in LoopWaiters => counts[device[cur]] <= TargetMaxActive

SuspendedOn(l, at, c) == loop[l].at = at /\ loop[l].k = c

(* The waiters without an answer are those that the loops are suspended on. *)
WaitersOK ==
  \A l \in Loops, c \in Chunks :
    (<<l, c>> \in asked /\ granted[<<l, c>>] = NoDevice) <=> SuspendedOn(l, "asked", c)

Launched(l, c) == device[<<l, c, 1>>] # NoDevice

(* Chunks are launched in order, and all of them before the loop joins. *)
LaunchedOK ==
  \A l \in Loops, c \in Chunks :
    \/ loop[l].at \in {"idle", "returned"}
    \/ loop[l].at \in {"ask", "asked", "launch"} /\ c >= loop[l].k
    \/ Launched(l, c)

(* A loop waits only for a chunk that has not returned. *)
JoiningOK ==
  \A l \in Loops, c \in Chunks : SuspendedOn(l, "joining", c) => <<l, c>> \notin done

EventWaits(l, c, s) == device[<<l, c, s>>] # NoDevice /\ <<l, c, s>> \notin invoked

(* A chunk that has not returned is running or waits for an event. *)
ChunksAlive ==
  \A l \in Loops, c \in Chunks :
    Launched(l, c) =>
      \/ <<l, c>> \in done
      \/ running = <<l, c>>
      \/ \E s \in 1 .. NumSteps : EventWaits(l, c, s)

(***************************************************************************)
(* A chunk waits for one event at most, and for none while it runs or when *)
(* it has returned.                                                        *)
(***************************************************************************)
OneEvent(l, c) ==
  /\ \A s \in 1 .. NumSteps : EventWaits(l, c, s) =>
       /\ Launched(l, c)
       /\ <<l, c>> \notin done
       /\ running # <<l, c>>
       /\ \A t \in 1 .. NumSteps : EventWaits(l, c, t) => t = s
  /\ <<l, c>> \in done \/ running = <<l, c>> => Launched(l, c)
  /\ ~(<<l, c>> \in done /\ running = <<l, c>>)

EventsOK == \A l \in Loops, c \in Chunks : OneEvent(l, c)

FInv ==
  /\ IInv
  /\ LoopsOK
  /\ RunningOK
  /\ GrantOK
  /\ BoundOK
  /\ WaitersOK
  /\ LaunchedOK
  /\ JoiningOK
  /\ ChunksAlive
  /\ EventsOK

-----------------------------------------------------------------------------
(* Who is running *)

(* A loop, a chunk and nothing are told apart. *)
LEMMA RunningNames ==
  /\ \A l, m : TheLoop(l) = TheLoop(m) => l = m
  /\ \A l : TheLoop(l) # Nothing
  /\ \A l, m, c : TheLoop(l) # TheChunk(m, c)
  /\ \A l, c : TheChunk(l, c) # Nothing
  /\ \A l, m, c, d : TheChunk(l, c) = TheChunk(m, d) => l = m /\ c = d
  /\ \A l \in Loops, c \in Chunks : TheChunk(l, c) \in LoopWaiters
  /\ \A w \in LoopWaiters : w[1] \in Loops /\ w[2] \in Chunks /\ w = TheChunk(w[1], w[2])
  /\ Nothing \notin LoopWaiters
  /\ \A l : TheLoop(l) \notin LoopWaiters
<1>1. \A l : TheLoop(l)[1] = l /\ Len(TheLoop(l)) = 1
  BY DEF TheLoop
<1>2. \A l, c : TheChunk(l, c)[1] = l /\ TheChunk(l, c)[2] = c /\ Len(TheChunk(l, c)) = 2
  BY DEF TheChunk
<1>3. Len(Nothing) = 0
  BY DEF Nothing
<1>4. \A l \in Loops, c \in Chunks : TheChunk(l, c) \in LoopWaiters
  BY DEF TheChunk, LoopWaiters
<1>5. \A w \in LoopWaiters : w[1] \in Loops /\ w[2] \in Chunks /\ w = TheChunk(w[1], w[2])
  BY DEF TheChunk, LoopWaiters
<1>6. \A l, m : TheLoop(l) = TheLoop(m) => l = m
  BY <1>1
<1>7. /\ \A l : TheLoop(l) # Nothing
      /\ \A l, m, c : TheLoop(l) # TheChunk(m, c)
      /\ \A l, c : TheChunk(l, c) # Nothing
  BY <1>1, <1>2, <1>3
<1>8. \A l, m, c, d : TheChunk(l, c) = TheChunk(m, d) => l = m /\ c = d
  BY <1>2
<1> QED
  BY <1>4, <1>5, <1>6, <1>7, <1>8

(* Events and chunks of the loops. *)
LEMMA EventNames ==
  /\ \A l \in Loops, c \in Chunks, s \in 1 .. NumSteps : <<l, c, s>> \in Events
  /\ \A e \in Events : /\ e[1] \in Loops /\ e[2] \in Chunks /\ e[3] \in 1 .. NumSteps
                       /\ e = <<e[1], e[2], e[3]>>
  /\ \A l, c, s, m, d, t : <<l, c, s>> = <<m, d, t>> => l = m /\ c = d /\ s = t
BY ConcurrentForEachAssumption DEF LoopEvents

-----------------------------------------------------------------------------
(* The loops use the scheduler as it allows *)

(* The computation behind the running chunk has been invoked. *)
LEMMA RunningChunk ==
  ASSUME FInv, NEW l \in Loops, NEW c \in Chunks, running = TheChunk(l, c)
  PROVE  /\ pc = "invoke"
         /\ cur \in Events
         /\ cur \in invoked
         /\ cur = <<l, c, cur[3]>>
         /\ cur[3] \in 1 .. NumSteps
         /\ device[cur] \in Devices
<1>1. pc = "invoke" /\ TheChunk(l, c) = TheChunk(cur[1], cur[2])
  BY RunningNames DEF FInv, RunningOK
<1>2. cur \in invoked /\ cur \in Events /\ device[cur] \in Devices
  BY <1>1 DEF FInv, IInv, StackOK, TypeOK
<1>3. cur[1] = l /\ cur[2] = c
  BY <1>1, RunningNames
<1> QED
  BY <1>1, <1>2, <1>3, EventNames

(* A loop that is running is at one of its chunks. *)
LEMMA RunningLoop ==
  ASSUME FInv, NEW l \in Loops, NEW at, RunningAt(l, at), at \in {"ask", "launch"}
  PROVE  /\ loop[l].k \in Chunks
         /\ pc \in {"outside", "grant"}
         /\ <<l, loop[l].k>> \in Waiters
         /\ <<l, loop[l].k, 1>> \in Events
<1>1. loop[l].k \in Chunks
  BY DEF FInv, LoopsOK, RunningAt
<1>2. pc \notin {"run", "scan", "drain", "invoke"}
  BY RunningNames DEF FInv, RunningOK, RunningAt
<1>3. <<l, loop[l].k>> \in Waiters
  BY <1>1, ConcurrentForEachAssumption DEF LoopWaiters
<1>4. 1 \in 1 .. NumSteps
  BY ConcurrentForEachAssumption
<1> QED
  BY <1>1, <1>2, <1>3, <1>4, EventNames DEF FInv, IInv, TypeOK, Locations

(* A step of the loops, the backend or the GPU is one of the scheduler. *)
LEMMA StepOfScheduler == FInv /\ ForEachNext => [Next]_vars
<1> SUFFICES ASSUME FInv, ForEachNext
             PROVE  [Next]_vars
  OBVIOUS
<1>1. ASSUME NEW l \in Loops, StartLoop(l) \/ JoinReady(l) \/ JoinPending(l) \/ Return(l)
      PROVE  UNCHANGED vars
  BY <1>1 DEF StartLoop, JoinReady, JoinPending, Return
<1>2. ASSUME NEW l \in Loops, AskReady(l)
      PROVE  ClientStep
  <2>1. <<l, loop[l].k>> \in Waiters
    BY <1>2, RunningLoop DEF AskReady
  <2> QED
    BY <1>2, <2>1 DEF AskReady, ClientStep
<1>3. ASSUME NEW l \in Loops, AskPending(l)
      PROVE  ClientStep
  <2>1. <<l, loop[l].k>> \in Waiters
    BY <1>3, RunningLoop DEF AskPending
  <2> QED
    BY <1>3, <2>1 DEF AskPending, ClientStep
<1>4. ASSUME NEW l \in Loops, Launch(l)
      PROVE  ClientStep
  <2>1. <<l, loop[l].k, 1>> \in Events
    BY <1>4, RunningLoop DEF Launch
  <2>2. granted[<<l, loop[l].k>>] \in Devices
    BY <1>4 DEF Launch, RunningAt, FInv, GrantOK
  <2>3. ScheduleEvent(<<l, loop[l].k, 1>>, granted[<<l, loop[l].k>>])
    BY <1>4 DEF Launch
  <2> QED
    BY <2>1, <2>2, <2>3 DEF ClientStep
<1>5. ASSUME NEW l \in Loops, NEW c \in Chunks, ChunkGoesOn(l, c)
      PROVE  ClientStep
  <2>1. device[cur] \in Devices /\ cur[3] \in 1 .. NumSteps
    BY <1>5, RunningChunk DEF ChunkGoesOn
  <2>2. cur[3] + 1 \in 1 .. NumSteps
    BY <1>5, <2>1, ConcurrentForEachAssumption DEF ChunkGoesOn
  <2>3. ScheduleEvent(<<l, c, cur[3] + 1>>, device[cur])
    BY <1>5 DEF ChunkGoesOn
  <2> QED
    BY <2>1, <2>2, <2>3, EventNames DEF ClientStep
<1>6. ASSUME NEW l \in Loops, NEW c \in Chunks, ChunkReturns(l, c)
      PROVE  UNCHANGED vars
  BY <1>6 DEF ChunkReturns
<1>7. InvokeChunk \/ GrantToLoop \/ SchedulerGoesOn => ThreadStep
  BY DEF InvokeChunk, GrantToLoop, SchedulerGoesOn, ThreadStep
<1>8. BackendRun => Run
  BY DEF BackendRun
<1>9. GpuCompletes => \E e \in Events : Complete(e)
  BY DEF GpuCompletes
<1> QED
  BY <1>1, <1>2, <1>3, <1>4, <1>5, <1>6, <1>7, <1>8, <1>9
  DEF ForEachNext, ForEachStep, LoopStep, Next

-----------------------------------------------------------------------------
(* Each part of the invariant is preserved *)

(* The scheduler's part of the invariant, which the other parts can use. *)
LEMMA SchedulerStep == FInv /\ ForEachNext => IInv'
BY StepOfScheduler, IInvStep DEF FInv

(* The waiter that is granted a device is one that a loop is suspended on. *)
LEMMA GrantedLoop ==
  ASSUME FInv, Grant
  PROVE  LET w == Head(pending) IN
           /\ w \in Waiters
           /\ w[1] \in Loops
           /\ w[2] \in Chunks
           /\ w = <<w[1], w[2]>>
           /\ SuspendedOn(w[1], "asked", w[2])
<1> DEFINE w == Head(pending)
<1>1. pending \in Seq(Waiters) /\ pending # <<>>
  BY DEF FInv, IInv, TypeOK, Grant, DrainCondition
<1>2. w \in Waiters /\ w \in ToSet(pending)
  BY <1>1, TailProperties
<1>3. w \in asked /\ granted[w] = NoDevice
  BY <1>2 DEF FInv, IInv, NoWaiterLost
<1> HIDE DEF w
<1>4. w[1] \in Loops /\ w[2] \in Chunks /\ w = <<w[1], w[2]>>
  BY <1>2, RunningNames, ConcurrentForEachAssumption DEF TheChunk
<1>5. SuspendedOn(w[1], "asked", w[2])
  BY <1>3, <1>4 DEF FInv, WaitersOK
<1> QED
  BY <1>2, <1>4, <1>5 DEF w

(* A loop moves only between its places, and only to chunks of its range. *)
LEMMA LoopsStep == FInv /\ ForEachNext => LoopsOK'
<1> SUFFICES ASSUME FInv, ForEachNext
             PROVE  LoopsOK'
  OBVIOUS
<1>0. LoopsOK /\ NumChunks \in Nat
  BY ConcurrentForEachAssumption DEF FInv
<1> USE DEF GoTo, LoopsOK, Places, Chunks
<1>1. ASSUME NEW l \in Loops, StartLoop(l)
      PROVE  LoopsOK'
  BY <1>0, <1>1 DEF StartLoop
<1>2. ASSUME NEW l \in Loops, AskReady(l) \/ AskPending(l)
      PROVE  LoopsOK'
  BY <1>0, <1>2 DEF AskReady, AskPending, RunningAt
<1>3. ASSUME NEW l \in Loops, Launch(l)
      PROVE  LoopsOK'
  BY <1>0, <1>3 DEF Launch, RunningAt
<1>4. ASSUME NEW l \in Loops, JoinReady(l) \/ JoinPending(l) \/ Return(l)
      PROVE  LoopsOK'
  BY <1>0, <1>4 DEF JoinReady, JoinPending, Return, RunningAt
<1>5. ASSUME NEW l \in Loops, NEW c \in Chunks, ChunkGoesOn(l, c)
      PROVE  LoopsOK'
  BY <1>0, <1>5 DEF ChunkGoesOn
<1>6. ASSUME NEW l \in Loops, NEW c \in Chunks, ChunkReturns(l, c)
      PROVE  LoopsOK'
  <2>1. done' \subseteq LoopWaiters
    BY <1>0, <1>6, RunningNames DEF ChunkReturns
  <2>2. loop' = loop \/ loop' = [loop EXCEPT ![l] = [at |-> "join", k |-> c + 1]]
    BY <1>6 DEF ChunkReturns
  <2> QED
    BY <1>0, <2>1, <2>2
<1>7. CASE GrantToLoop
  <2>1. Head(pending)[1] \in Loops /\ Head(pending)[2] \in Chunks
    BY <1>7, GrantedLoop DEF GrantToLoop
  <2>2. /\ loop' = [loop EXCEPT ![Head(pending)[1]] = [at |-> "launch", k |-> Head(pending)[2]]]
        /\ UNCHANGED done
    BY <1>7 DEF GrantToLoop
  <2> QED
    BY <1>0, <2>1, <2>2
<1>8. CASE BackendRun \/ InvokeChunk \/ SchedulerGoesOn \/ GpuCompletes
  BY <1>0, <1>8 DEF BackendRun, InvokeChunk, SchedulerGoesOn, GpuCompletes, loopVars
<1> QED
  BY <1>1, <1>2, <1>3, <1>4, <1>5, <1>6, <1>7, <1>8 DEF ForEachNext, ForEachStep, LoopStep

(* Every step leaves the thread in the coroutine that RunningOK says. *)
LEMMA RunningStep == FInv /\ ForEachNext => RunningOK'
<1> SUFFICES ASSUME FInv, ForEachNext
             PROVE  RunningOK'
  OBVIOUS
<1>0. LoopsOK /\ RunningOK /\ IInv'
  BY SchedulerStep DEF FInv
<1> USE DEF GoTo, LoopsOK, RunningOK
<1>1. ASSUME NEW l \in Loops, StartLoop(l)
      PROVE  RunningOK'
  <2>1. pc = "outside" /\ pc' = pc /\ running = Nothing /\ running' = TheLoop(l)
    BY <1>1 DEF StartLoop, vars
  <2>2. loop' = [loop EXCEPT ![l] = [at |-> IF NumChunks = 0 THEN "join" ELSE "ask", k |-> 0]]
    BY <1>1 DEF StartLoop
  <2> QED
    BY <1>0, <2>1, <2>2, RunningNames
<1>2. ASSUME NEW l \in Loops, AskReady(l) \/ AskPending(l)
      PROVE  RunningOK'
  <2>1. pc \in {"outside", "grant"} /\ pc' = pc /\ running = TheLoop(l)
    BY <1>2, RunningLoop
    DEF AskReady, AskPending, AwaitDeviceReady, AwaitDevicePending, RunningAt
  <2>2. \/ /\ running' = running
           /\ loop' = [loop EXCEPT ![l] = [at |-> "launch", k |-> loop[l].k]]
        \/ /\ running' = Nothing
           /\ loop' = [loop EXCEPT ![l] = [at |-> "asked", k |-> loop[l].k]]
    BY <1>2 DEF AskReady, AskPending
  <2> QED
    BY <1>0, <2>1, <2>2, RunningNames
<1>3. ASSUME NEW l \in Loops, Launch(l)
      PROVE  RunningOK'
  <2>1. pc \in {"outside", "grant"} /\ pc' = pc /\ running = TheLoop(l) /\ running' = running
    BY <1>3, RunningLoop DEF Launch, ScheduleEvent, RunningAt
  <2>2. \/ loop' = [loop EXCEPT ![l] = [at |-> "join", k |-> 0]]
        \/ loop' = [loop EXCEPT ![l] = [at |-> "ask", k |-> loop[l].k + 1]]
    BY <1>3 DEF Launch
  <2> QED
    BY <1>0, <2>1, <2>2, RunningNames
<1>4. ASSUME NEW l \in Loops, JoinReady(l) \/ JoinPending(l) \/ Return(l)
      PROVE  RunningOK'
  <2>1. pc' = pc /\ cur' = cur /\ running = TheLoop(l)
    BY <1>4 DEF JoinReady, JoinPending, Return, RunningAt, vars
  <2>2. \/ /\ running' = running
           /\ loop' = [loop EXCEPT ![l] = [at |-> "join", k |-> loop[l].k + 1]]
        \/ /\ running' = Nothing
           /\ loop' = [loop EXCEPT ![l] = [at |-> "joining", k |-> loop[l].k]]
        \/ /\ running' = Nothing
           /\ loop' = [loop EXCEPT ![l] = [at |-> "returned", k |-> NumChunks]]
    BY <1>4 DEF JoinReady, JoinPending, Return
  <2> QED
    BY <1>0, <2>1, <2>2, RunningNames
<1>5. ASSUME NEW l \in Loops, NEW c \in Chunks, ChunkGoesOn(l, c)
      PROVE  RunningOK'
  <2>1. pc' = pc /\ pc = "invoke" /\ running = TheChunk(l, c) /\ running' = Nothing /\ loop' = loop
    BY <1>5, RunningChunk DEF ChunkGoesOn, ScheduleEvent
  <2> QED
    BY <1>0, <2>1, RunningNames
<1>6. ASSUME NEW l \in Loops, NEW c \in Chunks, ChunkReturns(l, c)
      PROVE  RunningOK'
  <2>1. pc' = pc /\ pc = "invoke" /\ running = TheChunk(l, c)
    BY <1>6, RunningChunk DEF ChunkReturns, vars
  <2>2. \/ /\ running' = TheLoop(l)
           /\ loop' = [loop EXCEPT ![l] = [at |-> "join", k |-> c + 1]]
        \/ running' = Nothing /\ loop' = loop
    BY <1>6 DEF ChunkReturns
  <2> QED
    BY <1>0, <2>1, <2>2, RunningNames
<1>7. CASE GrantToLoop
  <2> DEFINE m == Head(pending)[1]
             c == Head(pending)[2]
  <2>1. m \in Loops /\ pc = "drain" /\ pc' = "grant" /\ running = Nothing
    BY <1>0, <1>7, GrantedLoop DEF GrantToLoop, Grant
  <2>2. running' = TheLoop(m) /\ loop' = [loop EXCEPT ![m] = [at |-> "launch", k |-> c]]
    BY <1>7 DEF GrantToLoop
  <2> HIDE DEF m, c
  <2> QED
    BY <1>0, <2>1, <2>2, RunningNames
<1>8. CASE InvokeChunk
  <2>1. pc' = "invoke" /\ running = Nothing /\ loop' = loop /\ running' = TheChunk(cur'[1], cur'[2])
    BY <1>0, <1>8 DEF InvokeChunk, PollHeadReady, ScanReady
  <2>2. cur' \in Events
    BY <1>0, <2>1 DEF IInv, StackOK, TypeOK
  <2> QED
    BY <1>0, <2>1, <2>2, RunningNames, EventNames
<1>9. CASE SchedulerGoesOn
  <2>1. running = Nothing /\ running' = Nothing /\ loop' = loop
    BY <1>9 DEF SchedulerGoesOn, loopVars
  <2> QED
    BY <1>0, <2>1, RunningNames
<1>10. CASE BackendRun \/ GpuCompletes
  <2>1. /\ loop' = loop /\ running' = running /\ cur' = cur
        /\ running = Nothing \/ pc' = pc
    BY <1>10 DEF BackendRun, GpuCompletes, Run, Complete, loopVars
  <2> QED
    BY <1>0, <2>1, RunningNames
<1> QED
  BY <1>1, <1>2, <1>3, <1>4, <1>5, <1>6, <1>7, <1>8, <1>9, <1>10
  DEF ForEachNext, ForEachStep, LoopStep

(* A loop is handed a device below its target, and nothing is launched in
   between: only the coroutine that runs can launch. *)
LEMMA GrantStep == FInv /\ ForEachNext => GrantOK'
<1> SUFFICES ASSUME FInv, ForEachNext
             PROVE  GrantOK'
  OBVIOUS
<1>0. /\ LoopsOK
      /\ GrantOK
      /\ granted \in [Waiters -> Devices \cup {NoDevice}]
      /\ \A l \in Loops : loop[l].at \in {"ask", "launch", "join"} <=> running = TheLoop(l)
  BY DEF FInv, RunningOK, IInv, TypeOK
<1> USE DEF GoTo, LoopsOK, GrantOK
<1>1. ASSUME NEW l \in Loops, running = TheLoop(l)
      PROVE  \A m \in Loops : m # l => loop[m].at # "launch"
  BY <1>0, <1>1, RunningNames
<1>2. ASSUME \A l \in Loops : running # TheLoop(l)
      PROVE  \A m \in Loops : loop[m].at # "launch"
  BY <1>0, <1>2
<1>3. ASSUME NEW l \in Loops, StartLoop(l) \/ AskPending(l) \/ Launch(l) \/ JoinReady(l)
                                \/ JoinPending(l) \/ Return(l)
      PROVE  GrantOK'
  <2>1. \A m \in Loops : m # l => loop[m].at # "launch"
    BY <1>1, <1>2, <1>3, RunningNames
    DEF StartLoop, AskPending, Launch, JoinReady, JoinPending, Return, RunningAt
  <2>2. \E at, k : at \in Places \ {"launch"} /\ loop' = [loop EXCEPT ![l] = [at |-> at, k |-> k]]
    BY <1>3 DEF StartLoop, AskPending, Launch, JoinReady, JoinPending, Return, Places
  <2>3. \A m \in Loops : loop'[m].at # "launch"
    BY <1>0, <2>1, <2>2
  <2> QED
    BY <2>3
<1>4. ASSUME NEW l \in Loops, AskReady(l)
      PROVE  GrantOK'
  <2>1. \A m \in Loops : m # l => loop[m].at # "launch"
    BY <1>1, <1>4 DEF AskReady, RunningAt
  <2>2. PICK d \in Devices : AwaitDeviceReady(<<l, loop[l].k>>, d)
    BY <1>4 DEF AskReady
  <2>3. <<l, loop[l].k>> \in Waiters
    BY <1>4, RunningLoop DEF AskReady
  <2>4. granted'[<<l, loop[l].k>>] = d /\ counts'[d] < TargetMaxActive
    BY <1>0, <2>2, <2>3 DEF AwaitDeviceReady, IsAvailable
  <2>5. loop' = [loop EXCEPT ![l] = [at |-> "launch", k |-> loop[l].k]]
    BY <1>4 DEF AskReady
  <2>6. loop'[l].k = loop[l].k /\ \A m \in Loops : m # l => loop'[m].at # "launch"
    BY <1>0, <2>1, <2>5
  <2> QED
    BY <2>4, <2>6
<1>5. CASE GrantToLoop
  <2> DEFINE w == Head(pending)
  <2>1. /\ w \in Waiters
        /\ w[1] \in Loops
        /\ w = <<w[1], w[2]>>
        /\ device[cur] \in Devices
        /\ counts[device[cur]] < TargetMaxActive
    BY <1>5, GrantedLoop, GrantIsLeastLoaded DEF GrantToLoop, FInv
  <2>2. running = Nothing
    BY <1>5 DEF GrantToLoop, Grant, FInv, RunningOK
  <2>3. \A m \in Loops : loop[m].at # "launch"
    BY <1>2, <2>2, RunningNames
  <2>4. /\ granted' = [granted EXCEPT ![w] = device[cur]]
        /\ loop' = [loop EXCEPT ![w[1]] = [at |-> "launch", k |-> w[2]]]
        /\ counts' = counts
    BY <1>5 DEF GrantToLoop, Grant
  <2> HIDE DEF w
  <2>5. granted'[w] = device[cur]
    BY <1>0, <2>1, <2>4
  <2>6. loop'[w[1]].k = w[2] /\ \A m \in Loops : m # w[1] => loop'[m].at # "launch"
    BY <1>0, <2>1, <2>3, <2>4
  <2> QED
    BY <2>1, <2>4, <2>5, <2>6
<1>6. ASSUME NEW l \in Loops, NEW c \in Chunks, ChunkGoesOn(l, c) \/ ChunkReturns(l, c)
      PROVE  GrantOK'
  <2>1. running = TheChunk(l, c)
    BY <1>6 DEF ChunkGoesOn, ChunkReturns
  <2>2. \A m \in Loops : loop[m].at # "launch"
    BY <1>2, <2>1, RunningNames
  <2>3. loop' = loop \/ loop' = [loop EXCEPT ![l] = [at |-> "join", k |-> c + 1]]
    BY <1>6 DEF ChunkGoesOn, ChunkReturns
  <2>4. \A m \in Loops : loop'[m].at # "launch"
    BY <1>0, <2>2, <2>3
  <2> QED
    BY <2>4
<1>7. CASE BackendRun \/ InvokeChunk \/ SchedulerGoesOn
  <2>1. running = Nothing /\ loop' = loop
    BY <1>7
    DEF BackendRun, InvokeChunk, SchedulerGoesOn, loopVars, PollHeadReady, ScanReady, FInv, RunningOK
  <2> QED
    BY <1>2, <2>1, RunningNames
<1>8. CASE GpuCompletes
  <2>1. UNCHANGED <<loop, granted, counts>>
    BY <1>8 DEF GpuCompletes, Complete, loopVars
  <2> QED
    BY <1>0, <2>1
<1> QED
  BY <1>3, <1>4, <1>5, <1>6, <1>7, <1>8 DEF ForEachNext, ForEachStep, LoopStep

(* Only a loop with a device below its target and a chunk whose own event is
   being retired launch a computation. *)
LEMMA BoundStep == FInv /\ ForEachNext => BoundOK'
<1> SUFFICES ASSUME FInv, ForEachNext
             PROVE  BoundOK'
  OBVIOUS
<1>0. /\ BoundOK
      /\ IInv'
      /\ TargetMaxActive \in Nat
      /\ counts \in [Devices -> Nat]
      /\ device \in [Events -> Devices \cup {NoDevice}]
  BY SchedulerStep, SchedulerAssumption DEF FInv, IInv, TypeOK
<1> USE DEF BoundOK, NotOversubscribed
<1>1. ASSUME UNCHANGED <<counts, device, cur>>, pc' = pc \/ pc # "invoke",
             running' = running \/ running' \notin LoopWaiters
      PROVE  BoundOK'
  BY <1>0, <1>1
<1>2. ASSUME NEW l \in Loops, StartLoop(l) \/ JoinReady(l) \/ JoinPending(l) \/ Return(l)
      PROVE  BoundOK'
  BY <1>1, <1>2, RunningNames DEF StartLoop, JoinReady, JoinPending, Return, vars
<1>3. ASSUME NEW l \in Loops, AskReady(l) \/ AskPending(l)
      PROVE  BoundOK'
  BY <1>1, <1>3, RunningNames DEF AskReady, AskPending, AwaitDeviceReady, AwaitDevicePending
<1>4. ASSUME NEW l \in Loops, Launch(l)
      PROVE  BoundOK'
  <2> DEFINE d == granted[<<l, loop[l].k>>]
  <2>1. d \in Devices /\ counts[d] < TargetMaxActive
    BY <1>4 DEF Launch, RunningAt, FInv, GrantOK
  <2>2. counts' = [counts EXCEPT ![d] = @ + 1] /\ pc' = pc /\ running' = TheLoop(l)
    BY <1>4 DEF Launch, ScheduleEvent, RunningAt
  <2>3. pc # "invoke"
    BY <1>4, RunningLoop DEF Launch
  <2> HIDE DEF d
  <2>4. \A o \in Devices : counts'[o] <= TargetMaxActive
    BY <1>0, <2>1, <2>2, <2>3
  <2> QED
    BY <1>0, <2>2, <2>3, <2>4, RunningNames
<1>5. ASSUME NEW l \in Loops, NEW c \in Chunks, ChunkGoesOn(l, c)
      PROVE  BoundOK'
  <2> DEFINE d == device[cur]
             e == <<l, c, cur[3] + 1>>
  <2>1. running = TheChunk(l, c) /\ pc = "invoke" /\ d \in Devices /\ cur \in Events
    BY <1>5, RunningChunk DEF ChunkGoesOn
  <2>2. counts[d] <= TargetMaxActive
    BY <1>0, <2>1, RunningNames
  <2>3. /\ counts' = [counts EXCEPT ![d] = @ + 1]
        /\ device' = [device EXCEPT ![e] = d]
        /\ device[e] = NoDevice
        /\ pc' = pc
        /\ cur' = cur
        /\ running' = Nothing
    BY <1>5 DEF ChunkGoesOn, ScheduleEvent
  <2>4. e # cur
    BY <2>1, <2>3 DEF Devices, NoDevice
  <2>5. device'[cur] = d
    BY <1>0, <2>1, <2>3, <2>4
  <2> HIDE DEF d, e
  <2>6. \A o \in Devices : counts'[o] = IF o = d THEN counts[o] + 1 ELSE counts[o]
    BY <1>0, <2>1, <2>3
  <2>7. \A o \in Devices : o # d => counts[o] <= TargetMaxActive
    BY <1>0, <2>1 DEF d
  <2>8. NotOversubscribed'
    BY <1>0, <2>1, <2>2, <2>3, <2>5, <2>6, <2>7
  <2> QED
    BY <2>3, <2>8, RunningNames
<1>6. ASSUME NEW l \in Loops, NEW c \in Chunks, ChunkReturns(l, c)
      PROVE  BoundOK'
  BY <1>1, <1>6, RunningNames DEF ChunkReturns, vars
<1>7. CASE InvokeChunk
  <2>1. pc # "invoke" /\ pc' = "invoke" /\ UNCHANGED <<counts, device>>
    BY <1>7 DEF InvokeChunk, PollHeadReady, ScanReady
  <2>2. \A d \in Devices : counts'[d] <= TargetMaxActive
    BY <1>0, <2>1
  <2>3. device'[cur'] \in Devices
    <3>1. TypeOK' /\ StackOK'
      BY <1>0 DEF IInv
    <3>2. cur' \in Events /\ cur' \in complete'
      BY <2>1, <3>1 DEF StackOK, TypeOK
    <3>3. device'[cur'] # NoDevice
      BY <3>1, <3>2 DEF StackOK
    <3>4. device' \in [Events -> Devices \cup {NoDevice}]
      BY <3>1 DEF TypeOK
    <3>5. device'[cur'] \in Devices \cup {NoDevice}
      BY <3>2, <3>4
    <3> QED
      BY <3>3, <3>5
  <2> QED
    BY <1>0, <2>1, <2>2, <2>3
<1>8. CASE GrantToLoop
  BY <1>1, <1>8, RunningNames DEF GrantToLoop, Grant
<1>9. CASE SchedulerGoesOn
  <2>1. running' = running
    BY <1>9 DEF SchedulerGoesOn, loopVars
  <2>2. CASE InvokeReturn
    <3>1. pc = "invoke" /\ pc' = "drain" /\ counts' = [counts EXCEPT ![device[cur]] = @ - 1]
      BY <2>2 DEF InvokeReturn
    <3>2. device[cur] \in Devices
      BY <3>1 DEF FInv, IInv, StackOK, TypeOK
    <3>3. \A d \in Devices : counts'[d] <= TargetMaxActive
      BY <1>0, <3>1, <3>2
    <3>4. running' = Nothing
      BY <1>9, <2>1 DEF SchedulerGoesOn
    <3> QED
      BY <1>0, <3>1, <3>3, <3>4, RunningNames
  <2>3. CASE RunReturn \/ PollHeadNotReady \/ ScanEnd \/ ScanNotReady \/ GrantReturn
    BY <1>1, <2>1, <2>3 DEF RunReturn, PollHeadNotReady, ScanEnd, ScanNotReady, GrantReturn
  <2>4. CASE DrainDoneHead \/ DrainDoneScan
    <3>1. pc = "drain" /\ pc' \in {"run", "scan"} /\ UNCHANGED <<counts, device>> /\ running' = Nothing
      BY <1>9, <2>1, <2>4 DEF DrainDoneHead, DrainDoneScan, SchedulerGoesOn
    <3> QED
      BY <1>0, <3>1, RunningNames
  <2> QED
    BY <1>9, <2>2, <2>3, <2>4 DEF SchedulerGoesOn
<1>10. CASE BackendRun \/ GpuCompletes
  BY <1>1, <1>10 DEF BackendRun, GpuCompletes, Run, Complete, loopVars
<1> QED
  BY <1>2, <1>3, <1>4, <1>5, <1>6, <1>7, <1>8, <1>9, <1>10 DEF ForEachNext, ForEachStep, LoopStep

(* A waiter is queued when its loop suspends, and answered when it goes on. *)
LEMMA WaitersStep == FInv /\ ForEachNext => WaitersOK'
<1> SUFFICES ASSUME FInv, ForEachNext
             PROVE  WaitersOK'
  OBVIOUS
<1>0. /\ LoopsOK
      /\ RunningOK
      /\ WaitersOK
      /\ granted \in [Waiters -> Devices \cup {NoDevice}]
      /\ \A w \in Waiters : granted[w] # NoDevice => w \in asked
      /\ Waiters = Loops \X Chunks
      /\ NoDevice \notin Devices
  BY ConcurrentForEachAssumption DEF FInv, IInv, TypeOK, StackOK, LoopWaiters, Devices, NoDevice
<1> USE DEF GoTo, LoopsOK, WaitersOK
<1>1. ASSUME UNCHANGED <<asked, granted>>,
             NEW l \in Loops, loop[l].at # "asked",
             NEW at, NEW k, at # "asked", loop' = [loop EXCEPT ![l] = [at |-> at, k |-> k]]
      PROVE  WaitersOK'
  <2>1. loop'[l].at = at /\ \A m \in Loops : m # l => loop'[m] = loop[m]
    BY <1>0, <1>1
  <2>2. \A c \in Chunks : ~SuspendedOn(l, "asked", c) /\ ~SuspendedOn(l, "asked", c)'
    BY <1>1, <2>1 DEF SuspendedOn
  <2>3. \A m \in Loops, c \in Chunks : m # l =>
          (SuspendedOn(m, "asked", c)' <=> SuspendedOn(m, "asked", c))
    BY <2>1 DEF SuspendedOn
  <2> QED
    BY <1>0, <1>1, <2>2, <2>3
<1>2. ASSUME UNCHANGED <<asked, granted, loop>>
      PROVE  WaitersOK'
  BY <1>0, <1>2 DEF SuspendedOn
<1>3. ASSUME NEW l \in Loops, StartLoop(l) \/ Launch(l) \/ JoinReady(l) \/ JoinPending(l) \/ Return(l)
      PROVE  WaitersOK'
  <2>1. UNCHANGED <<asked, granted>> /\ loop[l].at # "asked"
    BY <1>3
    DEF StartLoop, Launch, JoinReady, JoinPending, Return, ScheduleEvent, RunningAt, vars
  <2>2. \E at, k : at # "asked" /\ loop' = [loop EXCEPT ![l] = [at |-> at, k |-> k]]
    BY <1>3 DEF StartLoop, Launch, JoinReady, JoinPending, Return
  <2> QED
    BY <1>1, <2>1, <2>2
<1>4. ASSUME NEW l \in Loops, AskReady(l)
      PROVE  WaitersOK'
  <2>1. PICK d \in Devices : AwaitDeviceReady(<<l, loop[l].k>>, d)
    BY <1>4 DEF AskReady
  <2>2. /\ loop[l].at = "ask"
        /\ loop' = [loop EXCEPT ![l] = [at |-> "launch", k |-> loop[l].k]]
    BY <1>4 DEF AskReady, RunningAt
  <2>3. /\ asked' = asked \cup {<<l, loop[l].k>>}
        /\ granted' = [granted EXCEPT ![<<l, loop[l].k>>] = d]
        /\ <<l, loop[l].k>> \in Waiters
    BY <1>4, <2>1, RunningLoop DEF AwaitDeviceReady, AskReady
  <2>4. loop'[l].at = "launch" /\ \A m \in Loops : m # l => loop'[m] = loop[m]
    BY <1>0, <2>2
  <2>5. \A c \in Chunks : ~SuspendedOn(l, "asked", c) /\ ~SuspendedOn(l, "asked", c)'
    BY <2>2, <2>4 DEF SuspendedOn
  <2>6. granted'[<<l, loop[l].k>>] # NoDevice
    BY <1>0, <2>3
  <2>7. \A m \in Loops, c \in Chunks : <<m, c>> # <<l, loop[l].k>> =>
          granted'[<<m, c>>] = granted[<<m, c>>] /\ (<<m, c>> \in asked' <=> <<m, c>> \in asked)
    BY <1>0, <2>3
  <2>8. \A m \in Loops, c \in Chunks : m # l =>
          (SuspendedOn(m, "asked", c)' <=> SuspendedOn(m, "asked", c))
    BY <2>4 DEF SuspendedOn
  <2>10. ASSUME NEW m \in Loops, NEW c \in Chunks
         PROVE  (<<m, c>> \in asked' /\ granted'[<<m, c>>] = NoDevice) <=> SuspendedOn(m, "asked", c)'
    <3>1. CASE m # l
      BY <1>0, <2>7, <2>8, <3>1
    <3>2. CASE m = l /\ c # loop[l].k
      BY <1>0, <2>5, <2>7, <3>2
    <3>3. CASE m = l /\ c = loop[l].k
      BY <1>0, <2>5, <2>6, <3>3
    <3> QED
      BY <3>1, <3>2, <3>3
  <2> QED
    BY <2>10
<1>5. ASSUME NEW l \in Loops, AskPending(l)
      PROVE  WaitersOK'
  <2>1. /\ loop[l].at = "ask"
        /\ loop' = [loop EXCEPT ![l] = [at |-> "asked", k |-> loop[l].k]]
    BY <1>5 DEF AskPending, RunningAt
  <2>2. /\ asked' = asked \cup {<<l, loop[l].k>>}
        /\ granted' = granted
        /\ <<l, loop[l].k>> \in Waiters
        /\ granted[<<l, loop[l].k>>] = NoDevice
    BY <1>0, <1>5, RunningLoop DEF AwaitDevicePending, AskPending
  <2>3. /\ loop'[l] = [at |-> "asked", k |-> loop[l].k]
        /\ \A m \in Loops : m # l => loop'[m] = loop[m]
    BY <1>0, <2>1
  <2>4. \A c \in Chunks : /\ ~SuspendedOn(l, "asked", c)
                          /\ SuspendedOn(l, "asked", c)' <=> c = loop[l].k
    BY <2>1, <2>3 DEF SuspendedOn
  <2>5. \A m \in Loops, c \in Chunks : <<m, c>> # <<l, loop[l].k>> =>
          (<<m, c>> \in asked' <=> <<m, c>> \in asked)
    BY <2>2
  <2>6. \A m \in Loops, c \in Chunks : m # l =>
          (SuspendedOn(m, "asked", c)' <=> SuspendedOn(m, "asked", c))
    BY <2>3 DEF SuspendedOn
  <2>10. ASSUME NEW m \in Loops, NEW c \in Chunks
         PROVE  (<<m, c>> \in asked' /\ granted'[<<m, c>>] = NoDevice) <=> SuspendedOn(m, "asked", c)'
    <3>1. CASE m # l
      BY <1>0, <2>2, <2>5, <2>6, <3>1
    <3>2. CASE m = l /\ c # loop[l].k
      BY <1>0, <2>2, <2>4, <2>5, <3>2
    <3>3. CASE m = l /\ c = loop[l].k
      BY <1>0, <2>2, <2>4, <3>3
    <3> QED
      BY <3>1, <3>2, <3>3
  <2> QED
    BY <2>10
<1>6. CASE GrantToLoop
  <2>1. PICK l \in Loops, c \in Chunks : Head(pending) = <<l, c>> /\ SuspendedOn(l, "asked", c)
    BY <1>6, GrantedLoop DEF GrantToLoop
  <2>2. device[cur] \in Devices
    BY <1>6, GrantIsLeastLoaded DEF GrantToLoop, FInv
  <2>3. /\ asked' = asked
        /\ granted' = [granted EXCEPT ![<<l, c>>] = device[cur]]
    BY <1>6, <2>1 DEF GrantToLoop, Grant
  <2>4. loop' = [loop EXCEPT ![l] = [at |-> "launch", k |-> c]]
    <3>1. Head(pending)[1] = l /\ Head(pending)[2] = c
      BY <2>1
    <3>2. loop' = [loop EXCEPT ![Head(pending)[1]] = [at |-> "launch", k |-> Head(pending)[2]]]
      BY <1>6 DEF GrantToLoop
    <3> QED
      BY <3>1, <3>2
  <2>5. loop'[l].at = "launch" /\ \A m \in Loops : m # l => loop'[m] = loop[m]
    BY <1>0, <2>4
  <2>6. \A d \in Chunks : /\ SuspendedOn(l, "asked", d) <=> d = c
                          /\ ~SuspendedOn(l, "asked", d)'
    BY <2>1, <2>5 DEF SuspendedOn
  <2>7. granted'[<<l, c>>] # NoDevice
    BY <1>0, <2>2, <2>3
  <2>8. \A m \in Loops, d \in Chunks : <<m, d>> # <<l, c>> =>
          granted'[<<m, d>>] = granted[<<m, d>>]
    BY <1>0, <2>3
  <2>9. \A m \in Loops, d \in Chunks : m # l =>
          (SuspendedOn(m, "asked", d)' <=> SuspendedOn(m, "asked", d))
    BY <2>5 DEF SuspendedOn
  <2>10. asked' = asked
    BY <2>3
  <2> QED
    BY <1>0, <2>6, <2>7, <2>8, <2>9, <2>10
<1>7. ASSUME NEW l \in Loops, NEW c \in Chunks, ChunkReturns(l, c)
      PROVE  WaitersOK'
  <2>1. UNCHANGED <<asked, granted>>
    BY <1>7 DEF ChunkReturns, vars
  <2>2. \/ loop' = loop
        \/ /\ loop[l].at = "joining"
           /\ loop' = [loop EXCEPT ![l] = [at |-> "join", k |-> c + 1]]
    BY <1>7 DEF ChunkReturns
  <2> QED
    BY <1>1, <1>2, <2>1, <2>2
<1>8. ASSUME NEW l \in Loops, NEW c \in Chunks, ChunkGoesOn(l, c)
      PROVE  WaitersOK'
  BY <1>2, <1>8 DEF ChunkGoesOn, ScheduleEvent
<1>9. CASE SchedulerGoesOn
  BY <1>2, <1>9
  DEF SchedulerGoesOn, RunReturn, PollHeadNotReady, ScanEnd, ScanNotReady, InvokeReturn,
      GrantReturn, DrainDoneHead, DrainDoneScan, loopVars
<1>10. CASE BackendRun \/ InvokeChunk \/ GpuCompletes
  BY <1>2, <1>10
  DEF BackendRun, InvokeChunk, GpuCompletes, Run, PollHeadReady, ScanReady, Complete, loopVars
<1> QED
  BY <1>3, <1>4, <1>5, <1>6, <1>7, <1>8, <1>9, <1>10 DEF ForEachNext, ForEachStep, LoopStep

(* An event that was scheduled stays so. *)
LEMMA ScheduledForGood ==
  FInv /\ ForEachNext => \A e \in Events : device[e] # NoDevice => device'[e] = device[e]
<1> SUFFICES ASSUME FInv, ForEachNext, NEW e \in Events, device[e] # NoDevice
             PROVE  device'[e] = device[e]
  OBVIOUS
<1>1. ASSUME NEW f \in Events, NEW d \in Devices, ScheduleEvent(f, d)
      PROVE  device'[e] = device[e]
  <2>1. e # f /\ device' = [device EXCEPT ![f] = d]
    BY <1>1 DEF ScheduleEvent
  <2>2. device \in [Events -> Devices \cup {NoDevice}]
    BY DEF FInv, IInv, TypeOK
  <2> QED
    BY <2>1, <2>2
<1>2. (\E f \in Events, d \in Devices : ScheduleEvent(f, d)) \/ UNCHANGED device
  <2>1. CASE Next
    BY <2>1
    DEF Next, ClientStep, ThreadStep, AwaitDeviceReady, AwaitDevicePending, Run, Complete,
        RunReturn, PollHeadReady, PollHeadNotReady, ScanEnd, ScanReady, ScanNotReady,
        InvokeReturn, Grant, GrantReturn, DrainDoneHead, DrainDoneScan
  <2> QED
    BY <2>1, StepOfScheduler DEF vars
<1> QED
  BY <1>1, <1>2

(* So a chunk that was launched stays so. *)
LEMMA LaunchedForGood ==
  FInv /\ ForEachNext => \A l \in Loops, c \in Chunks : Launched(l, c) => Launched(l, c)'
<1>1. \A l \in Loops, c \in Chunks : <<l, c, 1>> \in Events
  BY EventNames, ConcurrentForEachAssumption
<1> QED
  BY <1>1, ScheduledForGood DEF Launched

(* A loop goes on with the next chunk only after it has launched this one. *)
LEMMA LaunchedStep == FInv /\ ForEachNext => LaunchedOK'
<1> SUFFICES ASSUME FInv, ForEachNext
             PROVE  LaunchedOK'
  OBVIOUS
<1>0. /\ LoopsOK
      /\ LaunchedOK
      /\ \A l \in Loops, c \in Chunks : Launched(l, c) => Launched(l, c)'
      /\ NumChunks \in Nat
  BY LaunchedForGood, ConcurrentForEachAssumption DEF FInv
<1> USE DEF GoTo, LoopsOK, LaunchedOK
<1>1. ASSUME UNCHANGED loop
      PROVE  LaunchedOK'
  BY <1>0, <1>1
<1>2. ASSUME NEW l \in Loops, NEW at, NEW k,
             loop' = [loop EXCEPT ![l] = [at |-> at, k |-> k]],
             \A c \in Chunks :
               \/ at = "returned"
               \/ at \in {"ask", "asked", "launch"} /\ c >= k
               \/ Launched(l, c)'
      PROVE  LaunchedOK'
  <2>1. /\ loop'[l].at = at
        /\ loop'[l].k = k
        /\ \A m \in Loops : m # l => loop'[m] = loop[m]
    BY <1>0, <1>2
  <2> QED
    BY <1>0, <1>2, <2>1
<1>3. ASSUME NEW l \in Loops, StartLoop(l)
      PROVE  LaunchedOK'
  <2>1. loop' = [loop EXCEPT ![l] = [at |-> IF NumChunks = 0 THEN "join" ELSE "ask", k |-> 0]]
    BY <1>3 DEF StartLoop
  <2>2. \A c \in Chunks : NumChunks # 0 /\ c >= 0
    BY <1>0 DEF Chunks
  <2> QED
    BY <1>2, <2>1, <2>2
<1>4. ASSUME NEW l \in Loops, AskReady(l) \/ AskPending(l)
      PROVE  LaunchedOK'
  BY <1>0, <1>2, <1>4 DEF AskReady, AskPending, RunningAt
<1>5. ASSUME NEW l \in Loops, Launch(l)
      PROVE  LaunchedOK'
  <2>1. PICK k \in Chunks : k = loop[l].k /\ loop[l].at = "launch" /\ <<l, k, 1>> \in Events
    BY <1>5, RunningLoop DEF Launch, RunningAt
  <2>2. PICK d \in Devices : d = granted[<<l, k>>]
    BY <1>5, <2>1 DEF Launch, RunningAt, FInv, GrantOK
  <2>3. device' = [device EXCEPT ![<<l, k, 1>>] = d]
    BY <1>5, <2>1, <2>2 DEF Launch, ScheduleEvent
  <2>4. device \in [Events -> Devices \cup {NoDevice}]
    BY DEF FInv, IInv, TypeOK
  <2>5. device'[<<l, k, 1>>] = d
    BY <2>1, <2>3, <2>4
  <2>6. Launched(l, k)'
    BY <2>5 DEF Launched, Devices, NoDevice
  <2>7. \/ k + 1 = NumChunks /\ loop' = [loop EXCEPT ![l] = [at |-> "join", k |-> 0]]
        \/ loop' = [loop EXCEPT ![l] = [at |-> "ask", k |-> k + 1]]
    BY <1>5, <2>1 DEF Launch
  <2>8. \A c \in Chunks : c = k \/ c >= k + 1 \/ Launched(l, c)'
    BY <1>0, <2>1 DEF Chunks
  <2>9. k + 1 = NumChunks => \A c \in Chunks : ~(c >= k + 1)
    BY <1>0 DEF Chunks
  <2>10. CASE k + 1 = NumChunks /\ loop' = [loop EXCEPT ![l] = [at |-> "join", k |-> 0]]
    BY <1>2, <2>6, <2>8, <2>9, <2>10
  <2>11. CASE loop' = [loop EXCEPT ![l] = [at |-> "ask", k |-> k + 1]]
    BY <1>2, <2>6, <2>8, <2>11
  <2> QED
    BY <2>7, <2>10, <2>11
<1>6. ASSUME NEW l \in Loops, JoinReady(l) \/ JoinPending(l) \/ Return(l)
      PROVE  LaunchedOK'
  BY <1>0, <1>2, <1>6 DEF JoinReady, JoinPending, Return, RunningAt
<1>7. ASSUME NEW l \in Loops, NEW c \in Chunks, ChunkReturns(l, c)
      PROVE  LaunchedOK'
  BY <1>0, <1>1, <1>2, <1>7 DEF ChunkReturns
<1>8. CASE GrantToLoop
  <2>1. PICK l \in Loops, c \in Chunks : Head(pending) = <<l, c>> /\ SuspendedOn(l, "asked", c)
    BY <1>8, GrantedLoop DEF GrantToLoop
  <2>2. Head(pending)[1] = l /\ Head(pending)[2] = c
    BY <2>1
  <2>3. loop' = [loop EXCEPT ![Head(pending)[1]] = [at |-> "launch", k |-> Head(pending)[2]]]
    BY <1>8 DEF GrantToLoop
  <2>4. loop' = [loop EXCEPT ![l] = [at |-> "launch", k |-> c]]
    BY <2>2, <2>3
  <2> QED
    BY <1>0, <1>2, <2>1, <2>4 DEF SuspendedOn
<1>9. CASE BackendRun \/ InvokeChunk \/ SchedulerGoesOn \/ GpuCompletes
  BY <1>1, <1>9 DEF BackendRun, InvokeChunk, SchedulerGoesOn, GpuCompletes, loopVars
<1>10. ASSUME NEW l \in Loops, NEW c \in Chunks, ChunkGoesOn(l, c)
       PROVE  LaunchedOK'
  BY <1>1, <1>10 DEF ChunkGoesOn
<1> QED
  BY <1>3, <1>4, <1>5, <1>6, <1>7, <1>8, <1>9, <1>10 DEF ForEachNext, ForEachStep, LoopStep

(* The chunk that makes the awaited future ready also resumes the loop. *)
LEMMA JoiningStep == FInv /\ ForEachNext => JoiningOK'
<1> SUFFICES ASSUME FInv, ForEachNext
             PROVE  JoiningOK'
  OBVIOUS
<1>0. LoopsOK /\ JoiningOK
  BY DEF FInv
<1> USE DEF GoTo, LoopsOK, JoiningOK, SuspendedOn
<1>1. ASSUME UNCHANGED done, NEW l \in Loops, NEW at, NEW k, at # "joining",
             loop' = [loop EXCEPT ![l] = [at |-> at, k |-> k]]
      PROVE  JoiningOK'
  BY <1>0, <1>1
<1>2. ASSUME UNCHANGED <<loop, done>>
      PROVE  JoiningOK'
  BY <1>0, <1>2
<1>3. ASSUME NEW l \in Loops, StartLoop(l) \/ AskReady(l) \/ AskPending(l) \/ Launch(l)
                                \/ JoinReady(l) \/ Return(l)
      PROVE  JoiningOK'
  <2>1. UNCHANGED done
    BY <1>3 DEF StartLoop, AskReady, AskPending, Launch, JoinReady, Return
  <2>2. \E at, k : at # "joining" /\ loop' = [loop EXCEPT ![l] = [at |-> at, k |-> k]]
    BY <1>3 DEF StartLoop, AskReady, AskPending, Launch, JoinReady, Return
  <2> QED
    BY <1>1, <2>1, <2>2
<1>4. ASSUME NEW l \in Loops, JoinPending(l)
      PROVE  JoiningOK'
  <2>1. /\ UNCHANGED done
        /\ <<l, loop[l].k>> \notin done
        /\ loop' = [loop EXCEPT ![l] = [at |-> "joining", k |-> loop[l].k]]
    BY <1>4 DEF JoinPending, TheChunk
  <2> QED
    BY <1>0, <2>1
<1>5. ASSUME NEW l \in Loops, NEW c \in Chunks, ChunkReturns(l, c)
      PROVE  JoiningOK'
  <2>1. done' = done \cup {<<l, c>>}
    BY <1>5 DEF ChunkReturns, TheChunk
  <2>2. ~SuspendedOn(l, "joining", c)'
    <3>1. CASE loop[l] = [at |-> "joining", k |-> c]
      <4>1. loop' = [loop EXCEPT ![l] = [at |-> "join", k |-> c + 1]]
        BY <1>5, <3>1 DEF ChunkReturns
      <4> QED
        BY <1>0, <4>1
    <3>2. CASE loop[l] # [at |-> "joining", k |-> c]
      <4>1. loop' = loop
        BY <1>5, <3>2 DEF ChunkReturns
      <4>2. loop[l] \in [at : Places, k : Nat]
        BY <1>0
      <4> QED
        BY <3>2, <4>1, <4>2
    <3> QED
      BY <3>1, <3>2
  <2>3. \A m \in Loops, d \in Chunks : SuspendedOn(m, "joining", d)' => SuspendedOn(m, "joining", d)
    <3>1. loop' = loop \/ loop' = [loop EXCEPT ![l] = [at |-> "join", k |-> c + 1]]
      BY <1>5 DEF ChunkReturns
    <3> QED
      BY <1>0, <3>1
  <2> HIDE DEF SuspendedOn
  <2> QED
    BY <1>0, <2>1, <2>2, <2>3
<1>6. CASE GrantToLoop
  <2>1. PICK l \in Loops, c \in Chunks : Head(pending) = <<l, c>>
    BY <1>6, GrantedLoop DEF GrantToLoop
  <2>2. Head(pending)[1] = l /\ Head(pending)[2] = c
    BY <2>1
  <2>3. /\ UNCHANGED done
        /\ loop' = [loop EXCEPT ![Head(pending)[1]] = [at |-> "launch", k |-> Head(pending)[2]]]
    BY <1>6 DEF GrantToLoop
  <2> QED
    BY <1>1, <2>2, <2>3
<1>7. CASE BackendRun \/ InvokeChunk \/ SchedulerGoesOn \/ GpuCompletes
  BY <1>2, <1>7 DEF BackendRun, InvokeChunk, SchedulerGoesOn, GpuCompletes, loopVars
<1>8. ASSUME NEW l \in Loops, NEW c \in Chunks, ChunkGoesOn(l, c)
      PROVE  JoiningOK'
  BY <1>2, <1>8 DEF ChunkGoesOn
<1> QED
  BY <1>3, <1>4, <1>5, <1>6, <1>7, <1>8 DEF ForEachNext, ForEachStep, LoopStep

(* Scheduling an event keeps what is said of the other events. *)
LEMMA ScheduledEvent ==
  ASSUME FInv, NEW e \in Events, NEW d \in Devices, ScheduleEvent(e, d)
  PROVE  /\ device'[e] # NoDevice
         /\ e \notin invoked
         /\ UNCHANGED invoked
         /\ \A f \in Events : f # e => device'[f] = device[f]
<1>1. device[e] = NoDevice /\ device' = [device EXCEPT ![e] = d] /\ UNCHANGED invoked
  BY DEF ScheduleEvent
<1>2. device \in [Events -> Devices \cup {NoDevice}] /\ d # NoDevice
  BY DEF FInv, IInv, TypeOK, Devices, NoDevice
<1>3. e \notin invoked
  BY <1>1 DEF FInv, IInv, StackOK
<1> QED
  BY <1>1, <1>2, <1>3

(* A chunk that goes on schedules an event, one that does not has returned. *)
LEMMA AliveStep == FInv /\ ForEachNext => ChunksAlive'
<1> SUFFICES ASSUME FInv, ForEachNext,
                    NEW l \in Loops, NEW c \in Chunks, Launched(l, c)', <<l, c>> \notin done'
             PROVE  running' = <<l, c>> \/ \E s \in 1 .. NumSteps : EventWaits(l, c, s)'
  BY DEF ChunksAlive, EventWaits
<1>0. /\ 1 \in 1 .. NumSteps
      /\ \A s \in 1 .. NumSteps : <<l, c, s>> \in Events
      /\ \A s \in 1 .. NumSteps : device[<<l, c, s>>] # NoDevice => device'[<<l, c, s>>] # NoDevice
  BY EventNames, ScheduledForGood, ConcurrentForEachAssumption
<1>1. ASSUME UNCHANGED invoked, done \subseteq done', Launched(l, c),
             running # <<l, c>>
      PROVE  \E s \in 1 .. NumSteps : EventWaits(l, c, s)'
  BY <1>0, <1>1 DEF FInv, ChunksAlive, EventWaits
<1>2. ASSUME UNCHANGED <<invoked, device, done>>, running' = running \/ running \notin LoopWaiters
      PROVE  running' = <<l, c>> \/ \E s \in 1 .. NumSteps : EventWaits(l, c, s)'
  <2>1. Launched(l, c)
    BY <1>2 DEF Launched
  <2>2. CASE running = <<l, c>>
    BY <1>2, <2>2, RunningNames DEF TheChunk
  <2>3. CASE running # <<l, c>>
    BY <1>1, <1>2, <2>1, <2>3
  <2> QED
    BY <2>2, <2>3
<1>3. ASSUME NEW m \in Loops, Launch(m)
      PROVE  running' = <<l, c>> \/ \E s \in 1 .. NumSteps : EventWaits(l, c, s)'
  <2>1. PICK e \in Events, d \in Devices : ScheduleEvent(e, d) /\ e = <<m, loop[m].k, 1>>
    <3>1. granted[<<m, loop[m].k>>] \in Devices
      BY <1>3 DEF Launch, RunningAt, FInv, GrantOK
    <3> QED
      BY <1>3, <3>1, RunningLoop DEF Launch
  <2>2. CASE e = <<l, c, 1>>
    BY <1>0, <2>1, <2>2, ScheduledEvent DEF EventWaits
  <2>3. CASE e # <<l, c, 1>>
    <3>1. device'[<<l, c, 1>>] = device[<<l, c, 1>>] /\ UNCHANGED invoked
      BY <1>0, <2>1, <2>3, ScheduledEvent
    <3>2. Launched(l, c)
      BY <3>1 DEF Launched
    <3>3. running # <<l, c>> /\ done' = done
      BY <1>3, RunningNames DEF Launch, RunningAt, TheChunk
    <3> QED
      BY <1>1, <3>1, <3>2, <3>3
  <2> QED
    BY <2>2, <2>3
<1>4. ASSUME NEW m \in Loops, NEW b \in Chunks, ChunkGoesOn(m, b)
      PROVE  running' = <<l, c>> \/ \E s \in 1 .. NumSteps : EventWaits(l, c, s)'
  <2>1. PICK t \in 1 .. NumSteps, d \in Devices : ScheduleEvent(<<m, b, t>>, d) /\ t # 1
    <3>1. device[cur] \in Devices /\ cur[3] \in 1 .. NumSteps
      BY <1>4, RunningChunk DEF ChunkGoesOn
    <3>2. cur[3] + 1 \in 1 .. NumSteps /\ cur[3] + 1 # 1
      BY <1>4, <3>1, ConcurrentForEachAssumption DEF ChunkGoesOn
    <3> QED
      BY <1>4, <3>1, <3>2 DEF ChunkGoesOn
  <2>2. <<m, b, t>> \in Events
    BY EventNames
  <2>3. CASE m = l /\ b = c
    BY <2>1, <2>2, <2>3, ScheduledEvent DEF EventWaits
  <2>4. CASE ~(m = l /\ b = c)
    <3>1. <<m, b, t>> # <<l, c, 1>>
      BY <2>4, EventNames
    <3>2. device'[<<l, c, 1>>] = device[<<l, c, 1>>] /\ UNCHANGED invoked
      BY <1>0, <2>1, <2>2, <3>1, ScheduledEvent
    <3>3. Launched(l, c)
      BY <3>2 DEF Launched
    <3>4. running # <<l, c>> /\ done' = done
      BY <1>4, <2>4 DEF ChunkGoesOn, TheChunk
    <3> QED
      BY <1>1, <3>2, <3>3, <3>4
  <2> QED
    BY <2>3, <2>4
<1>5. ASSUME NEW m \in Loops, NEW b \in Chunks, ChunkReturns(m, b)
      PROVE  running' = <<l, c>> \/ \E s \in 1 .. NumSteps : EventWaits(l, c, s)'
  <2>1. /\ done' = done \cup {<<m, b>>}
        /\ running = <<m, b>>
        /\ UNCHANGED <<invoked, device>>
    BY <1>5 DEF ChunkReturns, TheChunk, vars
  <2>2. running # <<l, c>> /\ Launched(l, c)
    BY <2>1 DEF Launched
  <2> QED
    BY <1>1, <2>1, <2>2
<1>6. CASE InvokeChunk
  <2>1. /\ invoked' = invoked \cup {cur'}
        /\ UNCHANGED <<device, done>>
        /\ running' = TheChunk(cur'[1], cur'[2])
        /\ pc \in {"run", "scan"}
    BY <1>6 DEF InvokeChunk, PollHeadReady, ScanReady
  <2>2. running = Nothing /\ Launched(l, c)
    BY <2>1 DEF FInv, RunningOK, Launched
  <2>3. running # <<l, c>>
    BY <2>2, RunningNames DEF TheChunk
  <2>4. PICK s \in 1 .. NumSteps : EventWaits(l, c, s)
    BY <2>1, <2>2, <2>3 DEF FInv, ChunksAlive, EventWaits
  <2>5. CASE cur' = <<l, c, s>>
    BY <2>1, <2>5 DEF TheChunk
  <2>6. CASE cur' # <<l, c, s>>
    BY <2>1, <2>4, <2>6 DEF EventWaits
  <2> QED
    BY <2>5, <2>6
<1>7. ASSUME NEW m \in Loops, StartLoop(m) \/ JoinReady(m) \/ JoinPending(m) \/ Return(m)
                                \/ AskReady(m) \/ AskPending(m)
      PROVE  UNCHANGED <<invoked, device, done>> /\ running \notin LoopWaiters
  BY <1>7, RunningNames
  DEF StartLoop, JoinReady, JoinPending, Return, AskReady, AskPending, AwaitDeviceReady,
      AwaitDevicePending, RunningAt, vars
<1>8. CASE GrantToLoop
  <2>1. UNCHANGED <<invoked, device, done>> /\ running = Nothing
    BY <1>8 DEF GrantToLoop, Grant, FInv, RunningOK
  <2> QED
    BY <1>2, <2>1, RunningNames
<1>9. CASE SchedulerGoesOn
  <2>1. UNCHANGED <<invoked, device, done, running>>
    BY <1>9
    DEF SchedulerGoesOn, RunReturn, PollHeadNotReady, ScanEnd, ScanNotReady, InvokeReturn,
        GrantReturn, DrainDoneHead, DrainDoneScan, loopVars
  <2> QED
    BY <1>2, <2>1
<1>10. CASE BackendRun \/ GpuCompletes
  <2>1. UNCHANGED <<invoked, device, done, running>>
    BY <1>10 DEF BackendRun, GpuCompletes, Run, Complete, loopVars
  <2> QED
    BY <1>2, <2>1
<1> QED
  BY <1>2, <1>3, <1>4, <1>5, <1>6, <1>7, <1>8, <1>9, <1>10 DEF ForEachNext, ForEachStep, LoopStep

(* What is invoked was scheduled and not invoked before. *)
LEMMA InvokedWaits ==
  ASSUME FInv, InvokeChunk
  PROVE  cur' \in Events /\ device[cur'] # NoDevice /\ cur' \notin invoked
<1>1. IInv /\ (PollHeadReady \/ ScanReady)
  BY DEF FInv, InvokeChunk
<1>2. cur' \in complete \ invoked
  <2>1. CASE PollHeadReady
    BY <1>1, <2>1, RunHead DEF PollHeadReady
  <2>2. CASE ScanReady
    BY <1>1, <2>2, ScanNext DEF ScanReady
  <2> QED
    BY <1>1, <2>1, <2>2
<1> QED
  BY <1>1, <1>2 DEF IInv, TypeOK, StackOK

(* A chunk schedules its next event when the one before has been invoked. *)
LEMMA EventsStep == FInv /\ ForEachNext => EventsOK'
<1> SUFFICES ASSUME FInv, ForEachNext, NEW l \in Loops, NEW c \in Chunks
             PROVE  OneEvent(l, c)'
  BY DEF EventsOK
<1>0. /\ OneEvent(l, c)
      /\ \A s \in 1 .. NumSteps : <<l, c, s>> \in Events
      /\ Launched(l, c) => Launched(l, c)'
      /\ running # <<l, c>> \/ running \in LoopWaiters
  BY EventNames, LaunchedForGood, RunningNames DEF FInv, EventsOK, TheChunk
<1>1. ASSUME \A s \in 1 .. NumSteps : EventWaits(l, c, s)' => EventWaits(l, c, s),
             <<l, c>> \in done' => <<l, c>> \in done,
             running' = <<l, c>> => running = <<l, c>>
      PROVE  OneEvent(l, c)'
  BY <1>0, <1>1 DEF OneEvent
<1>2. ASSUME UNCHANGED <<invoked, device, done>>, running' = running \/ running' \notin LoopWaiters
      PROVE  OneEvent(l, c)'
  <2>1. running' = <<l, c>> => running = <<l, c>>
    BY <1>2, RunningNames DEF TheChunk
  <2> QED
    BY <1>1, <1>2, <2>1 DEF EventWaits
<1>3. ASSUME NEW m \in Loops, NEW b \in Chunks, NEW t \in 1 .. NumSteps, NEW d \in Devices,
             ScheduleEvent(<<m, b, t>>, d), UNCHANGED done, running' # <<l, c>>,
             t = 1 \/ running = <<m, b>>
      PROVE  OneEvent(l, c)'
  <2>1. /\ device[<<m, b, t>>] = NoDevice
        /\ device'[<<m, b, t>>] # NoDevice
        /\ UNCHANGED invoked
        /\ \A f \in Events : f # <<m, b, t>> => device'[f] = device[f]
    BY <1>3, EventNames, ScheduledEvent DEF ScheduleEvent
  <2>2. CASE m = l /\ b = c
    <3>1. \A s \in 1 .. NumSteps : ~EventWaits(l, c, s)
      <4>1. CASE t = 1
        BY <1>0, <2>1, <2>2, <4>1 DEF OneEvent, Launched
      <4>2. CASE running = <<m, b>>
        BY <1>0, <2>2, <4>2 DEF OneEvent
      <4> QED
        BY <1>3, <4>1, <4>2
    <3>2. \A s \in 1 .. NumSteps : EventWaits(l, c, s)' => s = t
      <4>1. \A s \in 1 .. NumSteps : s # t => <<l, c, s>> # <<m, b, t>>
        BY EventNames
      <4> QED
        BY <1>0, <2>1, <3>1, <4>1 DEF EventWaits
    <3>3. Launched(l, c)'
      <4>1. CASE t = 1
        BY <2>1, <2>2, <4>1 DEF Launched
      <4>2. CASE running = <<m, b>>
        BY <1>0, <2>2, <4>2 DEF OneEvent
      <4> QED
        BY <1>3, <4>1, <4>2
    <3>4. <<l, c>> \notin done
      <4>1. CASE t = 1
        BY <1>0, <2>1, <2>2, <4>1 DEF OneEvent, Launched
      <4>2. CASE running = <<m, b>>
        BY <1>0, <2>2, <4>2 DEF OneEvent
      <4> QED
        BY <1>3, <4>1, <4>2
    <3> QED
      BY <1>3, <3>2, <3>3, <3>4 DEF OneEvent
  <2>3. CASE ~(m = l /\ b = c)
    <3>1. \A s \in 1 .. NumSteps : <<l, c, s>> # <<m, b, t>>
      BY <2>3, EventNames
    <3>2. \A s \in 1 .. NumSteps : EventWaits(l, c, s)' => EventWaits(l, c, s)
      BY <1>0, <2>1, <3>1 DEF EventWaits
    <3> QED
      BY <1>1, <1>3, <3>2
  <2> QED
    BY <2>2, <2>3
<1>4. ASSUME NEW m \in Loops, Launch(m)
      PROVE  OneEvent(l, c)'
  <2>1. loop[m].k \in Chunks /\ granted[<<m, loop[m].k>>] \in Devices
    BY <1>4, RunningLoop DEF Launch, RunningAt, FInv, GrantOK
  <2>2. ScheduleEvent(<<m, loop[m].k, 1>>, granted[<<m, loop[m].k>>])
    BY <1>4 DEF Launch
  <2>3. UNCHANGED done /\ running' # <<l, c>>
    BY <1>4, RunningNames DEF Launch, RunningAt, TheChunk
  <2>4. 1 \in 1 .. NumSteps
    BY ConcurrentForEachAssumption
  <2> QED
    BY <1>3, <2>1, <2>2, <2>3, <2>4
<1>5. ASSUME NEW m \in Loops, NEW b \in Chunks, ChunkGoesOn(m, b)
      PROVE  OneEvent(l, c)'
  <2>1. device[cur] \in Devices /\ cur[3] + 1 \in 1 .. NumSteps
    <3>1. device[cur] \in Devices /\ cur[3] \in 1 .. NumSteps
      BY <1>5, RunningChunk DEF ChunkGoesOn
    <3> QED
      BY <1>5, <3>1, ConcurrentForEachAssumption DEF ChunkGoesOn
  <2>2. ScheduleEvent(<<m, b, cur[3] + 1>>, device[cur]) /\ UNCHANGED done /\ running = <<m, b>>
    BY <1>5 DEF ChunkGoesOn, TheChunk
  <2>3. running' # <<l, c>>
    BY <1>5, RunningNames DEF ChunkGoesOn, TheChunk
  <2> QED
    BY <1>3, <2>1, <2>2, <2>3
<1>6. ASSUME NEW m \in Loops, NEW b \in Chunks, ChunkReturns(m, b)
      PROVE  OneEvent(l, c)'
  <2>1. /\ done' = done \cup {<<m, b>>}
        /\ running = <<m, b>>
        /\ UNCHANGED <<invoked, device>>
    BY <1>6 DEF ChunkReturns, TheChunk, vars
  <2>2. running' # <<l, c>>
    BY <1>6, RunningNames DEF ChunkReturns, TheChunk
  <2>3. \A s \in 1 .. NumSteps : EventWaits(l, c, s)' <=> EventWaits(l, c, s)
    BY <2>1 DEF EventWaits
  <2>4. CASE running = <<l, c>>
    BY <1>0, <2>2, <2>3, <2>4 DEF OneEvent
  <2>5. CASE running # <<l, c>>
    BY <1>1, <2>1, <2>2, <2>3, <2>5
  <2> QED
    BY <2>4, <2>5
<1>7. CASE InvokeChunk
  <2>1. cur' \in Events /\ device[cur'] # NoDevice /\ cur' \notin invoked
    BY <1>7, InvokedWaits
  <2>2. /\ invoked' = invoked \cup {cur'}
        /\ UNCHANGED <<device, done>>
        /\ running' = TheChunk(cur'[1], cur'[2])
    BY <1>7 DEF InvokeChunk, PollHeadReady, ScanReady
  <2>3. \A s \in 1 .. NumSteps : EventWaits(l, c, s)' => EventWaits(l, c, s)
    BY <2>2 DEF EventWaits
  <2>4. CASE running' = <<l, c>>
    <3>1. PICK s \in 1 .. NumSteps : cur' = <<l, c, s>>
      <4>1. cur'[1] = l /\ cur'[2] = c
        BY <2>2, <2>4, RunningNames DEF TheChunk
      <4> QED
        BY <2>1, <4>1, EventNames
    <3>2. EventWaits(l, c, s) /\ ~EventWaits(l, c, s)'
      BY <2>1, <2>2, <3>1 DEF EventWaits
    <3>3. \A u \in 1 .. NumSteps : ~EventWaits(l, c, u)'
      BY <1>0, <2>3, <3>2 DEF OneEvent
    <3> QED
      BY <1>0, <2>2, <3>2, <3>3 DEF OneEvent
  <2>5. CASE running' # <<l, c>>
    BY <1>1, <2>2, <2>3, <2>5
  <2> QED
    BY <2>4, <2>5
<1>8. ASSUME NEW m \in Loops, StartLoop(m) \/ JoinReady(m) \/ JoinPending(m) \/ Return(m)
                                \/ AskReady(m) \/ AskPending(m)
      PROVE  OneEvent(l, c)'
  <2>1. UNCHANGED <<invoked, device, done>>
    BY <1>8
    DEF StartLoop, JoinReady, JoinPending, Return, AskReady, AskPending, AwaitDeviceReady,
        AwaitDevicePending, vars
  <2>2. running' = running \/ running' = TheLoop(m) \/ running' = Nothing
    BY <1>8 DEF StartLoop, JoinReady, JoinPending, Return, AskReady, AskPending
  <2> QED
    BY <1>2, <2>1, <2>2, RunningNames
<1>9. CASE GrantToLoop
  BY <1>2, <1>9, RunningNames DEF GrantToLoop, Grant
<1>10. CASE SchedulerGoesOn \/ BackendRun \/ GpuCompletes
  BY <1>2, <1>10
  DEF SchedulerGoesOn, RunReturn, PollHeadNotReady, ScanEnd, ScanNotReady, InvokeReturn,
      GrantReturn, DrainDoneHead, DrainDoneScan, BackendRun, GpuCompletes, Run, Complete, loopVars
<1> QED
  BY <1>4, <1>5, <1>6, <1>7, <1>8, <1>9, <1>10 DEF ForEachNext, ForEachStep, LoopStep

-----------------------------------------------------------------------------
(* The theorems *)

(* Before the backend does anything no loop has started. *)
LEMMA FInvInit == ForEachInit => FInv
<1> SUFFICES ASSUME ForEachInit
             PROVE  FInv
  OBVIOUS
<1>1. IInv
  BY InitIInv DEF ForEachInit
<1>2. \A l \in Loops : loop[l].at = "idle" /\ loop[l].k = 0
  BY DEF ForEachInit
<1>3. LoopsOK
  BY DEF ForEachInit, LoopsOK, Places
<1>4. RunningOK
  BY <1>2, RunningNames DEF ForEachInit, Init, RunningOK
<1>5. GrantOK
  BY <1>2 DEF GrantOK
<1>6. BoundOK
  BY RunningNames, SchedulerAssumption DEF ForEachInit, Init, BoundOK, NotOversubscribed
<1>7. WaitersOK
  BY <1>2 DEF ForEachInit, Init, WaitersOK, SuspendedOn
<1>8. LaunchedOK
  BY <1>2 DEF LaunchedOK
<1>9. JoiningOK
  BY <1>2 DEF JoiningOK, SuspendedOn
<1>10. ChunksAlive /\ EventsOK
  <2>1. ASSUME NEW l \in Loops, NEW c \in Chunks
        PROVE  ~Launched(l, c) /\ OneEvent(l, c)
    <3>1. 1 \in 1 .. NumSteps /\ \A s \in 1 .. NumSteps : <<l, c, s>> \in Events
      BY EventNames, ConcurrentForEachAssumption
    <3>2. \A s \in 1 .. NumSteps : ~EventWaits(l, c, s)
      BY <3>1 DEF ForEachInit, Init, EventWaits
    <3>3. running # <<l, c>> /\ <<l, c>> \notin done
      BY RunningNames DEF ForEachInit, TheChunk
    <3> QED
      BY <3>1, <3>2, <3>3 DEF ForEachInit, Init, Launched, OneEvent
  <2> QED
    BY <2>1 DEF ChunksAlive, EventsOK
<1> QED
  BY <1>1, <1>3, <1>4, <1>5, <1>6, <1>7, <1>8, <1>9, <1>10 DEF FInv

(* Every step of the backend, the loops, the thread and the GPU keeps FInv. *)
LEMMA FInvStep == FInv /\ [ForEachNext]_allVars => FInv'
<1>1. ASSUME FInv, ForEachNext
      PROVE  FInv'
  BY <1>1, SchedulerStep, LoopsStep, RunningStep, GrantStep, BoundStep, WaitersStep,
     LaunchedStep, JoiningStep, AliveStep, EventsStep
  DEF FInv
<1>2. ASSUME FInv, UNCHANGED allVars
      PROVE  FInv'
  <2>1. UNCHANGED vars /\ UNCHANGED <<loop, done, running>>
    BY <1>2 DEF allVars, loopVars
  <2>2. IInv'
    BY <1>2, <2>1, IInvStep DEF FInv
  <2>3. UNCHANGED <<counts, device, invoked, asked, granted, pc, cur>>
    BY <2>1 DEF vars
  <2>4. LoopsOK' /\ RunningOK' /\ GrantOK' /\ BoundOK'
    BY <1>2, <2>1, <2>3 DEF FInv, LoopsOK, RunningOK, GrantOK, BoundOK, NotOversubscribed
  <2>5. WaitersOK' /\ LaunchedOK' /\ JoiningOK'
    BY <1>2, <2>1, <2>3 DEF FInv, WaitersOK, LaunchedOK, JoiningOK, Launched, SuspendedOn
  <2>6. ChunksAlive' /\ EventsOK'
    BY <1>2, <2>1, <2>3 DEF FInv, ChunksAlive, EventsOK, OneEvent, Launched, EventWaits
  <2> QED
    BY <2>2, <2>4, <2>5, <2>6 DEF FInv
<1> QED
  BY <1>1, <1>2

(* FInv is an invariant of the loops on top of the scheduler. *)
THEOREM ForEachInvariance == ForEachSpec => []FInv
BY FInvInit, FInvStep, PTL DEF ForEachSpec

(***************************************************************************)
(* No device has more than target_max_active_ computations, however many   *)
(* loops share the scheduler, apart from the one that is being retired.    *)
(***************************************************************************)
THEOREM NeverOversubscribed == ForEachSpec => []NotOversubscribed
BY ForEachInvariance, PTL DEF FInv, BoundOK

(***************************************************************************)
(* When run() returns nothing is left in the scheduler's lists; a loop     *)
(* that has not returned would have something there: its waiter, or an     *)
(* event of the chunk it joins.                                            *)
(***************************************************************************)
LEMMA NoLoopLeft == FInv => RunFinishesLoops
<1> SUFFICES ASSUME FInv, pc = "run", active = <<>>,
                    NEW l \in Loops, loop[l].at \notin {"idle", "returned"}
             PROVE  FALSE
  BY DEF RunFinishesLoops
<1>1. running = Nothing
  BY DEF FInv, RunningOK
<1>2. loop[l].at \in {"asked", "joining"}
  BY <1>1, RunningNames DEF FInv, RunningOK, LoopsOK, Places
<1>3. PICK c \in Chunks : SuspendedOn(l, loop[l].at, c)
  BY <1>2 DEF FInv, LoopsOK, SuspendedOn
<1>4. CASE loop[l].at = "asked"
  <2>1. <<l, c>> \in asked /\ granted[<<l, c>>] = NoDevice
    BY <1>3, <1>4 DEF FInv, WaitersOK
  <2>2. <<l, c>> \in ToSet(pending)
    BY <2>1 DEF FInv, IInv, NoWaiterLost
  <2>3. pending = <<>>
    BY NobodyWaits DEF FInv, NoStrandedWaiter
  <2> QED
    BY <2>2, <2>3 DEF ToSet
<1>5. CASE loop[l].at = "joining"
  <2>1. Launched(l, c) /\ <<l, c>> \notin done
    BY <1>3, <1>5 DEF FInv, LaunchedOK, JoiningOK
  <2>2. running # <<l, c>>
    BY <1>1, RunningNames DEF TheChunk
  <2>3. PICK s \in 1 .. NumSteps : EventWaits(l, c, s)
    BY <2>1, <2>2 DEF FInv, ChunksAlive
  <2>4. <<l, c, s>> \in ToSet(active)
    BY <2>3, EventNames DEF FInv, IInv, NoEventLost, EventWaits
  <2> QED
    BY <2>4 DEF ToSet
<1> QED
  BY <1>2, <1>4, <1>5

(* gpu_backend.cc may read the result as soon as run() has returned. *)
THEOREM RunReturnsWithResults == ForEachSpec => []RunFinishesLoops
BY NoLoopLeft, ForEachInvariance, PTL

(***************************************************************************)
(* The queue of waiters and the list of events agree with what the loops   *)
(* and chunks are suspended on.                                            *)
(***************************************************************************)
LEMMA EachHasOneWaker == FInv => OneWakerEach
<1> SUFFICES ASSUME FInv, NEW l \in Loops, NEW c \in Chunks
             PROVE  /\ LoopAt(l, "asked", c) <=> <<l, c>> \in ToSet(pending)
                    /\ LoopAt(l, "joining", c) => Launched(l, c) /\ <<l, c>> \notin done
                    /\ IF Launched(l, c) /\ <<l, c>> \notin done /\ running # <<l, c>>
                       THEN \E e \in Events : EventsOf(l, c) = {e}
                       ELSE EventsOf(l, c) = {}
  BY DEF OneWakerEach, Launched, TheChunk
<1>1. \A at : LoopAt(l, at, c) <=> SuspendedOn(l, at, c)
  BY DEF LoopAt, SuspendedOn, FInv, LoopsOK
<1>2. LoopAt(l, "asked", c) <=> <<l, c>> \in ToSet(pending)
  BY <1>1 DEF FInv, IInv, WaitersOK, NoWaiterLost
<1>3. LoopAt(l, "joining", c) => Launched(l, c) /\ <<l, c>> \notin done
  BY <1>1 DEF FInv, LaunchedOK, JoiningOK, SuspendedOn
<1>4. \A e : e \in EventsOf(l, c) <=>
               \E s \in 1 .. NumSteps : e = <<l, c, s>> /\ EventWaits(l, c, s)
  <2>1. \A e : e \in ToSet(active) \ invoked <=>
                e \in Events /\ device[e] # NoDevice /\ e \notin invoked
    <3>1. InScanInvoke => cur \in invoked
      BY DEF InScanInvoke, FInv, IInv, StackOK
    <3> QED
      BY <3>1 DEF FInv, IInv, NoEventLost
  <2>2. \A e : e \in EventsOf(l, c) <=>
                 e \in ToSet(active) \ invoked /\ e[1] = l /\ e[2] = c
    BY DEF EventsOf
  <2>3. ASSUME NEW e \in EventsOf(l, c)
        PROVE  \E s \in 1 .. NumSteps : e = <<l, c, s>> /\ EventWaits(l, c, s)
    BY <2>1, <2>2, <2>3, EventNames DEF EventWaits
  <2>4. ASSUME NEW s \in 1 .. NumSteps, EventWaits(l, c, s)
        PROVE  <<l, c, s>> \in EventsOf(l, c)
    BY <2>1, <2>2, <2>4, EventNames DEF EventWaits
  <2> QED
    BY <2>3, <2>4
<1>5. CASE Launched(l, c) /\ <<l, c>> \notin done /\ running # <<l, c>>
  <2>1. PICK s \in 1 .. NumSteps : EventWaits(l, c, s)
    BY <1>5 DEF FInv, ChunksAlive
  <2>2. \A t \in 1 .. NumSteps : EventWaits(l, c, t) => t = s
    BY <2>1 DEF FInv, EventsOK, OneEvent
  <2>3. EventsOf(l, c) = {<<l, c, s>>} /\ <<l, c, s>> \in Events
    BY <1>4, <2>1, <2>2, EventNames
  <2> QED
    BY <1>2, <1>3, <1>5, <2>3
<1>6. CASE ~(Launched(l, c) /\ <<l, c>> \notin done /\ running # <<l, c>>)
  <2>1. \A s \in 1 .. NumSteps : ~EventWaits(l, c, s)
    BY <1>6 DEF FInv, EventsOK, OneEvent
  <2>2. EventsOf(l, c) = {}
    BY <1>4, <2>1
  <2> QED
    BY <1>2, <1>3, <1>6, <2>2
<1> QED
  BY <1>5, <1>6

(***************************************************************************)
(* Every suspended loop or chunk of concurrent_for_each is resumed by one  *)
(* thing: its waiter, its event or the future that it awaits.              *)
(***************************************************************************)
THEOREM OneWakerAlways == ForEachSpec => []OneWakerEach
BY EachHasOneWaker, ForEachInvariance, PTL
=============================================================================
