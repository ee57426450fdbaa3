---------------------------- MODULE PromiseFuture ----------------------------
(***************************************************************************)
(* The promises, futures, continuations and coroutines of                  *)
(* sxt/execution/async.                                                    *)
(*                                                                         *)
(* A promise and its future are two objects that point at each other, and  *)
(* the promise also points at the storage of the result, future_state,     *)
(* which is a member of the future until a continuation takes it over.     *)
(* Both objects may be moved, destroyed or assigned while the result is    *)
(* pending, and every such operation has to repair the pointers of the     *)
(* other side.  Making a promise ready runs its continuation on the spot,  *)
(* nested inside the call, before the object that made it ready is         *)
(* destroyed.                                                              *)
(*                                                                         *)
(* Objects are named by where they live.  Promises and Futures are objects *)
(* held by client code; a task (a continuation on the heap, or a coroutine *)
(* frame) holds a promise for its own result and, embedded, the            *)
(* future_state it consumes (for a coroutine, that of its awaiter), both   *)
(* named by the task.                                                      *)
(*                                                                         *)
(* Clients do what a C++ caller may do with objects it owns.  They obey    *)
(* the asserted preconditions: a promise is made ready once, an object     *)
(* that was moved from is only assigned to or destroyed, a promise is not  *)
(* destroyed while its result is pending, and no coroutine waits for       *)
(* itself.  Whether they obey one condition more, which the code neither   *)
(* asserts nor mentions, is a constant, ResultsLeftAlone.                  *)
(***************************************************************************)
EXTENDS Naturals, Sequences, FiniteSets, SequencesExt, Relation

CONSTANTS
  Promises,  \* client-held promise objects
  Futures,   \* client-held future objects
  Tasks,     \* heap-allocated continuations and coroutine frames
  Results,   \* asynchronous results, each promised once
  Null,      \* the null pointer
  ResultsLeftAlone  \* do clients leave the future of a continuation's result
                    \*   alone while the continuation's function runs?

ASSUME PromiseFutureAssumption ==
  /\ Null \notin Promises \cup Futures \cup Tasks \cup Results
  /\ Promises \cap Tasks = {}
  /\ Futures \cap Tasks = {}

ASSUME ResultsLeftAloneAssumption == ResultsLeftAlone \in BOOLEAN

VARIABLES
  promise,   \* the promise objects: future_, state_, continuation_
  future,    \* the future objects and future_states: promise_, ready_, value_
  task,      \* what is allocated at each task: a leaf_continuation, a
             \* continuation, a coroutine frame, or nothing
  stack,     \* tasks whose run_and_dispose is active, innermost first
  status,    \* history: what has become of each result
  received   \* history: how often each result was handed to a consumer

vars == <<promise, future, task, stack, status, received>>

PromiseAddress == Promises \cup Tasks
FutureAddress == Futures \cup Tasks

(* "result" is history: the result an object is a promise or a future of. *)
NoPromise == [live |-> FALSE, future |-> Null, state |-> Null, cont |-> Null, result |-> Null]
EmptyPromise == [live |-> TRUE, future |-> Null, state |-> Null, cont |-> Null, result |-> Null]
PendingPromise(f, r) == [live |-> TRUE, future |-> f, state |-> f, cont |-> Null, result |-> r]

NoFuture == [live |-> FALSE, promise |-> Null, ready |-> FALSE, value |-> Null, result |-> Null]
PendingFuture(p, r) == [live |-> TRUE, promise |-> p, ready |-> FALSE, value |-> Null, result |-> r]
ReadyFuture(r) == [live |-> TRUE, promise |-> Null, ready |-> TRUE, value |-> r, result |-> r]

Init ==
  /\ promise = [p \in PromiseAddress |-> NoPromise]
  /\ future = [f \in FutureAddress |-> NoFuture]
  /\ task = [t \in Tasks |-> "free"]
  /\ stack = <<>>
  /\ status = [r \in Results |-> "unused"]
  /\ received = [r \in Results |-> 0]

(***************************************************************************)
(* A frame of the stack is in phase                                        *)
(*   start    a coroutine that has not suspended yet; its caller does not  *)
(*            have its future                                              *)
(*   run      client code of a continuation or of a resumed coroutine; a   *)
(*            continuation has taken the address of its result's state     *)
(*            before it called its function, and will write there          *)
(*   dispose  the task has made its own promise ready; it is destroyed     *)
(*            when the continuation of that promise returns                *)
(***************************************************************************)
Phases == {"start", "run", "dispose"}

Frame(t, phase, state) == [task |-> t, phase |-> phase, state |-> state]

InClient == stack # <<>> => Head(stack).phase # "dispose"

Running(t) == stack # <<>> /\ Head(stack).task = t /\ Head(stack).phase # "dispose"

(* A client promise whose result is still to be produced. *)
Promised(p) == promise[p].live /\ promise[p].result # Null /\ status[promise[p].result] = "pending"

(* A future that client code holds and has not moved from. *)
Held(f) ==
  /\ future[f].live
  /\ future[f].result # Null
  /\ \A i \in 1 .. Len(stack) :
       stack[i].phase = "start" \/ (ResultsLeftAlone /\ stack[i].state # Null) =>
         future[f].promise # stack[i].task

-----------------------------------------------------------------------------
(* Construction *)

(* promise<T> p; future<T> f{p}; *)
MakePair(p, f, r) ==
  /\ InClient
  /\ ~promise[p].live /\ ~future[f].live /\ status[r] = "unused"
  /\ promise' = [promise EXCEPT ![p] = PendingPromise(f, r)]
  /\ future' = [future EXCEPT ![f] = PendingFuture(p, r)]
  /\ status' = [status EXCEPT ![r] = "pending"]
  /\ UNCHANGED <<task, stack, received>>

(* make_ready_future *)
MakeReadyFuture(f, r) ==
  /\ InClient
  /\ ~future[f].live /\ status[r] = "unused"
  /\ future' = [future EXCEPT ![f] = ReadyFuture(r)]
  /\ status' = [status EXCEPT ![r] = "ready"]
  /\ UNCHANGED <<promise, task, stack, received>>

-----------------------------------------------------------------------------
(* Moves and destruction *)

(***************************************************************************)
(* Definitions named Bug... are slips one could make in the definition     *)
(* that follows them.  No specification uses them; they show that the      *)
(* properties below would notice.                                          *)
(***************************************************************************)
BugMovePromiseOnly(p, q) ==
  /\ InClient
  /\ Promised(p)
  /\ promise[q] \in {NoPromise, EmptyPromise}
  /\ promise' = [promise EXCEPT ![q] = promise[p], ![p] = EmptyPromise]
  /\ UNCHANGED <<future, task, stack, status, received>>

(***************************************************************************)
(* promise q{std::move(p)}, or q = std::move(p) onto a promise without     *)
(* future, state and continuation.                                         *)
(***************************************************************************)
MovePromise(p, q) ==
  /\ InClient
  /\ Promised(p)
  /\ promise[q] \in {NoPromise, EmptyPromise}
  /\ promise' = [promise EXCEPT ![q] = promise[p], ![p] = EmptyPromise]
  /\ future' = IF promise[p].future = Null
               THEN future
               ELSE [future EXCEPT ![promise[p].future].promise = q]
  /\ UNCHANGED <<task, stack, status, received>>

DestroyPromise(p) ==
  /\ InClient
  /\ promise[p].live /\ ~Promised(p)
  /\ promise' = [promise EXCEPT ![p] = NoPromise]
  /\ UNCHANGED <<future, task, stack, status, received>>

(* What is left of a future, and of its state's value, that was moved from. *)
MovedFrom(f) == [f EXCEPT !.promise = Null, !.value = Null, !.result = Null]

(* ps with the promise of fut pointing at fut's new address f. *)
Attach(ps, fut, f) ==
  IF fut.promise = Null
  THEN ps
  ELSE [ps EXCEPT ![fut.promise].future = f, ![fut.promise].state = f]

(* future g{std::move(f)} *)
MoveFuture(f, g) ==
  /\ InClient
  /\ Held(f) /\ ~future[g].live
  /\ future' = [future EXCEPT ![g] = future[f], ![f] = MovedFrom(@)]
  /\ promise' = Attach(promise, future[f], g)
  /\ UNCHANGED <<task, stack, status, received>>

(***************************************************************************)
(* future::try_run_empty_continuation: a leaf_continuation, allocated at   *)
(* t, takes the state of a pending future over.  No t is needed otherwise. *)
(***************************************************************************)
NeedsLeaf(f) == ~future[f].ready /\ future[f].promise # Null

LeafAt(f, t) ==
  IF NeedsLeaf(f) THEN t \in Tasks /\ task[t] = "free" ELSE t = Null

TasksWithLeaf(t) == IF t = Null THEN task ELSE [task EXCEPT ![t] = "leaf"]

FuturesWithLeaf(f, t) ==
  IF t = Null
  THEN future
  ELSE [future EXCEPT ![t] = PendingFuture(Null, future[f].result), ![f] = MovedFrom(@)]

BugLeafNotContinuation(f, t) ==
  IF t = Null
  THEN promise
  ELSE [promise EXCEPT ![future[f].promise] = [@ EXCEPT !.state = t, !.future = Null]]

PromisesWithLeaf(f, t) ==
  IF t = Null
  THEN promise
  ELSE [promise EXCEPT ![future[f].promise] =
          [@ EXCEPT !.state = t, !.cont = t, !.future = Null]]

(* f = std::move(g): the result f waited for is discarded first. *)
AssignFuture(f, g, t) ==
  /\ InClient
  /\ f # g
  /\ future[f].live /\ Held(g)
  /\ future[f].result # Null => Held(f)
  /\ LeafAt(f, t)
  /\ future' = [FuturesWithLeaf(f, t) EXCEPT ![f] = future[g], ![g] = MovedFrom(@)]
  /\ promise' = Attach(PromisesWithLeaf(f, t), future[g], f)
  /\ task' = TasksWithLeaf(t)
  /\ UNCHANGED <<stack, status, received>>

DestroyFuture(f, t) ==
  /\ InClient
  /\ future[f].live
  /\ future[f].result # Null => Held(f)
  /\ LeafAt(f, t)
  /\ future' = [FuturesWithLeaf(f, t) EXCEPT ![f] = NoFuture]
  /\ promise' = PromisesWithLeaf(f, t)
  /\ task' = TasksWithLeaf(t)
  /\ UNCHANGED <<stack, status, received>>

-----------------------------------------------------------------------------
(* Continuations *)

Receive(r) == received' = [received EXCEPT ![r] = @ + 1]

(* std::move(f).value() *)
TakeValue(f) ==
  /\ InClient
  /\ Held(f) /\ future[f].ready
  /\ Receive(future[f].value)
  /\ future' = [future EXCEPT ![f] = MovedFrom(@)]
  /\ UNCHANGED <<promise, task, stack, status>>

BugThenForgetsReady(f, g, r) ==
  /\ InClient
  /\ Held(f) /\ future[f].ready /\ ~future[g].live /\ status[r] = "unused"
  /\ Receive(future[f].value)
  /\ future' = [future EXCEPT ![f] = MovedFrom(@), ![g] = PendingFuture(Null, r)]
  /\ status' = [status EXCEPT ![r] = "ready"]
  /\ UNCHANGED <<promise, task, stack>>

(* f.then(fn) on a ready future: fn is called at once. *)
ThenReady(f, g, r) ==
  /\ InClient
  /\ Held(f) /\ future[f].ready /\ ~future[g].live /\ status[r] = "unused"
  /\ Receive(future[f].value)
  /\ future' = [future EXCEPT ![f] = MovedFrom(@), ![g] = ReadyFuture(r)]
  /\ status' = [status EXCEPT ![r] = "ready"]
  /\ UNCHANGED <<promise, task, stack>>

(***************************************************************************)
(* f.then(fn) on a pending future: a continuation at t takes over f's      *)
(* state; g is the future of the continuation's own promise.               *)
(***************************************************************************)
ThenPending(f, t, g, r) ==
  /\ InClient
  /\ Held(f) /\ ~future[f].ready
  /\ task[t] = "free" /\ ~future[g].live /\ status[r] = "unused"
  /\ task' = [task EXCEPT ![t] = "then"]
  /\ future' = [future EXCEPT ![t] = PendingFuture(Null, future[f].result),
                              ![f] = MovedFrom(@),
                              ![g] = PendingFuture(t, r)]
  /\ promise' = [promise EXCEPT
                   ![future[f].promise] = [@ EXCEPT !.state = t, !.cont = t, !.future = Null],
                   ![t] = PendingPromise(g, r)]
  /\ status' = [status EXCEPT ![r] = "pending"]
  /\ UNCHANGED <<stack, received>>

(* future_state::emplace, at address s *)
Emplaced(s, r) == [future EXCEPT ![s].value = r]

(***************************************************************************)
(* promise::make_ready, with `emplaced` the futures after the value has    *)
(* been written and `below` the stack it returns to: the state becomes     *)
(* ready, the future forgets the promise, and the continuation, if there   *)
(* is one, runs.  A leaf_continuation only deletes itself; the others move *)
(* the value out of the state and enter client code.  run_and_dispose of a *)
(* continuation evaluates promise_p_.state() before its function runs.     *)
(***************************************************************************)
Unlinked(fs, f) == IF f = Null THEN fs ELSE [fs EXCEPT ![f].promise = Null]

MakeReadyOver(p, emplaced, below) ==
  LET pr == promise[p]
      t  == pr.cont
      fs == Unlinked([emplaced EXCEPT ![pr.state].ready = TRUE], pr.future)
  IN
  /\ status' = [status EXCEPT ![pr.result] = "ready"]
  /\ \/ /\ t = Null
        /\ future' = fs
        /\ stack' = below
        /\ UNCHANGED <<task, received>>
     \/ /\ t # Null
        /\ task[t] = "leaf"
        /\ future' = [fs EXCEPT ![t] = NoFuture]
        /\ task' = [task EXCEPT ![t] = "free"]
        /\ stack' = below
        /\ UNCHANGED received
     \/ /\ t # Null
        /\ task[t] = "then"
        /\ Receive(fs[t].value)
        /\ future' = [fs EXCEPT ![t] = MovedFrom(@)]
        /\ stack' = <<Frame(t, "run", promise[t].state)>> \o below
        /\ UNCHANGED task
     \/ /\ t # Null
        /\ task[t] = "coroutine"
        /\ Receive(fs[t].value)
        /\ future' = [fs EXCEPT ![t] = NoFuture]
        /\ stack' = <<Frame(t, "run", Null)>> \o below
        /\ UNCHANGED task

(* Client code calls set_value on a promise it holds (make_ready, if of void). *)
MakeReady(p) ==
  /\ InClient
  /\ Promised(p)
  /\ MakeReadyOver(p, Emplaced(promise[p].state, promise[p].result), stack)
  /\ UNCHANGED promise

(***************************************************************************)
(* The function of a continuation returns, or a coroutine executes         *)
(* co_return: the result is written, the former's to the address taken     *)
(* before, and the task's own promise is made ready.                       *)
(***************************************************************************)
ResultAddress(t) == IF task[t] = "then" THEN Head(stack).state ELSE promise[t].state

Finish(t) ==
  /\ Running(t)
  /\ MakeReadyOver(t, Emplaced(ResultAddress(t), promise[t].result),
                   <<Frame(t, "dispose", Null)>> \o Tail(stack))
  /\ UNCHANGED promise

(* ... and that returned: `delete this`, or the frame is destroyed. *)
Dispose ==
  /\ stack # <<>>
  /\ Head(stack).phase = "dispose"
  /\ LET t == Head(stack).task IN
       /\ promise' = [promise EXCEPT ![t] = NoPromise]
       /\ future' = [future EXCEPT ![t] = NoFuture]
       /\ task' = [task EXCEPT ![t] = "free"]
  /\ stack' = Tail(stack)
  /\ UNCHANGED <<status, received>>

-----------------------------------------------------------------------------
(* Coroutines *)

(* A coroutine is called: get_return_object, then its body starts at once. *)
StartCoroutine(t, f, r) ==
  /\ InClient
  /\ task[t] = "free" /\ ~future[f].live /\ status[r] = "unused"
  /\ task' = [task EXCEPT ![t] = "coroutine"]
  /\ promise' = [promise EXCEPT ![t] = PendingPromise(f, r)]
  /\ future' = [future EXCEPT ![f] = PendingFuture(t, r)]
  /\ status' = [status EXCEPT ![r] = "pending"]
  /\ stack' = <<Frame(t, "start", Null)>> \o stack
  /\ UNCHANGED received

(* co_await std::move(f), f ready: await_ready, then await_resume. *)
AwaitReady(t, f) ==
  /\ Running(t) /\ task[t] = "coroutine"
  /\ TakeValue(f)

(* Task t is waiting for the result that task u produces. *)
WaitsFor == [t, u \in Tasks |-> promise[u].live /\ promise[u].cont = t]

WaitsForItself(t, f) ==
  \/ future[f].promise = t
  \/ /\ future[f].promise \in Tasks
     /\ TransitiveClosure(WaitsFor, Tasks)[future[f].promise, t]

(***************************************************************************)
(* co_await std::move(f), f pending: the awaiter in the frame becomes the  *)
(* future, await_suspend sets the continuation, the caller goes on.        *)
(***************************************************************************)
AwaitPending(t, f) ==
  /\ Running(t) /\ task[t] = "coroutine"
  /\ Held(f) /\ ~future[f].ready
  /\ ~WaitsForItself(t, f)
  /\ future' = [future EXCEPT ![t] = future[f], ![f] = MovedFrom(@)]
  /\ promise' = [Attach(promise, future[f], t) EXCEPT ![future[f].promise].cont = t]
  /\ stack' = Tail(stack)
  /\ UNCHANGED <<task, status, received>>

-----------------------------------------------------------------------------

Next ==
  \/ \E p \in Promises, f \in Futures, r \in Results : MakePair(p, f, r)
  \/ \E f \in Futures, r \in Results : MakeReadyFuture(f, r)
  \/ \E p, q \in Promises : MovePromise(p, q)
  \/ \E p \in Promises : DestroyPromise(p)
  \/ \E f, g \in Futures : MoveFuture(f, g)
  \/ \E f, g \in Futures, t \in Tasks \cup {Null} : AssignFuture(f, g, t)
  \/ \E f \in Futures, t \in Tasks \cup {Null} : DestroyFuture(f, t)
  \/ \E f \in Futures : TakeValue(f)
  \/ \E f, g \in Futures, r \in Results : ThenReady(f, g, r)
  \/ \E f, g \in Futures, t \in Tasks, r \in Results : ThenPending(f, t, g, r)
  \/ \E p \in Promises : MakeReady(p)
  \/ \E t \in Tasks : Finish(t)
  \/ Dispose
  \/ \E t \in Tasks, f \in Futures, r \in Results : StartCoroutine(t, f, r)
  \/ \E t \in Tasks, f \in Futures : AwaitReady(t, f) \/ AwaitPending(t, f)

Spec == Init /\ [][Next]_vars

(* The names of objects, tasks and results are all the same to the code. *)
Symmetry ==
  Permutations(Promises) \cup Permutations(Futures) \cup Permutations(Tasks)
    \cup Permutations(Results)

-----------------------------------------------------------------------------
(* Properties *)

(* The promises, of clients and of tasks, that are still to be made ready. *)
Unresolved ==
  {p \in PromiseAddress :
     promise[p].live /\ promise[p].result # Null /\ status[promise[p].result] = "pending"}

(***************************************************************************)
(* A future and its promise point at each other through every move,        *)
(* assignment and hand-over to a continuation, and a pointer of either is  *)
(* never left at an object that was destroyed.  The storage a pending      *)
(* promise will write to exists, is not ready yet, and is the one whose    *)
(* owner waits for this very result (assertion of promise::make_ready);    *)
(* a continuation whose function runs will write to that storage, too.     *)
(***************************************************************************)
ObjectsAgree ==
  /\ \A f \in FutureAddress :
       future[f].live /\ future[f].promise # Null =>
         /\ future[f].promise \in Unresolved
         /\ promise[future[f].promise].future = f
  /\ \A p \in Unresolved :
       promise[p].future # Null =>
         /\ future[promise[p].future].live
         /\ future[promise[p].future].promise = p
         /\ promise[p].state = promise[p].future
  /\ \A p \in Unresolved :
       /\ promise[p].state # Null
       /\ LET s == future[promise[p].state] IN
            s.live /\ ~s.ready /\ s.result = promise[p].result

AddressesAgree ==
  \A i \in 1 .. Len(stack) :
    stack[i].state # Null => stack[i].state = promise[stack[i].task].state

PointersAgree == ObjectsAgree /\ AddressesAgree

(***************************************************************************)
(* Every task is either running or is the continuation of one pending      *)
(* promise: none is leaked, run twice, or reachable after it was freed.    *)
(* Its storage is the storage that promise writes to.                      *)
(***************************************************************************)
TasksOwned ==
  /\ \A t \in Tasks :
       task[t] # "free" =>
         Cardinality({i \in 1 .. Len(stack) : stack[i].task = t})
           + Cardinality({p \in Unresolved : promise[p].cont = t}) = 1
  /\ \A p \in Unresolved :
       promise[p].cont # Null => task[promise[p].cont] # "free" /\ promise[p].state = promise[p].cont
  /\ \A i \in 1 .. Len(stack) : task[stack[i].task] \in {"then", "coroutine"}

(***************************************************************************)
(* A ready future has the value its promise was given, no second object    *)
(* claims the same result, and it reaches at most one consumer, only once  *)
(* it exists.                                                              *)
(***************************************************************************)
ValuesKept ==
  /\ \A f, g \in FutureAddress :
       LET u == future[f] IN
         u.live /\ u.result # Null =>
           /\ u.ready <=> status[u.result] = "ready"
           /\ u.ready => u.value = u.result
           /\ future[g].live /\ future[g].result = u.result => f = g
  /\ \A r \in Results : received[r] <= (IF status[r] = "ready" THEN 1 ELSE 0)

(***************************************************************************)
(* "value not set" (future_state::make_ready): a state is made ready only  *)
(* when its value has been emplaced.                                       *)
(***************************************************************************)
ReadyHasValue ==
  \A f \in FutureAddress :
    future[f].live /\ future[f].result # Null /\ future[f].ready => future[f].value # Null
=============================================================================
