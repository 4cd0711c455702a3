# A TLA+ model of exy

exy is a header-only C++ library of *futures*: lazily started asynchronous
computations that are composed with `|`, given threads by schedulers, and run to
completion by a consumer. This directory holds TLA+ modules translated from
`include/exy`, TLC configurations that check them on small instances, and
TLAPS proofs about `run_loop`, `sync_wait` around it, the operation behind `when_all` and
`when_any`, and pipelines of adapters.

Paths below are relative to `include/exy` unless they say otherwise.

## 1. Inventory

### How a future runs

A future `F` names its `signatures` (what it may complete with: `value_tag(...)`,
`error_tag(...)`, `stopped_tag(...)`), the size of the result storage it needs, and
an operation `F::op<Cont>`. `Cont` is a type, not an object: from the context `ctx`
it finds the future, the operation and the result storage. `op::start(ctx)`
eventually creates the arguments of some signature `S` in that storage and calls
`Cont::call<S>(ctx)`. The caller says what is in the storage only by the function
it calls. All calls are tail calls, and a function returns when the thread has
nothing more to do.

| component | files | state | operations | called by / calls |
|---|---|---|---|---|
| run loop, defer scheduler | `scheduler/defer.hpp` | mutex, condition variable, intrusive list (`_head`, `_tail`, `job::next`), `_state` | `run`, `finish`, `push`, `pop`; `defer`'s `start` | any thread pushes and finishes, also from a job the loop executes; `run` calls continuations |
| sync_wait | `sync_wait.hpp` | a `run_loop`, `_ex`, the outermost result storage | `operator()`, `call<S>` for value, error, stopped | starts the future; the completing thread finishes the loop |
| when_all / when_any | `future/_when.hpp`, `when_all.hpp`, `when_any.hpp` | `_scheduler_queue[N-1]`, `_continuation`, `_done`, `_scheduler_idx` (atomics), one storage per child | `start`, `_yield`, delegation scheduler, queries `stop_requested` and `inline_work`, `continuation_for`, `_on_complete` | children on any number of threads; calls the parent continuation once |
| parallel scheduler | `scheduler/parallel.hpp` | a job for the backend | `start` | gives the job to a client's backend, then asks for `inline_work` |
| sequential adapters | `future/transform.hpp`, `and_then.hpp`, `with.hpp`, `stop_point.hpp`, `repeat.hpp`, `yield.hpp`, `schedule.hpp` | the shared result storage; `_sub_future`, `_sub_op`, `_state`, `_cont`, `_sch_result` | `start`, `continuation_for<S>` | the stage before calls, the stage after is called |
| factories, environment readers | `future/factory.hpp`, `environment.hpp` | none | `start` | beginning of a pipeline |
| result storage | `support/storage.hpp`, `support/future.hpp` | raw bytes | `emplace`, `get`, `with`, `peek`, `set`, `set_exception` | all of the above |
| dispatch | `support/adapter.hpp`, `signature.hpp`, `invoke.hpp`, `query.hpp`, `query/*` | none (compile time) | `adapter_continuation::call` | handler if there is one, else pass through |
| inline scheduler, concepts, utilities | `scheduler/inline.hpp`, `support/scheduler.hpp`, `support/base.hpp` | none | the inline `start`; `max` at compile time | source of a pipeline; sizes of storages |

### What is hard, and what makes each part correct

* **run_loop** saves notifications: `push` notifies when it finds the queue empty,
  `finish` notifies one thread. Correct means: the list is the queue of the pushes,
  every push is executed once and in order, nobody sleeps with work to do, and
  `run` comes back only when the loop is finished and drained.
* **sync_wait** destroys its loop as soon as `run` returns, while another thread may
  still be on its way out of `finish`. Correct means: the result is complete when
  `run` returns, and nobody is inside the loop any more.
* **_when_op** is a lock-free pool in which children swap themselves with each
  other, and two atomics that several children update one after the other. Correct
  means: a child is never executed twice, dropped or left in a slot; the parent is
  called once, with the result of the first child that decided, after all children
  are through; loops stop and do not starve their siblings. Most of its accesses are
  `memory_order_relaxed`, so it also has to be said why a thread sees what the others
  wrote.
* **adapters** create and destroy objects in one storage by hand, also when client
  code throws, and `repeat` starts operations again in it. Correct means: whoever is
  called with `S` finds exactly one object there, of `S`; the storage, whose size the
  compiler computes from the signatures of all stages, has room for it; loops end when
  asked to.

`PROJECT.json` lists these hazards at their lines with the properties that cover
them.

## 2. The modules

| module | models | promises / abstracts |
|---|---|---|
| `WorkQueue` | - | what `run_loop` promises: FIFO, one execution per push, closing |
| `RunLoop` | `scheduler/defer.hpp` | implements `WorkQueue` |
| `RunLoopProofs` | - | theorems about `RunLoop`, for every value of its constants |
| `SyncWait` | `sync_wait.hpp` | composes with (extends) `RunLoop` |
| `SyncWaitProofs` | - | theorems about `SyncWait`, on top of those about `RunLoop` |
| `Join` | - | what `when_all` and `when_any` promise |
| `When` | `future/_when.hpp` and the two policies | implements `Join` |
| `WhenProofs` | - | theorems about `When`, for every value of its constants |
| `WhenScanProofs` | - | theorems about the scans of `When`: nothing stays in a slot, one thread drops only the last child, only a dropped child prevents the end |
| `WhenOrder` | the memory orders in `future/_when.hpp` | extends `When` with what happens before what |
| `WhenOrderProofs` | - | theorems about `WhenOrder`, on top of those about `When` |
| `FutureTypes` | `signatures` and `storage_spec` of every future, `support/signature.hpp`, `storage.hpp`, `exy::max` | - |
| `Pipeline` | adapters, factories, environment readers, storage | extends `FutureTypes` with what runs |
| `FutureTypesProofs` | - | what `FutureTypes` computes, for pipelines of any length |
| `PipelineProofs` | - | theorems about `Pipeline`, on top of those lemmas |
| `MC...` | - | the instances TLC checks |

Definitions that begin with "Mutant of" in their comment are not part of a model:
each is a plausible bug, put in place of the definition it names to confirm that a
property notices.

### RunLoop

A step is one critical section; only the holder of `_mutex` touches what it
guards. A section that notifies keeps the mutex (`mutex = t`) until the
notification, a step of its own, so that others can run in between. `RunBegin`,
`PopWait`/`SpuriousWakeup`/`PopTake`/`PopReturn`, `PushAppend`/`PushFirst`/`PushNotify`,
`FinishSet`/`FinishNotify` are the branches of the four members, `JobReturns` the end of
a continuation. A continuation may do what any client may: push, finish, and, unless
the loop is in state `running`, where the assertion forbids it, call `run()` again
(`RunNested`). The job that called waits in `outer`, a stack per thread, until the inner
`run()` has drained the queue and returns (`NestedReturn`). `queued` is a history variable, the jobs pushed and not
popped. The job of a `defer` operation is pushed only while it is not queued
(`CallsPush`), which is the library's contract: an operation is started again only
after its continuation was called. It may be pushed again while the loop still
executes that continuation.

### SyncWait

`SyncWait` extends `RunLoop` with the main thread and a future that is a token: one
thread holds it, or nobody while another scheduler keeps it. `Call` is the three
`call<S>`, `Finish`/`FinishReturns` the `FinishSet`/`FinishNotify` of the loop, `Run`,
`Running`, `RunReturns` its `run()`. `mpc = "end"` stands for the destruction of the
context. No job is ever pushed: nobody else knows the loop (`Jobs = {}`).

`hasError` and `moveThrows`, chosen in the initial state, say whether the future has an error
signature and whether moving its value may throw. Where it throws decides what happens. Out of a
storage (`get` is `noexcept`) the process terminates, in `call<S>` (`CallThrows`) as in `End`.
Into the optional (`sync_wait.hpp:51`) `call<S>` ends before `finish()`: on the main thread the
exception leaves `start()` and `sync_wait` (`Thrown`); on another thread it leaves that thread's
function, which terminates (`mpc = "aborted"`). A scheduler that catches what its jobs throw would
instead leave the main thread in `run()` for good; no scheduler of the library does, and the model
has none.

### When

A step is one access to an atomic. A continuation in a slot is a function pointer,
that is a child and a place to resume it: `<<c, s>>`, with `<<c, 0>>` the child's
`start`. `Sites` bounds the number of places; with one of them a child that yields
again stores the same pointer again, the ABA case of the compare-exchange. Children are
clients: between two calls they yield (`Yield`), hand themselves to another scheduler
(`HandOff`, then `PickUp` on a thread of that scheduler), or complete (`Complete`). After a
hand-off the thread asks for `inline_work`, which is `_yield(nullptr)`, except below
`continues_on`, whose continuation for the scheduler's future (`schedule.hpp:39-104`) answers
no query: then the thread just returns (`HandOffOnly`). `boxes` are the children whose result
is in the storage of their own. A
child in `Repeats` is `f | repeat`, which is a loop over `f | yield`. It asks `stop_requested`
at the beginning of a round (`NextRound`) and yields at the end of it, two steps, so that a sibling
may decide in between; `rounds` are the children inside a round (`InOwnCode`: `f` has the thread and
may hand itself off). It completes when it finds the stop request, or when `f` fails.
`MaxYields` bounds the yields of all children that do not repeat, together; `MaxHandOffs` the
hand-offs of each child. `Throwing` are the outcomes whose result may throw when it is moved: with
`{"value"}` a `when_all` may fail while it takes the values, but not while a child decides. With
`"stop"` as well it may fail there too, which leads into the second defect of section 5. Children yield
whenever they like, also when nobody is there to swap with, which leads into the first.

After the parent continuation has been called (`calls = 1`) the code may run on a
destroyed object. The model lets such a thread read the old contents; property
`NoUseAfterCall` says that it should not be there.

### WhenOrder

`When` says what the atomics contain, `WhenOrder` what they order. `knows[t]` is the set of
data (the operation and storage of each child, the storage of the whole operation) whose
last write happens before what `t` does next. A write (`Write`) takes the data away from all
others; knowledge travels through the two variables that are read-modify-written with
`memory_order_acq_rel`, `_scheduler_idx` (`FetchIdx`) and `_done` (`FetchDone`, `DonePublishes`), and
with a continuation through another scheduler (`ChildGivenAway`, `ChildPickedUp`), which as any
scheduler synchronizes the thread that schedules with the one that calls. Since both variables
are only ever changed by read-modify-writes, each of them is one release sequence, and
what it passes on is the union of what was published. All other accesses are `Relaxed` and
pass on nothing. Every step is a step of `When` with a step of the clocks beside it.

### FutureTypes

The part of the library that runs in the compiler, as functions from the type of the base
future to the type of the adapted one: the *ordered* list of signatures, and the
`storage_spec`. Order matters because `storage_spec::get` folds the list with `exy::max`,
which compares every element with the first (`MaxOf`). `Types(p)` are the types of all
prefixes of a pipeline. A stage is a record: `from` is the tag it handles, `to` what it makes of
it, `mid` what the future that `and_then`'s function makes puts into the storage and takes
out again before it completes, `throws` whether client code in it may throw.

### Pipeline

The state is a program (`prog`, any pipeline of the given stages), the stage in
control and the objects alive in the result storage. A signature stands for a tag
with its argument types; there are two value signatures, so that stages which must
remember *which* one (`_cont` of `continues_on`) can go wrong. Control is sequential,
so a handler is one step; the stop request comes at any moment. `CallsDeclared` and `ResultFits`
compare what runs with what `FutureTypes` computed of it. A consumer admits at most one value signature,
adapters do not; the pipelines include those no consumer would take.

## 3. What the runs check

| run | instance | properties |
|---|---|---|
| `run_loop` | 3 threads, 3 jobs, 5 calls of push/finish/nested run (41k states) | `TypeOK`, `ListRepresentsQueue`, `NoLostWakeup`; refinement `ImplementsWorkQueue`; liveness `QueuedJobRuns`, `FinishStopsRun` |
| `sync_wait` | main and 2 threads, 3 hops, futures with and without errors and throwing moves (882 states) | `SWTypeOK`, `ReturnsResult`, `NobodyInside`; `Ends` |
| `when_handoff` | when_all, 3 children, 3 threads, 1 hand-off each, values whose move throws (470k states) | `TypeOK`, `ChildInOnePlace`, `NoChildLost`, `NoChildStranded`, `DeliveredAtRest`, `QuietWhenCalled`, `ResultMatchesCall`, `ResultsAccounted`; refinement `ImplementsJoin`; `Delivered` |
| `when_order` | when_all, 3 children, one of them a loop, 2 threads, 1 yield of the others, 1 hand-off each, throwing moves (5.9M states) | `OrderTypeOK`, `ChildInOnePlace`, `QuietWhenCalled`, `ResultVisible`, `RestsOnlyWhenLost` |
| `when_loops` | when_any, 4 children, 1 thread, 2 of them loops, 4 yields of the others (3360 states) | `OnlyLastChildLost`; `EndsUnlessLost`, `QueuedChildRuns` |
| `pipeline` | all pipelines of up to 3 out of 11 stages after 6 sources (270k states) | `PipeTypeOK`, `CellHoldsSignature`, `CallsDeclared`, `ResultFits`; `StopEnds` |
| `when_lost`, `when_throw`, `when_return`, `when_race`, `pipeline_with`, `storage_max` | small | each refutes one property, section 5 |

**Bounds.** Three threads suffice in `run_loop` for one inside `run()`, one that pushes
and one that finishes, or for two that drain a finished loop while a third pushes;
with three jobs the list has a middle, and five calls push a job a second time. The
theorems of section 4 remove these bounds. In `When` the pool has `N - 1` slots: three
children are the least for which the modulo and a scan over several slots matter, four
for a fair scan beside two loops. Three threads let one thread complete, one scan and one
swap. In `when_order` two threads, a loop and one more yield are enough for a child to be put into
a slot by one thread, taken by another, and put back, and for a decision on one thread to fall
anywhere into a round on the other. `IdxMod` scales the width of the index: only its remainder modulo `N - 1` matters
(`WidthSuffices`, section 4), and 16 and 2^32 have the same one modulo 2, 3 and 6. In `Pipeline` three stages
after a source are enough for a loop around a rescheduling stage around a failing one. The
sizes and alignments of its instance are those of an empty pack, an `int`, pointers and an
`exception_ptr`, and something bigger inside of `and_then`; with them, and the sources given,
no list of signatures has its biggest element where `exy::max` loses it.

**Deadlock** is checked in every passing run but `when_order` and `when_loops`. There a child may
yield with nobody to swap with, and is dropped (section 5), after which the system
stops. These runs show what holds even so: on one thread only a child whose siblings have all
completed is dropped (`OnlyLastChildLost`), nothing else keeps an operation from its end
(`RestsOnlyWhenLost`, `EndsUnlessLost`), and the rest of the promises are kept.

**Fairness.** Threads are weakly fair in the code of the library and in
continuations that return (`JobReturns`, and `ChildWork`, the rounds of a loop included); a scheduler calls what it was given
(`PickUp` is part of its thread's fairness). No fairness is assumed of clients' calls
(`push`, `finish`, `run`), of spurious wakeups, or of stop requests. A thread that is
waiting for the mutex is not assumed to get it against an endless stream of other
sections, which `std::mutex` does not promise either: `MaxCalls` bounds the calls, so
the stream ends. In
`SyncWait` the future itself is fair (it completes when it gets a thread), which is the
client's part of the contract; hops are bounded.

**Memory model.** The values of all variables are sequentially consistent; `WhenOrder` adds
which plain data a thread may rely on. What it does not have is a relaxed load that returns an
old value. Where that could matter: an old continuation in a slot makes the
compare-exchange that follows fail, as if it had been taken in between; an old null in a slot
does not exist, because an emptied slot stays empty; an old null of `_continuation` in the stop
query costs a loop another round. The load in `_on_complete` is ordered by `_done`.

## 4. What is proved

`RunLoopProofs` proves, from `RunLoopAssumption` alone (Null is neither a thread nor a
job, and the bound is a number), that for any sets of threads and jobs and any bound on
the calls

* `TypeCorrect`: `Spec => []TypeOK`
* `ListCorrect`: `Spec => []ListRepresentsQueue`
* `NoLostWakeups`: `Spec => []NoLostWakeup`
* `Refinement`: `Spec => ImplementsWorkQueue`, that is `Abstract!Spec`

by one inductive invariant, `IInv == TypeOK /\ ListRepresentsQueue /\ WaitInv`.

*Why it is needed.* `NoLostWakeup` is not inductive: were two threads waiting, the
single notification of `push` or `finish` would leave one of them blocked although
its predicate holds. `WaitInv` says why there are never two. In state `running` at most one
thread is inside `run()` (the assertion in `run`), and in state `finishing` the predicate of
the wait is true, so that nobody starts waiting: the only thread that can
be blocked when `finish` comes is the one that took the loop to `running`, and the
notification reaches it. This is also the argument that `notify_one` in `finish` is enough.
`ListRepresentsQueue` needs the fact that a job is queued at most once,
for which the guard of `CallsPush` is the reason, and that `Filled` resets `next`.

*Nested calls.* `OuterOK`, a part of `TypeOK`, says that only a thread inside `run()` has suspended
jobs; `OuterStep` proves it by itself, since it is the only part about sequences of
jobs per thread. In the refinement a nested call is `Suspend`, its return `Resume`: the
suspended job is executed on, not a second time.

*Layout of `RunLoopProofs`.* `TypeStep`, `ListStep` and `WaitStep` are the three parts of the induction, one
step per action; `TakeKeepsList` and `PushKeepsList` do the sequence reasoning with the
lemma `HeadAndTail` and the library's facts on `Append`. `StepRefines` maps each action
to an action of `WorkQueue` or to a stutter.

`SyncWaitProofs` proves, from `RunLoopAssumption` and `SyncWaitAssumption` (the main
thread is a thread, the bound is a number, and Null is none of the strings results are
tagged with), for any set of threads, any set of jobs and any number of hops, for futures with and
without errors, and with moves that throw

* `LoopOfSyncWait`: `SWSpec => Spec`, the loop of a `sync_wait` is a `RunLoop`
* `SWTypeCorrect`: `SWSpec => []SWTypeOK`
* `ResultReturned`: `SWSpec => []ReturnsResult`
* `NobodyLeftInside`: `SWSpec => []NobodyInside`

*Composition.* `StepOfLoop` shows that a step of `SyncWait` is a step of `RunLoop` or
leaves the loop alone. `IInv` is therefore inherited, step by step, from `NextInv`, and
only the two conjuncts about the rest of the state are new. `PlaceInv` relates the two
threads that matter: the main thread is the only one inside `run()`, the loop is finishing
exactly from the moment the continuation is in `finish()`, and the main thread has
left `run()` only when that call is over. The last part is where the mutex comes in:
`finish()` keeps it until it has notified (`WaitInv`: whoever is about to notify holds the
mutex), and the main thread needs it to leave `pop()`. `StoredInv` relates the
signature the future completed with to `_ex` and the storage: a value is in the
storage unless its move threw.

`WhenProofs` proves, from `WhenAssumption` (at least two children, an index at least as wide as
there are children, and distinct marks), for both kinds of operation and any number of
children, threads, suspension points, yields and hand-offs

* `TypeCorrect`: `Spec => []TypeOK`
* `OnePlace`: `Spec => []ChildInOnePlace`
* `CalledWhenQuiet`: `Spec => []QuietWhenCalled`
* `Accounted`: `Spec => []ResultsAccounted`
* `Implements`: `Spec => ImplementsJoin`, that is `Joined!Spec`
* `CallMatches`: `Spec => []ResultMatchesCall`, if no outcome in `Throwing` decides
* `NoneLost`: `Spec => []NoChildLost`, if no child yields (`MaxYields = 0`, `Repeats = {}`)

The conditions of the last two are those the runs `when_throw` and `when_lost` show to be
needed; what remains of the last one with yields is in `WhenScanProofs`. The others hold in spite
of the defects of section 5.

*The invariant* is `Inv`. Its heart is `CountInv`: `_done` is the cardinality of `Counted`, the
children that have completed and that no thread reports any more. One step of `CountDone`
adds exactly one child (`OneMore`), which needs `PlaceInv` (no other thread reports the same
child), so that when `_done` is `N` every child is through (`AllDone`); conversely, nothing
is over while any thread executes or reports a child (`NotOver`). `PlaceInv` survives the
compare-exchange because what it exchanges is what it has compared: it does not matter
how often others have taken and put back the same continuation since it was loaded.
`OutcomeInv` keeps children that have completed out of the queue. `ResultInv` follows the results through
the storages: only the thread that set `_continuation` can be about to move one.

*Layout.* One lemma per action (`StepStartOp`, ...), with one step per part of the
invariant, or per group of parts the action hardly touches. In the refinement (`JoinStep`) a child whose outcome
decides completes with its compare-exchange of `_continuation` (`Decide`), any other when it calls;
the last step of the operation is `Deliver`, and the rest are stutters.

`WhenOrderProofs` proves, from `WhenAssumption` and `WhenOrderAssumption`,

* `OrderedIsWhen`: `OrderSpec => Spec`, hence `OrderedOperation`: `OrderSpec => [](ChildInOnePlace /\ QuietWhenCalled)`
* `OrderTypeCorrect`: `OrderSpec => []OrderTypeOK`
* `ResultsVisible`: `OrderSpec => []ResultVisible`

The invariant `KnowInv` says how knowledge gets to the last thread: whoever reports a child
knows its storage; counting publishes it (`Counted \subseteq doneSeen`), and nobody writes to
the storage of a child that has been counted. The storage of the whole operation is
known to every thread that is in the operation until the deciding child writes it; from then
on it travels with that child.

`WhenScanProofs` proves, from `WhenAssumption`, for any number of children, threads, suspension
points, yields and hand-offs unless it says otherwise,

* `NobodyStranded`: `Spec => []NoChildStranded`, if `ScansSeeAll`
* `OnlyLastLost`: `Spec => []OnlyLastChildLost`, if `ScansSeeAll` and no child leaves the thread
  (`MaxHandOffs = 0`); children may yield whenever they like, and loop
* `RestsExplained`: `Spec => []RestsOnlyWhenLost`, if `ScansSeeAll`
* `RestDelivered`: `Spec => []DeliveredAtRest`, if `ScansSeeAll` and no child yields
  (`MaxYields = 0`, `Repeats = {}`)
* `WidthSuffices`, `WidthNecessary`: `ScansSeeAll` holds exactly if `IdxMod % (N - 1)` is 0 or 1

*Scans.* `ScansSeeAll` says that as many draws in a row as one scan makes, `N`, hit all `N - 1`
slots, also where the index wraps. It is a condition on constants, and the last two theorems
settle it: a slot too many is drawn (`i != N` in the code, over `N - 1` slots), so that a
remainder of 1 is harmless as well. 2^32 leaves 0 or 1 for up to 6 children, and 4 for 7 or 8.

A single scan does not draw consecutive indices, as others draw from the same counter in
between. `ScanInv` therefore counts the draws of all scans together: `Draws` is the set of draws
that scans under way have still to make, and a continuation in a slot is `Found` if the next
`Cardinality(Draws)` draws, whoever makes them, reach its slot. A draw takes one away from
the set and moves the index by one; a scan that ends early, since it has found something,
takes several away, but then its thread works and will scan again; a scan that begins adds `N`
draws, which reach everything. When all threads are idle there are no draws left, so the slots
are empty. The reasoning needs that `_yield` is also where every thread goes that stops
working, which the code's `inline_work` is for. A `HandOffOnly` thread goes without a scan, but
leaves its child in `pool`, to be called by somebody who will.

*One thread.* `AloneInv` says that, without hand-offs, a child that has not completed is in a slot
or with the thread, or else all of its siblings have completed. `FailsForLast` is the step where it
could break: when the scan of a child that yields fails, all draws are used up, so that by `ScanInv`
the slots are empty, and no sibling is anywhere else either. The run `when_lost` shows that the last
child really is dropped then.

*Rest.* `RestsExplained` puts the parts together for any number of threads: when nobody is left in
the operation nothing is in a slot, so that either some child has been dropped or all children
have completed, and then the last one to report has called the parent (`LastInv`). With `NoneLost`,
which excludes the first, `RestDelivered` follows. It is the safety half of `Delivered`, and
`RestsExplained` that of `EndsUnlessLost`.

`PipelineProofs` proves, from `PipelineAssumption` (the stages are stages, and only the first is a
source) and `FutureTypesAssumption` (sizes are numbers, alignments are not zero, an empty argument list
has size 0 and alignment 1), for any set of sources and adapters, any sizes of their arguments
and pipelines of any length

* `TypeCorrect`: `Spec => []PipeTypeOK`
* `OnlyDeclaredCalls`: `Spec => []CallsDeclared`
* `StorageHoldsSignature`: `Spec => []CellHoldsSignature`, if no function given to `with` throws
* `StorageSuffices`: `Spec => [](MaxLosesNone => ResultFits)`, if `SizesOrdered`

*The invariant* is `Inv == PipeTypeOK /\ ProgInv /\ PhaseInv /\ CallInv`. `CallInv` says that a
continuation is called with what the future before it declares, which is what the handlers, and
the lists that `FutureTypes` computes for them, have to agree about: one step per stage and handler.
A stage that reschedules relies on `PhaseInv`, on `_cont` being what it was called with.
`CellHoldsSignature` then follows step by step from `Inv`.

*The conditions.* The run `pipeline_with` shows what happens without the first. `MaxLosesNone` says
that no signature a future adds asks for more than `exy::max` has made of all of them. It is
true wherever `exy::max` finds the greatest element of its list (`RightMaxLosesNone`), and false
already in the initial state of the run `storage_max`. `SizesOrdered` says that what
`storage_spec`'s order puts first is also as strictly aligned, see section 5.

*Layout.* `FutureTypesProofs` first shows that the functions `FutureTypes` is written with exist: the
folds over lists of signatures (`FoldLeft`, a function chosen to satisfy an equation) and the
recursive `Types`. What they compute is shown by `SetInduction`, from the smallest
counterexample, since theorems that take an operator as a parameter cannot be used. On top of
that are the lemmas `PipelineProofs` cites: the types of the lists, what each adapter declares for
each signature of its base, and that a storage only grows along a pipeline (`SpecsGrow`).

*Only model-checked*: the liveness properties `QueuedJobRuns`, `FinishStopsRun`, `Ends`,
`Delivered`, `EndsUnlessLost`, `QueuedChildRuns` and `StopEnds`, which are beyond what the proof system
does with fairness. All other properties of passing runs are proved. `NoChildLost` and `DeliveredAtRest`
are proved without yields; with them both are false (`when_lost`), and `OnlyLastLost` and
`RestsExplained` are what is left of them.

## 5. Where the code does something else

1. `when_lost`: a child of `when_all`/`when_any` that yields when no sibling is queued is
   dropped (`_when.hpp:41-45`, `154-166`): `_yield` returns null, and nobody keeps `next`.
2. `when_throw`: when moving the deciding result throws, the continuation returned by
   `set_exception` is ignored (`_when.hpp:124-127`); the parent is called with the wrong
   signature.
3. `when_return`: a thread can be in `_yield(nullptr)` while another one calls the parent
   continuation, after which the operation may be destroyed (`_when.hpp:131-135`).
4. `when_race`: nothing orders the thread that stores a child's continuation into a slot before
   the one that takes it out, if the taker's `fetch_add` came first (`_when.hpp:158-163`).
5. `pipeline_with`: `with` leaks the arguments when its function throws (`with.hpp:55-58`).
6. `storage_max`: `exy::max` compares with its first argument instead of with the greatest so
   far (`base.hpp:72`). Of the signatures `value_tag()`, `error_tag(std::exception_ptr)`,
   `stopped_tag()`, in this order, it takes the size of the last one, zero.

Of these, the passing runs exclude throwing moves of a deciding result (except `when_order`, which
does not check `ResultMatchesCall`), throwing `with` functions, and lists of signatures like the one
above. The first defect is not excluded where children yield: `when_order` and `when_loops` check
what holds in spite of it, and only `when_handoff`, which checks `NoChildLost` itself, has no yields.

Five more were seen while modelling and proving, and have no run of their own.

* The results of children that nobody takes out of `_storage` (`when_all.hpp:47`) are never destroyed:
  those of all other children once one has decided, and the values not yet taken when moving one of
  them throws. `ResultsAccounted` states which ones stay behind.
* A value whose move into the optional throws leaves `call<S>` before `finish()`
  (`sync_wait.hpp:50-53`), one whose move out of it throws terminates in the `noexcept` `get` (105); see
  `CallThrows` and `End`.
* `sync_wait` is `noexcept` exactly if the future has an error signature (`sync_wait.hpp:97`), so that
  the rethrow of line 104 terminates (`Thrown`). `ReturnsResult` therefore admits termination as an
  outcome of an error, but no value and no `nullopt`.
* The scan index wraps at 2^32: where that leaves a remainder other than 0 and 1 modulo `N - 1`, first
  with `N = 7`, a scan across the wrap may miss a slot (`WidthNecessary`); with `N = 7`, `IdxMod = 16` and
  two loops TLC refutes `NoChildStranded`.
* `storage_spec`'s order compares sizes before alignments (`storage.hpp:40-45`), so that the greatest
  spec of a list need not fit all of it: of 8 bytes aligned to 8 and 12 bytes aligned to 4 the
  second wins, and the first is created in storage that is not aligned for it. This is
  why `StorageSuffices` needs `SizesOrdered`.

## 6. Not modelled

* The rest of the compile-time part: folds over argument lists in `signature.hpp`, `invoke.hpp`,
  the lookup in `query.hpp`, concepts. What it decides appears as constants and as the guards of
  handlers.
* Values of arguments, and the answers of `read_env`.
* A `when_*` inside another one. The inner operation answers `delegation_scheduler` and
  `inline_work` itself (`_when.hpp:85-95`), so that children of the inner one never give
  their thread to those of the outer one.
* `when_all` in `FutureTypes`: it concatenates argument lists, which signatures here do not have.
* Macros, concepts and `pack` in `support/base.hpp`; the prototype, the tests and the build.

## 7. Plan

Done: `WorkQueue`, `RunLoop`, `RunLoopProofs`, `SyncWait`, `SyncWaitProofs`, `Join`, `When`,
`WhenProofs`, `WhenScanProofs`, `WhenOrder`, `WhenOrderProofs`, `FutureTypes`, `FutureTypesProofs`,
`Pipeline`, `PipelineProofs`. Next, in this order:

1. `defer` as the scheduler under `when_all` (the test in tests/scheduler/defer.cpp):
   `When` composed with `RunLoop`, and with `SyncWait` as the consumer. `CalledWhenQuiet` is what
   it rests on: when the loop is finished no continuation is left that could still be pushed.
2. The action properties of that composition: no push to a loop that is being destroyed.
