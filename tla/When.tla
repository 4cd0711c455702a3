-------------------------------- MODULE When ---------------------------------
(***************************************************************************)
(* The operation behind when_all and when_any (future/_when.hpp, with the  *)
(* two completion policies of when_all.hpp and when_any.hpp): N children   *)
(* that cooperatively share the threads they are given through a lock-free *)
(* pool of N - 1 continuations, and report to two atomics, _continuation   *)
(* and _done.                                                              *)
(*                                                                         *)
(* A child is a program of the client.  Between two calls into the         *)
(* operation it may do anything; what matters here is how it calls in: it  *)
(* yields (delegation scheduler), hands itself to another scheduler        *)
(* (parallel, defer), asks whether it should stop, or completes.           *)
(*                                                                         *)
(* Granularity: one access to an atomic is one step.                       *)
(***************************************************************************)
EXTENDS Integers, FiniteSets

CONSTANTS
  N,            \* sizeof...(F), the number of children
  Threads,
  Main,         \* the thread that starts the operation
  Kind,         \* "all" or "any"
  Sites,        \* how many different suspension points a child has
  MaxYields,    \* bound of the model: yields of the children that do not repeat
  MaxHandOffs,  \* bound of the model: hand-offs of each child
  IdxMod,       \* unsigned wraps at IdxMod (2^32 in the builds of the project)
  Repeats,      \* the children of the form "f | repeat"
  Throwing,     \* the outcomes of children whose result may throw when it is moved
  None, All, Exception

Children == 0 .. N - 1
Slots    == 0 .. N - 2
Conts    == Children \X (0 .. Sites)  \* function pointer: child and place to resume
Start(c) == <<c, 0>>
Outcomes == {"value", "stop"}         \* "stop": any error or stopped signature

ASSUME WhenAssumption ==
  /\ N \in Nat /\ N >= 2
  /\ Main \in Threads
  /\ Kind \in {"all", "any"}
  /\ Sites \in Nat \ {0}
  /\ MaxYields \in Nat /\ MaxHandOffs \in Nat
  /\ IdxMod \in Nat /\ IdxMod >= N
  /\ Repeats \subseteq Children
  /\ Throwing \subseteq Outcomes
  /\ {None, All, Exception} \cap Children = {}
  /\ None \notin Conts /\ None \notin Outcomes
  /\ None # All /\ None # Exception /\ All # Exception

VARIABLES
  queue,         \* _scheduler_queue
  continuation,  \* _continuation: the child whose call<S> it holds, or None
  done,          \* _done
  idx,           \* _scheduler_idx
  result,        \* whose result the storage of the whole operation holds
  boxes,         \* _storage: the children whose result is in their storage
  called,        \* whose signature the operation's continuation was called with
  calls,         \* history: how often it was called
  outcome,       \* history: what each child completed with
  pool,          \* continuations other schedulers hold and have not called yet
  outerStop,     \* does the stop_requested query of Cont answer true?
  rounds,        \* the repeating children that execute a round of f
  pc,            \* see Pcs
  cur,           \* the continuation a thread executes, reports or stores
  tries,         \* i of _yield
  slot,          \* idx of _yield
  expected,      \* expected of _yield
  spent          \* bound: yields and hand-offs so far

sched  == <<queue, idx>>
joint  == <<continuation, done, result, boxes, called, calls>>
shared == <<sched, joint>>
yvars  == <<tries, slot, expected>>
loops  == <<outerStop, rounds>>
vars   == <<shared, outcome, pool, loops, pc, cur, yvars, spent>>

(***************************************************************************)
(* "start": before start().  "idle": not in the operation.  "child":       *)
(* executes cur[t].  "y_...": in _yield(cur[t]), cur[t] = None standing    *)
(* for nullptr.  "c_...": in continuation_for of the child of cur[t].      *)
(* "complete": in _on_complete.                                            *)
(***************************************************************************)
Pcs == {"start", "idle", "child", "y_fetch", "y_load", "y_cas",
        "c_cas", "c_store", "c_done", "complete"}

TypeOK ==
  /\ queue \in [Slots -> Conts \cup {None}]
  /\ continuation \in Children \cup {None}
  /\ done \in 0 .. N
  /\ idx \in 0 .. IdxMod - 1
  /\ result \in Children \cup {None, All, Exception}
  /\ boxes \subseteq Children
  /\ called \in Children \cup {None, All, Exception}
  /\ calls \in 0 .. 1
  /\ outcome \in [Children -> Outcomes \cup {None}]
  /\ pool \subseteq Conts
  /\ outerStop \in BOOLEAN
  /\ rounds \subseteq Repeats
  /\ pc \in [Threads -> Pcs]
  /\ cur \in [Threads -> Conts \cup {None}]
  /\ tries \in [Threads -> 0 .. N]
  /\ slot \in [Threads -> Slots]
  /\ expected \in [Threads -> Conts \cup {None}]
  /\ spent \in [yields : 0 .. MaxYields, handoffs : [Children -> 0 .. MaxHandOffs]]

Init ==
  /\ queue = [s \in Slots |-> None]
  /\ continuation = None
  /\ done = 0
  /\ idx = 0
  /\ result = None
  /\ boxes = {}
  /\ called = None
  /\ calls = 0
  /\ outcome = [c \in Children |-> None]
  /\ pool = {}
  /\ outerStop = FALSE
  /\ rounds = {}
  /\ pc = [t \in Threads |-> IF t = Main THEN "start" ELSE "idle"]
  /\ cur = [t \in Threads |-> None]
  /\ tries = [t \in Threads |-> 0]
  /\ slot = [t \in Threads |-> 0]
  /\ expected = [t \in Threads |-> None]
  /\ spent = [yields |-> 0, handoffs |-> [c \in Children |-> 0]]

Stops(o) == Kind = "any" \/ o # "value"   \* _stop_on
StopRequestedOutside == outerStop         \* Mutant of StopRequested
StopRequested == continuation # None \/ outerStop

QueueShifted == [s \in Slots |-> Start(s)]  \* Mutant of InitialQueue
InitialQueue == [s \in Slots |-> Start(s + 1)]

\* start(): queue all children but the first, and run that one.  No other
\* thread can reach the operation yet.
StartOp(t) ==
  /\ pc[t] = "start"
  /\ queue' = InitialQueue
  /\ pc' = [pc EXCEPT ![t] = "child"]
  /\ cur' = [cur EXCEPT ![t] = Start(0)]
  /\ UNCHANGED <<idx, joint, outcome, pool, loops, yvars, spent>>

------------------------------------------------------------------------------
(* How a child calls into the operation *)

Runs(t, c) == pc[t] = "child" /\ cur[t][1] = c

\* _yield(next) is about to scan the queue.
EnterYield(t, next) ==
  /\ pc' = [pc EXCEPT ![t] = "y_fetch"]
  /\ cur' = [cur EXCEPT ![t] = next]
  /\ tries' = [tries EXCEPT ![t] = 0]
  /\ UNCHANGED <<slot, expected>>

\* A repeating child looks for a stop request and starts a round of f.
NextRound(t, c) ==
  /\ Runs(t, c)
  /\ c \in Repeats \ rounds
  /\ ~StopRequested
  /\ rounds' = rounds \cup {c}
  /\ UNCHANGED <<shared, outcome, pool, outerStop, pc, cur, yvars, spent>>

\* The code of the child itself has the thread: of a repeating child, f.
InOwnCode(t, c) == Runs(t, c) /\ (c \in Repeats => c \in rounds)

\* The delegation scheduler's start(), at the end of each round in a repeating child.
Yield(t, c, s) ==
  /\ InOwnCode(t, c)
  /\ c \in Repeats \/ spent.yields < MaxYields
  /\ EnterYield(t, <<c, s>>)
  /\ rounds' = rounds \ {c}
  /\ spent' = IF c \in Repeats THEN spent ELSE [spent EXCEPT !.yields = @ + 1]
  /\ UNCHANGED <<shared, outcome, pool, outerStop>>

\* The start() of parallel or defer gives the job away.
GiveAway(t, c, s) ==
  /\ InOwnCode(t, c)
  /\ spent.handoffs[c] < MaxHandOffs
  /\ pool' = pool \cup {<<c, s>>}
  /\ spent' = [spent EXCEPT !.handoffs[c] = @ + 1]
  /\ UNCHANGED <<shared, outcome, loops>>

\* Then it asks for inline work, which is _yield(nullptr).
HandOff(t, c, s) == GiveAway(t, c, s) /\ EnterYield(t, None)

\* Below continues_on it gets no answer: the continuation the scheduler's future has
\* there answers no queries.  The thread returns and leaves the queue alone.
HandOffOnly(t, c, s) ==
  /\ GiveAway(t, c, s)
  /\ pc' = [pc EXCEPT ![t] = "idle"]
  /\ cur' = [cur EXCEPT ![t] = None]
  /\ UNCHANGED yvars

\* Another scheduler calls the continuation on a thread of its own.
PickUp(t, k) ==
  /\ pc[t] = "idle" /\ t # Main
  /\ k \in pool
  /\ pool' = pool \ {k}
  /\ pc' = [pc EXCEPT ![t] = "child"]
  /\ cur' = [cur EXCEPT ![t] = k]
  /\ UNCHANGED <<shared, outcome, loops, yvars, spent>>

\* The child has put its result into its storage and completes: continuation_for<S>.
\* A repeating child completes when it finds a stop request, or when f fails.
Complete(t, c, o) ==
  /\ Runs(t, c)
  /\ c \in Repeats => o = "stop" /\ (c \in rounds \/ StopRequested)
  /\ rounds' = rounds \ {c}
  /\ outcome' = [outcome EXCEPT ![c] = o]
  /\ boxes' = boxes \cup {c}
  /\ pc' = [pc EXCEPT ![t] = IF Stops(o) THEN "c_cas" ELSE "c_done"]
  /\ UNCHANGED <<sched, continuation, done, result, called, calls, pool, outerStop, cur,
                 yvars, spent>>

\* Somebody outside asks the whole operation to stop.
OuterStop ==
  /\ ~outerStop
  /\ Repeats # {}
  /\ outerStop' = TRUE
  /\ UNCHANGED <<shared, outcome, pool, rounds, pc, cur, yvars, spent>>

------------------------------------------------------------------------------
(* _yield *)

\* All tries are used up: return nullptr, and the caller returns as well.
YieldFails(t) ==
  /\ pc[t] = "y_fetch"
  /\ tries[t] = N
  /\ pc' = [pc EXCEPT ![t] = "idle"]
  /\ cur' = [cur EXCEPT ![t] = None]
  /\ tries' = [tries EXCEPT ![t] = 0]
  /\ UNCHANGED <<shared, outcome, pool, loops, slot, expected, spent>>

SlotUnreduced(t) == idx                 \* Mutant of SlotOf: no modulo
SlotUnshared(t)  == tries[t] % (N - 1)  \* Mutant of SlotOf: no shared index
SlotOf(t) == idx % (N - 1)

YieldFetch(t) ==
  /\ pc[t] = "y_fetch"
  /\ tries[t] # N
  /\ slot' = [slot EXCEPT ![t] = SlotOf(t)]
  /\ idx' = (idx + 1) % IdxMod
  /\ tries' = [tries EXCEPT ![t] = @ + 1]
  /\ pc' = [pc EXCEPT ![t] = "y_load"]
  /\ UNCHANGED <<queue, joint, outcome, pool, loops, cur, expected, spent>>

YieldLoad(t) ==
  /\ pc[t] = "y_load"
  /\ LET k == queue[slot[t]] IN
       IF k = None
       THEN /\ pc' = [pc EXCEPT ![t] = "y_fetch"]
            /\ slot' = [slot EXCEPT ![t] = 0]
            /\ UNCHANGED expected
       ELSE /\ pc' = [pc EXCEPT ![t] = "y_cas"]
            /\ expected' = [expected EXCEPT ![t] = k]
            /\ UNCHANGED slot
  /\ UNCHANGED <<shared, outcome, pool, loops, cur, tries, spent>>

\* compare_exchange_strong(expected, next): whether it succeeds, and what then.
SwapAlways(t) == TRUE  \* Mutant of SwapSucceeds: a plain exchange
SwapSucceeds(t) == queue[slot[t]] = expected[t]

SlotEmptied(t) == [queue EXCEPT ![slot[t]] = None]  \* Mutant of Swapped
Swapped(t) == [queue EXCEPT ![slot[t]] = cur[t]]

\* Swap the continuation found for the one to be resumed later, and run it.
YieldSwap(t) ==
  /\ pc[t] = "y_cas"
  /\ SwapSucceeds(t)
  /\ queue' = Swapped(t)
  /\ cur' = [cur EXCEPT ![t] = expected[t]]
  /\ pc' = [pc EXCEPT ![t] = "child"]
  /\ tries' = [tries EXCEPT ![t] = 0]
  /\ slot' = [slot EXCEPT ![t] = 0]
  /\ expected' = [expected EXCEPT ![t] = None]
  /\ UNCHANGED <<idx, joint, outcome, pool, loops, spent>>

YieldRetry(t) ==
  /\ pc[t] = "y_cas"
  /\ ~SwapSucceeds(t)
  /\ pc' = [pc EXCEPT ![t] = "y_fetch"]
  /\ slot' = [slot EXCEPT ![t] = 0]
  /\ expected' = [expected EXCEPT ![t] = None]
  /\ UNCHANGED <<shared, outcome, pool, loops, cur, tries, spent>>

------------------------------------------------------------------------------
(* continuation_for and _on_complete *)

NoMatter == TRUE  \* Mutant of FirstToStop: the last child to decide wins
FirstToStop == continuation = None

\* Is this the first child to decide the result?
Decide(t) ==
  /\ pc[t] = "c_cas"
  /\ IF FirstToStop
     THEN /\ continuation' = cur[t][1]
          /\ pc' = [pc EXCEPT ![t] = "c_store"]
     ELSE /\ pc' = [pc EXCEPT ![t] = "c_done"]
          /\ UNCHANGED continuation
  /\ UNCHANGED <<sched, done, result, boxes, called, calls, outcome, pool, loops,
                 cur, yvars, spent>>

\* Take the child's result out of its storage and move it up.  If that throws, the
\* exception is stored; what set_exception returns is dropped.
StoreResult(t) ==
  /\ pc[t] = "c_store"
  /\ boxes' = boxes \ {cur[t][1]}
  /\ \/ result' = cur[t][1]
     \/ outcome[cur[t][1]] \in Throwing /\ result' = Exception
  /\ pc' = [pc EXCEPT ![t] = "c_done"]
  /\ UNCHANGED <<sched, continuation, done, called, calls, outcome, pool, loops,
                 cur, yvars, spent>>

\* Mutants of AfterCount: one child too early; not looking for work.
AfterCountEarly  == IF done + 1 = N - 1 THEN "complete" ELSE "y_fetch"
AfterCountReturn == IF done + 1 = N THEN "complete" ELSE "idle"
AfterCount == IF done + 1 = N THEN "complete" ELSE "y_fetch"

\* Count the child; the last one completes the operation, the others look for
\* more work.
CountDone(t) ==
  /\ pc[t] = "c_done"
  /\ done' = done + 1
  /\ pc' = [pc EXCEPT ![t] = AfterCount]
  /\ cur' = [cur EXCEPT ![t] = None]
  /\ UNCHANGED <<sched, continuation, result, boxes, called, calls, outcome, pool,
                 loops, yvars, spent>>

\* _on_complete, and the call of the continuation it returns.
CallParent(t, r) ==
  /\ pc[t] = "complete"
  /\ called' = r
  /\ calls' = calls + 1
  /\ pc' = [pc EXCEPT ![t] = "idle"]
  /\ UNCHANGED <<sched, continuation, done, outcome, pool, loops, cur, yvars, spent>>

CallWithDecision(t) ==
  /\ continuation # None
  /\ CallParent(t, continuation)
  /\ UNCHANGED <<result, boxes>>

\* Only when_all gets here: take the values out of the children's storages.
CallWithValues(t) ==
  /\ continuation = None
  /\ result' = All
  /\ boxes' = {}
  /\ CallParent(t, All)

\* ... or call with the exception that moving one of them throws; the values not
\* taken yet stay where they are.
CallWithException(t) ==
  /\ continuation = None
  /\ "value" \in Throwing
  /\ result' = Exception
  /\ boxes' \in (SUBSET boxes) \ {boxes}
  /\ CallParent(t, Exception)

------------------------------------------------------------------------------
\* The code of the operation itself.
Work(t) ==
  \/ StartOp(t)
  \/ YieldFails(t) \/ YieldFetch(t) \/ YieldLoad(t) \/ YieldSwap(t) \/ YieldRetry(t)
  \/ Decide(t) \/ StoreResult(t) \/ CountDone(t)
  \/ CallWithDecision(t) \/ CallWithValues(t) \/ CallWithException(t)

\* The code of the children and of the other schedulers.
ChildWork(t) ==
  \/ \E c \in Children, s \in 1 .. Sites : Yield(t, c, s) \/ HandOff(t, c, s)
                                        \/ HandOffOnly(t, c, s)
  \/ \E c \in Children : NextRound(t, c) \/ \E o \in Outcomes : Complete(t, c, o)
  \/ \E k \in pool : PickUp(t, k)

\* The operation is over: nothing left to do.
Finished == /\ called # None
            /\ pool = {}
            /\ \A t \in Threads : pc[t] = "idle"
Terminating == Finished /\ UNCHANGED vars

Next ==
  \/ \E t \in Threads : Work(t) \/ ChildWork(t)
  \/ OuterStop
  \/ Terminating

Spec == Init /\ [][Next]_vars

\* Threads run, children do not compute forever between two calls, and the
\* schedulers call what they were given.  Nobody has to request a stop.
Fairness == \A t \in Threads : WF_vars(Work(t) \/ ChildWork(t))
FairSpec == Spec /\ Fairness

------------------------------------------------------------------------------
(* Properties *)

InQueue(c)   == {s \in Slots : queue[s] # None /\ queue[s][1] = c}
InPool(c)    == {k \in pool : k[1] = c}
OnThreads(c) == {t \in Threads : cur[t] # None /\ cur[t][1] = c}

\* The compare-exchange of _yield hands every continuation to one taker: a child
\* is never executed by two threads, nor queued while it runs, nor resumed once
\* it has completed, although a slot may hold a continuation again that a thread
\* loaded before others took it and put it back.
ChildInOnePlace ==
  \A c \in Children :
    /\ Cardinality(InQueue(c)) + Cardinality(InPool(c))
         + Cardinality(OnThreads(c)) <= 1
    /\ outcome[c] # None => InQueue(c) = {} /\ InPool(c) = {}

\* Nobody has the continuation of a child that has not completed.
Lost(c) == outcome[c] = None /\ InQueue(c) \cup InPool(c) \cup OnThreads(c) = {}

\* A child that has not completed is somewhere: nobody drops its continuation.
NoChildLost == pc[Main] # "start" => \A c \in Children : ~Lost(c)

\* Children that stay on one thread: _yield drops the one it is given only when there is no
\* other left to run, all of its siblings having completed.
OnlyLastChildLost ==
  pc[Main] # "start" =>
    \A c \in Children : Lost(c) => \A d \in Children \ {c} : outcome[d] # None

\* The operation calls its continuation at most once, and at that moment all
\* children have completed, none is executed or reported by some thread, and no
\* continuation is left that could be called afterwards.
QuietWhenCalled ==
  /\ calls <= 1
  /\ calls = 1 =>
       /\ \A c \in Children : outcome[c] # None
       /\ \A t \in Threads : pc[t] \in {"idle", "y_fetch", "y_load", "y_cas"}
       /\ \A s \in Slots : queue[s] = None
       /\ pool = {}

\* The signature the continuation is called with is the one in its storage.
ResultMatchesCall == calls = 1 => result = called

\* A result is moved out of its child's storage only while it is there, and at most
\* once; when_all has all of them when nobody decided.  Results nobody takes, those
\* of the others once somebody decided and those when_all did not get to when moving
\* one of them threw, stay behind, and nothing destroys them.
ResultsAccounted ==
  /\ \A t \in Threads :
       /\ pc[t] = "c_store" => cur[t][1] \in boxes
       /\ pc[t] = "complete" /\ continuation = None => boxes = Children
  /\ calls = 1 => CASE called = All            -> boxes = {}
                   [] called = Exception      -> boxes # Children
                   [] called \in Children     -> boxes = Children \ {called}

\* The continuation may destroy the operation (and_then replaces it by the next
\* one, repeat by the next round, sync_wait returns), so no thread may be inside a
\* member of it once the continuation is called.
NoUseAfterCall == calls = 1 => \A t \in Threads : pc[t] = "idle"

\* No thread is in the operation any more, and no scheduler has one of its children.
AtRest == pc[Main] # "start" /\ pool = {} /\ \A t \in Threads : pc[t] = "idle"

\* Threads scan at the same time and share one index, so a scan need not see
\* every slot; still no continuation is left in a slot when nobody scans any more.
NoChildStranded == AtRest => \A s \in Slots : queue[s] = None

\* The operation does not come to rest without an answer: it has called its continuation.
DeliveredAtRest == AtRest => calls = 1

\* A child that _yield has dropped is all that can keep it from that: whatever yields,
\* hand-offs, scans, decisions and counts overlap, nothing else brings it to rest.
RestsOnlyWhenLost == AtRest => calls = 1 \/ \E c \in Children : Lost(c)

\* The operation implements Join: _continuation and _done, two atomics updated
\* one after the other by each child, decide as if children completed at once.
Joined == INSTANCE Join WITH
  Deciding  <- {o \in Outcomes : Stops(o)},
  Failures  <- IF "value" \in Throwing THEN {Exception} ELSE {},
  decider   <- continuation,
  delivered <- called,
  outcome   <- [c \in Children |->
                 IF \E t \in Threads : /\ pc[t] = "c_cas"
                                      /\ cur[t][1] = c
                 THEN None ELSE outcome[c]]

ImplementsJoin == Joined!Spec

\* Every operation ends, if its children do: its continuation is called.
Delivered == <>(calls = 1)

\* ... unless it drops one of them; endless loops among them stop by themselves.
EndsUnlessLost == <>(calls = 1 \/ (pc[Main] # "start" /\ \E c \in Children : Lost(c)))

\* Round robin: a child in the queue gets a thread, even when its siblings are
\* loops that yield forever.
QueuedChildRuns ==
  \A c \in Children : (InQueue(c) # {}) ~> (OnThreads(c) # {})
==============================================================================
