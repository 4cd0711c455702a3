------------------------------- MODULE RunLoop -------------------------------
(***************************************************************************)
(* exy::run_loop (include/exy/scheduler/defer.hpp): an intrusive FIFO of   *)
(* jobs protected by a mutex, one condition variable, and a three-valued   *)
(* state.  Threads call run(), push() (through schedulers::defer) and      *)
(* finish() in any order the assertion in run() allows, from outside the   *)
(* loop as well as from the continuation of a job the loop is executing.   *)
(*                                                                         *)
(* Granularity.  The body of a critical section is one step, because only  *)
(* the holder of the mutex reads or writes what it touches; a section that *)
(* notifies keeps the mutex until the notification, which is a step of its *)
(* own, so that other threads can run (and block) in between.              *)
(***************************************************************************)
EXTENDS Naturals, Sequences

CONSTANTS
  Threads,   \* the threads that call members of the loop
  Jobs,      \* the job structs that operations push
  Null,      \* the null pointer, and "no thread"
  MaxCalls   \* bound of the model: how often push(), finish() and a nested run() are called

ASSUME RunLoopAssumption ==
  /\ Null \notin Threads
  /\ Null \notin Jobs
  /\ MaxCalls \in Nat

VARIABLES
  mutex,   \* _mutex: the thread that holds it, or Null
  head,    \* _head
  tail,    \* _tail
  next,    \* the next pointer of every job
  state,   \* _state
  pc,      \* what each thread does, see Pcs
  inRun,   \* is the thread inside run()?
  job,     \* the job whose continuation a thread inside run() executes
  outer,   \* the jobs whose continuations have called run() again, innermost first
  queued,  \* history: jobs pushed and not yet popped, in the order of the pushes
  calls    \* bound: the calls so far

list   == <<head, tail, next>>
vars   == <<mutex, list, state, pc, inRun, job, outer, queued, calls>>

(***************************************************************************)
(* "user": runs code that is not a member of the loop: its caller's or,    *)
(* inside run(), the continuation of job[t].  "pop": wants the mutex in    *)
(* pop().  "waiting": blocked in _cv.wait.  "notify_...": holds the mutex, *)
(* has changed the list or the state and is about to notify.               *)
(***************************************************************************)
Pcs == {"user", "pop", "waiting", "notify_push", "notify_finish"}

Queued  == {queued[i] : i \in DOMAIN queued}
Waiters == {t \in Threads : pc[t] = "waiting"}

OuterOK ==
  /\ outer \in [Threads -> Seq(Jobs)]
  /\ \A t \in Threads : outer[t] # <<>> => inRun[t]

TypeOK ==
  /\ mutex \in Threads \cup {Null}
  /\ head \in Jobs \cup {Null}
  /\ tail \in Jobs \cup {Null}
  /\ next \in [Jobs -> Jobs \cup {Null}]
  /\ state \in {"starting", "running", "finishing"}
  /\ pc \in [Threads -> Pcs]
  /\ inRun \in [Threads -> BOOLEAN]
  /\ job \in [Threads -> Jobs \cup {Null}]
  /\ \A t \in Threads :
       /\ inRun[t] <=> (job[t] # Null \/ pc[t] \in {"pop", "waiting"})
       /\ job[t] # Null => pc[t] \notin {"pop", "waiting"}
  /\ OuterOK
  /\ queued \in Seq(Jobs)
  /\ calls \in Nat

Init ==
  /\ mutex = Null
  /\ head = Null
  /\ tail = Null
  /\ next = [j \in Jobs |-> Null]
  /\ state = "starting"
  /\ pc = [t \in Threads |-> "user"]
  /\ inRun = [t \in Threads |-> FALSE]
  /\ job = [t \in Threads |-> Null]
  /\ outer = [t \in Threads |-> <<>>]
  /\ queued = <<>>
  /\ calls = 0

------------------------------------------------------------------------------
(* run() *)

\* run() up to its loop.  The caller must not enter a loop that is running:
\* exy_assert(false).
RunBegin(t) ==
  /\ pc[t] = "user" /\ ~inRun[t]
  /\ mutex = Null
  /\ state # "running"
  /\ state' = IF state = "starting" THEN "running" ELSE state
  /\ inRun' = [inRun EXCEPT ![t] = TRUE]
  /\ pc' = [pc EXCEPT ![t] = "pop"]
  /\ UNCHANGED <<mutex, list, job, outer, queued, calls>>

\* A continuation that the loop executes calls run() again.
RunNested(t) ==
  /\ pc[t] = "user" /\ inRun[t]
  /\ calls < MaxCalls
  /\ mutex = Null
  /\ state # "running"
  /\ calls' = calls + 1
  /\ outer' = [outer EXCEPT ![t] = <<job[t]>> \o @]
  /\ job' = [job EXCEPT ![t] = Null]
  /\ pc' = [pc EXCEPT ![t] = "pop"]
  /\ UNCHANGED <<mutex, list, state, inRun, queued>>

PopPredicate == head # Null \/ state = "finishing"

\* t is about to test the predicate, and nobody holds the mutex.
InPopUnlocked(t) == pc[t] = "pop"  \* Mutant of InPop: without the mutex
InPop(t) == pc[t] = "pop" /\ mutex = Null

\* When pop() returns nullptr.
ReturnsUndrained == state = "finishing"  \* Mutant of ReturnsNull: jobs are left
ReturnsUntested  == head = Null          \* Mutant of ReturnsNull: at any wakeup
ReturnsNull == head = Null /\ state = "finishing"

PoppedSecond == next[head]  \* Mutant of Popped: the exchange returns its new value
Popped == head

TailKept == tail  \* Mutant of TailAfterPop: popping the last job keeps _tail
TailAfterPop == IF next[head] = Null THEN Null ELSE tail

\* _cv.wait finds its predicate false: release the mutex and block.
PopWait(t) ==
  /\ InPop(t)
  /\ ~PopPredicate
  /\ pc' = [pc EXCEPT ![t] = "waiting"]
  /\ UNCHANGED <<mutex, list, state, inRun, job, outer, queued, calls>>

\* _cv.wait may return without a notification; it tests the predicate again.
SpuriousWakeup(t) ==
  /\ pc[t] = "waiting"
  /\ pc' = [pc EXCEPT ![t] = "pop"]
  /\ UNCHANGED <<mutex, list, state, inRun, job, outer, queued, calls>>

\* pop() returns the first job and run() calls its continuation.
PopTake(t) ==
  /\ InPop(t)
  /\ head # Null
  /\ job' = [job EXCEPT ![t] = Popped]
  /\ head' = next[head]
  /\ tail' = TailAfterPop
  /\ queued' = Tail(queued)
  /\ pc' = [pc EXCEPT ![t] = "user"]
  /\ UNCHANGED <<mutex, next, state, inRun, outer, calls>>

\* pop() returns nullptr and run() returns.
PopReturn(t) ==
  /\ InPop(t)
  /\ ReturnsNull
  /\ outer[t] = <<>>
  /\ inRun' = [inRun EXCEPT ![t] = FALSE]
  /\ pc' = [pc EXCEPT ![t] = "user"]
  /\ UNCHANGED <<mutex, list, state, job, outer, queued, calls>>

\* ... to the continuation that called it.
NestedReturn(t) ==
  /\ InPop(t)
  /\ ReturnsNull
  /\ outer[t] # <<>>
  /\ job' = [job EXCEPT ![t] = Head(outer[t])]
  /\ outer' = [outer EXCEPT ![t] = Tail(@)]
  /\ pc' = [pc EXCEPT ![t] = "user"]
  /\ UNCHANGED <<mutex, list, state, inRun, queued, calls>>

\* The continuation returns to run().
JobReturns(t) ==
  /\ pc[t] = "user" /\ inRun[t]
  /\ job' = [job EXCEPT ![t] = Null]
  /\ pc' = [pc EXCEPT ![t] = "pop"]
  /\ UNCHANGED <<mutex, list, state, inRun, outer, queued, calls>>

------------------------------------------------------------------------------
(* push() and finish() *)

\* Mutant of NotifyOneAndUnlock: no notification.
UnlockSilently(t) == mutex' = Null /\ pc' = [pc EXCEPT ![t] = "user"]

\* _cv.notify_one at the end of t's critical section: one waiter, if there is
\* any, goes back to pop's predicate, and t releases the mutex.
NotifyOneAndUnlock(t) ==
  /\ mutex' = Null
  /\ \/ /\ Waiters = {}
        /\ pc' = [pc EXCEPT ![t] = "user"]
     \/ \E w \in Waiters : pc' = [pc EXCEPT ![t] = "user", ![w] = "pop"]

\* A defer operation fills in its job and pushes it.  Its job is not in the
\* queue: an operation is started again only after its continuation was called.
CallsPush(t, j) ==
  /\ pc[t] = "user"
  /\ calls < MaxCalls
  /\ mutex = Null
  /\ j \notin Queued
  /\ calls' = calls + 1
  /\ queued' = Append(queued, j)

\* start() of a defer operation overwrites the whole job struct.
FilledPartly(j) == next  \* Mutant of Filled: the next pointer is not reset
Filled(j) == [next EXCEPT ![j] = Null]

PushAppend(t, j) ==
  /\ CallsPush(t, j)
  /\ tail # Null
  /\ next' = [Filled(j) EXCEPT ![tail] = j]
  /\ tail' = j
  /\ UNCHANGED <<mutex, head, state, pc, inRun, job, outer>>

PushFirst(t, j) ==
  /\ CallsPush(t, j)
  /\ tail = Null
  /\ next' = Filled(j)
  /\ head' = j
  /\ tail' = j
  /\ mutex' = t
  /\ pc' = [pc EXCEPT ![t] = "notify_push"]
  /\ UNCHANGED <<state, inRun, job, outer>>

PushNotify(t) ==
  /\ pc[t] = "notify_push"
  /\ NotifyOneAndUnlock(t)
  /\ UNCHANGED <<list, state, inRun, job, outer, queued, calls>>

FinishSet(t) ==
  /\ pc[t] = "user"
  /\ calls < MaxCalls
  /\ mutex = Null
  /\ calls' = calls + 1
  /\ mutex' = t
  /\ state' = "finishing"
  /\ pc' = [pc EXCEPT ![t] = "notify_finish"]
  /\ UNCHANGED <<list, inRun, job, outer, queued>>

FinishNotify(t) ==
  /\ pc[t] = "notify_finish"
  /\ NotifyOneAndUnlock(t)
  /\ UNCHANGED <<list, state, inRun, job, outer, queued, calls>>

------------------------------------------------------------------------------
\* The steps of pop(), of the notifications and of a continuation that returns.
Progress(t) ==
  \/ PopWait(t) \/ PopTake(t) \/ PopReturn(t) \/ NestedReturn(t)
  \/ PushNotify(t) \/ FinishNotify(t)
  \/ JobReturns(t)

Next ==
  \E t \in Threads :
    \/ RunBegin(t) \/ RunNested(t) \/ FinishSet(t) \/ SpuriousWakeup(t) \/ Progress(t)
    \/ \E j \in Jobs : PushAppend(t, j) \/ PushFirst(t, j)

Spec == Init /\ [][Next]_vars

\* Threads keep executing the loop's code and the continuations they call;
\* nothing obliges a client to call anything, or a waiter to wake spuriously.
Fairness == \A t \in Threads : WF_vars(Progress(t))
FairSpec == Spec /\ Fairness

------------------------------------------------------------------------------
(* Properties *)

\* The intrusive list always spells out the jobs pushed and not yet popped,
\* oldest first, although the next pointer of a job that is pushed again still
\* holds whatever its previous stay in the queue left there.
ListRepresentsQueue ==
  /\ queued = <<>> => head = Null /\ tail = Null
  /\ queued # <<>> =>
       /\ head = queued[1]
       /\ tail = queued[Len(queued)]
       /\ next[tail] = Null
  /\ \A i \in 1 .. Len(queued) - 1 : next[queued[i]] = queued[i + 1]
  /\ \A i, k \in 1 .. Len(queued) : queued[i] = queued[k] => i = k

\* Although push() notifies only when it finds the queue empty, and finish()
\* notifies one thread only, no thread is left blocked in pop() once its
\* predicate holds and the notifying section has been left.
NoLostWakeup ==
  mutex = Null /\ PopPredicate => Waiters = {}

\* A job that is queued while some thread is inside run() is executed.
QueuedJobRuns ==
  \A j \in Jobs :
    (j \in Queued /\ \E t \in Threads : inRun[t]) ~> (j \notin Queued)

\* After finish() every thread inside run() gets out of it.
FinishStopsRun ==
  \A t \in Threads : (state = "finishing" /\ inRun[t]) ~> ~inRun[t]

\* run_loop implements WorkQueue: first in first out, one execution for every
\* push, and no return from run() before finish() was called and the queue
\* drained.
Abstract == INSTANCE WorkQueue WITH
  queue     <- queued,
  closed    <- state = "finishing",
  running   <- {t \in Threads : inRun[t]},
  executing <- job,
  suspended <- outer

ImplementsWorkQueue == Abstract!Spec
==============================================================================
