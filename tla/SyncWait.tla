------------------------------ MODULE SyncWait -------------------------------
(***************************************************************************)
(* exy::sync_wait (include/exy/sync_wait.hpp): the main thread starts a    *)
(* future and blocks in a run_loop of its own until the future's           *)
(* continuation, on whatever thread the future completes, has stored the   *)
(* result and finished the loop.  Then it returns the result, or rethrows, *)
(* and destroys the loop and everything the future lived in.               *)
(*                                                                         *)
(* The future is a token: one thread at a time executes it, or another     *)
(* scheduler keeps it until one of its threads picks it up.  Nobody else   *)
(* knows the loop, so no job is ever pushed to it.                         *)
(***************************************************************************)
EXTENDS RunLoop

CONSTANTS
  Main,      \* the thread that calls sync_wait
  MaxHops    \* bound of the model: how often the future changes threads

ASSUME SyncWaitAssumption ==
  /\ Main \in Threads
  /\ MaxHops \in Nat
  /\ Null \notin {"value", "stopped", "error", "nullopt"}

VARIABLES
  hasError,   \* does the future have an error signature?
  moveThrows, \* may moving its value throw?
  mpc,       \* the main thread in sync_wait, see below
  holder,    \* the thread that executes the future, or Null
  stage,     \* of the future: "future" runs, "call" stores, "finish", "over", or
             \* "thrown" when storing the value threw
  signature, \* the tag the future completed with, or Null
  result,    \* what the result storage was given last
  ex,        \* _ex: is there an exception?
  outcome,   \* how sync_wait ended
  hops

given  == <<hasError, moveThrows>>  \* of the future sync_wait is called with
swvars == <<given, mpc, holder, stage, signature, result, ex, outcome, hops>>
allvars == <<vars, swvars>>

Tags == {"value", "stopped"} \cup (IF hasError THEN {"error"} ELSE {})

\* "start": before start().  "starting": in start().  "run": about to call
\* run().  "running": in run().  "returned": run() has returned.  "end": the
\* loop, the storage and the future are gone.  "aborted": so is the process.
SWTypeOK ==
  /\ TypeOK
  /\ hasError \in BOOLEAN /\ moveThrows \in BOOLEAN
  /\ mpc \in {"start", "starting", "run", "running", "returned", "end", "aborted"}
  /\ holder \in Threads \cup {Null}
  /\ stage \in {"future", "call", "finish", "over", "thrown"}
  /\ signature \in Tags \cup {Null}
  /\ result \in {"value", "nullopt", Null}
  /\ ex \in BOOLEAN
  /\ outcome \in {"value", "nullopt", "throw", "terminate", Null}
  /\ hops \in 0 .. MaxHops
  /\ \A t \in Threads :
       pc[t] = "notify_finish" <=> stage = "finish" /\ holder = t

SWInit ==
  /\ Init
  /\ hasError \in BOOLEAN /\ moveThrows \in BOOLEAN
  /\ mpc = "start"
  /\ holder = Null
  /\ stage = "future"
  /\ signature = Null
  /\ result = Null
  /\ ex = FALSE
  /\ outcome = Null
  /\ hops = 0

------------------------------------------------------------------------------
(* The future, and its continuation *)

\* ctx._op.start(ctx)
StartFuture ==
  /\ mpc = "start"
  /\ mpc' = "starting"
  /\ holder' = Main
  /\ UNCHANGED <<vars, given, stage, signature, result, ex, outcome, hops>>

\* The future gives itself to another scheduler, and t is free.
HandOff(t) ==
  /\ stage = "future" /\ holder = t
  /\ hops < MaxHops
  /\ holder' = Null
  /\ hops' = hops + 1
  /\ UNCHANGED <<vars, given, mpc, stage, signature, result, ex, outcome>>

PickUp(t) ==
  /\ stage = "future" /\ holder = Null
  /\ mpc # "start" /\ t # Main
  /\ holder' = t
  /\ UNCHANGED <<vars, given, mpc, stage, signature, result, ex, outcome, hops>>

\* Mutant of Call: an error goes into the storage of the result.
CallStoresError(t, tag) ==
  /\ stage = "future" /\ holder = t
  /\ stage' = "call"
  /\ signature' = tag
  /\ result' = IF tag = "stopped" THEN "nullopt" ELSE tag
  /\ UNCHANGED <<vars, given, mpc, holder, ex, outcome, hops>>

\* call<S>: take the result out of the storage, put the optional tuple, or the
\* exception, in place.
Call(t, tag) ==
  /\ stage = "future" /\ holder = t
  /\ stage' = "call"
  /\ signature' = tag
  /\ CASE tag = "value"   -> result' = "value" /\ UNCHANGED ex
       [] tag = "stopped" -> result' = "nullopt" /\ UNCHANGED ex
       [] tag = "error"   -> ex' = TRUE /\ UNCHANGED result
  /\ UNCHANGED <<vars, given, mpc, holder, outcome, hops>>

\* What becomes of an exception on the main thread: it leaves a function that is noexcept
\* exactly if the future has an error signature.
Thrown == IF hasError THEN "terminate" ELSE "throw"

\* Moving the value throws.  Out of the storage it must not (get is noexcept); into the
\* optional it may, and then call<S> ends before finish(): on the main thread the
\* exception leaves start() and sync_wait, on any other thread that thread's function.
CallThrows(t) ==
  /\ stage = "future" /\ holder = t
  /\ moveThrows
  /\ stage' = "thrown"
  /\ signature' = "value"
  /\ holder' = Null
  /\ \/ t = Main /\ mpc' = "end" /\ outcome' = Thrown
     \/ mpc' = "aborted" /\ outcome' = "terminate"
  /\ UNCHANGED <<vars, given, result, ex, hops>>

\* self._loop.finish()
Finish(t) ==
  /\ stage = "call" /\ holder = t
  /\ FinishSet(t)
  /\ stage' = "finish"
  /\ UNCHANGED <<given, mpc, holder, signature, result, ex, outcome, hops>>

FinishReturns(t) ==
  /\ stage = "finish" /\ holder = t
  /\ FinishNotify(t)
  /\ stage' = "over"
  /\ holder' = Null
  /\ UNCHANGED <<given, mpc, signature, result, ex, outcome, hops>>

------------------------------------------------------------------------------
(* The main thread *)

\* start() returns when the main thread has nothing of the future to execute.
StartReturns ==
  /\ mpc = "starting"
  /\ holder # Main
  /\ mpc' = "run"
  /\ UNCHANGED <<vars, given, holder, stage, signature, result, ex, outcome, hops>>

Run ==
  /\ mpc = "run"
  /\ RunBegin(Main)
  /\ mpc' = "running"
  /\ UNCHANGED <<given, holder, stage, signature, result, ex, outcome, hops>>

Running ==
  /\ mpc = "running"
  /\ PopWait(Main) \/ SpuriousWakeup(Main)
  /\ UNCHANGED swvars

RunReturns ==
  /\ mpc = "running"
  /\ PopReturn(Main)
  /\ mpc' = "returned"
  /\ UNCHANGED <<given, holder, stage, signature, result, ex, outcome, hops>>

\* Rethrow, or return the result; moving that out of its storage must not throw.
End ==
  /\ mpc = "returned"
  /\ mpc' = "end"
  /\ \/ outcome' = IF ex THEN Thrown ELSE result
     \/ result = "value" /\ moveThrows /\ outcome' = "terminate"
  /\ UNCHANGED <<vars, given, holder, stage, signature, result, ex, hops>>

------------------------------------------------------------------------------
Completer(t) ==
  \/ HandOff(t) \/ PickUp(t) \/ Finish(t) \/ FinishReturns(t)
  \/ CallThrows(t) \/ \E tag \in Tags : Call(t, tag)

MainStep == StartFuture \/ StartReturns \/ Run \/ Running \/ RunReturns \/ End

Terminating ==
  /\ mpc \in {"end", "aborted"} /\ stage \in {"over", "thrown"}
  /\ UNCHANGED allvars

SWNext == MainStep \/ Terminating \/ \E t \in Threads : Completer(t)

SWSpec == SWInit /\ [][SWNext]_allvars

\* The threads run, and the future completes when it gets a thread.
SWFairSpec ==
  /\ SWSpec
  /\ WF_allvars(StartFuture \/ StartReturns \/ Run \/ RunReturns \/ End)
  /\ \A t \in Threads :
       WF_allvars(Completer(t))

------------------------------------------------------------------------------
(* Properties *)

\* sync_wait ends only after the future has completed, and with its result: neither the
\* state the storage was in before, nor half of it, nor a result instead of an error, nor
\* an exception instead of a value that can be moved.
ReturnsResult ==
  mpc \in {"returned", "end"} =>
    /\ signature # Null
    /\ signature = "error" <=> ex
    /\ mpc = "end" =>
         CASE signature = "value"   -> outcome = "value" \/ moveThrows
           [] signature = "stopped" -> outcome = "nullopt"
           [] signature = "error"   -> outcome \in {"throw", "terminate"}

\* When the main thread destroys the loop and the storage, the thread on which
\* the future completed is through with both: finish() notifies before it
\* releases the mutex the main thread needs to get out of pop().
NobodyInside ==
  mpc \in {"returned", "end"} =>
    /\ stage \in {"over", "thrown"}
    /\ mutex = Null
    /\ \A t \in Threads : pc[t] = "user"

\* A future that is started completes sync_wait, on whichever thread it ends, unless the
\* process is gone before.
Ends == <>(mpc \in {"end", "aborted"})
==============================================================================
