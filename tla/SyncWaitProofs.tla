--------------------------- MODULE SyncWaitProofs ----------------------------
(***************************************************************************)
(* Proofs about SyncWait, for any set of threads, any number of hops, and  *)
(* futures with and without errors and values whose move throws.           *)
(* Its steps are steps of RunLoop or leave the loop alone, so that what is *)
(* proved of RunLoop holds of the loop inside sync_wait.                   *)
(***************************************************************************)
EXTENDS SyncWait, RunLoopProofs

\* Who is where.  The main thread is the only one inside run(); the loop is
\* finishing exactly from the moment the future's continuation calls finish();
\* and the main thread gets out of run() only when that call is over.
PlaceInv ==
  /\ \A t \in Threads : /\ inRun[t] => t = Main /\ mpc \in {"running", "aborted"}
                        /\ job[t] = Null
                        /\ pc[t] # "notify_push"
  /\ state = "finishing" <=> stage \in {"finish", "over"}
  /\ mpc = "running" => inRun[Main]
  /\ stage \in {"over", "thrown"} => holder = Null
  /\ stage \in {"call", "finish"} => holder # Null
  /\ holder = Main => mpc = "starting"
  /\ mpc = "start" => stage = "future" /\ holder = Null
  /\ mpc = "returned" => stage = "over"
  /\ mpc = "end" => stage \in {"over", "thrown"}
  /\ stage = "thrown" => mpc \in {"end", "aborted"}

\* What the continuation has stored.
StoredInv ==
  /\ stage = "future" <=> signature = Null
  /\ ex <=> signature = "error"
  /\ stage = "thrown" => signature = "value" /\ moveThrows
  /\ signature = "value" => result = "value" \/ stage = "thrown"
  /\ signature = "stopped" => result = "nullopt"
  /\ mpc = "end" =>
       /\ signature = "value" => outcome = "value" \/ moveThrows
       /\ signature = "stopped" => outcome = "nullopt"
       /\ signature = "error" => outcome \in {"throw", "terminate"}

SWInv == IInv /\ SWTypeOK /\ PlaceInv /\ StoredInv

------------------------------------------------------------------------------
\* sync_wait does nothing to its loop but what the members of the loop do.
LEMMA StepOfLoop ==
  ASSUME [SWNext]_allvars
  PROVE  [Next]_vars
<1> USE SyncWaitAssumption
<1>1. CASE UNCHANGED vars
  BY <1>1
<1>2. ASSUME NEW t \in Threads, Completer(t) PROVE [Next]_vars
  BY <1>2 DEF Completer, HandOff, PickUp, Finish, FinishReturns, Call, CallThrows, Next,
              Progress
<1>3. CASE MainStep
  BY <1>3 DEF MainStep, StartFuture, StartReturns, Run, Running, RunReturns, End,
              Next, Progress
<1> QED
  BY <1>1, <1>2, <1>3 DEF SWNext, Terminating, allvars

\* The loop of a sync_wait is a RunLoop: it satisfies everything RunLoop does.
THEOREM LoopOfSyncWait == SWSpec => Spec
<1>1. SWInit => Init
  BY DEF SWInit
<1> QED
  BY <1>1, StepOfLoop, PTL DEF SWSpec, Spec

------------------------------------------------------------------------------
\* The invariant holds initially, and every step keeps it.
LEMMA SWInitInv == SWInit => SWInv
<1> SUFFICES ASSUME SWInit PROVE SWInv
  OBVIOUS
<1> USE RunLoopAssumption, SyncWaitAssumption
<1>1. Init /\ IInv
  BY InitInv DEF SWInit
<1>2. SWTypeOK
  <2>1. TypeOK
    BY <1>1 DEF IInv
  <2>2. \A t \in Threads : pc[t] = "notify_finish" <=> stage = "finish" /\ holder = t
    BY DEF SWInit, Init
  <2>3. hops \in 0 .. MaxHops
    BY DEF SWInit
  <2> QED
    BY <2>1, <2>2, <2>3 DEF SWInit, SWTypeOK
<1>3. PlaceInv
  BY <1>1 DEF SWInit, Init, PlaceInv
<1>4. StoredInv
  BY DEF SWInit, StoredInv
<1> QED
  BY <1>1, <1>2, <1>3, <1>4 DEF SWInv

LEMMA SWNextInv ==
  ASSUME SWInv, [SWNext]_allvars
  PROVE  SWInv'
<1> USE RunLoopAssumption, SyncWaitAssumption
<1>1. IInv' /\ TypeOK'
  BY StepOfLoop, NextInv DEF SWInv, IInv
<1> USE DEF SWInv, SWTypeOK, PlaceInv, StoredInv, Tags, IInv, TypeOK, Pcs, WaitInv, vars, list,
            given
<1>2. CASE StartFuture
  BY <1>1, <1>2 DEF StartFuture
<1>3. CASE StartReturns
  BY <1>1, <1>3 DEF StartReturns
<1>4. CASE Run
  BY <1>1, <1>4 DEF Run, RunBegin
<1>5. CASE Running
  BY <1>1, <1>5 DEF Running, PopWait, SpuriousWakeup, swvars
<1>6. CASE RunReturns
  <2> USE <1>6 DEF RunReturns, PopReturn
  <2>1. stage = "over"
    <3>1. mutex = Null /\ state = "finishing"
      BY DEF InPop, ReturnsNull, PopPredicate
    <3>2. stage # "finish"
      BY <3>1
    <3> QED
      BY <3>1, <3>2
  <2>2. TypeOK' /\ SWTypeOK'
    BY <1>1, <2>1
  <2>3. PlaceInv'
    BY <1>1, <2>1
  <2>4. StoredInv'
    BY <2>1
  <2> QED
    BY <1>1, <2>2, <2>3, <2>4
<1>7. CASE End
  BY <1>1, <1>7 DEF End, Thrown
<1>8. ASSUME NEW t \in Threads, HandOff(t) PROVE SWInv'
  BY <1>1, <1>8 DEF HandOff
<1>9. ASSUME NEW t \in Threads, PickUp(t) PROVE SWInv'
  BY <1>1, <1>9 DEF PickUp
<1>10. ASSUME NEW t \in Threads, NEW tag \in Tags, Call(t, tag) PROVE SWInv'
  <2> USE <1>1, <1>10 DEF Call
  <2>1. tag = "value" \/ tag = "stopped" \/ (tag = "error" /\ hasError)
    OBVIOUS
  <2>2. PlaceInv' /\ (mpc' = mpc /\ mpc # "end")
    OBVIOUS
  <2>3. /\ result' \in {"value", "nullopt", Null} /\ ex' \in BOOLEAN
        /\ (ex' <=> tag = "error")
        /\ tag = "value" => result' = "value"
        /\ tag = "stopped" => result' = "nullopt"
    BY <2>1
  <2>4. SWTypeOK' /\ StoredInv'
    BY <2>2, <2>3
  <2> QED
    BY <2>2, <2>4
<1>11. ASSUME NEW t \in Threads, Finish(t) PROVE SWInv'
  BY <1>1, <1>11 DEF Finish, FinishSet
<1>12. ASSUME NEW t \in Threads, FinishReturns(t) PROVE SWInv'
  BY <1>1, <1>12 DEF FinishReturns, FinishNotify, NotifyOneAndUnlock, Waiters
<1>13. ASSUME NEW t \in Threads, CallThrows(t) PROVE SWInv'
  BY <1>1, <1>13 DEF CallThrows, Thrown
<1>14. CASE UNCHANGED allvars
  BY <1>1, <1>14 DEF allvars, swvars
<1> QED
  BY <1>2, <1>3, <1>4, <1>5, <1>6, <1>7, <1>8, <1>9, <1>10, <1>11, <1>12, <1>13,
     <1>14 DEF SWNext, MainStep, Completer, Terminating

\* Every reachable state of sync_wait satisfies the inductive invariant.
THEOREM SWInvariance == SWSpec => []SWInv
BY SWInitInv, SWNextInv, PTL DEF SWSpec

------------------------------------------------------------------------------
\* The state of sync_wait (lines 22-28 and 84-91) keeps its type, and the thread
\* in finish() is the one the future ended on.
THEOREM SWTypeCorrect == SWSpec => []SWTypeOK
<1>1. SWInv => SWTypeOK
  BY DEF SWInv
<1> QED
  BY <1>1, SWInvariance, PTL

\* On whatever thread and after however many hops the future completes, sync_wait
\* returns (lines 101-105) only after the continuation has stored the whole result
\* (lines 44-81), and returns that: never a result when there is an error, and never an
\* exception instead of a value that can be moved.
THEOREM ResultReturned == SWSpec => []ReturnsResult
<1>1. SWInv => ReturnsResult
  <2> SUFFICES ASSUME SWInv, mpc \in {"returned", "end"} PROVE ReturnsResult
    BY DEF ReturnsResult
  <2>1. signature \in {"value", "stopped", "error"} /\ signature # Null
    BY SyncWaitAssumption DEF SWInv, SWTypeOK, PlaceInv, StoredInv, Tags
  <2>2. signature = "error" <=> ex
    BY DEF SWInv, StoredInv
  <2> QED
    BY <2>1, <2>2 DEF SWInv, StoredInv, ReturnsResult
<1> QED
  BY <1>1, SWInvariance, PTL

\* For any set of threads: when the main thread leaves sync_wait (line 106) and
\* destroys the loop, nobody is inside finish() (defer.hpp, lines 62-67) any more.
THEOREM NobodyLeftInside == SWSpec => []NobodyInside
<1>1. ASSUME SWInv, mpc \in {"returned", "end"} PROVE NobodyInside
  <2> USE <1>1, RunLoopAssumption DEF SWInv, PlaceInv
  <2>1. stage \in {"over", "thrown"}
    OBVIOUS
  <2>2. ASSUME NEW t \in Threads PROVE pc[t] = "user" /\ mutex # t
    <3>1. pc[t] \notin {"notify_push", "notify_finish"}
      BY <2>1 DEF SWTypeOK
    <3>2. pc[t] \notin {"pop", "waiting"}
      BY DEF IInv, TypeOK
    <3> QED
      BY <3>1, <3>2 DEF IInv, TypeOK, Pcs, WaitInv
  <2>3. mutex = Null
    BY <2>2 DEF IInv, TypeOK
  <2> QED
    BY <2>1, <2>2, <2>3 DEF NobodyInside
<1>2. SWInv => NobodyInside
  BY <1>1 DEF NobodyInside
<1> QED
  BY <1>2, SWInvariance, PTL
==============================================================================
