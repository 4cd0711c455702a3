---------------------------- MODULE RunLoopProofs ----------------------------
(***************************************************************************)
(* Proofs about RunLoop, for any set of threads, any set of jobs and any   *)
(* number of calls.                                                        *)
(***************************************************************************)
EXTENDS RunLoop, SequenceTheorems, TLAPS

\* The parts of actions that have a name only to be named.
USE DEF InPop, ReturnsNull, Popped, TailAfterPop, Filled

\* Who may be blocked, and who holds the mutex: the strengthening that makes
\* NoLostWakeup inductive.  One notification is enough because at most one
\* thread can wait: only the thread that took the loop from "starting" to
\* "running" ever finds pop's predicate false.
WaitInv ==
  /\ state = "starting" => \A t \in Threads : ~inRun[t]
  /\ state = "running" => \A t, u \in Threads : inRun[t] /\ inRun[u] => t = u
  /\ \A t \in Threads : pc[t] \in {"notify_push", "notify_finish"} <=> mutex = t
  /\ \A t, u \in Waiters : t = u
  /\ NoLostWakeup

IInv == TypeOK /\ ListRepresentsQueue /\ WaitInv

------------------------------------------------------------------------------
\* What Head and Tail do to a sequence, in the form the list lemmas use.
LEMMA HeadAndTail ==
  ASSUME NEW S, NEW s \in Seq(S), s # <<>>
  PROVE  /\ Len(s) \in Nat \ {0}
         /\ Head(s) = s[1]
         /\ Tail(s) \in Seq(S)
         /\ Len(Tail(s)) = Len(s) - 1
         /\ Tail(s) = <<>> <=> Len(s) = 1
         /\ \A i \in 1 .. Len(s) - 1 : Tail(s)[i] = s[i + 1]
<1>1. Len(s) \in Nat \ {0}
  BY EmptySeq
<1>2. /\ Tail(s) \in Seq(S)
      /\ Len(Tail(s)) = Len(s) - 1
      /\ \A i \in 1 .. Len(Tail(s)) : Tail(s)[i] = s[i + 1]
  BY HeadTailProperties
<1>3. Tail(s) = <<>> <=> Len(Tail(s)) = 0
  BY <1>2, EmptySeq
<1>4. Head(s) = s[1]
  OBVIOUS
<1> QED
  BY <1>1, <1>2, <1>3, <1>4

------------------------------------------------------------------------------
\* A thread that has called run() again comes back to a continuation of the loop.
LEMMA OuterStep ==
  ASSUME TypeOK, [Next]_vars
  PROVE  OuterOK'
<1> USE DEF OuterOK
<1>1. /\ outer \in [Threads -> Seq(Jobs)]
      /\ inRun \in [Threads -> BOOLEAN]
      /\ \A t \in Threads : outer[t] # <<>> => inRun[t]
  BY DEF TypeOK
<1>2. ASSUME NEW t \in Threads, RunNested(t) PROVE OuterOK'
  <2>1. job[t] \in Jobs
    BY <1>2 DEF RunNested, TypeOK, Pcs
  <2>2. <<job[t]>> \in Seq(Jobs) /\ outer[t] \in Seq(Jobs)
    BY <1>1, <2>1
  <2>3. <<job[t]>> \o outer[t] \in Seq(Jobs)
    BY <2>2, ConcatProperties
  <2> QED
    BY <1>1, <1>2, <2>3 DEF RunNested
<1>3. ASSUME NEW t \in Threads, NestedReturn(t) PROVE OuterOK'
  <2>1. Tail(outer[t]) \in Seq(Jobs)
    BY <1>1, <1>3, HeadTailProperties DEF NestedReturn
  <2> QED
    BY <1>1, <1>3, <2>1 DEF NestedReturn
<1>4. ASSUME NEW t \in Threads, RunBegin(t) PROVE OuterOK'
  BY <1>1, <1>4 DEF RunBegin
<1>5. ASSUME NEW t \in Threads, PopReturn(t) PROVE OuterOK'
  BY <1>1, <1>5 DEF PopReturn
<1>6. ASSUME outer' = outer, inRun' = inRun PROVE OuterOK'
  BY <1>1, <1>6
<1> QED
  BY <1>2, <1>3, <1>4, <1>5, <1>6
     DEF Next, Progress, FinishSet, SpuriousWakeup, PopWait, PopTake, JobReturns,
         PushNotify, FinishNotify, PushAppend, PushFirst, vars

\* The variables keep their types.
LEMMA TypeStep ==
  ASSUME TypeOK, ListRepresentsQueue, [Next]_vars
  PROVE  TypeOK'
<1>0. OuterOK'
  BY OuterStep
<1> USE RunLoopAssumption, <1>0 DEF TypeOK, Pcs
<1>1. ASSUME NEW t \in Threads, RunBegin(t) PROVE TypeOK'
  BY <1>1 DEF RunBegin, list
<1>2. ASSUME NEW t \in Threads, FinishSet(t) PROVE TypeOK'
  BY <1>2 DEF FinishSet, list
<1>3. ASSUME NEW t \in Threads, SpuriousWakeup(t) PROVE TypeOK'
  BY <1>3 DEF SpuriousWakeup, list
<1>4. ASSUME NEW t \in Threads, PopWait(t) PROVE TypeOK'
  BY <1>4 DEF PopWait, list
<1>5. ASSUME NEW t \in Threads, PopTake(t) PROVE TypeOK'
  <2>1. queued # <<>> /\ Tail(queued) \in Seq(Jobs)
    BY <1>5, HeadAndTail DEF PopTake, ListRepresentsQueue
  <2>2. /\ head \in Jobs
        /\ head' \in Jobs \cup {Null}
        /\ tail' \in Jobs \cup {Null}
        /\ job' \in [Threads -> Jobs \cup {Null}]
        /\ pc' \in [Threads -> Pcs]
    BY <1>5 DEF PopTake
  <2>3. \A u \in Threads :
          /\ inRun'[u] <=> (job'[u] # Null \/ pc'[u] \in {"pop", "waiting"})
          /\ job'[u] # Null => pc'[u] \notin {"pop", "waiting"}
    <3> TAKE u \in Threads
    <3>1. CASE u = t
      BY <1>5, <2>2, <3>1 DEF PopTake
    <3>2. CASE u # t
      BY <1>5, <3>2 DEF PopTake
    <3> QED
      BY <3>1, <3>2
  <2> QED
    BY <1>5, <2>1, <2>2, <2>3 DEF PopTake
<1>6. ASSUME NEW t \in Threads, PopReturn(t) PROVE TypeOK'
  BY <1>6 DEF PopReturn, list
<1>7. ASSUME NEW t \in Threads, JobReturns(t) PROVE TypeOK'
  BY <1>7 DEF JobReturns, list
<1>8. ASSUME NEW t \in Threads, PushNotify(t) PROVE TypeOK'
  BY <1>8 DEF PushNotify, NotifyOneAndUnlock, Waiters, list
<1>9. ASSUME NEW t \in Threads, FinishNotify(t) PROVE TypeOK'
  BY <1>9 DEF FinishNotify, NotifyOneAndUnlock, Waiters, list
<1>10. ASSUME NEW t \in Threads, NEW j \in Jobs, PushAppend(t, j) PROVE TypeOK'
  <2>1. Append(queued, j) \in Seq(Jobs)
    BY AppendProperties
  <2> QED
    BY <1>10, <2>1 DEF PushAppend, CallsPush
<1>11. ASSUME NEW t \in Threads, NEW j \in Jobs, PushFirst(t, j) PROVE TypeOK'
  <2>1. Append(queued, j) \in Seq(Jobs)
    BY AppendProperties
  <2> QED
    BY <1>11, <2>1 DEF PushFirst, CallsPush
<1>12. ASSUME NEW t \in Threads, RunNested(t) PROVE TypeOK'
  BY <1>12 DEF RunNested, list
<1>13. ASSUME NEW t \in Threads, NestedReturn(t) PROVE TypeOK'
  <2>1. Head(outer[t]) \in Jobs /\ inRun[t]
    BY <1>13, HeadTailProperties DEF NestedReturn, OuterOK
  <2> QED
    BY <1>13, <2>1 DEF NestedReturn, list
<1>14. CASE UNCHANGED vars
  BY <1>14 DEF vars, list
<1> QED
  BY <1>1, <1>2, <1>3, <1>4, <1>5, <1>6, <1>7, <1>8, <1>9, <1>10, <1>11, <1>12, <1>13,
     <1>14 DEF Next, Progress

------------------------------------------------------------------------------
\* Only pops and pushes touch the list.
LEMMA ListFrame ==
  ASSUME [Next]_vars
  PROVE  \/ UNCHANGED <<head, tail, next, queued>>
         \/ \E t \in Threads : PopTake(t)
         \/ \E t \in Threads, j \in Jobs : PushAppend(t, j) \/ PushFirst(t, j)
BY DEF Next, Progress, RunBegin, RunNested, FinishSet, SpuriousWakeup, PopWait,
       PopReturn, NestedReturn, JobReturns, PushNotify, FinishNotify, vars, list

\* pop() keeps the list in step with the queue, and hands out its oldest job.
LEMMA TakeKeepsList ==
  ASSUME TypeOK, ListRepresentsQueue, NEW t \in Threads, PopTake(t)
  PROVE  /\ queued # <<>>
         /\ job'[t] = Head(queued)
         /\ ListRepresentsQueue'
<1> USE RunLoopAssumption DEF TypeOK
<1>1. queued # <<>>
  BY DEF PopTake, ListRepresentsQueue
<1>2. /\ head = queued[1]
      /\ tail = queued[Len(queued)]
      /\ next[tail] = Null
  BY <1>1 DEF ListRepresentsQueue
<1>3. /\ Len(queued) \in Nat \ {0}
      /\ Head(queued) = queued[1]
      /\ queued' \in Seq(Jobs)
      /\ Len(queued') = Len(queued) - 1
      /\ queued' = <<>> <=> Len(queued) = 1
      /\ \A i \in 1 .. Len(queued) - 1 : queued'[i] = queued[i + 1]
  BY <1>1, HeadAndTail DEF PopTake
<1>4. \A i \in 1 .. Len(queued) : queued[i] \in Jobs
  BY ElementOfSeq
<1>5. CASE Len(queued) = 1
  <2>1. queued' = <<>> /\ next[head] = Null
    BY <1>2, <1>3, <1>5
  <2>2. head' = Null /\ tail' = Null /\ job'[t] = Head(queued)
    BY <1>2, <1>3, <2>1 DEF PopTake
  <2>3. Len(queued') = 0
    BY <1>3, <1>5
  <2>4. ListRepresentsQueue'
    BY <2>1, <2>2, <2>3 DEF ListRepresentsQueue
  <2> QED
    BY <1>1, <2>2, <2>4
<1>6. CASE Len(queued) # 1
  <2>1. next[head] = queued[2] /\ queued[2] \in Jobs
    BY <1>2, <1>3, <1>4, <1>6 DEF ListRepresentsQueue
  <2>2. head' = queued'[1] /\ tail' = tail /\ next' = next
    BY <1>3, <1>6, <2>1 DEF PopTake
  <2>3. tail' = queued'[Len(queued')] /\ next'[tail'] = Null
    BY <1>2, <1>3, <1>6, <2>2
  <2>4. \A i \in 1 .. Len(queued') - 1 : next'[queued'[i]] = queued'[i + 1]
    <3> TAKE i \in 1 .. Len(queued') - 1
    <3>1. /\ i \in 1 .. Len(queued) - 1
          /\ i + 1 \in 1 .. Len(queued) - 1
          /\ queued'[i] = queued[i + 1]
          /\ queued'[i + 1] = queued[(i + 1) + 1]
      BY <1>3
    <3> QED
      BY <2>2, <3>1 DEF ListRepresentsQueue
  <2>5. \A i, k \in 1 .. Len(queued') : queued'[i] = queued'[k] => i = k
    <3> TAKE i, k \in 1 .. Len(queued')
    <3>1. /\ i + 1 \in 1 .. Len(queued)
          /\ k + 1 \in 1 .. Len(queued)
          /\ queued'[i] = queued[i + 1]
          /\ queued'[k] = queued[k + 1]
      BY <1>3
    <3>2. queued[i + 1] = queued[k + 1] => i + 1 = k + 1
      BY <3>1 DEF ListRepresentsQueue
    <3> QED
      BY <3>1, <3>2
  <2>6. queued' # <<>>
    BY <1>3, <1>6
  <2>7. job'[t] = Head(queued)
    BY <1>2, <1>3 DEF PopTake
  <2> QED
    BY <1>1, <2>2, <2>3, <2>4, <2>5, <2>6, <2>7 DEF ListRepresentsQueue
<1> QED
  BY <1>5, <1>6

\* What a push appends, for both branches of push().
LEMMA PushShape ==
  ASSUME TypeOK, ListRepresentsQueue, NEW t \in Threads, NEW j \in Jobs,
         CallsPush(t, j)
  PROVE  /\ Len(queued) \in Nat
         /\ queued' \in Seq(Jobs)
         /\ queued' # <<>>
         /\ Len(queued') = Len(queued) + 1
         /\ \A i \in 1 .. Len(queued) : queued'[i] = queued[i] /\ queued[i] \in Jobs
         /\ queued'[Len(queued) + 1] = j
         /\ \A i \in 1 .. Len(queued) : queued[i] # j
         /\ \A i, k \in 1 .. Len(queued') : queued'[i] = queued'[k] => i = k
<1> USE DEF TypeOK
<1>1. /\ Len(queued) \in Nat
      /\ DOMAIN queued = 1 .. Len(queued)
  BY LenProperties
<1>2. /\ queued' \in Seq(Jobs)
      /\ queued' # <<>>
      /\ Len(queued') = Len(queued) + 1
      /\ \A i \in 1 .. Len(queued) : queued'[i] = queued[i]
      /\ queued'[Len(queued) + 1] = j
  BY AppendProperties DEF CallsPush
<1>3. \A i \in 1 .. Len(queued) : queued[i] \in Jobs /\ queued[i] # j
  BY <1>1, ElementOfSeq DEF CallsPush, Queued
<1>4. \A i, k \in 1 .. Len(queued') : queued'[i] = queued'[k] => i = k
  <2> TAKE i, k \in 1 .. Len(queued')
  <2>1. CASE i \in 1 .. Len(queued) /\ k \in 1 .. Len(queued)
    BY <1>2, <2>1 DEF ListRepresentsQueue
  <2>2. CASE i \in 1 .. Len(queued) /\ k = Len(queued) + 1
    BY <1>2, <1>3, <2>2
  <2>3. CASE i = Len(queued) + 1 /\ k \in 1 .. Len(queued)
    BY <1>2, <1>3, <2>3
  <2>4. CASE i = Len(queued) + 1 /\ k = Len(queued) + 1
    BY <2>4
  <2>5. /\ i \in 1 .. Len(queued) \/ i = Len(queued) + 1
        /\ k \in 1 .. Len(queued) \/ k = Len(queued) + 1
    BY <1>1, <1>2
  <2> QED
    BY <2>1, <2>2, <2>3, <2>4, <2>5
<1> QED
  BY <1>1, <1>2, <1>3, <1>4

LEMMA PushKeepsList ==
  ASSUME TypeOK, ListRepresentsQueue, NEW t \in Threads, NEW j \in Jobs,
         PushAppend(t, j) \/ PushFirst(t, j)
  PROVE  ListRepresentsQueue'
<1> USE RunLoopAssumption DEF TypeOK
<1>1. CallsPush(t, j)
  BY DEF PushAppend, PushFirst
<1>2. /\ Len(queued) \in Nat
      /\ queued' # <<>>
      /\ Len(queued') = Len(queued) + 1
      /\ \A i \in 1 .. Len(queued) : queued'[i] = queued[i] /\ queued[i] \in Jobs
      /\ queued'[Len(queued) + 1] = j
      /\ \A i \in 1 .. Len(queued) : queued[i] # j
      /\ \A i, k \in 1 .. Len(queued') : queued'[i] = queued'[k] => i = k
  BY <1>1, PushShape
<1>3. CASE PushFirst(t, j)
  <2>1. queued = <<>>
    BY <1>3, EmptySeq, ElementOfSeq DEF PushFirst, ListRepresentsQueue
  <2>2. Len(queued) = 0
    BY <2>1, EmptySeq
  <2> QED
    BY <1>2, <1>3, <2>2 DEF PushFirst, ListRepresentsQueue
<1>4. CASE PushAppend(t, j)
  <2>1. queued # <<>>
    BY <1>4 DEF PushAppend, ListRepresentsQueue
  <2>2. /\ Len(queued) \in Nat \ {0}
        /\ head = queued[1]
        /\ tail = queued[Len(queued)]
    BY <2>1, EmptySeq DEF ListRepresentsQueue
  <2>3. /\ head' = queued'[1]
        /\ tail' = queued'[Len(queued')]
    BY <1>2, <1>4, <2>2 DEF PushAppend
  <2>4. /\ tail \in Jobs
        /\ tail # j
        /\ next'[j] = Null
        /\ next'[tail] = j
        /\ \A x \in Jobs : x # j /\ x # tail => next'[x] = next[x]
    BY <1>2, <1>4, <2>2 DEF PushAppend
  <2>5. \A i \in 1 .. Len(queued') - 1 : next'[queued'[i]] = queued'[i + 1]
    <3> TAKE i \in 1 .. Len(queued') - 1
    <3>1. CASE i = Len(queued)
      BY <1>2, <2>2, <2>4, <3>1
    <3>2. CASE i # Len(queued)
      <4>1. i \in 1 .. Len(queued) - 1 /\ i + 1 \in 1 .. Len(queued)
        BY <1>2, <3>2
      <4>2. queued[i] # j /\ queued[i] # tail /\ queued[i] \in Jobs
        BY <1>2, <2>2, <4>1 DEF ListRepresentsQueue
      <4>3. next[queued[i]] = queued[i + 1]
        BY <4>1 DEF ListRepresentsQueue
      <4> QED
        BY <1>2, <2>4, <4>1, <4>2, <4>3
    <3> QED
      BY <3>1, <3>2
  <2> QED
    BY <1>2, <1>4, <2>3, <2>4, <2>5 DEF PushAppend, ListRepresentsQueue
<1> QED
  BY <1>3, <1>4

LEMMA ListStep ==
  ASSUME TypeOK, ListRepresentsQueue, [Next]_vars
  PROVE  ListRepresentsQueue'
<1>1. CASE UNCHANGED <<head, tail, next, queued>>
  BY <1>1 DEF ListRepresentsQueue
<1> QED
  BY <1>1, ListFrame, TakeKeepsList, PushKeepsList

------------------------------------------------------------------------------
\* Nobody is left blocked.
LEMMA WaitStep ==
  ASSUME TypeOK, ListRepresentsQueue, WaitInv, [Next]_vars
  PROVE  WaitInv'
<1> USE RunLoopAssumption DEF TypeOK, Pcs, WaitInv, NoLostWakeup, Waiters, PopPredicate
<1>1. ASSUME NEW t \in Threads, RunBegin(t) PROVE WaitInv'
  BY <1>1 DEF RunBegin, list
<1>2. ASSUME NEW t \in Threads, FinishSet(t) PROVE WaitInv'
  BY <1>2 DEF FinishSet, list
<1>3. ASSUME NEW t \in Threads, SpuriousWakeup(t) PROVE WaitInv'
  BY <1>3 DEF SpuriousWakeup, list
<1>4. ASSUME NEW t \in Threads, PopWait(t) PROVE WaitInv'
  BY <1>4 DEF PopWait, list
<1>5. ASSUME NEW t \in Threads, PopTake(t) PROVE WaitInv'
  BY <1>5 DEF PopTake
<1>6. ASSUME NEW t \in Threads, PopReturn(t) PROVE WaitInv'
  BY <1>6 DEF PopReturn, list
<1>7. ASSUME NEW t \in Threads, JobReturns(t) PROVE WaitInv'
  BY <1>7 DEF JobReturns, list
<1>8. ASSUME NEW t \in Threads, PushNotify(t) PROVE WaitInv'
  BY <1>8 DEF PushNotify, NotifyOneAndUnlock, list
<1>9. ASSUME NEW t \in Threads, FinishNotify(t) PROVE WaitInv'
  BY <1>9 DEF FinishNotify, NotifyOneAndUnlock, list
<1>10. ASSUME NEW t \in Threads, NEW j \in Jobs, PushAppend(t, j) PROVE WaitInv'
  BY <1>10 DEF PushAppend, CallsPush
<1>11. ASSUME NEW t \in Threads, NEW j \in Jobs, PushFirst(t, j) PROVE WaitInv'
  BY <1>11 DEF PushFirst, CallsPush
<1>12. ASSUME NEW t \in Threads, RunNested(t) PROVE WaitInv'
  BY <1>12 DEF RunNested, list
<1>13. ASSUME NEW t \in Threads, NestedReturn(t) PROVE WaitInv'
  BY <1>13 DEF NestedReturn, list
<1>14. CASE UNCHANGED vars
  BY <1>14 DEF vars, list
<1> QED
  BY <1>1, <1>2, <1>3, <1>4, <1>5, <1>6, <1>7, <1>8, <1>9, <1>10, <1>11, <1>12, <1>13,
     <1>14 DEF Next, Progress

------------------------------------------------------------------------------
LEMMA InitInv == Init => IInv
<1> SUFFICES ASSUME Init PROVE IInv
  OBVIOUS
<1> USE RunLoopAssumption
<1>1. /\ queued \in Seq(Jobs)
      /\ queued = <<>>
      /\ Len(queued) = 0
  BY EmptySeq DEF Init
<1>2. TypeOK
  <2>1. <<>> \in Seq(Jobs)
    BY EmptySeq
  <2>2. outer = [t \in Threads |-> <<>>]
    BY DEF Init
  <2>3. OuterOK
    BY <2>1, <2>2 DEF OuterOK
  <2> QED
    BY <1>1, <2>3 DEF Init, TypeOK, Pcs
<1>3. ListRepresentsQueue
  BY <1>1 DEF Init, ListRepresentsQueue
<1>4. WaitInv
  BY DEF Init, WaitInv, NoLostWakeup, Waiters, PopPredicate
<1> QED
  BY <1>2, <1>3, <1>4 DEF IInv

LEMMA NextInv == IInv /\ [Next]_vars => IInv'
BY TypeStep, ListStep, WaitStep DEF IInv

\* Every reachable state satisfies the inductive invariant.
THEOREM Invariance == Spec => []IInv
BY InitInv, NextInv, PTL DEF Spec

\* The members of run_loop keep their types, and a thread executes a
\* continuation or is in pop() exactly while it is inside run() (lines 41-60).
THEOREM TypeCorrect == Spec => []TypeOK
<1>1. IInv => TypeOK
  BY DEF IInv
<1> QED
  BY <1>1, Invariance, PTL

\* For any number of threads, jobs and calls, the intrusive list of push() and
\* pop() (lines 69-96) holds the pushed jobs, oldest first.
THEOREM ListCorrect == Spec => []ListRepresentsQueue
<1>1. IInv => ListRepresentsQueue
  BY DEF IInv
<1> QED
  BY <1>1, Invariance, PTL

\* For any number of threads, jobs and calls, notifying only on the push into
\* an empty queue (line 81) and once in finish() (line 66) leaves no thread
\* blocked in pop() that has something to do.
THEOREM NoLostWakeups == Spec => []NoLostWakeup
<1>1. IInv => NoLostWakeup
  BY DEF IInv, WaitInv
<1> QED
  BY <1>1, Invariance, PTL

------------------------------------------------------------------------------
\* Each step of the loop is a step of the work queue or leaves it unchanged.
LEMMA StepRefines ==
  ASSUME IInv, [Next]_vars
  PROVE  [Abstract!Next]_(Abstract!wqvars)
<1> USE RunLoopAssumption DEF IInv, TypeOK, Pcs, list
<1>u. ASSUME queued' = queued, inRun' = inRun, job' = job, outer' = outer,
             (state' = "finishing") <=> (state = "finishing")
      PROVE  UNCHANGED Abstract!wqvars
  BY <1>u DEF Abstract!wqvars
<1>1. ASSUME NEW t \in Threads, RunBegin(t) PROVE Abstract!Enter(t)
  BY <1>1 DEF RunBegin, WaitInv, Abstract!Enter
<1>2. ASSUME NEW t \in Threads, FinishSet(t) PROVE Abstract!Close
  BY <1>2 DEF FinishSet, Abstract!Close
<1>3. ASSUME NEW t \in Threads, SpuriousWakeup(t) PROVE UNCHANGED Abstract!wqvars
  BY <1>u, <1>3 DEF SpuriousWakeup
<1>4. ASSUME NEW t \in Threads, PopWait(t) PROVE UNCHANGED Abstract!wqvars
  BY <1>u, <1>4 DEF PopWait
<1>5. ASSUME NEW t \in Threads, PopTake(t) PROVE Abstract!Take(t)
  <2>1. queued # <<>> /\ job'[t] = Head(queued)
    BY <1>5, TakeKeepsList
  <2>2. job' = [job EXCEPT ![t] = Head(queued)]
    BY <1>5, <2>1 DEF PopTake
  <2>3. inRun[t] /\ job[t] = Null
    BY <1>5 DEF PopTake
  <2> QED
    BY <1>5, <2>1, <2>2, <2>3 DEF PopTake, Abstract!Take
<1>d. ASSUME head = Null PROVE queued = <<>>
  <2>1. queued # <<>> => queued[1] \in Jobs
    BY EmptySeq, ElementOfSeq, HeadAndTail
  <2> QED
    BY <1>d, <2>1 DEF ListRepresentsQueue
<1>6. ASSUME NEW t \in Threads, PopReturn(t) PROVE Abstract!Leave(t)
  <2>1. queued = <<>>
    BY <1>6, <1>d DEF PopReturn
  <2>2. inRun[t] /\ job[t] = Null
    BY <1>6 DEF PopReturn
  <2>3. {u \in Threads : inRun'[u]} = {u \in Threads : inRun[u]} \ {t}
    BY <1>6 DEF PopReturn
  <2> QED
    BY <1>6, <2>1, <2>2, <2>3 DEF PopReturn, Abstract!Leave
<1>7. ASSUME NEW t \in Threads, JobReturns(t) PROVE Abstract!Complete(t)
  BY <1>7 DEF JobReturns, Abstract!Complete
<1>8. ASSUME NEW t \in Threads, PushNotify(t) PROVE UNCHANGED Abstract!wqvars
  BY <1>u, <1>8 DEF PushNotify
<1>9. ASSUME NEW t \in Threads, FinishNotify(t) PROVE UNCHANGED Abstract!wqvars
  BY <1>u, <1>9 DEF FinishNotify
<1>10. ASSUME NEW t \in Threads, NEW j \in Jobs, PushAppend(t, j) \/ PushFirst(t, j)
       PROVE  Abstract!Push(j)
  BY <1>10 DEF PushAppend, PushFirst, CallsPush, Queued, Abstract!Push, Abstract!Queued
<1>11. ASSUME NEW t \in Threads, RunNested(t) PROVE Abstract!Suspend(t)
  <2>1. job[t] # Null /\ state = "finishing"
    BY <1>11 DEF RunNested, WaitInv
  <2> QED
    BY <1>11, <2>1 DEF RunNested, Abstract!Suspend
<1>12. ASSUME NEW t \in Threads, NestedReturn(t) PROVE Abstract!Resume(t)
  <2>1. queued = <<>> /\ job[t] = Null
    BY <1>12, <1>d DEF NestedReturn
  <2> QED
    BY <1>12, <2>1 DEF NestedReturn, Abstract!Resume
<1>13. CASE UNCHANGED vars
  BY <1>u, <1>13 DEF vars
<1> QED
  BY <1>1, <1>2, <1>3, <1>4, <1>5, <1>6, <1>7, <1>8, <1>9, <1>10, <1>11, <1>12, <1>13
     DEF Next, Progress, Abstract!Next

LEMMA InitRefines == Init => Abstract!Init
BY DEF Init, Abstract!Init

\* run_loop implements the work queue: for any number of threads, jobs and
\* calls, every execution of push(), finish(), pop() and run() (lines 41-96) is
\* one of a first-in-first-out queue that executes each push once and lets
\* run() return only when it was closed and is empty.
THEOREM Refinement == Spec => ImplementsWorkQueue
BY InitRefines, StepRefines, Invariance, PTL
   DEF Spec, ImplementsWorkQueue, Abstract!Spec
==============================================================================
