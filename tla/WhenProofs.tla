----------------------------- MODULE WhenProofs ------------------------------
(***************************************************************************)
(* Proofs about When, for any number of children, threads, suspension      *)
(* points, yields and hand-offs, any width of the index, and both kinds of *)
(* operation.                                                              *)
(***************************************************************************)
EXTENDS When, FiniteSetTheorems, TLAPS

\* The continuation k, or None, is one of child c.
Holds(k, c) == k # None /\ k[1] = c
Reporting == {"c_cas", "c_store", "c_done"}

\* What a thread at some place in the code has in its hands.
ThreadInv ==
  \A t \in Threads :
    /\ pc[t] \in {"child"} \cup Reporting => cur[t] # None
    /\ pc[t] \in {"start", "idle", "complete"} => cur[t] = None
    /\ pc[t] = "y_cas" => expected[t] # None
    /\ pc[t] = "start" => t = Main

\* Before start() there is nothing but the operation.
StartInv ==
  pc[Main] = "start" =>
    /\ pool = {}
    /\ \A s \in Slots : queue[s] = None
    /\ \A t \in Threads : cur[t] = None
    /\ \A c \in Children : outcome[c] = None
    /\ \A t \in Threads : pc[t] \in {"start", "idle"}

\* A child has one continuation: in one slot, with one scheduler, or with one thread.
PlaceInv ==
  \A c \in Children :
    /\ \A r, s \in Slots : Holds(queue[r], c) /\ Holds(queue[s], c) => r = s
    /\ \A j, k \in pool : Holds(j, c) /\ Holds(k, c) => j = k
    /\ \A t, u \in Threads : Holds(cur[t], c) /\ Holds(cur[u], c) => t = u
    /\ \A s \in Slots, k \in pool : ~(Holds(queue[s], c) /\ Holds(k, c))
    /\ \A s \in Slots, t \in Threads : ~(Holds(queue[s], c) /\ Holds(cur[t], c))
    /\ \A k \in pool, t \in Threads : ~(Holds(k, c) /\ Holds(cur[t], c))

\* A child that has completed is with the thread that reports it, or gone.
OutcomeInv ==
  \A c \in Children :
    /\ outcome[c] # None => /\ \A s \in Slots : ~Holds(queue[s], c)
                            /\ \A k \in pool : ~Holds(k, c)
    /\ \A t \in Threads : Holds(cur[t], c) => (outcome[c] # None <=> pc[t] \in Reporting)

\* Thread t is on its way from the completion of c to _done.
Reports(t, c) == pc[t] \in Reporting /\ cur[t][1] = c

\* _done is the number of children that have been reported.
Counted == {c \in Children : outcome[c] # None /\ \A t \in Threads : ~Reports(t, c)}
CountInv == done = Cardinality(Counted)

\* Only the thread that counts last completes the operation, and only once.
EndInv ==
  /\ \A t \in Threads : pc[t] = "complete" => done = N /\ calls = 0
  /\ \A t, u \in Threads : pc[t] = "complete" /\ pc[u] = "complete" => t = u
  /\ calls = 1 => done = N
  /\ calls = 0 <=> called = None

\* What brings a thread to the two steps of the decision.
DecideInv ==
  \A t \in Threads : /\ pc[t] = "c_cas" => Stops(outcome[cur[t][1]])
                     /\ pc[t] = "c_store" => continuation = cur[t][1]

\* Where the results are: in the storages of the children that have completed, except
\* that of the child that decided, once that has been moved, and those when_all took.
Ended == {c \in Children : outcome[c] # None}
Storing == \E t \in Threads : pc[t] = "c_store"
ResultInv ==
  /\ calls = 0 /\ continuation = None => boxes = Ended
  /\ calls = 1 /\ continuation = None =>
       \/ called = All /\ result = All /\ boxes = {}
       \/ called = Exception /\ result = Exception /\ boxes # Children
  /\ continuation # None =>
       /\ continuation \in Ended
       /\ Storing => boxes = Ended
       /\ ~Storing =>
            /\ boxes = Ended \ {continuation}
            /\ \/ result = continuation
               \/ result = Exception /\ outcome[continuation] \in Throwing
       /\ calls = 1 => called = continuation
       /\ Stops(outcome[continuation])
       /\ \A t \in Threads : ~(pc[t] = "c_cas" /\ cur[t][1] = continuation)

Inv == TypeOK /\ ThreadInv /\ StartInv /\ PlaceInv /\ OutcomeInv /\ CountInv
         /\ EndInv /\ DecideInv /\ ResultInv

------------------------------------------------------------------------------
(* Data *)

\* A continuation is of a child, and is not nullptr.
LEMMA ContFacts ==
  /\ \A k \in Conts : k[1] \in Children /\ k # None
  /\ \A c \in Children, s \in 0 .. Sites :
        <<c, s>> \in Conts /\ <<c, s>>[1] = c /\ <<c, s>> # None
  /\ \A c \in Children, s \in 1 .. Sites :
        <<c, s>> \in Conts /\ <<c, s>>[1] = c /\ <<c, s>> # None
BY WhenAssumption DEF Conts

\* Slots are one less than children, and the shared index never leaves them.
LEMMA SlotFacts ==
  /\ 0 \in Slots
  /\ 0 \in Children
  /\ \A s \in Slots : s + 1 \in Children /\ s + 1 # 0
  /\ \A r, s \in Slots : r + 1 = s + 1 => r = s
  /\ \A i \in 0 .. IdxMod - 1 :
        i % (N - 1) \in Slots /\ (i + 1) % IdxMod \in 0 .. IdxMod - 1
BY WhenAssumption DEF Slots, Children

\* start() of a child is one of its continuations.
LEMMA StartFacts ==
  \A c \in Children : Start(c) \in Conts /\ Start(c)[1] = c /\ Start(c) # None
BY ContFacts, WhenAssumption DEF Start

\* There are N children, and so finitely many counted ones.
LEMMA CountedFinite ==
  IsFiniteSet(Children) /\ Cardinality(Children) = N /\ IsFiniteSet(Counted)
<1>1. IsFiniteSet(Children) /\ Cardinality(Children) = N
  BY FS_Interval, WhenAssumption DEF Children
<1>2. Counted \subseteq Children
  BY DEF Counted
<1> QED
  BY <1>1, <1>2, FS_Subset

------------------------------------------------------------------------------
(* What the counter says *)

\* When _done is N every child is through.
LEMMA AllDone ==
  ASSUME Inv, done = N
  PROVE  \A c \in Children : outcome[c] # None /\ \A t \in Threads : ~Reports(t, c)
<1>1. Counted \in SUBSET Children
  BY DEF Counted
<1>2. Counted = Children
  BY <1>1, CountedFinite, FS_Subset DEF Inv, CountInv
<1> QED
  BY <1>2 DEF Counted

\* While a thread executes or reports a child, the operation is not over.
LEMMA NotOver ==
  ASSUME Inv, NEW t \in Threads, pc[t] \in {"child"} \cup Reporting
  PROVE  calls = 0 /\ done # N
<1>1. cur[t] # None /\ cur[t][1] \in Children
  BY ContFacts DEF Inv, TypeOK, ThreadInv
<1>2. done # N
  BY <1>1, AllDone DEF Inv, OutcomeInv, Holds, Reports, Reporting
<1> QED
  BY <1>2 DEF Inv, TypeOK, EndInv

\* fetch_add of _done counts exactly one child more (line 131).
LEMMA OneMore ==
  ASSUME Inv, NEW t \in Threads, CountDone(t)
  PROVE  /\ done' = done + 1
         /\ done + 1 = Cardinality(Counted')
         /\ done + 1 <= N
         /\ Counted' = Counted \cup {cur[t][1]}
<1> DEFINE c == cur[t][1]
<1>1. c \in Children /\ Holds(cur[t], c) /\ outcome[c] # None /\ Reports(t, c)
  BY ContFacts DEF Inv, TypeOK, ThreadInv, OutcomeInv, Holds, Reporting, Reports, CountDone
<1>2. c \notin Counted
  BY <1>1 DEF Counted
<1>3. \A x \in Children : x \in Counted' <=> x \in Counted \/ x = c
  <2>1. pc'[t] \notin Reporting
    BY DEF CountDone, AfterCount, Inv, TypeOK, Reporting
  <2>2. \A u \in Threads \ {t} : pc'[u] = pc[u] /\ cur'[u] = cur[u]
    BY DEF CountDone, Inv, TypeOK
  <2>3. \A u \in Threads \ {t} : ~Reports(u, c)
    BY <1>1 DEF Inv, ThreadInv, PlaceInv, Reports, Holds
  <2>4. outcome' = outcome
    BY DEF CountDone
  <2>5. \A x \in Children : (\A u \in Threads : ~Reports(u, x)') <=>
                              (\A u \in Threads \ {t} : ~Reports(u, x))
    BY <2>1, <2>2 DEF Reports
  <2>6. \A x \in Children \ {c} : ~Reports(t, x)
    BY DEF Reports
  <2> QED
    BY <1>1, <2>3, <2>4, <2>5, <2>6 DEF Counted
<1>4. Counted' = Counted \cup {c}
  BY <1>1, <1>3 DEF Counted
<1>5. Cardinality(Counted') = Cardinality(Counted) + 1
  BY <1>2, <1>4, CountedFinite, FS_AddElement
<1>6. done # N /\ done \in 0 .. N
  BY NotOver DEF Inv, TypeOK, CountDone, Reporting
<1> QED
  BY <1>4, <1>5, <1>6, WhenAssumption DEF Inv, CountInv, CountDone

\* Other steps leave the count alone.
LEMMA CountKept ==
  ASSUME Inv, done' = done, outcome' = outcome,
         \A t \in Threads, c \in Children : Reports(t, c)' <=> Reports(t, c)
  PROVE  CountInv'
<1>1. Counted' = Counted
  BY DEF Counted
<1> QED
  BY <1>1 DEF Inv, CountInv

------------------------------------------------------------------------------
(* Every step keeps the invariant *)

\* start() puts every child but the first into a slot of its own.
LEMMA StepStartOp ==
  ASSUME Inv, NEW t \in Threads, StartOp(t)
  PROVE  Inv'
<1> USE WhenAssumption, ContFacts, StartFacts, SlotFacts
    DEF StartOp, InitialQueue, sched, joint, shared, loops, yvars, Inv
<1>1. TypeOK' /\ ThreadInv' /\ StartInv'
  BY DEF TypeOK, ThreadInv, StartInv, Pcs
<1>2. PlaceInv'
  <2>1. \A x \in Children : \A u \in Threads : Holds(cur'[u], x) => u = t /\ x = 0
    BY StartFacts, SlotFacts DEF TypeOK, ThreadInv, StartInv, Holds
  <2>2. \A x \in Children : \A s \in Slots : Holds(queue'[s], x) => x = s + 1
    BY StartFacts, SlotFacts DEF Holds
  <2>3. pool' = {}
    BY DEF ThreadInv, StartInv
  <2> QED
    BY <2>1, <2>2, <2>3, SlotFacts DEF PlaceInv
<1>3. OutcomeInv'
  BY DEF ThreadInv, StartInv, OutcomeInv, Reporting
<1>4. CountInv'
  BY CountKept DEF TypeOK, ThreadInv, Reports, Reporting
<1>5. EndInv' /\ DecideInv'
  BY DEF EndInv, DecideInv
<1>6. ResultInv'
  BY DEF ResultInv, Ended, Storing
<1> QED
  BY <1>1, <1>2, <1>3, <1>4, <1>5, <1>6

\* A thread that found nothing leaves without a child of its own to lose track of.
LEMMA StepYieldFails ==
  ASSUME Inv, NEW t \in Threads, YieldFails(t)
  PROVE  Inv'
<1> USE WhenAssumption, ContFacts
    DEF YieldFails, sched, joint, shared, loops, yvars, Inv
<1>1. TypeOK' /\ ThreadInv' /\ StartInv'
  BY SlotFacts DEF TypeOK, ThreadInv, StartInv, Pcs, Reporting
<1>2. PlaceInv' /\ OutcomeInv'
  BY DEF PlaceInv, OutcomeInv, Reporting, Holds
<1>3. CountInv'
  BY CountKept DEF TypeOK, ThreadInv, Reports, Reporting
<1>4. EndInv' /\ DecideInv'
  BY DEF EndInv, DecideInv
<1>5. ResultInv'
  BY DEF ResultInv, Ended, Storing
<1> QED
  BY <1>1, <1>2, <1>3, <1>4, <1>5

\* Drawing an index touches nothing but the index.
LEMMA StepYieldFetch ==
  ASSUME Inv, NEW t \in Threads, YieldFetch(t)
  PROVE  Inv'
<1>try. tries[t] + 1 \in 0 .. N
  BY WhenAssumption DEF Inv, TypeOK, YieldFetch
<1> USE WhenAssumption, ContFacts
    DEF YieldFetch, SlotOf, sched, joint, shared, loops, yvars, Inv
<1>1. TypeOK'
  <2>1. SlotOf(t) \in Slots /\ idx' \in 0 .. IdxMod - 1
    BY SlotFacts DEF TypeOK
  <2> QED
    BY <2>1, <1>try DEF TypeOK, Pcs
<1>2. ThreadInv' /\ StartInv'
  BY DEF ThreadInv, StartInv, Reporting
<1>3. PlaceInv' /\ OutcomeInv'
  BY DEF PlaceInv, OutcomeInv, Reporting
<1>4. CountInv'
  BY CountKept DEF TypeOK, ThreadInv, Reports, Reporting
<1>5. EndInv' /\ DecideInv'
  BY DEF EndInv, DecideInv
<1>6. ResultInv'
  BY DEF ResultInv, Ended, Storing
<1> QED
  BY <1>1, <1>2, <1>3, <1>4, <1>5, <1>6

\* Loading a continuation is not taking it.
LEMMA StepYieldLoad ==
  ASSUME Inv, NEW t \in Threads, YieldLoad(t)
  PROVE  Inv'
<1> USE WhenAssumption, ContFacts
    DEF YieldLoad, sched, joint, shared, loops, yvars, Inv
<1>1. TypeOK'
  <2>1. queue[slot[t]] \in Conts \cup {None} /\ 0 \in Slots
    BY SlotFacts DEF TypeOK
  <2>2. slot' \in [Threads -> Slots] /\ expected' \in [Threads -> Conts \cup {None}]
    BY <2>1 DEF TypeOK
  <2>3. pc' \in [Threads -> Pcs]
    BY DEF TypeOK, Pcs
  <2> QED
    BY <2>2, <2>3 DEF TypeOK
<1>2. ThreadInv' /\ StartInv'
  BY DEF TypeOK, ThreadInv, StartInv, Reporting
<1>3. PlaceInv' /\ OutcomeInv'
  BY DEF TypeOK, ThreadInv, PlaceInv, OutcomeInv, Reporting
<1>4. CountInv'
  BY CountKept DEF TypeOK, ThreadInv, Reports, Reporting
<1>5. EndInv'
  BY DEF TypeOK, EndInv
<1>6. DecideInv'
  BY DEF TypeOK, DecideInv
<1>7. ResultInv'
  BY DEF TypeOK, ResultInv, Ended, Storing
<1> QED
  BY <1>1, <1>2, <1>3, <1>4, <1>5, <1>6, <1>7

\* The swap exchanges two continuations: each stays in one place.
LEMMA StepYieldSwap ==
  ASSUME Inv, NEW t \in Threads, YieldSwap(t)
  PROVE  Inv'
<1> USE WhenAssumption, ContFacts
    DEF YieldSwap, SwapSucceeds, Swapped, sched, joint, shared, loops, yvars, Inv
<1>1. TypeOK' /\ ThreadInv' /\ StartInv'
  BY SlotFacts DEF TypeOK, ThreadInv, StartInv, Pcs
<1>2. PlaceInv'
  BY DEF TypeOK, PlaceInv
<1>3. OutcomeInv'
  <2> DEFINE k == queue[slot[t]]
  <2>1. k # None /\ k \in Conts /\ slot[t] \in Slots /\ cur'[t] = k
    BY DEF TypeOK, ThreadInv
  <2> SUFFICES ASSUME NEW x \in Children
               PROVE  /\ outcome[x] # None => /\ \A s \in Slots : ~Holds(queue'[s], x)
                                              /\ \A j \in pool : ~Holds(j, x)
                      /\ \A u \in Threads : Holds(cur'[u], x) =>
                            (outcome[x] # None <=> pc'[u] \in Reporting)
    BY DEF OutcomeInv
  <2>2. Holds(k, x) => outcome[x] = None
    BY <2>1 DEF OutcomeInv
  <2>3. Holds(cur[t], x) => outcome[x] = None
    BY DEF OutcomeInv, Reporting
  <2>4. outcome[x] # None => \A s \in Slots : ~Holds(queue'[s], x)
    BY <2>3 DEF OutcomeInv, TypeOK
  <2>5. \A u \in Threads : Holds(cur'[u], x) => (outcome[x] # None <=> pc'[u] \in Reporting)
    BY <2>1, <2>2 DEF OutcomeInv, TypeOK, Reporting
  <2> QED
    BY <2>4, <2>5 DEF OutcomeInv
<1>4. CountInv'
  BY CountKept DEF TypeOK, ThreadInv, Reports, Reporting
<1>5. EndInv' /\ DecideInv'
  BY DEF EndInv, DecideInv
<1>6. ResultInv'
  BY DEF ResultInv, Ended, Storing
<1> QED
  BY <1>1, <1>2, <1>3, <1>4, <1>5, <1>6

\* A failed compare-exchange changes nothing.
LEMMA StepYieldRetry ==
  ASSUME Inv, NEW t \in Threads, YieldRetry(t)
  PROVE  Inv'
<1> USE WhenAssumption, ContFacts
    DEF YieldRetry, sched, joint, shared, loops, yvars, Inv
<1>1. TypeOK' /\ ThreadInv' /\ StartInv'
  BY SlotFacts DEF TypeOK, ThreadInv, StartInv, Pcs, Reporting
<1>2. PlaceInv' /\ OutcomeInv'
  BY DEF PlaceInv, OutcomeInv, Reporting
<1>3. CountInv'
  BY CountKept DEF TypeOK, ThreadInv, Reports, Reporting
<1>4. EndInv' /\ DecideInv'
  BY DEF EndInv, DecideInv
<1>5. ResultInv'
  BY DEF ResultInv, Ended, Storing
<1> QED
  BY <1>1, <1>2, <1>3, <1>4, <1>5

\* One child decides, while its result is still in its storage.
LEMMA StepDecide ==
  ASSUME Inv, NEW t \in Threads, Decide(t)
  PROVE  Inv'
<1>over. calls = 0
  BY NotOver DEF Inv, Runs, Decide, Reporting
<1> USE WhenAssumption, ContFacts
    DEF Decide, FirstToStop, sched, joint, shared, loops, yvars, Inv
<1>1. TypeOK'
  <2>1. cur[t][1] \in Children
    BY DEF TypeOK, ThreadInv, Reporting
  <2>2. continuation' \in Children \cup {None} /\ pc' \in [Threads -> Pcs]
    BY <2>1 DEF TypeOK, Pcs
  <2> QED
    BY <2>2 DEF TypeOK
<1>2. ThreadInv' /\ StartInv'
  BY DEF TypeOK, ThreadInv, StartInv, Reporting
<1>3. PlaceInv' /\ OutcomeInv'
  BY DEF TypeOK, PlaceInv, OutcomeInv, Reporting
<1>4. CountInv'
  BY CountKept DEF TypeOK, ThreadInv, Reports, Reporting
<1>5. EndInv' /\ DecideInv'
  BY DEF TypeOK, ThreadInv, EndInv, DecideInv, Reporting
<1>6. ResultInv'
  <2> DEFINE c == cur[t][1]
  <2>1. c \in Ended /\ Holds(cur[t], c) /\ Stops(outcome[c]) /\ Ended' = Ended
    BY DEF TypeOK, ThreadInv, OutcomeInv, DecideInv, Ended, Holds, Reporting
  <2>2. \A u \in Threads \ {t} : pc'[u] = pc[u] /\ cur'[u] = cur[u]
    BY DEF TypeOK
  <2>3. CASE continuation = None
    <3>1. continuation' = c /\ Storing' /\ boxes' = Ended' /\ pc'[t] = "c_store"
      BY <1>over, <2>1, <2>3 DEF TypeOK, ResultInv, Storing
    <3>2. c # None
      BY <2>1, WhenAssumption DEF Ended
    <3>3. \A u \in Threads \ {t} : pc[u] = "c_cas" => cur[u][1] # c
      BY <2>1 DEF ThreadInv, PlaceInv, Holds, Reporting, Ended
    <3> QED
      BY <1>over, <2>1, <2>2, <3>1, <3>2, <3>3 DEF ResultInv, Stops
  <2>4. CASE continuation # None
    <3>1. continuation' = continuation /\ pc'[t] = "c_done"
      BY <2>4 DEF TypeOK
    <3>2. Storing' <=> Storing
      BY <2>2, <3>1 DEF Storing
    <3> QED
      BY <1>over, <2>1, <2>2, <2>4, <3>1, <3>2 DEF ResultInv, Stops
  <2> QED
    BY <2>3, <2>4
<1> QED
  BY <1>1, <1>2, <1>3, <1>4, <1>5, <1>6

\* Only the child that decided moves its result up.
LEMMA StepStoreResult ==
  ASSUME Inv, NEW t \in Threads, StoreResult(t)
  PROVE  Inv'
<1>over. calls = 0
  BY NotOver DEF Inv, Runs, StoreResult, Reporting
<1> USE WhenAssumption, ContFacts
    DEF StoreResult, sched, joint, shared, loops, yvars, Inv
<1>1. TypeOK' /\ ThreadInv' /\ StartInv'
  BY DEF TypeOK, ThreadInv, StartInv, Pcs, Reporting
<1>2. PlaceInv' /\ OutcomeInv'
  BY DEF PlaceInv, OutcomeInv, Reporting
<1>3. CountInv'
  BY CountKept DEF TypeOK, ThreadInv, Reports, Reporting
<1>4. EndInv' /\ DecideInv'
  BY DEF EndInv, DecideInv
<1>5. ResultInv'
  <2> DEFINE c == cur[t][1]
  <2>1. continuation = c /\ c \in Children /\ c # None /\ Holds(cur[t], c)
    BY DEF TypeOK, ThreadInv, DecideInv, Holds, Reporting
  <2>2. \A u \in Threads \ {t} : pc'[u] = pc[u] /\ cur'[u] = cur[u]
    BY DEF TypeOK
  <2>3. pc'[t] = "c_done" /\ Storing
    BY DEF TypeOK, Storing
  <2>4. \A u \in Threads \ {t} : pc[u] # "c_store"
    BY <2>1 DEF ThreadInv, PlaceInv, DecideInv, Holds, Reporting
  <2>5. ~Storing'
    BY <2>2, <2>3, <2>4 DEF Storing
  <2>6. boxes' = Ended \ {continuation} /\ Ended' = Ended
    BY <2>1, <2>3 DEF ResultInv, Ended
  <2> QED
    BY <1>over, <2>1, <2>2, <2>3, <2>5, <2>6 DEF ResultInv, Stops
<1> QED
  BY <1>1, <1>2, <1>3, <1>4, <1>5

\* Counting a child ends its report; the last one ends the operation.
LEMMA StepCountDone ==
  ASSUME Inv, NEW t \in Threads, CountDone(t)
  PROVE  Inv'
<1>one. done + 1 = Cardinality(Counted') /\ done < N /\ done + 1 <= N
  BY OneMore, WhenAssumption DEF Inv, TypeOK
<1> USE WhenAssumption, ContFacts
    DEF CountDone, AfterCount, sched, joint, shared, loops, yvars, Inv
<1>1. TypeOK'
  BY <1>one DEF TypeOK, Pcs
<1>2. ThreadInv' /\ StartInv'
  BY DEF TypeOK, ThreadInv, StartInv, Reporting
<1>3. PlaceInv' /\ OutcomeInv'
  BY DEF TypeOK, PlaceInv, OutcomeInv, Holds
<1>4. CountInv'
  BY <1>one DEF CountInv
<1>5. EndInv'
  <2>2. calls = 0 /\ called = None /\ \A u \in Threads : pc[u] # "complete"
    BY <1>one DEF TypeOK, EndInv
  <2>3. \A u \in Threads : pc'[u] = "complete" => u = t /\ done' = N
    BY <2>2 DEF TypeOK, AfterCount
  <2> QED
    BY <2>2, <2>3 DEF EndInv
<1>6. DecideInv'
  BY DEF DecideInv
<1>7. ResultInv'
  BY DEF ResultInv, Ended, Storing
<1> QED
  BY <1>1, <1>2, <1>3, <1>4, <1>5, <1>6, <1>7

\* _on_complete calls the continuation the decider has left.
LEMMA StepCallWithDecision ==
  ASSUME Inv, NEW t \in Threads, CallWithDecision(t)
  PROVE  Inv'
<1> USE WhenAssumption, ContFacts
    DEF CallWithDecision, CallParent, sched, joint, shared, loops, yvars, Inv
<1>1. TypeOK'
  BY DEF TypeOK, EndInv, Pcs
<1>2. ThreadInv'
  BY DEF ThreadInv, Reporting
<1>3. StartInv'
  BY DEF StartInv
<1>4. PlaceInv' /\ OutcomeInv'
  BY DEF PlaceInv, OutcomeInv, Reporting
<1>5. CountInv'
  BY CountKept DEF TypeOK, ThreadInv, Reports, Reporting
<1>6. EndInv' /\ DecideInv'
  BY DEF TypeOK, EndInv, DecideInv
<1>7. ResultInv'
  BY DEF ResultInv, Ended, Storing
<1> QED
  BY <1>1, <1>2, <1>3, <1>4, <1>5, <1>6, <1>7

\* _on_complete of when_all takes all the values.
LEMMA StepCallWithValues ==
  ASSUME Inv, NEW t \in Threads, CallWithValues(t)
  PROVE  Inv'
<1> USE WhenAssumption, ContFacts
    DEF CallWithValues, CallParent, sched, joint, shared, loops, yvars, Inv
<1>1. TypeOK'
  BY DEF TypeOK, EndInv, Pcs
<1>2. ThreadInv'
  BY DEF ThreadInv, Reporting
<1>3. StartInv'
  BY DEF StartInv
<1>4. PlaceInv' /\ OutcomeInv'
  BY DEF PlaceInv, OutcomeInv, Reporting
<1>5. CountInv'
  BY CountKept DEF TypeOK, ThreadInv, Reports, Reporting
<1>6. EndInv' /\ DecideInv'
  BY DEF TypeOK, EndInv, DecideInv
<1>7. ResultInv'
  BY DEF EndInv, ResultInv
<1> QED
  BY <1>1, <1>2, <1>3, <1>4, <1>5, <1>6, <1>7

\* _on_complete of when_all fails to take all the values.
LEMMA StepCallWithException ==
  ASSUME Inv, NEW t \in Threads, CallWithException(t)
  PROVE  Inv'
<1>some. boxes' \in (SUBSET boxes) \ {boxes} /\ boxes \subseteq Children
  BY DEF CallWithException, Inv, TypeOK
<1>left. boxes' # Children
  BY <1>some
<1> USE WhenAssumption, ContFacts
    DEF CallWithException, CallParent, sched, joint, shared, loops, yvars, Inv
<1>1. TypeOK'
  BY DEF TypeOK, EndInv, Pcs
<1>2. ThreadInv'
  BY DEF ThreadInv, Reporting
<1>3. StartInv'
  BY DEF StartInv
<1>4. PlaceInv' /\ OutcomeInv'
  BY DEF PlaceInv, OutcomeInv, Reporting
<1>5. CountInv'
  BY CountKept DEF TypeOK, ThreadInv, Reports, Reporting
<1>6. EndInv' /\ DecideInv'
  BY DEF TypeOK, EndInv, DecideInv
<1>7. ResultInv'
  BY <1>left DEF EndInv, ResultInv
<1> QED
  BY <1>1, <1>2, <1>3, <1>4, <1>5, <1>6, <1>7

\* A child that yields stays with its thread for the time being.
LEMMA StepYield ==
  ASSUME Inv, NEW t \in Threads, NEW c \in Children, NEW s \in 1 .. Sites, Yield(t, c, s)
  PROVE  Inv'
<1> USE WhenAssumption, ContFacts
    DEF Yield, InOwnCode, Runs, EnterYield, sched, joint, shared, loops, yvars, Inv
<1>1. TypeOK' /\ ThreadInv' /\ StartInv'
  BY DEF TypeOK, ThreadInv, StartInv, Pcs
<1>2. PlaceInv' /\ OutcomeInv'
  BY DEF ThreadInv, PlaceInv, OutcomeInv, Reporting, Holds
<1>3. CountInv'
  BY CountKept DEF TypeOK, ThreadInv, Reports, Reporting
<1>4. EndInv' /\ DecideInv'
  BY DEF EndInv, DecideInv
<1>5. ResultInv'
  BY DEF ResultInv, Ended, Storing
<1> QED
  BY <1>1, <1>2, <1>3, <1>4, <1>5

\* Only the loop itself knows in which round it is.
LEMMA StepNextRound ==
  ASSUME Inv, NEW t \in Threads, NEW c \in Children, NextRound(t, c)
  PROVE  Inv'
<1>1. rounds' \subseteq Repeats
  BY DEF NextRound, Inv, TypeOK
<1> QED
  BY <1>1 DEF NextRound, shared, sched, joint, yvars, Inv, TypeOK, ThreadInv, StartInv,
              PlaceInv, OutcomeInv, CountInv, Counted, Reports, EndInv, DecideInv,
              ResultInv, Ended, Storing

\* A child that is handed off goes from its thread to a scheduler.
LEMMA StepHandOff ==
  ASSUME Inv, NEW t \in Threads, NEW c \in Children, NEW s \in 1 .. Sites, HandOff(t, c, s)
  PROVE  Inv'
<1> USE WhenAssumption, ContFacts
    DEF HandOff, GiveAway, InOwnCode, Runs, EnterYield, sched, joint, shared, loops, yvars,
        Inv
<1>1. TypeOK'
  BY DEF TypeOK, Pcs
<1>2. ThreadInv'
  BY DEF TypeOK, ThreadInv, Reporting
<1>3. StartInv'
  BY DEF StartInv
<1>4. PlaceInv'
  <2>1. Holds(cur[t], c)
    BY DEF ThreadInv, Holds
  <2>2. \A x \in Children : \A k \in pool' : Holds(k, x) => (k \in pool \/ (k = <<c, s>> /\ x = c))
    BY DEF Holds
  <2>3. \A x \in Children : \A u \in Threads : Holds(cur'[u], x) => Holds(cur[u], x) /\ u # t
    BY DEF TypeOK, Holds
  <2> QED
    BY <2>1, <2>2, <2>3 DEF PlaceInv
<1>5. OutcomeInv'
  <2>1. outcome[c] = None
    BY DEF ThreadInv, OutcomeInv, Holds, Reporting
  <2>2. \A k \in pool' : k \in pool \/ k = <<c, s>>
    OBVIOUS
  <2>3. \A x \in Children : \A u \in Threads : Holds(cur'[u], x) => Holds(cur[u], x) /\ u # t
    BY DEF TypeOK, Holds
  <2>4. \A x \in Children : \A u \in Threads : u # t => pc'[u] = pc[u]
    BY DEF TypeOK
  <2>5. \A x \in Children : outcome[x] # None => \A k \in pool' : ~Holds(k, x)
    BY <2>1, <2>2 DEF OutcomeInv, Holds
  <2> QED
    BY <2>3, <2>4, <2>5 DEF OutcomeInv
<1>6. CountInv'
  BY CountKept DEF TypeOK, ThreadInv, Reports, Reporting
<1>7. EndInv' /\ DecideInv'
  BY DEF EndInv, DecideInv
<1>8. ResultInv'
  BY DEF ResultInv, Ended, Storing
<1> QED
  BY <1>1, <1>2, <1>3, <1>4, <1>5, <1>6, <1>7, <1>8

\* The same for a thread that does not look for work.
LEMMA StepHandOffOnly ==
  ASSUME Inv, NEW t \in Threads, NEW c \in Children, NEW s \in 1 .. Sites, HandOffOnly(t, c, s)
  PROVE  Inv'
<1> USE WhenAssumption, ContFacts
    DEF HandOffOnly, GiveAway, InOwnCode, Runs, sched, joint, shared, loops, yvars, Inv
<1>1. TypeOK' /\ ThreadInv' /\ StartInv'
  BY DEF TypeOK, ThreadInv, StartInv, Pcs, Reporting
<1>2. PlaceInv'
  <2>1. Holds(cur[t], c)
    BY DEF ThreadInv, Holds
  <2>2. \A x \in Children : \A k \in pool' : Holds(k, x) => (k \in pool \/ (k = <<c, s>> /\ x = c))
    BY DEF Holds
  <2>3. \A x \in Children : \A u \in Threads : Holds(cur'[u], x) => Holds(cur[u], x) /\ u # t
    BY DEF TypeOK, Holds
  <2> QED
    BY <2>1, <2>2, <2>3 DEF PlaceInv
<1>3. OutcomeInv'
  <2>1. outcome[c] = None
    BY DEF ThreadInv, OutcomeInv, Holds, Reporting
  <2>2. \A k \in pool' : k \in pool \/ k = <<c, s>>
    OBVIOUS
  <2>3. \A x \in Children : \A u \in Threads : Holds(cur'[u], x) => Holds(cur[u], x) /\ u # t
    BY DEF TypeOK, Holds
  <2>4. \A x \in Children : \A u \in Threads : u # t => pc'[u] = pc[u]
    BY DEF TypeOK
  <2>5. \A x \in Children : outcome[x] # None => \A k \in pool' : ~Holds(k, x)
    BY <2>1, <2>2 DEF OutcomeInv, Holds
  <2> QED
    BY <2>3, <2>4, <2>5 DEF OutcomeInv
<1>4. CountInv'
  BY CountKept DEF TypeOK, ThreadInv, Reports, Reporting
<1>5. EndInv' /\ DecideInv'
  BY DEF EndInv, DecideInv
<1>6. ResultInv'
  BY DEF ResultInv, Ended, Storing
<1> QED
  BY <1>1, <1>2, <1>3, <1>4, <1>5, <1>6

\* A child that completes stays with its thread, which reports it.
LEMMA StepComplete ==
  ASSUME Inv, NEW t \in Threads, NEW c \in Children, NEW o \in Outcomes, Complete(t, c, o)
  PROVE  Inv'
<1>over. calls = 0
  BY NotOver DEF Inv, Runs, Complete, Reporting
<1> USE WhenAssumption, ContFacts
    DEF Complete, Runs, sched, joint, shared, loops, yvars, Inv
<1>1. TypeOK' /\ ThreadInv' /\ StartInv'
  BY DEF TypeOK, ThreadInv, StartInv, Pcs
<1>2. PlaceInv' /\ OutcomeInv'
  BY DEF TypeOK, ThreadInv, PlaceInv, OutcomeInv, Reporting, Holds
<1>3. CountInv'
  <2>1. \A x \in Children : x \in Counted' <=> x \in Counted
    BY DEF TypeOK, ThreadInv, OutcomeInv, Counted, Reports, Holds, Reporting
  <2>2. Counted' = Counted
    BY <2>1 DEF Counted
  <2> QED
    BY <2>2 DEF CountInv
<1>4. EndInv' /\ DecideInv'
  BY DEF TypeOK, ThreadInv, OutcomeInv, EndInv, DecideInv, Reporting, Holds
<1>5. ResultInv'
  <2>1. outcome[c] = None /\ outcome'[c] = o /\ o # None
    BY DEF TypeOK, ThreadInv, OutcomeInv, Holds, Reporting
  <2>2. \A x \in Children \ {c} : outcome'[x] = outcome[x]
    BY DEF TypeOK
  <2>3. Ended' = Ended \cup {c} /\ c \notin Ended
    BY <2>1, <2>2 DEF Ended
  <2>4. \A u \in Threads \ {t} : pc'[u] = pc[u] /\ cur'[u] = cur[u]
    BY DEF TypeOK
  <2>5. pc[t] = "child" /\ pc'[t] \in {"c_cas", "c_done"} /\ cur'[t][1] = c
    BY DEF TypeOK
  <2>6. Storing' <=> Storing
    BY <2>4, <2>5 DEF Storing
  <2>7. CASE continuation = None
    BY <1>over, <2>3, <2>7 DEF ResultInv
  <2>8. CASE continuation # None
    <3>1. continuation \in Children \ {c} /\ continuation \in Ended
      BY <2>3, <2>8 DEF ResultInv, Ended
    <3>2. outcome'[continuation] = outcome[continuation]
      BY <2>2, <3>1
    <3>3. \A u \in Threads : ~(pc'[u] = "c_cas" /\ cur'[u][1] = continuation)
      BY <2>4, <2>5, <2>8, <3>1 DEF ResultInv
    <3> QED
      BY <1>over, <2>3, <2>6, <2>8, <3>1, <3>2, <3>3 DEF ResultInv, Stops
  <2> QED
    BY <2>7, <2>8
<1> QED
  BY <1>1, <1>2, <1>3, <1>4, <1>5

\* A scheduler that calls a child does not keep it.
LEMMA StepPickUp ==
  ASSUME Inv, NEW t \in Threads, NEW k \in pool, PickUp(t, k)
  PROVE  Inv'
<1> USE WhenAssumption, ContFacts
    DEF PickUp, sched, joint, shared, loops, yvars, Inv
<1>1. TypeOK' /\ ThreadInv' /\ StartInv'
  BY DEF TypeOK, ThreadInv, StartInv, Pcs
<1>2. PlaceInv' /\ OutcomeInv'
  BY DEF PlaceInv, OutcomeInv, Reporting
<1>3. CountInv'
  BY CountKept DEF TypeOK, ThreadInv, Reports, Reporting
<1>4. EndInv' /\ DecideInv'
  BY DEF EndInv, DecideInv
<1>5. ResultInv'
  BY DEF ResultInv, Ended, Storing
<1> QED
  BY <1>1, <1>2, <1>3, <1>4, <1>5

------------------------------------------------------------------------------
(* The invariant, and what follows from it *)

\* The invariant holds before start().
LEMMA InitInv == Init => Inv
<1> SUFFICES ASSUME Init PROVE Inv
  OBVIOUS
<1> USE WhenAssumption DEF Init
<1>1. TypeOK
  <2>1. 0 \in Slots /\ 0 \in 0 .. N /\ 0 \in 0 .. IdxMod - 1
    BY SlotFacts
  <2>2. spent \in [yields : 0 .. MaxYields, handoffs : [Children -> 0 .. MaxHandOffs]]
    OBVIOUS
  <2>3. pc \in [Threads -> Pcs]
    BY DEF Pcs
  <2>4. /\ slot \in [Threads -> Slots]
        /\ queue \in [Slots -> Conts \cup {None}]
        /\ outcome \in [Children -> Outcomes \cup {None}]
        /\ tries \in [Threads -> 0 .. N]
        /\ cur \in [Threads -> Conts \cup {None}]
        /\ expected \in [Threads -> Conts \cup {None}]
    BY <2>1
  <2>5. done \in 0 .. N /\ idx \in 0 .. IdxMod - 1 /\ calls \in 0 .. 1
    BY <2>1
  <2>6. /\ continuation \in Children \cup {None} /\ boxes \subseteq Children
        /\ called \in Children \cup {None, All, Exception}
        /\ result \in Children \cup {None, All, Exception}
        /\ pool \subseteq Conts /\ outerStop \in BOOLEAN /\ rounds \subseteq Repeats
    OBVIOUS
  <2> QED
    BY <2>2, <2>3, <2>4, <2>5, <2>6 DEF TypeOK
<1>2. Counted = {} /\ CountInv
  BY FS_EmptySet DEF Counted, CountInv
<1>3. ThreadInv /\ StartInv /\ PlaceInv /\ OutcomeInv
  BY DEF ThreadInv, StartInv, PlaceInv, OutcomeInv, Holds, Reporting
<1>4. EndInv /\ DecideInv /\ ResultInv
  BY DEF EndInv, DecideInv, ResultInv, Ended, Storing
<1> QED
  BY <1>1, <1>2, <1>3, <1>4 DEF Inv

\* Every step of Next keeps the invariant.
LEMMA NextInv ==
  ASSUME Inv, [Next]_vars
  PROVE  Inv'
<1>1. ASSUME NEW t \in Threads, Work(t) PROVE Inv'
  BY <1>1, StepStartOp, StepYieldFails, StepYieldFetch, StepYieldLoad, StepYieldSwap,
     StepYieldRetry, StepDecide, StepStoreResult, StepCountDone, StepCallWithDecision,
     StepCallWithValues, StepCallWithException DEF Work
<1>2. ASSUME NEW t \in Threads, ChildWork(t) PROVE Inv'
  BY <1>2, StepNextRound, StepYield, StepHandOff, StepHandOffOnly, StepComplete, StepPickUp
     DEF ChildWork
<1>3. CASE OuterStop
  BY <1>3 DEF OuterStop, shared, sched, joint, yvars, Inv, TypeOK, ThreadInv, StartInv,
              PlaceInv, OutcomeInv, CountInv, Counted, Reports, EndInv, DecideInv,
              ResultInv, Ended, Storing
<1>4. CASE UNCHANGED vars
  BY <1>4 DEF vars, shared, sched, joint, loops, yvars, Inv, TypeOK, ThreadInv, StartInv,
              PlaceInv, OutcomeInv, CountInv, Counted, Reports, EndInv, DecideInv,
              ResultInv, Ended, Storing
<1> QED
  BY <1>1, <1>2, <1>3, <1>4 DEF Next, Terminating

\* Every reachable state of the operation satisfies the inductive invariant.
THEOREM Invariance == Spec => []Inv
BY InitInv, NextInv, PTL DEF Spec

\* The members of _when_op and the locals of _yield keep their types: the index stays
\* in the pool, _done never exceeds N, and the parent is called at most once.
THEOREM TypeCorrect == Spec => []TypeOK
<1>1. Inv => TypeOK
  BY DEF Inv
<1> QED
  BY <1>1, Invariance, PTL

\* QuietWhenCalled in a state that satisfies the invariant.
LEMMA QuietState == Inv => QuietWhenCalled
<1> SUFFICES ASSUME Inv, calls = 1
             PROVE  /\ \A c \in Children : outcome[c] # None
                    /\ \A t \in Threads : pc[t] \in {"idle", "y_fetch", "y_load", "y_cas"}
                    /\ \A s \in Slots : queue[s] = None
                    /\ pool = {}
  BY DEF QuietWhenCalled, Inv, TypeOK
<1>1. done = N
  BY DEF Inv, EndInv
<1>2. \A c \in Children : outcome[c] # None
  BY <1>1, AllDone
<1>3. \A t \in Threads : pc[t] \notin {"child"} \cup Reporting
  BY <1>1, NotOver
<1>4. \A t \in Threads : pc[t] # "complete"
  BY DEF Inv, EndInv
<1>5. \A t \in Threads : pc[t] # "start"
  BY <1>2, SlotFacts DEF Inv, ThreadInv, StartInv
<1>6. \A t \in Threads : pc[t] \in {"idle", "y_fetch", "y_load", "y_cas"}
  BY <1>3, <1>4, <1>5 DEF Inv, TypeOK, Pcs, Reporting
<1>7. \A s \in Slots : queue[s] = None
  BY <1>2, ContFacts DEF Inv, TypeOK, OutcomeInv, Holds
<1>8. pool = {}
  BY <1>2, ContFacts DEF Inv, TypeOK, OutcomeInv, Holds
<1> QED
  BY <1>2, <1>6, <1>7, <1>8

\* Whatever the children do and whatever threads they are called on, the operation
\* calls its continuation only after everything is through (lines 128-135).
THEOREM CalledWhenQuiet == Spec => []QuietWhenCalled
BY QuietState, Invariance, PTL

\* A set without two different elements.
LEMMA AtMostOne ==
  ASSUME NEW S, \A x, y \in S : x = y
  PROVE  IsFiniteSet(S) /\ Cardinality(S) \in {0, 1} /\ (Cardinality(S) = 0 <=> S = {})
<1>1. CASE S = {}
  BY <1>1, FS_EmptySet
<1>2. CASE S # {}
  <2>1. PICK x \in S : S = {x}
    BY <1>2
  <2>2. IsFiniteSet(S)
    BY <2>1, FS_Singleton
  <2> QED
    BY <1>2, <2>1, <2>2, FS_Singleton
<1> QED
  BY <1>1, <1>2

\* ChildInOnePlace in a state that satisfies the invariant.
LEMMA OnePlaceState == Inv => ChildInOnePlace
<1> SUFFICES ASSUME Inv, NEW c \in Children
             PROVE  /\ Cardinality(InQueue(c)) + Cardinality(InPool(c))
                         + Cardinality(OnThreads(c)) <= 1
                    /\ outcome[c] # None => InQueue(c) = {} /\ InPool(c) = {}
  BY DEF ChildInOnePlace
<1> USE DEF Inv, PlaceInv, OutcomeInv, Holds
<1>1. \A r, s \in InQueue(c) : r = s
  BY DEF InQueue
<1>2. \A j, k \in InPool(c) : j = k
  BY ContFacts DEF InPool, TypeOK
<1>3. \A t, u \in OnThreads(c) : t = u
  BY DEF OnThreads
<1>4. /\ InQueue(c) = {} \/ InPool(c) = {}
      /\ InQueue(c) = {} \/ OnThreads(c) = {}
      /\ InPool(c) = {} \/ OnThreads(c) = {}
  BY ContFacts DEF InQueue, InPool, OnThreads, TypeOK
<1>5. outcome[c] # None => InQueue(c) = {} /\ InPool(c) = {}
  BY ContFacts DEF InQueue, InPool, TypeOK
<1> HIDE DEF Inv, PlaceInv, OutcomeInv, Holds
<1>6. Cardinality(InQueue(c)) + Cardinality(InPool(c)) + Cardinality(OnThreads(c)) <= 1
  BY <1>1, <1>2, <1>3, <1>4, AtMostOne
<1> QED
  BY <1>5, <1>6

\* The compare-exchange of _yield (lines 161-163) never gives a child to two threads,
\* however often a slot gets the same continuation again.
THEOREM OnePlace == Spec => []ChildInOnePlace
BY OnePlaceState, Invariance, PTL

\* ResultsAccounted in a state that satisfies the invariant.
LEMMA AccountedState == Inv => ResultsAccounted
<1> SUFFICES ASSUME Inv PROVE ResultsAccounted
  OBVIOUS
<1>1. ASSUME NEW t \in Threads, pc[t] = "c_store" PROVE cur[t][1] \in boxes
  <2>1. cur[t][1] \in Children /\ continuation = cur[t][1] /\ Storing
    BY <1>1, ContFacts DEF Inv, DecideInv, Storing, TypeOK, ThreadInv, Reporting
  <2>2. continuation # None
    BY <2>1, WhenAssumption
  <2> QED
    BY <2>1, <2>2 DEF Inv, ResultInv
<1>2. ASSUME NEW t \in Threads, pc[t] = "complete", continuation = None
      PROVE  boxes = Children
  BY <1>2, AllDone DEF Inv, EndInv, ResultInv, Ended
<1>3. ASSUME calls = 1
      PROVE  CASE called = All            -> boxes = {}
               [] called = Exception      -> boxes # Children
               [] called \in Children     -> boxes = Children \ {called}
  <2>1. /\ \A c \in Children : outcome[c] # None
        /\ ~Storing
    BY <1>3, QuietState DEF QuietWhenCalled, Storing
  <2>2. Ended = Children
    BY <2>1 DEF Ended
  <2>3. CASE continuation = None
    BY <1>3, <2>3, WhenAssumption DEF Inv, ResultInv
  <2>4. CASE continuation # None
    BY <1>3, <2>1, <2>2, <2>4, WhenAssumption DEF Inv, ResultInv
  <2> QED
    BY <2>3, <2>4
<1> QED
  BY <1>1, <1>2, <1>3 DEF ResultsAccounted

\* No result is taken twice or before it is there (_when.hpp:118-127, when_all.hpp:47-64).
THEOREM Accounted == Spec => []ResultsAccounted
BY AccountedState, Invariance, PTL

\* If the results that decide can be moved without throwing, the parent is called with
\* the signature of what is in its storage (lines 116-127).
THEOREM CallMatches ==
  ASSUME \A o \in Throwing : ~Stops(o)
  PROVE  Spec => []ResultMatchesCall
<1>1. Inv => ResultMatchesCall
  <2> SUFFICES ASSUME Inv, calls = 1 PROVE result = called
    BY DEF ResultMatchesCall
  <2>1. ~Storing
    BY QuietState DEF QuietWhenCalled, Storing
  <2> QED
    BY <2>1 DEF Inv, ResultInv
<1> QED
  BY <1>1, Invariance, PTL

------------------------------------------------------------------------------
(* Refinement *)

\* The outcome of Join: a child that is about to decide has not completed yet.
JoinOutcome == [c \in Children |->
                 IF \E t \in Threads : pc[t] = "c_cas" /\ cur[t][1] = c
                 THEN None ELSE outcome[c]]

\* A function that differs from another at one argument.
LEMMA ChangedAt ==
  ASSUME NEW D, NEW f, NEW g, NEW c \in D, NEW v,
         f = [x \in D |-> f[x]], g = [x \in D |-> g[x]],
         g[c] = v, \A x \in D \ {c} : g[x] = f[x]
  PROVE  g = [f EXCEPT ![c] = v]
OBVIOUS

\* Every step of the operation is a step of Join or changes nothing Join sees: a child
\* completes when it decides, or, if it does not ask to, when it calls.
LEMMA JoinStep ==
  ASSUME Inv, Inv', [Next]_vars
  PROVE  [Joined!Next]_Joined!jvars
<1>fun. /\ JoinOutcome = [x \in Children |-> JoinOutcome[x]]
        /\ JoinOutcome' = [x \in Children |-> JoinOutcome'[x]]
  BY DEF JoinOutcome
<1>0. ASSUME JoinOutcome' = JoinOutcome, UNCHANGED <<continuation, called>>
      PROVE  [Joined!Next]_Joined!jvars
  BY <1>0 DEF JoinOutcome, Joined!jvars
<1>1. ASSUME NEW t \in Threads, NEW c \in Children, NEW o \in Outcomes, Complete(t, c, o)
      PROVE  [Joined!Next]_Joined!jvars
  <2>0. /\ cur[t] # None /\ cur[t][1] = c /\ outcome[c] = None
        /\ pc[t] = "child" /\ pc'[t] = (IF Stops(o) THEN "c_cas" ELSE "c_done")
        /\ cur' = cur /\ outcome'[c] = o
        /\ UNCHANGED <<continuation, called>>
    BY <1>1 DEF Complete, Runs, Inv, TypeOK, ThreadInv, OutcomeInv, Holds, Reporting
  <2>1. /\ \A u \in Threads \ {t} : pc'[u] = pc[u]
        /\ \A x \in Children \ {c} : outcome'[x] = outcome[x]
    BY <1>1 DEF Complete, Inv, TypeOK
  <2>2. \A u \in Threads \ {t} : ~(pc[u] = "c_cas" /\ cur[u][1] = c)
    BY <2>0 DEF Inv, ThreadInv, PlaceInv, Holds, Reporting
  <2>3. \A x \in Children \ {c} : JoinOutcome'[x] = JoinOutcome[x]
    BY <2>0, <2>1 DEF JoinOutcome
  <2>4. JoinOutcome[c] = None /\ JoinOutcome'[c] = (IF Stops(o) THEN None ELSE o)
    BY <2>0, <2>1, <2>2 DEF JoinOutcome
  <2>5. CASE Stops(o)
    <3>1. JoinOutcome' = JoinOutcome
      BY <2>3, <2>4, <2>5 DEF JoinOutcome
    <3> QED
      BY <1>0, <2>0, <3>1
  <2>6. CASE ~Stops(o)
    <3>0. JoinOutcome'[c] = o
      BY <2>4, <2>6
    <3>1. JoinOutcome' = [JoinOutcome EXCEPT ![c] = o]
      BY <2>3, <3>0, <1>fun, ChangedAt
    <3>2. Joined!Complete(c, o)
      BY <2>0, <2>4, <2>6, <3>1 DEF JoinOutcome, Joined!Complete
    <3> QED
      BY <3>2 DEF Joined!Next
  <2> QED
    BY <2>5, <2>6
<1>2. ASSUME NEW t \in Threads, Decide(t) PROVE [Joined!Next]_Joined!jvars
  <2>a. /\ cur[t] # None /\ cur[t][1] \in Children /\ outcome[cur[t][1]] \in Outcomes
    BY <1>2, ContFacts DEF Decide, Inv, TypeOK, ThreadInv, OutcomeInv, Holds, Reporting
  <2>b. PICK c \in Children, o \in Outcomes : c = cur[t][1] /\ o = outcome[cur[t][1]]
    BY <2>a
  <2>0. /\ cur[t] # None /\ cur[t][1] = c /\ outcome[c] = o /\ Stops(o)
        /\ pc[t] = "c_cas" /\ pc'[t] \in {"c_store", "c_done"}
        /\ cur' = cur /\ outcome' = outcome /\ called' = called
        /\ continuation' = IF continuation = None THEN c ELSE continuation
    BY <1>2, <2>a, <2>b DEF Decide, FirstToStop, Inv, TypeOK, DecideInv
  <2>1. \A u \in Threads \ {t} : pc'[u] = pc[u]
    BY <1>2 DEF Decide, Inv, TypeOK
  <2>2. \A u \in Threads \ {t} : ~(pc[u] = "c_cas" /\ cur[u][1] = c)
    BY <2>0 DEF Inv, ThreadInv, PlaceInv, Holds, Reporting
  <2>3. \A x \in Children \ {c} : JoinOutcome'[x] = JoinOutcome[x]
    BY <2>0, <2>1 DEF JoinOutcome
  <2>4. JoinOutcome[c] = None /\ JoinOutcome'[c] = o
    BY <2>0, <2>1, <2>2 DEF JoinOutcome
  <2>5. JoinOutcome' = [JoinOutcome EXCEPT ![c] = o]
    BY <2>3, <2>4, <1>fun, ChangedAt
  <2>6. Joined!Complete(c, o)
    BY <2>0, <2>4, <2>5 DEF JoinOutcome, Joined!Complete
  <2> QED
    BY <2>6 DEF Joined!Next
<1>3. ASSUME NEW t \in Threads,
             CallWithDecision(t) \/ CallWithValues(t) \/ CallWithException(t)
      PROVE  [Joined!Next]_Joined!jvars
  <2>1. /\ called = None /\ done = N /\ UNCHANGED <<outcome, continuation, cur>>
        /\ pc[t] = "complete" /\ pc'[t] = "idle"
    BY <1>3 DEF CallWithDecision, CallWithValues, CallWithException, CallParent,
                Inv, TypeOK, EndInv
  <2>2. \A u \in Threads \ {t} : pc'[u] = pc[u]
    BY <1>3 DEF CallWithDecision, CallWithValues, CallWithException, CallParent,
                Inv, TypeOK
  <2>3. JoinOutcome' = JoinOutcome
    BY <2>1, <2>2 DEF JoinOutcome
  <2>4. \A c \in Children : /\ outcome[c] # None
                            /\ \A u \in Threads : ~(pc[u] = "c_cas" /\ cur[u][1] = c)
    BY <2>1, AllDone DEF Reports, Reporting
  <2>5. \A c \in Children : JoinOutcome[c] # None
    BY <2>4 DEF JoinOutcome
  <2>6. called' \in IF continuation = None
                    THEN {All} \cup (IF "value" \in Throwing THEN {Exception} ELSE {})
                    ELSE {continuation}
    BY <1>3 DEF CallWithDecision, CallWithValues, CallWithException, CallParent
  <2>7. Joined!Deliver
    BY <2>1, <2>3, <2>5, <2>6 DEF JoinOutcome, Joined!Deliver
  <2> QED
    BY <2>7 DEF Joined!Next
<1>4. ASSUME UNCHANGED <<continuation, called, outcome>>,
             \A t \in Threads : \/ pc'[t] = pc[t] /\ cur'[t] = cur[t]
                                \/ pc[t] # "c_cas" /\ pc'[t] # "c_cas"
      PROVE  [Joined!Next]_Joined!jvars
  <2>1. JoinOutcome' = JoinOutcome
    BY <1>4 DEF JoinOutcome
  <2> QED
    BY <1>0, <1>4, <2>1
<1>5. ASSUME NEW t \in Threads, Work(t) PROVE [Joined!Next]_Joined!jvars
  <2>1. CASE StartOp(t)
    BY <1>4, <2>1 DEF StartOp, joint, Inv, TypeOK
  <2>2. CASE YieldFails(t)
    BY <1>4, <2>2 DEF YieldFails, shared, joint, Inv, TypeOK
  <2>3. CASE YieldFetch(t)
    BY <1>4, <2>3 DEF YieldFetch, joint, Inv, TypeOK
  <2>4. CASE YieldLoad(t)
    BY <1>4, <2>4 DEF YieldLoad, shared, joint, Inv, TypeOK
  <2>5. CASE YieldSwap(t)
    BY <1>4, <2>5 DEF YieldSwap, joint, Inv, TypeOK
  <2>6. CASE YieldRetry(t)
    BY <1>4, <2>6 DEF YieldRetry, shared, joint, Inv, TypeOK
  <2>7. CASE StoreResult(t)
    BY <1>4, <2>7 DEF StoreResult, Inv, TypeOK
  <2>8. CASE CountDone(t)
    BY <1>4, <2>8 DEF CountDone, AfterCount, Inv, TypeOK
  <2> QED
    BY <1>2, <1>3, <1>5, <2>1, <2>2, <2>3, <2>4, <2>5, <2>6, <2>7, <2>8 DEF Work
<1>6. ASSUME NEW t \in Threads, ChildWork(t) PROVE [Joined!Next]_Joined!jvars
  <2>1. ASSUME NEW c \in Children, NEW s \in 1 .. Sites, Yield(t, c, s)
        PROVE  [Joined!Next]_Joined!jvars
    BY <1>4, <2>1 DEF Yield, InOwnCode, Runs, EnterYield, shared, joint, Inv, TypeOK
  <2>2. ASSUME NEW c \in Children, NEW s \in 1 .. Sites, HandOff(t, c, s)
        PROVE  [Joined!Next]_Joined!jvars
    BY <1>4, <2>2 DEF HandOff, GiveAway, InOwnCode, Runs, EnterYield, shared, joint,
                      Inv, TypeOK
  <2>3. ASSUME NEW c \in Children, NEW s \in 1 .. Sites, HandOffOnly(t, c, s)
        PROVE  [Joined!Next]_Joined!jvars
    BY <1>4, <2>3 DEF HandOffOnly, GiveAway, InOwnCode, Runs, shared, joint, Inv, TypeOK
  <2>4. ASSUME NEW k \in pool, PickUp(t, k) PROVE [Joined!Next]_Joined!jvars
    BY <1>4, <2>4 DEF PickUp, shared, joint, Inv, TypeOK
  <2>5. ASSUME NEW c \in Children, NextRound(t, c) PROVE [Joined!Next]_Joined!jvars
    BY <1>4, <2>5 DEF NextRound, shared, joint
  <2> QED
    BY <1>1, <1>6, <2>1, <2>2, <2>3, <2>4, <2>5 DEF ChildWork
<1>7. CASE OuterStop
  BY <1>4, <1>7 DEF OuterStop, shared, joint
<1>8. CASE UNCHANGED vars
  BY <1>4, <1>8 DEF vars, shared, joint
<1> QED
  BY <1>5, <1>6, <1>7, <1>8 DEF Next, Terminating

\* when_all and when_any do what Join promises.
THEOREM Implements == Spec => ImplementsJoin
<1>1. Init => Joined!Init
  BY DEF Init, Joined!Init
<1>2. ASSUME Inv, Inv', [Next]_vars PROVE [Joined!Next]_Joined!jvars
  BY <1>2, JoinStep
<1> QED
  BY <1>1, <1>2, Invariance, PTL DEF Spec, ImplementsJoin, Joined!Spec

------------------------------------------------------------------------------
(* Without yields no child is lost: swapping only ever takes children out of the
   queue, and a thread that gives a child away keeps nothing back. *)

Placed(c) ==
  \/ \E s \in Slots : Holds(queue[s], c)
  \/ \E k \in pool : Holds(k, c)
  \/ \E t \in Threads : Holds(cur[t], c)

LostInv ==
  /\ pc[Main] # "start" => \A c \in Children : outcome[c] = None => Placed(c)
  /\ \A t \in Threads : pc[t] \in {"y_fetch", "y_load", "y_cas"} => cur[t] = None


\* Without yields every step keeps a child that has not completed somewhere.
LEMMA PlacedStep ==
  ASSUME Inv, LostInv, MaxYields = 0, Repeats = {}, [Next]_vars
  PROVE  LostInv'
<1> USE WhenAssumption, ContFacts
<1>1. ASSUME NEW t \in Threads, StartOp(t) PROVE LostInv'
  <2>1. \A s \in Slots : Holds(queue'[s], s + 1)
    BY <1>1, StartFacts, SlotFacts DEF StartOp, InitialQueue, Holds
  <2>2. Holds(cur'[t], 0)
    BY <1>1, StartFacts, SlotFacts DEF StartOp, Inv, TypeOK, Holds
  <2>3. \A c \in Children : c = 0 \/ \E s \in Slots : c = s + 1
    <3>1. \A c \in Children : c # 0 => c - 1 \in Slots /\ c = (c - 1) + 1
      BY DEF Children, Slots
    <3> QED
      BY <3>1
  <2>4. \A c \in Children : Placed(c)'
    BY <2>1, <2>2, <2>3 DEF Placed
  <2> QED
    BY <1>1, <2>4 DEF StartOp, LostInv, Inv, TypeOK
<1>2. ASSUME NEW t \in Threads, YieldSwap(t) PROVE LostInv'
  <2>1. /\ cur[t] = None /\ slot[t] \in Slots
        /\ cur'[t] = queue[slot[t]]
        /\ \A s \in Slots \ {slot[t]} : queue'[s] = queue[s]
        /\ \A u \in Threads \ {t} : cur'[u] = cur[u] /\ pc'[u] = pc[u]
        /\ pc[t] # "start" /\ pc'[t] = "child"
        /\ UNCHANGED <<pool, outcome>>
    BY <1>2 DEF YieldSwap, SwapSucceeds, Swapped, LostInv, Inv, TypeOK
  <2>2. \A c \in Children : Placed(c) => Placed(c)'
    BY <2>1 DEF Placed, Holds
  <2> QED
    BY <2>1, <2>2 DEF LostInv, Inv, TypeOK
<1>3. ASSUME NEW t \in Threads, CountDone(t) PROVE LostInv'
  <2>1. /\ \A c \in Children : Holds(cur[t], c) => outcome[c] # None
        /\ \A u \in Threads \ {t} : cur'[u] = cur[u] /\ pc'[u] = pc[u]
        /\ pc[t] # "start" /\ cur'[t] = None
        /\ UNCHANGED <<queue, pool, outcome>>
    BY <1>3 DEF CountDone, sched, Inv, TypeOK, OutcomeInv, Reporting
  <2>2. \A c \in Children : outcome[c] = None /\ Placed(c) => Placed(c)'
    BY <2>1 DEF Placed
  <2> QED
    BY <2>1, <2>2 DEF LostInv, Inv, TypeOK
<1>4. ASSUME NEW t \in Threads, NEW c \in Children, NEW s \in 1 .. Sites,
             HandOff(t, c, s) \/ HandOffOnly(t, c, s)
      PROVE  LostInv'
  <2>1. /\ \A x \in Children : Holds(cur[t], x) => x = c
        /\ pool' = pool \cup {<<c, s>>} /\ Holds(<<c, s>>, c)
        /\ \A u \in Threads \ {t} : cur'[u] = cur[u] /\ pc'[u] = pc[u]
        /\ pc[t] # "start" /\ cur'[t] = None
        /\ UNCHANGED <<queue, outcome>>
    BY <1>4 DEF HandOff, HandOffOnly, GiveAway, InOwnCode, Runs, EnterYield, shared,
                sched, Inv, TypeOK, Holds
  <2>2. \A x \in Children : Placed(x) => Placed(x)'
    BY <2>1 DEF Placed
  <2> QED
    BY <2>1, <2>2 DEF LostInv, Inv, TypeOK
<1>5. ASSUME NEW t \in Threads, NEW k \in pool, PickUp(t, k) PROVE LostInv'
  <2>1. /\ pool' = pool \ {k} /\ cur[t] = None /\ cur'[t] = k
        /\ \A u \in Threads \ {t} : cur'[u] = cur[u] /\ pc'[u] = pc[u]
        /\ t # Main /\ pc'[t] = "child"
        /\ UNCHANGED <<queue, outcome>>
    BY <1>5 DEF PickUp, shared, sched, Inv, TypeOK, ThreadInv
  <2>2. \A c \in Children : Placed(c) => Placed(c)'
    BY <2>1 DEF Placed, Holds
  <2> QED
    BY <2>1, <2>2 DEF LostInv, Inv, TypeOK
<1>6. ASSUME UNCHANGED <<queue, pool, cur>>,
             \A c \in Children : outcome'[c] = None => outcome[c] = None,
             \A t \in Threads : /\ pc'[t] = "start" <=> pc[t] = "start"
                                /\ \/ cur[t] = None
                                   \/ pc'[t] = pc[t]
                                   \/ pc'[t] \notin {"y_fetch", "y_load", "y_cas"}
      PROVE  LostInv'
  <2>1. \A c \in Children : Placed(c)' <=> Placed(c)
    BY <1>6 DEF Placed
  <2> QED
    BY <1>6, <2>1 DEF LostInv, Inv, TypeOK
<1>7. ASSUME NEW t \in Threads, Work(t) PROVE LostInv'
  <2> USE DEF shared, sched, Inv, TypeOK, LostInv, ThreadInv
  <2>1. CASE YieldFails(t)
    BY <1>6, <2>1 DEF YieldFails
  <2>2. CASE YieldFetch(t)
    BY <1>6, <2>2 DEF YieldFetch
  <2>3. CASE YieldLoad(t)
    BY <1>6, <2>3 DEF YieldLoad
  <2>4. CASE YieldRetry(t)
    BY <1>6, <2>4 DEF YieldRetry
  <2>5. CASE Decide(t)
    BY <1>6, <2>5 DEF Decide
  <2>6. CASE StoreResult(t)
    BY <1>6, <2>6 DEF StoreResult
  <2>7. CASE CallWithDecision(t) \/ CallWithValues(t) \/ CallWithException(t)
    BY <1>6, <2>7 DEF CallWithDecision, CallWithValues, CallWithException, CallParent
  <2> QED
    BY <1>1, <1>2, <1>3, <1>7, <2>1, <2>2, <2>3, <2>4, <2>5, <2>6, <2>7 DEF Work
<1>8. ASSUME NEW t \in Threads, ChildWork(t) PROVE LostInv'
  <2>1. ASSUME NEW c \in Children, NEW s \in 1 .. Sites, Yield(t, c, s) PROVE FALSE
    BY <2>1 DEF Yield, Inv, TypeOK
  <2>2. ASSUME NEW c \in Children, NEW o \in Outcomes, Complete(t, c, o) PROVE LostInv'
    BY <1>6, <2>2 DEF Complete, Runs, sched, Inv, TypeOK
  <2>3. ASSUME NEW c \in Children, NextRound(t, c) PROVE FALSE
    BY <2>3 DEF NextRound
  <2> QED
    BY <1>4, <1>5, <1>8, <2>1, <2>2, <2>3 DEF ChildWork
<1>9. CASE OuterStop \/ UNCHANGED vars
  BY <1>6, <1>9 DEF OuterStop, vars, shared, sched
<1> QED
  BY <1>7, <1>8, <1>9 DEF Next, Terminating

\* _yield gives up a continuation only if it was asked to keep one (lines 41-45):
\* an operation whose children hand themselves to other schedulers, but do not
\* yield, loses no child, whatever threads they are called on.
THEOREM NoneLost ==
  ASSUME MaxYields = 0, Repeats = {}
  PROVE  Spec => []NoChildLost
<1>1. Init => LostInv
  BY WhenAssumption DEF Init, LostInv
<1>2. Inv /\ LostInv /\ [Next]_vars => LostInv'
  BY PlacedStep
<1>3. LostInv => NoChildLost
  BY DEF LostInv, Placed, NoChildLost, Lost, InQueue, InPool, OnThreads, Holds
<1> QED
  BY <1>1, <1>2, <1>3, Invariance, PTL DEF Spec
==============================================================================
