------------------------------ MODULE WhenOrder ------------------------------
(***************************************************************************)
(* The operation of module When with what its atomics order.  Everything   *)
(* else the threads touch is plain memory: the operation and the storage   *)
(* of each child, and the storage of the whole operation.  A thread may    *)
(* touch such data only if the last write of it happens before.            *)
(*                                                                         *)
(* knows[t] are the data whose last write happens before what thread t     *)
(* does next.  A write takes the data away from everybody else; knowledge  *)
(* spreads through _scheduler_idx and _done, which are read-modify-written *)
(* with memory_order_acq_rel, and through other schedulers, which          *)
(* synchronize the thread that gives a continuation with the one that      *)
(* calls it.  The accesses to _scheduler_queue and _continuation are       *)
(* memory_order_relaxed: they carry values, as in When, and order nothing. *)
(***************************************************************************)
EXTENDS When

CONSTANT Storage  \* the storage of the whole operation

\* A child stands for its operation and its own storage.
Data == Children \cup {Storage}

ASSUME WhenOrderAssumption == Storage \notin Children

VARIABLES
  knows,     \* see above
  idxSeen,   \* what an acquire of _scheduler_idx makes known
  doneSeen,  \* what an acquire of _done makes known
  handed     \* what the scheduler that holds a child's continuation passes on

order == <<knows, idxSeen, doneSeen, handed>>

OrderTypeOK ==
  /\ TypeOK
  /\ knows \in [Threads -> SUBSET Data]
  /\ idxSeen \subseteq Data
  /\ doneSeen \subseteq Data
  /\ handed \in [Children -> SUBSET Data]

\* The thread that starts the operation has made all of it.
OrderInit ==
  /\ Init
  /\ knows = [t \in Threads |-> IF t = Main THEN Data ELSE {}]
  /\ idxSeen = {}
  /\ doneSeen = {}
  /\ handed = [c \in Children |-> {}]

------------------------------------------------------------------------------
(* How knowledge spreads *)

\* What the other threads and the atomics know is out of date for the data written.
Write(t, data) ==
  /\ knows' = [u \in Threads |-> IF u = t THEN knows[u] \cup data ELSE knows[u] \ data]
  /\ idxSeen' = idxSeen \ data
  /\ doneSeen' = doneSeen \ data

Stale(data) == [c \in Children |-> handed[c] \ data]

Learn(t, data) == knows' = [knows EXCEPT ![t] = @ \cup data]

------------------------------------------------------------------------------
(* The steps of When *)

\* Running a child writes to its operation, completing it to its storage.
ChildWrites(t, c) ==
  /\ \/ NextRound(t, c)
     \/ \E s \in 1 .. Sites : Yield(t, c, s)
     \/ \E o \in Outcomes : Complete(t, c, o)
  /\ Write(t, {c})
  /\ handed' = Stale({c})

\* A scheduler of its own takes over what the thread knows.
ChildGivenAway(t, c) ==
  /\ \E s \in 1 .. Sites : HandOff(t, c, s) \/ HandOffOnly(t, c, s)
  /\ Write(t, {c})
  /\ handed' = [Stale({c}) EXCEPT ![c] = knows[t] \cup {c}]

ChildPickedUp(t, k) ==
  /\ PickUp(t, k)
  /\ Learn(t, handed[k[1]])
  /\ handed' = [handed EXCEPT ![k[1]] = {}]
  /\ UNCHANGED <<idxSeen, doneSeen>>

\* _scheduler_idx.fetch_add(1, std::memory_order_acq_rel)
FetchIdx(t) ==
  /\ YieldFetch(t)
  /\ Learn(t, idxSeen)
  /\ idxSeen' = idxSeen \cup knows[t]
  /\ UNCHANGED <<doneSeen, handed>>

DonePublishesNothing(t) == doneSeen  \* Mutant of DonePublishes: not a release
DonePublishes(t) == doneSeen \cup knows[t]

\* _done.fetch_add(1, std::memory_order_acq_rel)
FetchDone(t) ==
  /\ CountDone(t)
  /\ Learn(t, doneSeen)
  /\ doneSeen' = DonePublishes(t)
  /\ UNCHANGED <<idxSeen, handed>>

\* The result leaves the child's storage and is written to the operation's.
ResultWritten(t) ==
  /\ StoreResult(t)
  /\ Write(t, {cur[t][1], Storage})
  /\ handed' = Stale({cur[t][1], Storage})

\* Nothing is ordered by the rest.
Relaxed(t) ==
  /\ \/ StartOp(t)
     \/ YieldFails(t) \/ YieldLoad(t) \/ YieldSwap(t) \/ YieldRetry(t)
     \/ Decide(t)
     \/ CallWithDecision(t) \/ CallWithValues(t) \/ CallWithException(t)
  /\ UNCHANGED order

OrderStep(t) ==
  \/ \E c \in Children : ChildWrites(t, c) \/ ChildGivenAway(t, c)
  \/ \E k \in pool : ChildPickedUp(t, k)
  \/ FetchIdx(t) \/ FetchDone(t) \/ ResultWritten(t) \/ Relaxed(t)

OrderNext ==
  \/ \E t \in Threads : OrderStep(t)
  \/ (OuterStop \/ Terminating) /\ UNCHANGED order

OrderSpec == OrderInit /\ [][OrderNext]_<<vars, order>>

------------------------------------------------------------------------------
(* Properties *)

\* The thread that completes the operation takes the children's results, or has
\* the one the decider stored taken by the continuation, which may then destroy
\* everything: all of it was last written before, although the decision itself is
\* published by relaxed accesses only.
ResultVisible ==
  \A t \in Threads : pc[t] = "complete" => knows[t] = Data

\* The thread that resumes a child out of the queue sees what the thread that put
\* it there left in the child's operation.
ChildStateVisible ==
  \A t \in Threads : pc[t] = "child" => cur[t][1] \in knows[t]
==============================================================================
