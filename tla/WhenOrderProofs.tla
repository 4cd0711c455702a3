--------------------------- MODULE WhenOrderProofs ---------------------------
(***************************************************************************)
(* Proofs about WhenOrder, on top of those about When: its steps are steps *)
(* of When, and the thread that completes the operation knows everything.  *)
(***************************************************************************)
EXTENDS WhenOrder, WhenProofs

\* The part of the type invariant that is not about When.
Clocks ==
  /\ knows \in [Threads -> SUBSET Data]
  /\ idxSeen \subseteq Data
  /\ doneSeen \subseteq Data
  /\ handed \in [Children -> SUBSET Data]

\* Nobody has written to the storage of the operation since it was started.
Unwritten == continuation = None \/ Storing

\* Who knows what: whoever reports a child knows its storage, and hands that knowledge on
\* through _done; the storage of the operation is known to every thread that got into the
\* operation, until the child that decides writes it, and then goes the same way.
KnowInv ==
  /\ \A t \in Threads : pc[t] \in Reporting => cur[t][1] \in knows[t]
  /\ Counted \subseteq doneSeen
  /\ Unwritten => /\ \A t \in Threads : pc[t] # "idle" => Storage \in knows[t]
                  /\ \A k \in pool : Storage \in handed[k[1]]
  /\ ~Unwritten => /\ continuation \in Counted => Storage \in doneSeen
                   /\ \A t \in Threads : Reports(t, continuation) => Storage \in knows[t]
  /\ ResultVisible

OrderInv == Inv /\ Clocks /\ KnowInv

------------------------------------------------------------------------------
\* A step of WhenOrder is a step of When with a step of the clocks beside it.
LEMMA StepOfWhen ==
  ASSUME [OrderNext]_<<vars, order>>
  PROVE  [Next]_vars
<1>1. ASSUME NEW t \in Threads, OrderStep(t) PROVE Work(t) \/ ChildWork(t)
  BY <1>1 DEF OrderStep, ChildWrites, ChildGivenAway, ChildPickedUp, FetchIdx, FetchDone,
              ResultWritten, Relaxed, Work, ChildWork
<1> QED
  BY <1>1 DEF OrderNext, Next

\* The operation with its clocks is the operation, so that what is proved of When holds.
THEOREM OrderedIsWhen == OrderSpec => Spec
<1>1. OrderInit => Init
  BY DEF OrderInit
<1> QED
  BY <1>1, StepOfWhen, PTL DEF OrderSpec, Spec

\* The thread that starts the operation has made it and knows all of it.
LEMMA OrderInitInv == OrderInit => OrderInv
<1> SUFFICES ASSUME OrderInit PROVE OrderInv
  OBVIOUS
<1>1. Inv
  BY InitInv DEF OrderInit
<1>2. Clocks
  BY DEF OrderInit, Clocks
<1>3. KnowInv
  BY WhenAssumption DEF OrderInit, Init, KnowInv, Reporting, Counted, Unwritten, Data,
                        ResultVisible
<1> QED
  BY <1>1, <1>2, <1>3 DEF OrderInv

\* Writing makes what others know smaller, and what the writer knows greater.
LEMMA Written ==
  ASSUME Clocks, NEW t \in Threads, NEW data \in SUBSET Data, Write(t, data)
  PROVE  /\ knows' \in [Threads -> SUBSET Data]
         /\ idxSeen' \subseteq Data /\ doneSeen' \subseteq Data
         /\ Stale(data) \in [Children -> SUBSET Data]
         /\ \A x \in Data \ data : /\ \A u \in Threads : x \in knows'[u] <=> x \in knows[u]
                                   /\ x \in doneSeen' <=> x \in doneSeen
                                   /\ \A c \in Children : x \in Stale(data)[c] <=> x \in handed[c]
         /\ data \subseteq knows'[t]
BY DEF Clocks, Write, Stale

\* Learning takes nothing from anybody.
LEMMA Learnt ==
  ASSUME Clocks, NEW t \in Threads, NEW data \in SUBSET Data, Learn(t, data)
  PROVE  /\ knows' \in [Threads -> SUBSET Data]
         /\ \A u \in Threads : knows[u] \subseteq knows'[u]
         /\ data \subseteq knows'[t]
BY DEF Clocks, Learn

\* While a child runs, the operation is not over and the child is not counted.
LEMMA RunningChild ==
  ASSUME Inv, NEW t \in Threads, NEW c \in Children, Runs(t, c)
  PROVE  /\ outcome[c] = None /\ c \notin Counted /\ continuation # c
         /\ \A u \in Threads : ~Reports(u, c)
         /\ \A u \in Threads : pc[u] # "complete"
<1>1. Holds(cur[t], c) /\ pc[t] = "child"
  BY DEF Runs, Inv, ThreadInv, Holds
<1>2. outcome[c] = None /\ c \notin Counted
  BY <1>1 DEF Inv, OutcomeInv, Reporting, Counted
<1>3. continuation # c
  BY <1>2, WhenAssumption DEF Inv, ResultInv, Ended
<1>4. \A u \in Threads : ~Reports(u, c)
  BY <1>2 DEF Inv, ThreadInv, OutcomeInv, Holds, Reports
<1>5. \A u \in Threads : pc[u] # "complete"
  BY <1>1, NotOver DEF Inv, EndInv
<1> QED
  BY <1>2, <1>3, <1>4, <1>5

\* Every step of a thread keeps the invariant.
LEMMA OrderStepInv ==
  ASSUME OrderInv, NEW t \in Threads, OrderStep(t)
  PROVE  Clocks' /\ KnowInv'
<1> USE WhenAssumption, WhenOrderAssumption, ContFacts
<1>0. Inv /\ Inv'
  <2>1. [Next]_vars
    BY StepOfWhen DEF OrderNext
  <2> QED
    BY <2>1, NextInv DEF OrderInv
<1>typ. /\ pc \in [Threads -> Pcs] /\ cur \in [Threads -> Conts \cup {None}]
        /\ outcome \in [Children -> Outcomes \cup {None}]
        /\ Clocks /\ KnowInv
        /\ Children \subseteq Data /\ Storage \in Data /\ Storage \notin Children
  BY DEF OrderInv, Inv, TypeOK, Data
<1>1. ASSUME NEW c \in Children, ChildWrites(t, c) PROVE Clocks' /\ KnowInv'
  <2>1. /\ Runs(t, c) /\ Write(t, {c}) /\ handed' = Stale({c})
        /\ UNCHANGED <<continuation, pool>>
        /\ \A u \in Threads \ {t} : pc'[u] = pc[u] /\ cur'[u] = cur[u]
        /\ pc[t] = "child" /\ pc'[t] \in {"child", "y_fetch", "c_cas", "c_done"}
        /\ pc'[t] \in Reporting => cur'[t][1] = c
    BY <1>1, <1>typ DEF ChildWrites, NextRound, Yield, InOwnCode, EnterYield, Complete, Runs, shared, sched,
                        joint, Reporting
  <2>2. /\ outcome[c] = None /\ c \notin Counted /\ continuation # c
        /\ \A u \in Threads : ~Reports(u, c)
        /\ \A u \in Threads : pc[u] # "complete"
    BY <1>0, <2>1, RunningChild
  <2>3. /\ \A x \in Children \ {c} : outcome'[x] = outcome[x]
        /\ outcome'[c] # None => pc'[t] \in Reporting
    <3>1. CASE \E s \in 1 .. Sites : Yield(t, c, s)
      BY <2>2, <3>1 DEF Yield
    <3>2. CASE \E o \in Outcomes : Complete(t, c, o)
      BY <1>typ, <3>2 DEF Complete, Reporting
    <3>3. CASE NextRound(t, c)
      BY <2>2, <3>3 DEF NextRound
    <3> QED
      BY <1>1, <3>1, <3>2, <3>3 DEF ChildWrites
  <2>data. {c} \in SUBSET Data
    BY <1>typ
  <2>4. Counted' \subseteq Counted
    BY <2>1, <2>2, <2>3 DEF Counted, Reports, Reporting
  <2>5. Unwritten' <=> Unwritten
    BY <2>1 DEF Unwritten, Storing
  <2>6. Clocks'
    BY <1>typ, <2>data, <2>1, Written DEF Clocks
  <2>7. KnowInv'
    <3>1. /\ \A x \in Data \ {c} : /\ \A u \in Threads : x \in knows'[u] <=> x \in knows[u]
                                   /\ x \in doneSeen' <=> x \in doneSeen
                                   /\ \A d \in Children : x \in handed'[d] <=> x \in handed[d]
          /\ c \in knows'[t]
      BY <1>typ, <2>1, <2>data, Written
    <3>2. \A u \in Threads : pc'[u] \in Reporting => cur'[u][1] \in knows'[u]
      BY <1>0, <1>typ, <2>1, <2>2, <3>1 DEF KnowInv, Reports, Inv, ThreadInv, Reporting
    <3>3. Counted' \subseteq doneSeen'
      BY <1>typ, <2>2, <2>4, <3>1 DEF KnowInv, Counted
    <3>4. Unwritten' => /\ \A u \in Threads : pc'[u] # "idle" => Storage \in knows'[u]
                        /\ \A k \in pool' : Storage \in handed'[k[1]]
      BY <1>0, <1>typ, <2>1, <2>5, <3>1 DEF KnowInv, Inv, TypeOK
    <3>5. ~Unwritten' => /\ continuation' \in Counted' => Storage \in doneSeen'
                         /\ \A u \in Threads : Reports(u, continuation)' => Storage \in knows'[u]
      BY <1>typ, <2>1, <2>2, <2>4, <2>5, <3>1 DEF KnowInv, Reports
    <3>6. ResultVisible'
      BY <2>1, <2>2 DEF ResultVisible
    <3> QED
      BY <3>2, <3>3, <3>4, <3>5, <3>6 DEF KnowInv
  <2> QED
    BY <2>6, <2>7
<1>2. ASSUME NEW c \in Children, ChildGivenAway(t, c) PROVE Clocks' /\ KnowInv'
  <2>1. PICK s \in 1 .. Sites :
        /\ Runs(t, c) /\ Write(t, {c})
        /\ handed' = [Stale({c}) EXCEPT ![c] = knows[t] \cup {c}]
        /\ UNCHANGED <<continuation, outcome>> /\ pool' = pool \cup {<<c, s>>}
        /\ \A u \in Threads \ {t} : pc'[u] = pc[u] /\ cur'[u] = cur[u]
        /\ pc[t] = "child" /\ pc'[t] \in {"y_fetch", "idle"}
    BY <1>2, <1>typ DEF ChildGivenAway, HandOff, HandOffOnly, GiveAway, InOwnCode, EnterYield, Runs,
                        shared, sched, joint
  <2>2. /\ c \notin Counted /\ continuation # c
        /\ \A u \in Threads : ~Reports(u, c)
        /\ \A u \in Threads : pc[u] # "complete"
    BY <1>0, <2>1, RunningChild
  <2>3. Counted' = Counted
    <3>1. \A x \in Children, u \in Threads : Reports(u, x)' <=> Reports(u, x)
      BY <2>1 DEF Reports, Reporting
    <3> QED
      BY <2>1, <3>1 DEF Counted
  <2>4. Unwritten' <=> Unwritten
    BY <2>1 DEF Unwritten, Storing
  <2>data. {c} \in SUBSET Data
    BY <1>typ
  <2>5. Stale({c}) \in [Children -> SUBSET Data]
    BY <1>typ, <2>data, <2>1, Written
  <2>6. Clocks'
    <3>1. handed' \in [Children -> SUBSET Data]
      BY <1>typ, <2>1, <2>5, <2>data DEF Clocks
    <3> QED
      BY <1>typ, <2>1, <2>data, <3>1, Written DEF Clocks
  <2>7. KnowInv'
    <3>1. /\ \A x \in Data \ {c} : /\ \A u \in Threads : x \in knows'[u] <=> x \in knows[u]
                                   /\ x \in doneSeen' <=> x \in doneSeen
                                   /\ \A d \in Children \ {c} : x \in handed'[d] <=> x \in handed[d]
          /\ handed'[c] = knows[t] \cup {c}
      <4>1. /\ handed'[c] = knows[t] \cup {c}
            /\ \A d \in Children \ {c} : handed'[d] = Stale({c})[d]
        BY <2>1, <2>5
      <4> QED
        BY <1>typ, <2>1, <2>data, <4>1, Written
    <3>2. \A u \in Threads : pc'[u] \in Reporting => cur'[u][1] \in knows'[u]
      BY <1>0, <1>typ, <2>1, <2>2, <3>1 DEF KnowInv, Reports, Inv, ThreadInv, Reporting
    <3>3. Counted' \subseteq doneSeen'
      BY <1>typ, <2>2, <2>3, <3>1 DEF KnowInv, Counted
    <3>4. Unwritten' => /\ \A u \in Threads : pc'[u] # "idle" => Storage \in knows'[u]
                        /\ \A k \in pool' : Storage \in handed'[k[1]]
      <4>1. Unwritten => Storage \in knows[t]
        BY <1>typ, <2>1 DEF KnowInv
      <4>2. \A k \in pool' : k[1] = c \/ (k \in pool /\ k[1] \in Children \ {c})
        BY <1>0, <2>1 DEF Inv, TypeOK
      <4>3. Unwritten => \A k \in pool' : Storage \in handed'[k[1]]
        BY <1>typ, <3>1, <4>1, <4>2 DEF KnowInv
      <4>4. Unwritten => \A u \in Threads : pc'[u] # "idle" => Storage \in knows'[u]
        BY <1>typ, <2>1, <3>1 DEF KnowInv
      <4> QED
        BY <2>4, <4>3, <4>4
    <3>5. ~Unwritten' => /\ continuation' \in Counted' => Storage \in doneSeen'
                         /\ \A u \in Threads : Reports(u, continuation)' => Storage \in knows'[u]
      BY <1>typ, <2>1, <2>2, <2>3, <2>4, <3>1 DEF KnowInv, Reports, Reporting
    <3>6. ResultVisible'
      BY <2>1, <2>2 DEF ResultVisible
    <3> QED
      BY <3>2, <3>3, <3>4, <3>5, <3>6 DEF KnowInv
  <2> QED
    BY <2>6, <2>7
<1>grow. ASSUME \A u \in Threads : knows[u] \subseteq knows'[u],
                UNCHANGED <<continuation, outcome, doneSeen>>,
                \A u \in Threads : \/ pc'[u] = pc[u] /\ cur'[u] = cur[u]
                                   \/ pc[u] \notin Reporting /\ pc'[u] \notin Reporting \cup {"complete"},
                Unwritten => /\ \A u \in Threads : pc'[u] # "idle" => Storage \in knows'[u]
                             /\ \A k \in pool' : Storage \in handed'[k[1]],
                knows' \in [Threads -> SUBSET Data]
         PROVE  KnowInv'
  <2>1. \A x \in Children, u \in Threads : Reports(u, x)' <=> Reports(u, x)
    BY <1>grow DEF Reports
  <2>2. Counted' = Counted
    BY <1>grow, <2>1 DEF Counted
  <2>3. Storing' <=> Storing
    BY <1>grow DEF Storing, Reporting
  <2>4. \A u \in Threads : Reports(u, continuation)' => Reports(u, continuation)
    BY <1>grow DEF Reports
  <2>5. ResultVisible'
    <3>1. \A u \in Threads : pc'[u] = "complete" => pc[u] = "complete"
      BY <1>grow DEF Reporting
    <3>2. \A u \in Threads : pc[u] = "complete" => knows[u] = Data
      BY <1>typ DEF KnowInv, ResultVisible
    <3>3. \A u \in Threads : knows[u] \subseteq knows'[u] /\ knows'[u] \subseteq Data
      BY <1>grow
    <3> QED
      BY <3>1, <3>2, <3>3 DEF ResultVisible, Data
  <2> QED
    BY <1>grow, <1>typ, <2>2, <2>3, <2>4, <2>5 DEF KnowInv, Unwritten
<1>3. ASSUME NEW k \in pool, ChildPickedUp(t, k) PROVE Clocks' /\ KnowInv'
  <2>1. /\ k \in Conts /\ k[1] \in Children
        /\ \A j \in pool \ {k} : j[1] \in Children /\ j[1] # k[1]
    BY <1>0 DEF Inv, TypeOK, PlaceInv, Holds
  <2>2. /\ Learn(t, handed[k[1]]) /\ handed' = [handed EXCEPT ![k[1]] = {}]
        /\ UNCHANGED <<continuation, outcome, idxSeen, doneSeen>> /\ pool' = pool \ {k}
        /\ \A u \in Threads \ {t} : pc'[u] = pc[u] /\ cur'[u] = cur[u]
        /\ pc[t] = "idle" /\ pc'[t] = "child"
    BY <1>3, <1>typ DEF ChildPickedUp, PickUp, shared, joint
  <2>3. handed[k[1]] \in SUBSET Data
    BY <1>typ, <2>1 DEF Clocks
  <2>4. /\ knows' \in [Threads -> SUBSET Data]
        /\ \A u \in Threads : knows[u] \subseteq knows'[u]
        /\ handed[k[1]] \subseteq knows'[t]
    BY <1>typ, <2>2, <2>3, Learnt
  <2>5. Clocks'
    BY <1>typ, <2>1, <2>2, <2>4 DEF Clocks
  <2>6. Unwritten => /\ \A u \in Threads : pc'[u] # "idle" => Storage \in knows'[u]
                     /\ \A j \in pool' : Storage \in handed'[j[1]]
    BY <1>typ, <2>1, <2>2, <2>4 DEF KnowInv, Clocks
  <2>7. KnowInv'
    BY <1>grow, <2>2, <2>4, <2>6 DEF Reporting
  <2> QED
    BY <2>5, <2>7
<1>4. CASE FetchIdx(t)
  <2>1. /\ Learn(t, idxSeen) /\ idxSeen' = idxSeen \cup knows[t]
        /\ UNCHANGED <<continuation, outcome, pool, doneSeen, handed>>
        /\ \A u \in Threads \ {t} : pc'[u] = pc[u] /\ cur'[u] = cur[u]
        /\ pc[t] = "y_fetch" /\ pc'[t] = "y_load"
    BY <1>4, <1>typ DEF FetchIdx, YieldFetch, joint
  <2>2. knows' \in [Threads -> SUBSET Data] /\ \A u \in Threads : knows[u] \subseteq knows'[u]
    BY <1>typ, <2>1, Learnt DEF Clocks
  <2>3. Clocks'
    BY <1>typ, <2>1, <2>2 DEF Clocks
  <2>4. Unwritten => /\ \A u \in Threads : pc'[u] # "idle" => Storage \in knows'[u]
                     /\ \A j \in pool' : Storage \in handed'[j[1]]
    BY <1>typ, <2>1, <2>2 DEF KnowInv
  <2>5. KnowInv'
    BY <1>grow, <2>1, <2>2, <2>4 DEF Reporting
  <2> QED
    BY <2>3, <2>5
<1>5. CASE FetchDone(t)
  <2> DEFINE c == cur[t][1]
  <2>1. /\ CountDone(t) /\ Learn(t, doneSeen) /\ doneSeen' = doneSeen \cup knows[t]
        /\ UNCHANGED <<continuation, outcome, pool, idxSeen, handed>>
        /\ \A u \in Threads \ {t} : pc'[u] = pc[u] /\ cur'[u] = cur[u]
        /\ pc[t] = "c_done" /\ pc'[t] \in {"complete", "y_fetch"}
        /\ pc'[t] = "complete" => done + 1 = N
    BY <1>5, <1>typ DEF FetchDone, CountDone, AfterCount, DonePublishes, sched
  <2>2. /\ Counted' = Counted \cup {c} /\ done + 1 = Cardinality(Counted')
        /\ Reports(t, c) /\ c \in Children
    BY <1>0, <1>typ, <2>1, OneMore DEF Reports, Reporting, Inv, ThreadInv
  <2>3. /\ knows' \in [Threads -> SUBSET Data]
        /\ \A u \in Threads : knows[u] \subseteq knows'[u]
        /\ doneSeen \subseteq knows'[t]
    BY <1>typ, <2>1, Learnt DEF Clocks
  <2>4. Clocks'
    BY <1>typ, <2>1, <2>3 DEF Clocks
  <2>5. c \in knows[t] /\ Counted' \subseteq doneSeen'
    BY <1>typ, <2>1, <2>2 DEF KnowInv, Reports
  <2>6. Storing' <=> Storing
    BY <2>1 DEF Storing
  <2>7. \A u \in Threads \ {t} : pc[u] # "complete"
    BY <1>0, <2>1, NotOver DEF Inv, EndInv, Reporting
  <2>8. ASSUME pc'[t] = "complete" PROVE knows'[t] = Data
    <3>1. Counted' = Children
      <4>1. Counted' \in SUBSET Children
        BY DEF Counted
      <4> QED
        BY <2>1, <2>2, <2>8, <4>1, CountedFinite, FS_Subset
    <3>2. Children \subseteq knows'[t]
      BY <1>typ, <2>2, <2>3, <2>5, <3>1 DEF KnowInv
    <3>3. Storage \in knows'[t]
      <4>1. CASE Unwritten
        BY <1>typ, <2>1, <2>3, <4>1 DEF KnowInv
      <4>2. CASE ~Unwritten
        <5>1. continuation \in Children
          BY <1>0, <4>2 DEF Unwritten, Inv, TypeOK
        <5>2. continuation \in Counted \/ continuation = c
          BY <2>2, <3>1, <5>1
        <5> QED
          BY <1>typ, <2>2, <2>3, <4>2, <5>2 DEF KnowInv
      <4> QED
        BY <4>1, <4>2
    <3> QED
      BY <2>3, <3>2, <3>3 DEF Data
  <2>9. KnowInv'
    <3>1. \A u \in Threads : pc'[u] \in Reporting => cur'[u][1] \in knows'[u]
      BY <1>typ, <2>1, <2>3 DEF KnowInv, Reporting
    <3>2. Unwritten' => /\ \A u \in Threads : pc'[u] # "idle" => Storage \in knows'[u]
                        /\ \A k \in pool' : Storage \in handed'[k[1]]
      BY <1>typ, <2>1, <2>3, <2>6 DEF KnowInv, Unwritten
    <3>3. ~Unwritten' => /\ continuation' \in Counted' => Storage \in doneSeen'
                         /\ \A u \in Threads : Reports(u, continuation)' => Storage \in knows'[u]
      BY <1>typ, <2>1, <2>2, <2>3, <2>6 DEF KnowInv, Unwritten, Reports, Reporting
    <3>4. ResultVisible'
      BY <2>1, <2>7, <2>8 DEF ResultVisible
    <3> QED
      BY <2>5, <3>1, <3>2, <3>3, <3>4 DEF KnowInv
  <2> QED
    BY <2>4, <2>9
<1>6. CASE ResultWritten(t)
  <2> DEFINE c == cur[t][1]
  <2>1. /\ StoreResult(t) /\ Write(t, {c, Storage}) /\ handed' = Stale({c, Storage})
        /\ UNCHANGED <<continuation, outcome, pool, cur>>
        /\ \A u \in Threads \ {t} : pc'[u] = pc[u]
        /\ pc[t] = "c_store" /\ pc'[t] = "c_done"
    BY <1>6, <1>typ DEF ResultWritten, StoreResult
  <2>2. /\ c \in Children /\ Reports(t, c) /\ continuation = c
        /\ \A u \in Threads \ {t} : ~Reports(u, c)
    BY <1>0, <1>typ, <2>1 DEF Reports, Reporting, Inv, ThreadInv, PlaceInv, DecideInv, Holds
  <2>3. c \notin Counted /\ Counted' = Counted
    <3>1. \A x \in Children, u \in Threads : Reports(u, x)' <=> Reports(u, x)
      BY <2>1 DEF Reports, Reporting
    <3> QED
      BY <2>1, <2>2, <3>1 DEF Counted
  <2>4. {c, Storage} \in SUBSET Data
    BY <1>typ, <2>2
  <2>5. /\ Clocks'
        /\ \A x \in Data \ {c, Storage} : /\ \A u \in Threads : x \in knows'[u] <=> x \in knows[u]
                                          /\ x \in doneSeen' <=> x \in doneSeen
        /\ c \in knows'[t] /\ Storage \in knows'[t]
    <3>1. Stale({c, Storage}) \in [Children -> SUBSET Data]
      BY <1>typ, <2>1, <2>4, Written
    <3>2. Clocks'
      BY <1>typ, <2>1, <2>4, <3>1, Written DEF Clocks
    <3> QED
      BY <1>typ, <2>1, <2>4, <3>2, Written
  <2>6. ~Unwritten'
    <3>1. \A u \in Threads \ {t} : pc[u] # "c_store"
      BY <1>0, <2>2 DEF Inv, DecideInv, Reports, Reporting
    <3> QED
      BY <2>1, <2>2, <3>1 DEF Unwritten, Storing
  <2>7. KnowInv'
    <3>1. \A u \in Threads : pc'[u] \in Reporting => cur'[u][1] \in knows'[u]
      BY <1>0, <1>typ, <2>1, <2>2, <2>5 DEF KnowInv, Reports, Inv, ThreadInv, Reporting
    <3>2. Counted' \subseteq doneSeen'
      BY <1>typ, <2>1, <2>3, <2>5 DEF KnowInv, Counted
    <3>3. continuation' \notin Counted' /\ \A u \in Threads : Reports(u, continuation)' => u = t
      BY <2>1, <2>2, <2>3 DEF Reports, Reporting
    <3>4. ResultVisible'
      BY <1>0, <2>1, NotOver DEF ResultVisible, Inv, EndInv, Reporting
    <3> QED
      BY <2>5, <2>6, <3>1, <3>2, <3>3, <3>4 DEF KnowInv
  <2> QED
    BY <2>5, <2>7
<1>7. CASE Relaxed(t)
  <2>0. UNCHANGED <<knows, idxSeen, doneSeen, handed>>
    BY <1>7 DEF Relaxed, order
  <2>1. Clocks'
    BY <1>typ, <2>0 DEF Clocks
  <2>2. CASE Decide(t)
    <3>1. /\ UNCHANGED <<outcome, pool, cur>>
          /\ \A u \in Threads \ {t} : pc'[u] = pc[u]
          /\ pc[t] = "c_cas"
          /\ \/ continuation = None /\ pc'[t] = "c_store"
             \/ continuation # None /\ pc'[t] = "c_done" /\ continuation' = continuation
      BY <1>typ, <2>2 DEF Decide, FirstToStop
    <3>2. Counted' = Counted
      <4>1. \A x \in Children, u \in Threads : Reports(u, x)' <=> Reports(u, x)
        BY <3>1 DEF Reports, Reporting
      <4> QED
        BY <3>1, <4>1 DEF Counted
    <3>3. Unwritten' <=> Unwritten
      BY <1>typ, <3>1 DEF Unwritten, Storing
    <3>4. ~Unwritten => continuation' = continuation
      BY <3>1 DEF Unwritten
    <3>5. \A u \in Threads : Reports(u, continuation)' /\ continuation' = continuation
                               => Reports(u, continuation)
      BY <3>1 DEF Reports, Reporting
    <3>6. ResultVisible'
      BY <1>typ, <2>0, <3>1 DEF KnowInv, ResultVisible
    <3> QED
      BY <1>typ, <2>0, <2>1, <3>1, <3>2, <3>3, <3>4, <3>5, <3>6 DEF KnowInv, Reporting
  <2>3. ASSUME UNCHANGED <<continuation, outcome, pool>>,
               \A u \in Threads \ {t} : pc'[u] = pc[u] /\ cur'[u] = cur[u],
               pc[t] \notin Reporting \cup {"idle"}, pc'[t] \notin Reporting \cup {"complete"}
        PROVE  KnowInv'
    <3>1. Unwritten => /\ \A u \in Threads : pc'[u] # "idle" => Storage \in knows'[u]
                       /\ \A j \in pool' : Storage \in handed'[j[1]]
      BY <1>typ, <2>0, <2>3 DEF KnowInv
    <3> QED
      BY <1>grow, <1>typ, <2>0, <2>3, <3>1 DEF Clocks
  <2>4. CASE StartOp(t)
    BY <1>typ, <2>1, <2>3, <2>4 DEF StartOp, joint, Reporting
  <2>5. CASE YieldFails(t) \/ YieldLoad(t) \/ YieldSwap(t) \/ YieldRetry(t)
    BY <1>typ, <2>1, <2>3, <2>5 DEF YieldFails, YieldLoad, YieldSwap, YieldRetry, shared,
                                      joint, Reporting
  <2>6. CASE CallWithDecision(t) \/ CallWithValues(t) \/ CallWithException(t)
    BY <1>typ, <2>1, <2>3, <2>6 DEF CallWithDecision, CallWithValues, CallWithException,
                                      CallParent, Reporting
  <2> QED
    BY <1>7, <2>1, <2>2, <2>4, <2>5, <2>6 DEF Relaxed
<1> QED
  BY <1>1, <1>2, <1>3, <1>4, <1>5, <1>6, <1>7 DEF OrderStep

\* Every step keeps the invariant.
LEMMA OrderNextInv ==
  ASSUME OrderInv, [OrderNext]_<<vars, order>>
  PROVE  OrderInv'
<1>1. Inv'
  BY StepOfWhen, NextInv DEF OrderInv
<1>2. ASSUME NEW t \in Threads, OrderStep(t) PROVE Clocks' /\ KnowInv'
  BY <1>2, OrderStepInv
<1>3. ASSUME UNCHANGED <<order, continuation, outcome, pc, cur, pool>>
      PROVE  Clocks' /\ KnowInv'
  BY <1>3 DEF order, OrderInv, Clocks, KnowInv, Unwritten, Storing, Counted, Reports,
              ResultVisible
<1>4. CASE (OuterStop \/ Terminating) /\ UNCHANGED order
  BY <1>1, <1>3, <1>4 DEF OrderInv, OuterStop, Terminating, vars, shared, joint
<1>5. CASE UNCHANGED <<vars, order>>
  BY <1>1, <1>3, <1>5 DEF OrderInv, vars, shared, joint
<1> QED
  BY <1>1, <1>2, <1>4, <1>5 DEF OrderNext, OrderInv

\* Every reachable state satisfies the inductive invariant.
THEOREM OrderInvariance == OrderSpec => []OrderInv
BY OrderInitInv, OrderNextInv, PTL DEF OrderSpec

\* What the threads and the atomics know are data of the operation.
THEOREM OrderTypeCorrect == OrderSpec => []OrderTypeOK
<1>1. OrderInv => OrderTypeOK
  BY DEF OrderInv, Inv, Clocks, OrderTypeOK
<1> QED
  BY <1>1, OrderInvariance, PTL

\* The release and acquire of _done (_when.hpp:131) are enough for the thread that calls the
\* continuation to see all results, although the decision is published by relaxed accesses.
THEOREM ResultsVisible == OrderSpec => []ResultVisible
<1>1. OrderInv => ResultVisible
  BY DEF OrderInv, KnowInv
<1> QED
  BY <1>1, OrderInvariance, PTL

\* What relaxed accesses leave unordered does not let a child run twice, nor the
\* continuation be called early: these need only the values of the atomics.
THEOREM OrderedOperation == OrderSpec => [](ChildInOnePlace /\ QuietWhenCalled)
BY OrderedIsWhen, OnePlace, CalledWhenQuiet, PTL
==============================================================================
