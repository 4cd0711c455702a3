--------------------------- MODULE WhenScanProofs ---------------------------
(***************************************************************************)
(* Proofs about the scans of _yield (module When), which share one index:  *)
(* no continuation is left behind in a slot, for which widths of the       *)
(* index, that a single thread can drop only the last child, and that a    *)
(* dropped child is all that can keep an operation from its end.           *)
(***************************************************************************)
EXTENDS WhenProofs

\* Where the k-th draw from the shared index looks.
DrawnSlot(k) == (k % IdxMod) % (N - 1)

\* As many draws in a row as one scan makes hit every slot, also across the wrap.
ScansSeeAll ==
  \A i \in 0 .. IdxMod - 1, s \in Slots : \E k \in 0 .. N - 1 : DrawnSlot(i + k) = s

Scanning == {"y_fetch", "y_load", "y_cas"}
Working(t) == pc[t] \in {"child", "complete"} \cup Reporting

\* The draws the scans under way have not made yet, one element for each.
Draws == {d \in Threads \X (0 .. N - 1) : pc[d[1]] \in Scanning /\ tries[d[1]] <= d[2]}

\* Thread t has drawn slot s, and will find there what is there now.
Looks(t, s) ==
  /\ slot[t] = s
  /\ pc[t] = "y_load" \/ (pc[t] = "y_cas" /\ expected[t] = queue[s])

\* Somebody will find the continuation in a slot: a thread that has drawn the slot, or that
\* will draw it if no scan ends early, or one that works and will scan later.
Found(s) ==
  \/ pool # {}
  \/ \E t \in Threads : Working(t)
  \/ \E t \in Threads : Looks(t, s)
  \/ \E k \in 0 .. Cardinality(Draws) - 1 : DrawnSlot(idx + k) = s
FoundInv == \A s \in Slots : queue[s] # None => Found(s)

ScanInv == IsFiniteSet(Draws) /\ FoundInv

\* A scan begins with all of its tries.
TriesInv == \A t \in Threads : pc[t] \notin Scanning => tries[t] = 0

------------------------------------------------------------------------------
(* Arithmetic *)

\* Division with remainder has one result.
LEMMA ModIs ==
  ASSUME NEW q \in Nat, NEW m \in Nat \ {0}, NEW r \in 0 .. m - 1
  PROVE  (q * m + r) % m = r
OBVIOUS

\* ... and one exists.
LEMMA DivMod ==
  ASSUME NEW a \in Nat, NEW m \in Nat \ {0}
  PROVE  \E q \in Nat, r \in 0 .. m - 1 : a = q * m + r /\ a % m = r
<1>1. a = (a \div m) * m + (a % m) /\ a \div m \in Nat /\ a % m \in 0 .. m - 1
  OBVIOUS
<1>. QED BY <1>1

\* A whole number of turns does not matter.
LEMMA ModAdd ==
  ASSUME NEW m \in Nat \ {0}, NEW j \in Nat
  PROVE  (m + j) % m = j % m
<1>1. PICK q \in Nat, r \in 0 .. m - 1 : j = q * m + r /\ j % m = r
  BY DivMod
<1>2. m + j = (q + 1) * m + r /\ q + 1 \in Nat
  BY <1>1
<1>3. ((q + 1) * m + r) % m = r
  BY <1>2, ModIs
<1>. QED BY <1>1, <1>2, <1>3

\* Numbers of turns.
LEMMA ProductNat == ASSUME NEW a \in Nat, NEW b \in Nat PROVE a * b \in Nat
OBVIOUS

\* The first draw after the index has advanced is the second one before.
LEMMA NextDraw ==
  ASSUME NEW i \in 0 .. IdxMod - 1, NEW j \in Nat
  PROVE  DrawnSlot(((i + 1) % IdxMod) + j) = DrawnSlot(i + (j + 1))
<1>1. IdxMod \in Nat \ {0}
  BY WhenAssumption
<1>2. CASE i + 1 < IdxMod
  <2>1. (i + 1) % IdxMod = i + 1
    BY <1>1, <1>2
  <2>2. i + 1 + j = i + (j + 1)
    OBVIOUS
  <2>. QED BY <2>1, <2>2
<1>3. CASE i + 1 = IdxMod
  <2>1. (i + 1) % IdxMod = 0
    BY <1>1, <1>3
  <2>2. i + (j + 1) = IdxMod + j /\ 0 + j = j
    BY <1>1, <1>3
  <2>3. (IdxMod + j) % IdxMod = j % IdxMod
    BY <1>1, ModAdd
  <2>. QED BY <2>1, <2>2, <2>3 DEF DrawnSlot
<1>. QED BY <1>1, <1>2, <1>3

\* The slot the next draw looks into.
LEMMA FirstDraw ==
  ASSUME NEW i \in 0 .. IdxMod - 1
  PROVE  DrawnSlot(i + 0) = i % (N - 1)
<1>1. IdxMod \in Nat \ {0} /\ i + 0 = i
  BY WhenAssumption
<1>2. i % IdxMod = i
  BY <1>1
<1>. QED BY <1>1, <1>2 DEF DrawnSlot

\* A scan sees all slots if the number of slots divides 2^w, or 2^w - 1: there is one
\* more try than there are slots, which makes up for one slot seen twice.
THEOREM WidthSuffices == IdxMod % (N - 1) \in {0, 1} => ScansSeeAll
<1> SUFFICES ASSUME IdxMod % (N - 1) \in {0, 1},
                    NEW i \in 0 .. IdxMod - 1, NEW s \in Slots
             PROVE  \E k \in 0 .. N - 1 : DrawnSlot(i + k) = s
  BY DEF ScansSeeAll
<1> DEFINE m == N - 1
           w == IdxMod
<1>1. m \in Nat \ {0} /\ w \in Nat \ {0} /\ w > m /\ s \in 0 .. m - 1 /\ N - 1 = m
      /\ i \in Nat /\ i < w
  BY WhenAssumption DEF Slots
<1>2. PICK q \in Nat, e \in 0 .. m - 1 : w = q * m + e /\ w % m = e
  BY <1>1, DivMod
<1>3. PICK p \in Nat, a \in 0 .. m - 1 : i = p * m + a /\ i % m = a
  BY <1>1, DivMod
<1>4. e \in {0, 1}
  BY <1>2
<1> DEFINE near == IF s >= a THEN s - a ELSE s - a + m
           turn == IF s >= a THEN p ELSE p + 1
<1>5. near \in 0 .. m - 1 /\ turn \in Nat /\ i + near = turn * m + s
  BY <1>1, <1>3
<1> HIDE DEF near, turn
<1>6. (i + near) % m = s
  BY <1>1, <1>5, ModIs
<1>7. CASE i + near < w
  <2>1. (i + near) % w = i + near
    BY <1>1, <1>5, <1>7
  <2>2. DrawnSlot(i + near) = s
    BY <1>6, <2>1 DEF DrawnSlot
  <2>. QED BY <1>1, <1>5, <2>2
<1>8. CASE ~(i + near < w)
  <2>1. turn * m + s >= q * m + e
    BY <1>1, <1>2, <1>5, <1>8
  <2>2. turn >= q
    <3>1. CASE turn < q
      <4>1. q >= turn + 1
        BY <1>5, <3>1
      <4>2. q * m >= (turn + 1) * m
        BY <1>1, <1>5, <4>1
      <4>3. (turn + 1) * m = turn * m + m
        BY <1>1, <1>5
      <4>. QED BY <1>1, <1>5, <2>1, <4>2, <4>3
    <3>. QED BY <1>5, <3>1
  <2>3. turn * m >= q * m
    BY <1>1, <1>5, <2>2
  <2> DEFINE far == w - i + s
  <2>4. far = near + e - (turn * m - q * m)
    <3>1. /\ turn * m \in Nat /\ q * m \in Nat
          /\ near \in Nat /\ e \in Nat /\ s \in Nat /\ i \in Nat /\ w \in Nat
      <4>1. turn * m \in Nat
        BY <1>1, <1>5
      <4>2. q * m \in Nat
        BY <1>1, <1>2, ProductNat
      <4>3. near \in Nat /\ e \in Nat /\ s \in Nat /\ i \in Nat /\ w \in Nat
        BY <1>1, <1>5
      <4>. QED BY <4>1, <4>2, <4>3
    <3> DEFINE tm == turn * m
               qm == q * m
    <3>2. i + near = tm + s /\ w = qm + e /\ tm \in Nat /\ qm \in Nat
      BY <1>2, <1>5, <3>1
    <3> HIDE DEF tm, qm
    <3>3. far = near + e - (tm - qm)
      BY <3>1, <3>2
    <3>. QED BY <3>3 DEF tm, qm
  <2>5. far \in 0 .. m
    BY <1>1, <1>4, <1>5, <2>3, <2>4
  <2>6. i + far = w + s
    BY <1>1
  <2>7. (w + s) % w = s
    <3>1. (w + s) % w = s % w
      BY <1>1, ModAdd
    <3>. QED BY <1>1, <3>1
  <2>8. DrawnSlot(i + far) = s
    <3>1. s % m = s
      BY <1>1
    <3>. QED BY <2>6, <2>7, <3>1 DEF DrawnSlot
  <2>. QED BY <1>1, <2>5, <2>8
<1>. QED BY <1>7, <1>8

\* Otherwise the scan that begins two draws before the wrap does not see the last slot.
THEOREM WidthNecessary == ScansSeeAll => IdxMod % (N - 1) \in {0, 1}
<1> SUFFICES ASSUME ScansSeeAll, IdxMod % (N - 1) \notin {0, 1} PROVE FALSE
  OBVIOUS
<1> DEFINE m == N - 1
           w == IdxMod
<1>1. m \in Nat \ {0} /\ w \in Nat \ {0} /\ w > m /\ N - 1 = m
  BY WhenAssumption
<1>2. PICK q \in Nat, e \in 0 .. m - 1 : w = q * m + e /\ w % m = e
  BY <1>1, DivMod
<1>3. e >= 2
  BY <1>2
<1>4. w - 2 \in 0 .. IdxMod - 1 /\ m - 1 \in Slots
  <2>1. w >= 2
    BY <1>1, <1>2, <1>3
  <2>2. m - 1 = N - 2 /\ N - 2 \in 0 .. N - 2
    BY WhenAssumption
  <2>. QED BY <1>1, <2>1, <2>2 DEF Slots
<1>5. PICK k \in 0 .. N - 1 : DrawnSlot(w - 2 + k) = m - 1
  BY <1>4 DEF ScansSeeAll
<1>6. CASE k \in {0, 1}
  <2>1. w - 2 + k \in 0 .. w - 1 /\ w - 2 + k = q * m + (e - 2 + k) /\ e - 2 + k \in 0 .. m - 2
    BY <1>1, <1>2, <1>3, <1>6
  <2>2. (w - 2 + k) % w = w - 2 + k
    BY <1>1, <2>1
  <2>3. (w - 2 + k) % m = e - 2 + k
    <3>1. e - 2 + k \in 0 .. m - 1
      BY <1>1, <2>1
    <3>2. (q * m + (e - 2 + k)) % m = e - 2 + k
      BY <1>1, <3>1, ModIs
    <3>. QED BY <2>1, <3>2
  <2>. QED BY <1>1, <1>5, <2>1, <2>2, <2>3 DEF DrawnSlot
<1>7. CASE k \notin {0, 1}
  <2>1. k - 2 \in 0 .. m - 2 /\ k - 2 \in 0 .. w - 1 /\ w - 2 + k = w + (k - 2)
    BY <1>1, <1>7
  <2>2. (w + (k - 2)) % w = (k - 2) % w
    <3>1. k - 2 \in Nat
      BY <1>1, <2>1
    <3>. QED BY <1>1, <3>1, ModAdd
  <2>3. (k - 2) % w = k - 2 /\ (k - 2) % m = k - 2
    BY <1>1, <2>1
  <2>. QED BY <1>1, <1>5, <2>1, <2>2, <2>3 DEF DrawnSlot
<1>. QED BY <1>6, <1>7

------------------------------------------------------------------------------
(* The draws that are left *)

\* No thread begins a scan: there are not more draws.
LEMMA FewerDraws ==
  ASSUME IsFiniteSet(Draws), Draws' \subseteq Draws
  PROVE  IsFiniteSet(Draws')
BY FS_Subset

\* A thread that begins a scan has all of its draws left.
LEMMA NewScan ==
  ASSUME IsFiniteSet(Draws), NEW t \in Threads, pc'[t] = "y_fetch", tries'[t] = 0,
         \A u \in Threads \ {t} : pc'[u] = pc[u] /\ tries'[u] = tries[u]
  PROVE  /\ IsFiniteSet(Draws')
         /\ Cardinality(Draws') \in Nat
         /\ Cardinality(Draws') >= N
<1> DEFINE own == {t} \X (0 .. N - 1)
<1>1. N \in Nat \ {0} /\ 0 \in Int /\ N - 1 \in Int
  BY WhenAssumption
<1>2. IsFiniteSet(own) /\ Cardinality(own) = N
  <2>1. IsFiniteSet({t}) /\ Cardinality({t}) = 1
    BY FS_Singleton
  <2>2. IsFiniteSet(0 .. N - 1) /\ Cardinality(0 .. N - 1) = N
    BY <1>1, FS_Interval
  <2>3. IsFiniteSet(own) /\ Cardinality(own) = Cardinality({t}) * Cardinality(0 .. N - 1)
    BY <2>1, <2>2, FS_Product
  <2>. QED BY <1>1, <2>1, <2>2, <2>3
<1>3. own \subseteq Draws' /\ Draws' \subseteq Draws \cup own
  BY <1>1 DEF Draws, Scanning
<1>4. IsFiniteSet(Draws')
  <2>1. IsFiniteSet(Draws \cup own)
    BY <1>2, FS_Union
  <2>. QED BY <1>3, <2>1, FS_Subset
<1> HIDE DEF own
<1>5. Cardinality(own) <= Cardinality(Draws') /\ Cardinality(Draws') \in Nat
  BY <1>3, <1>4, FS_Subset, FS_CardinalityType
<1>. QED BY <1>1, <1>2, <1>4, <1>5

\* A draw is one less that is left.
LEMMA OneDrawLess ==
  ASSUME Inv, IsFiniteSet(Draws), NEW t \in Threads, YieldFetch(t)
  PROVE  /\ IsFiniteSet(Draws')
         /\ Cardinality(Draws) \in Nat
         /\ Cardinality(Draws') = Cardinality(Draws) - 1
<1> DEFINE this == <<t, tries[t]>>
<1>1. /\ pc[t] = "y_fetch" /\ tries[t] \in 0 .. N - 1 /\ N \in Nat
      /\ tries' = [tries EXCEPT ![t] = @ + 1] /\ pc' = [pc EXCEPT ![t] = "y_load"]
      /\ tries \in [Threads -> 0 .. N] /\ pc \in [Threads -> Pcs]
  BY WhenAssumption DEF YieldFetch, Inv, TypeOK
<1>2. this \in Draws
  BY <1>1 DEF Draws, Scanning
<1>3. ASSUME NEW d \in Threads \X (0 .. N - 1) PROVE d \in Draws' <=> d \in Draws \ {this}
  <2>1. CASE d[1] = t
    <3>1. d = <<t, d[2]>> /\ d[2] \in 0 .. N - 1
      BY <2>1
    <3>2. d \in Draws <=> tries[t] <= d[2]
      BY <1>1, <2>1 DEF Draws, Scanning
    <3>3. d \in Draws' <=> tries[t] + 1 <= d[2]
      BY <1>1, <2>1 DEF Draws, Scanning
    <3>4. d = this <=> d[2] = tries[t]
      BY <3>1
    <3>. QED BY <1>1, <3>1, <3>2, <3>3, <3>4
  <2>2. CASE d[1] # t
    BY <1>1, <2>2 DEF Draws
  <2>. QED BY <2>1, <2>2
<1>4. Draws' = Draws \ {this}
  <2>1. Draws' \subseteq Threads \X (0 .. N - 1) /\ Draws \subseteq Threads \X (0 .. N - 1)
    BY DEF Draws
  <2>. QED BY <1>3, <2>1
<1> HIDE DEF this
<1>. QED BY <1>2, <1>4, FS_RemoveElement, FS_CardinalityType

------------------------------------------------------------------------------
(* The scans *)

\* A thread that works afterwards will scan, or complete the operation.
LEMMA WorksOn ==
  ASSUME ScanInv, NEW t \in Threads, pc'[t] \in {"child", "complete"} \cup Reporting,
         \A u \in Threads \ {t} : pc'[u] = pc[u] /\ tries'[u] = tries[u]
  PROVE  ScanInv'
<1>1. Draws' \subseteq Draws
  BY DEF Draws, Scanning, Reporting
<1>2. FoundInv'
  BY DEF FoundInv, Found, Working
<1>. QED BY <1>1, <1>2, FewerDraws DEF ScanInv

\* A scan that begins has enough draws for all slots, if others only draw as well.
LEMMA ScansAll ==
  ASSUME ScansSeeAll, Inv, ScanInv, NEW t \in Threads, pc'[t] = "y_fetch", tries'[t] = 0,
         \A u \in Threads \ {t} : pc'[u] = pc[u] /\ tries'[u] = tries[u],
         idx' = idx
  PROVE  ScanInv'
<1>1. /\ IsFiniteSet(Draws') /\ Cardinality(Draws') \in Nat /\ Cardinality(Draws') >= N
  BY NewScan DEF ScanInv
<1>2. idx \in 0 .. IdxMod - 1 /\ N \in Nat
  BY WhenAssumption DEF Inv, TypeOK
<1>3. ASSUME NEW s \in Slots PROVE Found(s)'
  <2>1. PICK k \in 0 .. N - 1 : DrawnSlot(idx + k) = s
    BY <1>2 DEF ScansSeeAll
  <2>2. k \in 0 .. Cardinality(Draws') - 1
    BY <1>1, <1>2
  <2>. QED BY <2>1, <2>2 DEF Found, DrawnSlot
<1>. QED BY <1>1, <1>3 DEF ScanInv, FoundInv

\* What a thread draws it will look at.
LEMMA FetchKeeps ==
  ASSUME Inv, ScanInv, NEW t \in Threads, YieldFetch(t)
  PROVE  ScanInv'
<1>1. /\ IsFiniteSet(Draws') /\ Cardinality(Draws) \in Nat
      /\ Cardinality(Draws') = Cardinality(Draws) - 1
  BY OneDrawLess DEF ScanInv
<1>2. /\ pc[t] = "y_fetch" /\ pc' = [pc EXCEPT ![t] = "y_load"]
      /\ slot' = [slot EXCEPT ![t] = idx % (N - 1)]
      /\ idx' = (idx + 1) % IdxMod
      /\ UNCHANGED <<queue, pool, expected>>
      /\ pc \in [Threads -> Pcs] /\ slot \in [Threads -> Slots] /\ idx \in 0 .. IdxMod - 1
  BY DEF YieldFetch, SlotOf, Inv, TypeOK
<1>3. ASSUME NEW s \in Slots, queue[s] # None PROVE Found(s)'
  <2>1. Found(s)
    BY <1>3 DEF ScanInv, FoundInv
  <2>2. CASE pool # {}
    BY <1>2, <2>2 DEF Found
  <2>3. CASE \E u \in Threads : Working(u)
    <3>1. PICK u \in Threads : Working(u)
      BY <2>3
    <3>2. pc'[u] = pc[u]
      BY <1>2, <3>1 DEF Working, Reporting
    <3>. QED BY <3>1, <3>2 DEF Found, Working
  <2>4. CASE \E u \in Threads : Looks(u, s)
    <3>1. PICK u \in Threads : Looks(u, s)
      BY <2>4
    <3>2. u # t
      BY <1>2, <3>1 DEF Looks
    <3>3. Looks(u, s)'
      BY <1>2, <3>1, <3>2 DEF Looks
    <3>. QED BY <3>3 DEF Found
  <2>5. CASE \E k \in 0 .. Cardinality(Draws) - 1 : DrawnSlot(idx + k) = s
    <3>1. PICK k \in 0 .. Cardinality(Draws) - 1 : DrawnSlot(idx + k) = s
      BY <2>5
    <3>2. CASE k = 0
      <4>1. idx % (N - 1) = s
        BY <1>2, <3>1, <3>2, FirstDraw
      <4>2. Looks(t, s)'
        BY <1>2, <4>1 DEF Looks
      <4>. QED BY <4>2 DEF Found
    <3>3. CASE k # 0
      <4>1. k - 1 \in 0 .. Cardinality(Draws') - 1 /\ k - 1 \in Nat /\ k - 1 + 1 = k
        BY <1>1, <3>1, <3>3
      <4>2. DrawnSlot(((idx + 1) % IdxMod) + (k - 1)) = DrawnSlot(idx + (k - 1 + 1))
        BY <1>2, <4>1, NextDraw
      <4>3. DrawnSlot(idx + k)' = DrawnSlot(idx' + k')
        BY DEF DrawnSlot
      <4>4. DrawnSlot(idx' + (k - 1)) = s
        BY <1>2, <3>1, <4>1, <4>2
      <4>. QED BY <4>1, <4>4 DEF Found, DrawnSlot
    <3>. QED BY <3>2, <3>3
  <2>. QED BY <2>1, <2>2, <2>3, <2>4, <2>5 DEF Found
<1>. QED BY <1>1, <1>2, <1>3 DEF ScanInv, FoundInv

\* A look that is not a swap: other threads find what they would have found, and this one
\* found nothing, or what is still there, or something that has changed hands since.
LEMMA LookKeeps ==
  ASSUME Inv, ScanInv, NEW t \in Threads, YieldFails(t) \/ YieldLoad(t) \/ YieldRetry(t)
  PROVE  ScanInv'
<1>1. /\ pc[t] \in Scanning
      /\ \A u \in Threads \ {t} : /\ pc'[u] = pc[u] /\ tries'[u] = tries[u]
                                  /\ slot'[u] = slot[u] /\ expected'[u] = expected[u]
      /\ UNCHANGED <<queue, idx, pool>>
      /\ pc' \in [Threads -> Pcs] /\ tries \in [Threads -> 0 .. N]
  BY DEF YieldFails, YieldLoad, YieldRetry, Scanning, Inv, TypeOK, shared, sched, Pcs
<1>2. Draws' = Draws
  <2>1. CASE YieldFails(t)
    <3>1. tries[t] = N /\ pc'[t] = "idle" /\ N \in Nat
      BY <2>1, WhenAssumption DEF YieldFails, Inv, TypeOK
    <3>2. \A d \in Threads \X (0 .. N - 1) : d[1] = t => d \notin Draws /\ d \notin Draws'
      BY <3>1 DEF Draws, Scanning
    <3>. QED BY <1>1, <3>2 DEF Draws
  <2>2. CASE YieldLoad(t) \/ YieldRetry(t)
    <3>1. tries' = tries /\ pc'[t] \in Scanning
      BY <2>2 DEF YieldLoad, YieldRetry, Inv, TypeOK, Scanning
    <3>. QED BY <1>1, <3>1 DEF Draws
  <2>. QED BY <2>1, <2>2
<1>3. ASSUME NEW s \in Slots, queue[s] # None, Looks(t, s) PROVE Looks(t, s)'
  <2>1. CASE YieldFails(t)
    BY <1>3, <2>1 DEF YieldFails, Looks
  <2>2. CASE YieldLoad(t)
    BY <1>3, <2>2 DEF YieldLoad, Looks, Inv, TypeOK, shared, sched
  <2>3. CASE YieldRetry(t)
    BY <1>3, <2>3 DEF YieldRetry, Looks, SwapSucceeds
  <2>. QED BY <2>1, <2>2, <2>3
<1>4. ASSUME NEW s \in Slots, queue[s] # None PROVE Found(s)'
  <2>1. Found(s)
    BY <1>4 DEF ScanInv, FoundInv
  <2>2. CASE \E u \in Threads : Working(u)
    BY <1>1, <2>2 DEF Found, Working, Scanning, Reporting
  <2>3. CASE \E u \in Threads : Looks(u, s)
    <3>1. PICK u \in Threads : Looks(u, s)
      BY <2>3
    <3>2. Looks(u, s)'
      BY <1>1, <1>3, <1>4, <3>1 DEF Looks
    <3>. QED BY <3>2 DEF Found
  <2>4. CASE pool # {} \/ \E k \in 0 .. Cardinality(Draws) - 1 : DrawnSlot(idx + k) = s
    BY <1>1, <1>2, <2>4 DEF Found, DrawnSlot
  <2>. QED BY <2>1, <2>2, <2>3, <2>4 DEF Found
<1>. QED BY <1>1, <1>2, <1>4 DEF ScanInv, FoundInv

\* Every way into and out of _yield resets the tries.
LEMMA TriesStep ==
  ASSUME Inv, TriesInv, [Next]_vars
  PROVE  TriesInv'
<1> USE DEF TriesInv, Scanning, Inv, TypeOK, yvars
<1>1. ASSUME NEW t \in Threads, Work(t) PROVE TriesInv'
  <2>1. CASE StartOp(t) \/ Decide(t) \/ StoreResult(t) \/ CountDone(t)
    BY <2>1 DEF StartOp, Decide, StoreResult, CountDone
  <2>2. CASE CallWithDecision(t) \/ CallWithValues(t) \/ CallWithException(t)
    BY <2>2 DEF CallWithDecision, CallWithValues, CallWithException, CallParent
  <2>3. CASE YieldFails(t) \/ YieldSwap(t)
    BY <2>3 DEF YieldFails, YieldSwap
  <2>4. CASE YieldFetch(t) \/ YieldLoad(t) \/ YieldRetry(t)
    BY <2>4 DEF YieldFetch, YieldLoad, YieldRetry
  <2>. QED BY <1>1, <2>1, <2>2, <2>3, <2>4 DEF Work
<1>2. ASSUME NEW t \in Threads, ChildWork(t) PROVE TriesInv'
  <2>1. ASSUME NEW c \in Children, NEW s \in 1 .. Sites,
               Yield(t, c, s) \/ HandOff(t, c, s) \/ HandOffOnly(t, c, s)
        PROVE  TriesInv'
    BY <2>1 DEF Yield, HandOff, HandOffOnly, GiveAway, InOwnCode, EnterYield, Runs
  <2>2. ASSUME NEW c \in Children, NextRound(t, c) \/ \E o \in Outcomes : Complete(t, c, o)
        PROVE  TriesInv'
    BY <2>2 DEF NextRound, Complete, Runs
  <2>3. ASSUME NEW k \in pool, PickUp(t, k) PROVE TriesInv'
    BY <2>3 DEF PickUp
  <2>. QED BY <1>2, <2>1, <2>2, <2>3 DEF ChildWork
<1>3. CASE OuterStop \/ UNCHANGED vars
  BY <1>3 DEF OuterStop, vars
<1>. QED BY <1>1, <1>2, <1>3 DEF Next, Terminating

\* Every step keeps the invariant: whoever stops working begins a scan, gives its child to
\* another scheduler, or completes the operation, when no child is left.
LEMMA ScanStep ==
  ASSUME ScansSeeAll, Inv, ScanInv, TriesInv, [Next]_vars
  PROVE  ScanInv'
<1>1. ASSUME NEW t \in Threads, StartOp(t) \/ YieldSwap(t) \/ Decide(t) \/ StoreResult(t)
      PROVE  ScanInv'
  <2>1. /\ pc'[t] \in {"child", "complete"} \cup Reporting
        /\ \A u \in Threads \ {t} : pc'[u] = pc[u] /\ tries'[u] = tries[u]
    BY <1>1 DEF StartOp, YieldSwap, Decide, StoreResult, yvars, Reporting, Inv, TypeOK
  <2>. QED BY <2>1, WorksOn
<1>2. ASSUME NEW t \in Threads, CountDone(t) PROVE ScanInv'
  <2>1. /\ \A u \in Threads \ {t} : pc'[u] = pc[u] /\ tries'[u] = tries[u]
        /\ idx' = idx /\ tries' = tries
        /\ pc'[t] = AfterCount
    BY <1>2 DEF CountDone, sched, yvars, Inv, TypeOK
  <2>2. CASE pc'[t] = "complete"
    BY <2>1, <2>2, WorksOn
  <2>3. CASE pc'[t] # "complete"
    <3>1. pc'[t] = "y_fetch" /\ tries[t] = 0
      BY <1>2, <2>1, <2>3 DEF AfterCount, CountDone, TriesInv, Scanning
    <3>. QED BY <2>1, <3>1, ScansAll
  <2>. QED BY <2>2, <2>3
<1>3. ASSUME NEW t \in Threads, CallWithDecision(t) \/ CallWithValues(t) \/ CallWithException(t)
      PROVE  ScanInv'
  <2>1. /\ pc[t] = "complete" /\ pc' = [pc EXCEPT ![t] = "idle"]
        /\ UNCHANGED <<queue, tries>> /\ pc \in [Threads -> Pcs]
    BY <1>3 DEF CallWithDecision, CallWithValues, CallWithException, CallParent, sched, yvars,
               Inv, TypeOK
  <2>2. \A s \in Slots : queue[s] = None
    <3>1. \A c \in Children : outcome[c] # None
      BY <2>1, AllDone DEF Inv, EndInv
    <3>. QED BY <3>1, ContFacts DEF Inv, TypeOK, OutcomeInv, Holds
  <2>3. Draws' \subseteq Draws
    BY <2>1 DEF Draws, Scanning
  <2>. QED BY <2>1, <2>2, <2>3, FewerDraws DEF ScanInv, FoundInv
<1>4. ASSUME NEW t \in Threads, NEW c \in Children, NEW s \in 1 .. Sites, Yield(t, c, s)
      PROVE  ScanInv'
  <2>1. /\ pc'[t] = "y_fetch" /\ tries'[t] = 0 /\ idx' = idx
        /\ \A u \in Threads \ {t} : pc'[u] = pc[u] /\ tries'[u] = tries[u]
    BY <1>4 DEF Yield, EnterYield, shared, sched, Inv, TypeOK
  <2>. QED BY <2>1, ScansAll
<1>5. ASSUME NEW t \in Threads, NEW c \in Children, NEW s \in 1 .. Sites,
             HandOff(t, c, s) \/ HandOffOnly(t, c, s)
      PROVE  ScanInv'
  <2>1. /\ pool' # {}
        /\ \A u \in Threads \ {t} : pc'[u] = pc[u] /\ tries'[u] = tries[u]
        /\ (pc'[t] = "y_fetch" /\ tries'[t] = 0) \/ pc'[t] = "idle"
    BY <1>5 DEF HandOff, HandOffOnly, GiveAway, EnterYield, yvars, Inv, TypeOK
  <2>2. IsFiniteSet(Draws')
    <3>1. CASE pc'[t] = "idle"
      <4>1. Draws' \subseteq Draws
        BY <2>1, <3>1 DEF Draws, Scanning
      <4>. QED BY <4>1, FewerDraws DEF ScanInv
    <3>. QED BY <2>1, <3>1, NewScan DEF ScanInv
  <2>. QED BY <2>1, <2>2 DEF ScanInv, FoundInv, Found
<1>6. ASSUME NEW t \in Threads,
             \/ \E k \in pool : PickUp(t, k)
             \/ \E c \in Children : NextRound(t, c) \/ \E o \in Outcomes : Complete(t, c, o)
      PROVE  ScanInv'
  <2>1. /\ pc'[t] \in {"child", "complete"} \cup Reporting
        /\ \A u \in Threads \ {t} : pc'[u] = pc[u] /\ tries'[u] = tries[u]
    BY <1>6 DEF PickUp, Complete, NextRound, Runs, yvars, Reporting, Inv, TypeOK
  <2>. QED BY <2>1, WorksOn
<1>7. CASE OuterStop \/ UNCHANGED vars
  <2>1. UNCHANGED <<queue, idx, pool, pc, tries, slot, expected>>
    BY <1>7 DEF OuterStop, vars, shared, sched, yvars
  <2>2. Draws' = Draws
    BY <2>1 DEF Draws
  <2>. QED BY <2>1, <2>2 DEF ScanInv, FoundInv, Found, Looks, Working, DrawnSlot
<1>8. ASSUME NEW t \in Threads, Work(t) PROVE ScanInv'
  BY <1>1, <1>2, <1>3, <1>8, FetchKeeps, LookKeeps DEF Work
<1>9. ASSUME NEW t \in Threads, ChildWork(t) PROVE ScanInv'
  BY <1>4, <1>5, <1>6, <1>9 DEF ChildWork
<1>. QED BY <1>7, <1>8, <1>9 DEF Next, Terminating

\* In the beginning nobody scans, and nothing is in a slot.
LEMMA ScanInit == Init => ScanInv /\ TriesInv
<1> SUFFICES ASSUME Init PROVE ScanInv /\ TriesInv
  OBVIOUS
<1>1. Draws = {}
  BY DEF Init, Draws, Scanning
<1>. QED BY <1>1, FS_EmptySet DEF Init, ScanInv, FoundInv, TriesInv

\* When nobody scans, works or holds a continuation, nothing has been left to be found.
LEMMA NobodyLeft == Inv /\ ScanInv => NoChildStranded
<1> SUFFICES ASSUME Inv, ScanInv, \A t \in Threads : pc[t] = "idle", pool = {},
                    NEW s \in Slots, queue[s] # None
             PROVE  FALSE
  BY DEF NoChildStranded, AtRest
<1>1. Draws = {}
  BY DEF Draws, Scanning
<1>2. Cardinality(Draws) = 0
  BY <1>1, FS_EmptySet
<1>3. Found(s)
  BY DEF ScanInv, FoundInv
<1>. QED BY <1>2, <1>3 DEF Found, Working, Reporting, Looks

\* Scans that share one index and draw from it in any order leave no continuation in a slot,
\* for any number of children, threads, yields and hand-offs, provided that N draws in a row
\* hit every slot.  WidthSuffices and WidthNecessary say when they do.
THEOREM NobodyStranded ==
  ASSUME ScansSeeAll
  PROVE  Spec => []NoChildStranded
<1>1. Inv /\ ScanInv /\ TriesInv /\ [Next]_vars => ScanInv' /\ TriesInv'
  BY ScanStep, TriesStep
<1>. QED BY <1>1, ScanInit, NobodyLeft, Invariance, PTL DEF Spec

------------------------------------------------------------------------------
(***************************************************************************)
(* Children that yield, on one thread.  NoneLost is about operations       *)
(* without yields; with them _yield may drop a child (run when_lost).  If  *)
(* the children stay on the thread that starts the operation, the siblings *)
(* a child yields to are in the queue, where its scan finds them, unless   *)
(* they have all completed.                                                *)
(***************************************************************************)

\* All siblings of c have completed.
LastOf(c) == \A d \in Children \ {c} : outcome[d] # None

AloneInv ==
  /\ pool = {}
  /\ \A t \in Threads : t # Main => pc[t] = "idle"
  /\ pc[Main] # "start" => \A c \in Children : outcome[c] = None => Placed(c) \/ LastOf(c)

\* A scan of the only thread fails only when it keeps no child, or the last one.
LEMMA FailsForLast ==
  ASSUME Inv, ScanInv, AloneInv, YieldFails(Main),
         NEW c \in Children, Holds(cur[Main], c)
  PROVE  LastOf(c)
<1> SUFFICES ASSUME NEW d \in Children \ {c}, outcome[d] = None PROVE FALSE
  BY DEF LastOf
<1>1. /\ Main \in Threads /\ pc[Main] = "y_fetch" /\ tries[Main] = N /\ N \in Nat
  BY WhenAssumption DEF YieldFails
<1>2. outcome[c] = None
  BY <1>1 DEF Inv, OutcomeInv, Reporting
<1>3. PICK s \in Slots : Holds(queue[s], d)
  <2>1. Placed(d)
    BY <1>1, <1>2 DEF AloneInv, LastOf
  <2>2. \A t \in Threads : t # Main => cur[t] = None
    BY DEF AloneInv, Inv, ThreadInv
  <2>3. ~Holds(cur[Main], d)
    BY DEF Holds
  <2>. QED BY <2>1, <2>2, <2>3 DEF Placed, AloneInv, Holds
<1>4. Found(s)
  BY <1>3 DEF ScanInv, FoundInv, Holds
<1>5. Draws = {}
  <2>1. \A x \in Threads \X (0 .. N - 1) : x \notin Draws
    <3>1. \A x \in Threads \X (0 .. N - 1) : x[1] # Main => pc[x[1]] = "idle"
      BY DEF AloneInv
    <3>. QED BY <1>1, <3>1 DEF Draws, Scanning
  <2>. QED BY <2>1 DEF Draws
<1>6. Cardinality(Draws) = 0
  BY <1>5, FS_EmptySet
<1>. QED BY <1>1, <1>4, <1>6 DEF Found, Working, Reporting, Looks, AloneInv

\* On one thread every step keeps a child that has not completed somewhere, but the last.
LEMMA AloneStep ==
  ASSUME MaxHandOffs = 0, Inv, ScanInv, AloneInv, [Next]_vars
  PROVE  AloneInv'
<1> USE WhenAssumption, ContFacts
<1>1. ASSUME NEW t \in Threads, t # Main PROVE ~Work(t) /\ ~ChildWork(t)
  <2>1. pc[t] = "idle" /\ pool = {}
    BY <1>1 DEF AloneInv
  <2>. QED BY <2>1 DEF Work, ChildWork, StartOp, YieldFails, YieldFetch, YieldLoad, YieldSwap,
         YieldRetry, Decide, StoreResult, CountDone, CallWithDecision, CallWithValues,
         CallWithException, CallParent, NextRound, Yield, HandOff, HandOffOnly, GiveAway,
         InOwnCode, Runs, Complete, PickUp
\* Steps of the only thread that keep what they find, and complete but one child.
<1>2. ASSUME pc[Main] # "start", UNCHANGED pool,
             \A t \in Threads : t # Main => pc'[t] = pc[t],
             \A c \in Children : outcome'[c] = None => outcome[c] = None,
             \A c \in Children : outcome'[c] = None /\ Placed(c) => Placed(c)' \/ LastOf(c)'
      PROVE  AloneInv'
  <2>1. \A c \in Children : LastOf(c) => LastOf(c)'
    BY <1>2 DEF LastOf
  <2>. QED BY <1>2, <2>1 DEF AloneInv
\* Steps that move no continuation.
<1>3. ASSUME pc[Main] # "start", UNCHANGED <<queue, pool, cur>>,
             \A t \in Threads : t # Main => pc'[t] = pc[t],
             \A c \in Children : outcome'[c] = None => outcome[c] = None
      PROVE  AloneInv'
  <2>1. \A c \in Children : Placed(c)' <=> Placed(c)
    BY <1>3 DEF Placed
  <2>. QED BY <1>2, <1>3, <2>1
<1>4. CASE StartOp(Main)
  <2>1. \A s \in Slots : Holds(queue'[s], s + 1)
    BY <1>4, StartFacts, SlotFacts DEF StartOp, InitialQueue, Holds
  <2>2. Holds(cur'[Main], 0)
    BY <1>4, StartFacts, SlotFacts DEF StartOp, Inv, TypeOK, Holds
  <2>3. \A c \in Children : c # 0 => c - 1 \in Slots /\ c = (c - 1) + 1
    BY DEF Children, Slots
  <2>4. \A c \in Children : Placed(c)'
    BY <2>1, <2>2, <2>3 DEF Placed
  <2>. QED BY <1>4, <2>4 DEF StartOp, AloneInv, Inv, TypeOK
<1>5. CASE YieldFails(Main)
  <2>1. /\ \A u \in Threads \ {Main} : cur'[u] = cur[u] /\ pc'[u] = pc[u]
        /\ UNCHANGED <<queue, pool, outcome>> /\ pc[Main] # "start"
    BY <1>5 DEF YieldFails, shared, sched, Inv, TypeOK
  <2>2. \A c \in Children : Holds(cur[Main], c) => LastOf(c)'
    BY <1>5, <2>1, FailsForLast DEF LastOf
  <2>3. \A c \in Children : Placed(c) => Placed(c)' \/ LastOf(c)'
    BY <2>1, <2>2 DEF Placed
  <2>. QED BY <1>2, <2>1, <2>3
<1>6. CASE YieldFetch(Main) \/ YieldLoad(Main) \/ YieldRetry(Main)
  <2>1. /\ pc[Main] # "start" /\ \A t \in Threads : t # Main => pc'[t] = pc[t]
        /\ UNCHANGED <<queue, pool, cur, outcome>>
    BY <1>6 DEF YieldFetch, YieldLoad, YieldRetry, shared, sched, Inv, TypeOK
  <2>. QED BY <1>3, <2>1
<1>7. CASE YieldSwap(Main)
  <2>1. /\ slot[Main] \in Slots
        /\ cur'[Main] = queue[slot[Main]]
        /\ queue'[slot[Main]] = cur[Main]
        /\ \A s \in Slots \ {slot[Main]} : queue'[s] = queue[s]
        /\ \A u \in Threads \ {Main} : cur'[u] = cur[u] /\ pc'[u] = pc[u]
        /\ pc[Main] # "start"
        /\ UNCHANGED <<pool, outcome>>
    BY <1>7 DEF YieldSwap, SwapSucceeds, Swapped, Inv, TypeOK
  <2>2. \A c \in Children : Placed(c) => Placed(c)'
    BY <2>1 DEF Placed, Holds
  <2>. QED BY <1>2, <2>1, <2>2
<1>8. CASE Decide(Main) \/ StoreResult(Main)
  <2>1. /\ pc[Main] # "start" /\ \A t \in Threads : t # Main => pc'[t] = pc[t]
        /\ UNCHANGED <<queue, pool, cur, outcome>>
    BY <1>8 DEF Decide, StoreResult, sched, Inv, TypeOK
  <2>. QED BY <1>3, <2>1
<1>9. CASE CountDone(Main)
  <2>1. /\ \A c \in Children : Holds(cur[Main], c) => outcome[c] # None
        /\ \A u \in Threads \ {Main} : cur'[u] = cur[u] /\ pc'[u] = pc[u]
        /\ pc[Main] # "start"
        /\ UNCHANGED <<queue, pool, outcome>>
    BY <1>9 DEF CountDone, sched, Inv, TypeOK, OutcomeInv, Reporting
  <2>2. \A c \in Children : outcome[c] = None /\ Placed(c) => Placed(c)'
    BY <2>1 DEF Placed
  <2>. QED BY <1>2, <2>1, <2>2
<1>10. CASE CallWithDecision(Main) \/ CallWithValues(Main) \/ CallWithException(Main)
  <2>1. /\ pc[Main] # "start" /\ \A t \in Threads : t # Main => pc'[t] = pc[t]
        /\ UNCHANGED <<queue, pool, cur, outcome>>
    BY <1>10 DEF CallWithDecision, CallWithValues, CallWithException, CallParent, sched,
                Inv, TypeOK
  <2>. QED BY <1>3, <2>1
<1>11. ASSUME NEW c \in Children, NEW s \in 1 .. Sites, Yield(Main, c, s) PROVE AloneInv'
  <2>1. /\ \A x \in Children : Holds(cur[Main], x) => x = c
        /\ Holds(cur'[Main], c)
        /\ \A u \in Threads \ {Main} : cur'[u] = cur[u] /\ pc'[u] = pc[u]
        /\ pc[Main] # "start"
        /\ UNCHANGED <<queue, pool, outcome>>
    BY <1>11 DEF Yield, InOwnCode, Runs, EnterYield, shared, sched, Inv, TypeOK, Holds
  <2>2. \A x \in Children : Placed(x) => Placed(x)'
    BY <2>1 DEF Placed
  <2>. QED BY <1>2, <2>1, <2>2
<1>12. ASSUME NEW c \in Children, NEW s \in 1 .. Sites PROVE ~GiveAway(Main, c, s)
  BY DEF GiveAway, Inv, TypeOK
<1>13. ASSUME NEW c \in Children,
              NextRound(Main, c) \/ \E o \in Outcomes : Complete(Main, c, o)
       PROVE  AloneInv'
  <2>1. /\ pc[Main] # "start" /\ \A t \in Threads : t # Main => pc'[t] = pc[t]
        /\ \A x \in Children : outcome'[x] = None => outcome[x] = None
        /\ UNCHANGED <<queue, pool, cur>>
    BY <1>13 DEF NextRound, Complete, Runs, shared, sched, Inv, TypeOK
  <2>. QED BY <1>3, <2>1
<1>14. CASE OuterStop \/ UNCHANGED vars
  <2>1. UNCHANGED <<queue, pool, cur, pc, outcome>>
    BY <1>14 DEF OuterStop, vars, shared, sched
  <2>. QED BY <2>1 DEF AloneInv, Placed, LastOf
<1>15. CASE Work(Main)
  BY <1>4, <1>5, <1>6, <1>7, <1>8, <1>9, <1>10, <1>15 DEF Work
<1>16. CASE ChildWork(Main)
  BY <1>11, <1>12, <1>13, <1>16 DEF ChildWork, HandOff, HandOffOnly, PickUp
<1>. QED BY <1>1, <1>14, <1>15, <1>16 DEF Next, Terminating

\* An operation whose children stay on the thread that starts them (no hand-offs), and
\* yield there as often as they like, also alone, drops no child before all of its siblings
\* have completed, if N draws hit every slot (lines 145-169).  That it may drop the last
\* one is the defect run when_lost shows.
THEOREM OnlyLastLost ==
  ASSUME ScansSeeAll, MaxHandOffs = 0
  PROVE  Spec => []OnlyLastChildLost
<1>1. Init => AloneInv
  BY WhenAssumption DEF Init, AloneInv
<1>2. /\ Inv /\ ScanInv /\ TriesInv /\ [Next]_vars => ScanInv' /\ TriesInv'
      /\ Inv /\ ScanInv /\ AloneInv /\ [Next]_vars => AloneInv'
  BY ScanStep, TriesStep, AloneStep
<1>3. AloneInv => OnlyLastChildLost
  BY DEF AloneInv, LastOf, Placed, OnlyLastChildLost, Lost, InQueue, InPool, OnThreads, Holds
<1>. QED BY <1>1, <1>2, <1>3, ScanInit, Invariance, PTL DEF Spec

------------------------------------------------------------------------------
(* Nothing is left undone *)

\* The thread that counts last is on its way to the continuation, or has called it.
LastInv == done = N /\ calls = 0 => \E t \in Threads : pc[t] = "complete"

\* Only the call of the continuation takes the last thread away.
LEMMA LastStep ==
  ASSUME Inv, LastInv, [Next]_vars
  PROVE  LastInv'
<1>1. ASSUME NEW t \in Threads,
             \A u \in Threads \ {t} : pc'[u] = pc[u],
             pc[t] # "complete", UNCHANGED <<done, calls>>
      PROVE  LastInv'
  BY <1>1 DEF LastInv
<1>2. ASSUME NEW t \in Threads, Work(t) PROVE LastInv'
  <2> USE DEF shared, joint, Inv, TypeOK
  <2>1. CASE StartOp(t) \/ Decide(t) \/ StoreResult(t)
    BY <1>1, <2>1 DEF StartOp, Decide, StoreResult
  <2>2. CASE YieldFails(t) \/ YieldSwap(t)
    BY <1>1, <2>2 DEF YieldFails, YieldSwap
  <2>3. CASE YieldFetch(t) \/ YieldLoad(t) \/ YieldRetry(t)
    BY <1>1, <2>3 DEF YieldFetch, YieldLoad, YieldRetry
  <2>4. CASE CountDone(t)
    <3>1. done' = N => pc'[t] = "complete"
      BY <2>4 DEF CountDone, AfterCount
    <3>. QED BY <3>1 DEF LastInv
  <2>5. CASE CallWithDecision(t) \/ CallWithValues(t) \/ CallWithException(t)
    BY <2>5 DEF CallWithDecision, CallWithValues, CallWithException, CallParent, LastInv
  <2>. QED BY <1>2, <2>1, <2>2, <2>3, <2>4, <2>5 DEF Work
<1>3. ASSUME NEW t \in Threads, ChildWork(t) PROVE LastInv'
  <2> USE DEF shared, joint, Inv, TypeOK
  <2>1. ASSUME NEW c \in Children, NEW s \in 1 .. Sites,
               Yield(t, c, s) \/ HandOff(t, c, s) \/ HandOffOnly(t, c, s)
        PROVE  LastInv'
    BY <1>1, <2>1 DEF Yield, HandOff, HandOffOnly, GiveAway, InOwnCode, EnterYield, Runs
  <2>2. ASSUME NEW c \in Children, NextRound(t, c) \/ \E o \in Outcomes : Complete(t, c, o)
        PROVE  LastInv'
    BY <1>1, <2>2 DEF NextRound, Complete, Runs
  <2>3. ASSUME NEW k \in pool, PickUp(t, k) PROVE LastInv'
    BY <1>1, <2>3 DEF PickUp
  <2>. QED BY <1>3, <2>1, <2>2, <2>3 DEF ChildWork
<1>4. CASE OuterStop \/ UNCHANGED vars
  BY <1>4 DEF OuterStop, vars, shared, joint, LastInv
<1>. QED BY <1>2, <1>3, <1>4 DEF Next, Terminating

\* With none left in a slot, an operation at rest that has lost no child has counted them all.
LEMMA RestOrLost == Inv /\ ScanInv /\ LastInv => RestsOnlyWhenLost
<1> SUFFICES ASSUME Inv, ScanInv, LastInv, AtRest, \A c \in Children : ~Lost(c)
             PROVE  calls = 1
  BY DEF RestsOnlyWhenLost
<1>1. pc[Main] # "start" /\ pool = {} /\ \A t \in Threads : pc[t] = "idle"
  BY DEF AtRest
<1>2. \A s \in Slots : queue[s] = None
  BY NobodyLeft DEF NoChildStranded
<1>3. \A t \in Threads : cur[t] = None
  BY <1>1 DEF Inv, ThreadInv
<1>4. \A c \in Children : outcome[c] # None
  BY <1>1, <1>2, <1>3 DEF Lost, InQueue, InPool, OnThreads
<1>5. Counted = Children
  BY <1>1, <1>4 DEF Counted, Reports, Reporting
<1>6. done = N
  BY <1>5, CountedFinite DEF Inv, CountInv
<1>. QED BY <1>1, <1>6 DEF LastInv, Inv, TypeOK

\* Whatever yields, hand-offs, scans, decisions and counts overlap on whatever threads, an
\* operation comes to rest without having called its continuation only if _yield has dropped
\* one of its children (run when_lost), provided that N draws hit every slot.
THEOREM RestsExplained ==
  ASSUME ScansSeeAll
  PROVE  Spec => []RestsOnlyWhenLost
<1>1. Init => LastInv
  BY WhenAssumption DEF Init, LastInv
<1>2. /\ Inv /\ ScanInv /\ TriesInv /\ [Next]_vars => ScanInv' /\ TriesInv'
      /\ Inv /\ LastInv /\ [Next]_vars => LastInv'
  BY ScanStep, TriesStep, LastStep
<1>. QED BY <1>1, <1>2, RestOrLost, ScanInit, Invariance, PTL DEF Spec

\* An operation none of whose children yields or repeats has called its continuation
\* whenever it is at rest, if N draws hit every slot: hand-offs alone drop no child.
THEOREM RestDelivered ==
  ASSUME ScansSeeAll, MaxYields = 0, Repeats = {}
  PROVE  Spec => []DeliveredAtRest
<1>1. RestsOnlyWhenLost /\ NoChildLost => DeliveredAtRest
  BY DEF RestsOnlyWhenLost, NoChildLost, DeliveredAtRest, AtRest
<1>2. (Spec => []RestsOnlyWhenLost) /\ (Spec => []NoChildLost)
  BY RestsExplained, NoneLost
<1>. QED BY <1>1, <1>2, PTL
=============================================================================
