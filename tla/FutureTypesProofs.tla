------------------------- MODULE FutureTypesProofs --------------------------
(***************************************************************************)
(* What FutureTypes computes, for any pipeline and any sizes of its        *)
(* arguments: which signatures each future declares and what its           *)
(* storage_spec provides for.                                              *)
(*                                                                         *)
(* Lists of signatures are built by folds, and the types of a pipeline by  *)
(* recursion.  Both are chosen functions that satisfy an equation, so each *)
(* first has to be shown to exist; what it computes then follows by        *)
(* induction, from the least element of the set of counterexamples.        *)
(***************************************************************************)
EXTENDS FutureTypes, SequenceTheorems, WellFoundedInduction, TLAPS

(* A set of natural numbers has a smallest element. *)
LEMMA NatLeast ==
  ASSUME NEW T, T \subseteq Nat, T # {}
  PROVE  \E m \in T : \A k \in T : m <= k
<1> DEFINE Less == OpToRel(<, Nat)
<1>1. ASSUME NEW k \in Nat, NEW m \in Nat, k < m
      PROVE  <<k, m>> \in Less
  BY <1>1 DEF OpToRel
<1>2. IsWellFoundedOn(Less, Nat)
  BY NatLessThanWellFounded
<1> HIDE DEF Less
<1>3. PICK m \in T : \A k \in T : ~(<<k, m>> \in Less)
  BY <1>2, WFMin
<1>4. ASSUME NEW k \in T PROVE m <= k
  <2>1. k \in Nat /\ m \in Nat
    OBVIOUS
  <2>2. ~(k < m)
    BY <1>1, <1>3, <2>1
  <2>. QED BY <2>1, <2>2
<1>. QED BY <1>4

(* Induction over the natural numbers, for a set. *)
LEMMA SetInduction ==
  ASSUME NEW T, 0 \in T, \A n \in Nat : n \in T => n + 1 \in T
  PROVE  Nat \subseteq T
<1> SUFFICES ASSUME NEW x \in Nat, x \notin T PROVE FALSE
  OBVIOUS
<1> DEFINE Rest == {k \in Nat : k \notin T}
<1>1. PICK m \in Rest : \A k \in Rest : m <= k
  BY NatLeast
<1>2. m # 0
  OBVIOUS
<1>3. m - 1 \in Nat /\ m - 1 \notin Rest
  BY <1>1, <1>2
<1>4. m - 1 + 1 = m
  BY <1>2
<1>. QED BY <1>3, <1>4

(* Max is the greatest element of a set of numbers up to n. *)
LEMMA MaxOfSome ==
  ASSUME NEW n \in Nat, NEW S \in SUBSET (1 .. n), S # {}
  PROVE  Max(S) \in S /\ \A k \in S : Max(S) >= k
<1> DEFINE T == {n - k : k \in S}
<1>1. PICK m \in T : \A k \in T : m <= k
  <2>1. \A k \in S : n - k \in Nat
    OBVIOUS
  <2>2. T \subseteq Nat
    BY <2>1
  <2>3. T # {}
    OBVIOUS
  <2>. QED BY <2>2, <2>3, NatLeast
<1>2. PICK j \in S : m = n - j
  OBVIOUS
<1>3. \A k \in S : j >= k
  BY <1>1, <1>2
<1>. QED BY <1>3 DEF Max

\* ... and n + 1 if that is one of numbers up to n + 1.
LEMMA MaxOfAll ==
  ASSUME NEW n \in Nat, NEW S \in SUBSET (1 .. n + 1), n + 1 \in S
  PROVE  Max(S) = n + 1
<1>1. Max(S) \in S /\ \A k \in S : Max(S) >= k
  BY n + 1 \in Nat, MaxOfSome
<1>2. Max(S) >= n + 1 /\ Max(S) \in 1 .. n + 1
  BY <1>1
<1> HIDE DEF Max
<1>. QED BY <1>2

(***************************************************************************)
(* The recursive function of MapThenFoldSet, which FoldLeft is made of,    *)
(* exists, for a step given as a function F.                               *)
(***************************************************************************)
Iterates(iter, F, base, s, n) ==
  \A T \in SUBSET (1 .. n) :
    iter[T] = IF T = {} THEN base ELSE F[<<iter[T \ {Max(T)}], s[Max(T)]>>]

\* There is one for every length: the one for k + 1 continues the one for k.
LEMMA FoldExists ==
  ASSUME NEW A, NEW B, NEW F \in [A \X B -> A], NEW base \in A,
         NEW n \in Nat, NEW s \in [1 .. n -> B]
  PROVE  \E iter \in [SUBSET (1 .. n) -> A] : Iterates(iter, F, base, s, n)
<1> DEFINE Exists(k) == \E iter \in [SUBSET (1 .. k) -> A] : Iterates(iter, F, base, s, k)
           Good == {k \in Nat : k <= n => Exists(k)}
<1>1. Exists(0)
  <2> DEFINE it == [T \in SUBSET (1 .. 0) |-> base]
  <2>1. SUBSET (1 .. 0) = {{}}
    OBVIOUS
  <2>2. it \in [SUBSET (1 .. 0) -> A] /\ Iterates(it, F, base, s, 0)
    BY <2>1 DEF Iterates
  <2>. QED BY <2>2
<1>2. ASSUME NEW k \in Nat, k + 1 <= n, Exists(k) PROVE Exists(k + 1)
  <2>1. PICK h \in [SUBSET (1 .. k) -> A] : Iterates(h, F, base, s, k)
    BY <1>2
  <2> DEFINE it == [T \in SUBSET (1 .. k + 1) |->
                      IF k + 1 \in T THEN F[<<h[T \ {k + 1}], s[k + 1]>>] ELSE h[T]]
  <2>2. ASSUME NEW T \in SUBSET (1 .. k + 1)
        PROVE  /\ it[T] \in A
               /\ it[T] = IF T = {} THEN base ELSE F[<<it[T \ {Max(T)}], s[Max(T)]>>]
    <3>1. CASE k + 1 \in T
      <4>1. Max(T) = k + 1
        BY <3>1, MaxOfAll
      <4>2. T \ {k + 1} \in SUBSET (1 .. k)
        OBVIOUS
      <4>3. T \ {k + 1} \in SUBSET (1 .. k + 1) /\ k + 1 \notin T \ {k + 1}
        OBVIOUS
      <4>4. it[T] = F[<<h[T \ {k + 1}], s[k + 1]>>]
        BY <3>1
      <4>5. it[T \ {k + 1}] = h[T \ {k + 1}]
        BY <4>3
      <4>6. h[T \ {k + 1}] \in A /\ s[k + 1] \in B
        BY <4>2, <1>2
      <4>. QED BY <3>1, <4>1, <4>4, <4>5, <4>6
    <3>2. CASE k + 1 \notin T
      <4>1. T \in SUBSET (1 .. k)
        BY <3>2
      <4>2. it[T] = h[T]
        BY <3>2
      <4>3. it[T \ {Max(T)}] = h[T \ {Max(T)}]
        BY <3>2
      <4>4. h[T] = IF T = {} THEN base ELSE F[<<h[T \ {Max(T)}], s[Max(T)]>>]
        BY <2>1, <4>1 DEF Iterates
      <4>5. h[T] \in A
        BY <4>1
      <4>. QED BY <4>2, <4>3, <4>4, <4>5
    <3>. QED BY <3>1, <3>2
  <2>3. it \in [SUBSET (1 .. k + 1) -> A] /\ Iterates(it, F, base, s, k + 1)
    <3> HIDE DEF it
    <3>1. it = [T \in SUBSET (1 .. k + 1) |-> it[T]]
      BY DEF it
    <3>. QED BY <2>2, <3>1 DEF Iterates
  <2>. QED BY <2>3
<1> HIDE DEF Exists
<1>3. 0 \in Good
  BY <1>1
<1>4. \A k \in Nat : k \in Good => k + 1 \in Good
  BY <1>2
<1> HIDE DEF Good
<1>5. n \in Good
  BY <1>3, <1>4, SetInduction
<1>6. Exists(n)
  BY <1>5 DEF Good
<1>. QED BY <1>6 DEF Exists

(* Induction up to n. *)
LEMMA UpTo ==
  ASSUME NEW n \in Nat, NEW T, 0 \in T, \A k \in 0 .. n - 1 : k \in T => k + 1 \in T
  PROVE  0 .. n \subseteq T
<1> DEFINE U == {k \in Nat : k <= n => k \in T}
<1>1. 0 \in U
  OBVIOUS
<1>2. \A k \in Nat : k \in U => k + 1 \in U
  OBVIOUS
<1> HIDE DEF U
<1>3. Nat \subseteq U
  BY <1>1, <1>2, SetInduction
<1>. QED BY <1>3 DEF U

\* mp_unique pushes one signature after the other: FoldLeft chooses a function, and
\* because there is one it has the results of all prefixes.
LEMMA UniqueSteps ==
  ASSUME NEW sigs \in Seq(Sigs)
  PROVE  \E g : /\ g[0] = <<>>
                /\ \A k \in 1 .. Len(sigs) : g[k] = PushBack(g[k - 1], sigs[k])
                /\ Unique(sigs) = g[Len(sigs)]
<1> DEFINE n == Len(sigs)
           A == Seq(Sigs)
           F == [p \in A \X Sigs |-> PushBack(p[1], p[2])]
           Eq(it) == it = [T \in SUBSET (1 .. n) |->
                             IF T = {} THEN <<>>
                             ELSE PushBack(it[T \ {Max(T)}], sigs[Max(T)])]
           chosen == CHOOSE it : Eq(it)
<1>1. n \in Nat /\ sigs \in [1 .. n -> Sigs] /\ DOMAIN sigs = 1 .. n
  OBVIOUS
<1>2. ASSUME NEW a \in A, NEW x \in Sigs PROVE (PushBack(a, x)) \in A
  BY DEF PushBack
<1>3. F \in [A \X Sigs -> A] /\ <<>> \in A
  BY <1>2
<1>4. PICK it \in [SUBSET (1 .. n) -> A] : Iterates(it, F, <<>>, sigs, n)
  <2> HIDE DEF F, n, A
  <2>. QED BY <1>1, <1>3, FoldExists
<1>5. Eq(it)
  <2>1. ASSUME NEW T \in SUBSET (1 .. n), T # {}
        PROVE  it[T] = PushBack(it[T \ {Max(T)}], sigs[Max(T)])
    <3>1. Max(T) \in 1 .. n
      BY <1>1, <2>1, MaxOfSome
    <3>2. it[T \ {Max(T)}] \in A /\ sigs[Max(T)] \in Sigs
      BY <1>1, <1>4, <3>1
    <3>. QED BY <1>4, <2>1, <3>2 DEF Iterates
  <2>2. it[{}] = <<>>
    BY <1>4 DEF Iterates
  <2>. QED BY <1>4, <2>1, <2>2
<1>6. Eq(chosen)
  <2> HIDE DEF Eq
  <2>. QED BY <1>5
<1>7. Unique(sigs) = chosen[1 .. n]
  BY <1>1 DEF Unique, FoldLeft, MapThenFoldSet
<1> HIDE DEF chosen
<1> DEFINE g == [k \in 0 .. n |-> chosen[1 .. k]]
<1>8. g[0] = <<>>
  <2>1. 1 .. 0 = {} /\ 1 .. 0 \in SUBSET (1 .. n)
    OBVIOUS
  <2>. QED BY <1>6, <2>1, <1>1
<1>9. ASSUME NEW k \in 1 .. n PROVE g[k] = PushBack(g[k - 1], sigs[k])
  <2>1. Max(1 .. k) = k
    <3>1. PICK j \in Nat : k = j + 1
      BY <1>1
    <3>2. Max(1 .. j + 1) = j + 1
      BY MaxOfAll
    <3>. QED BY <3>1, <3>2
  <2>2. (1 .. k) \ {k} = 1 .. k - 1 /\ 1 .. k \in SUBSET (1 .. n) /\ 1 .. k # {}
    BY <1>1
  <2>3. chosen[1 .. k] = PushBack(chosen[1 .. k - 1], sigs[k])
    BY <1>6, <2>1, <2>2
  <2>4. k \in 0 .. n /\ k - 1 \in 0 .. n
    BY <1>1
  <2> HIDE DEF n
  <2>5. g[k] = chosen[1 .. k]
    BY <2>4
  <2>6. g[k - 1] = chosen[1 .. k - 1]
    BY <2>4
  <2> HIDE DEF g
  <2>. QED BY <2>3, <2>5, <2>6
<1>10. Unique(sigs) = g[n]
  BY <1>1, <1>7
<1> HIDE DEF g
<1>. QED BY <1>8, <1>9, <1>10

\* mp_remove_if looks at one signature after the other.
LEMMA WithoutTagSteps ==
  ASSUME NEW sigs \in Seq(Sigs), NEW tag
  PROVE  \E g : /\ g[0] = <<>>
                /\ \A k \in 1 .. Len(sigs) :
                     g[k] = IF Tag(sigs[k]) = tag THEN g[k - 1] ELSE Append(g[k - 1], sigs[k])
                /\ WithoutTag(sigs, tag) = g[Len(sigs)]
<1> DEFINE n == Len(sigs)
           A == Seq(Sigs)
           F == [p \in A \X Sigs |-> IF Tag(p[2]) = tag THEN p[1] ELSE Append(p[1], p[2])]
           Eq(it) == it = [T \in SUBSET (1 .. n) |->
                             IF T = {} THEN <<>>
                             ELSE IF Tag(sigs[Max(T)]) = tag THEN it[T \ {Max(T)}]
                             ELSE Append(it[T \ {Max(T)}], sigs[Max(T)])]
           chosen == CHOOSE it : Eq(it)
<1>1. n \in Nat /\ sigs \in [1 .. n -> Sigs] /\ DOMAIN sigs = 1 .. n
  OBVIOUS
<1>2. ASSUME NEW a \in A, NEW x \in Sigs PROVE (IF Tag(x) = tag THEN a ELSE Append(a, x)) \in A
  OBVIOUS
<1>3. F \in [A \X Sigs -> A] /\ <<>> \in A
  BY <1>2
<1>4. PICK it \in [SUBSET (1 .. n) -> A] : Iterates(it, F, <<>>, sigs, n)
  <2> HIDE DEF F, n, A
  <2>. QED BY <1>1, <1>3, FoldExists
<1>5. Eq(it)
  <2>1. ASSUME NEW T \in SUBSET (1 .. n), T # {}
        PROVE  it[T] = IF Tag(sigs[Max(T)]) = tag THEN it[T \ {Max(T)}]
                       ELSE Append(it[T \ {Max(T)}], sigs[Max(T)])
    <3>1. Max(T) \in 1 .. n
      BY <1>1, <2>1, MaxOfSome
    <3>2. it[T \ {Max(T)}] \in A /\ sigs[Max(T)] \in Sigs
      BY <1>1, <1>4, <3>1
    <3>. QED BY <1>4, <2>1, <3>2 DEF Iterates
  <2>2. it[{}] = <<>>
    BY <1>4 DEF Iterates
  <2>. QED BY <1>4, <2>1, <2>2
<1>6. Eq(chosen)
  <2> HIDE DEF Eq
  <2>. QED BY <1>5
<1>7. WithoutTag(sigs, tag) = chosen[1 .. n]
  BY <1>1 DEF WithoutTag, FoldLeft, MapThenFoldSet
<1> HIDE DEF chosen
<1> DEFINE g == [k \in 0 .. n |-> chosen[1 .. k]]
<1>8. g[0] = <<>>
  <2>1. 1 .. 0 = {} /\ 1 .. 0 \in SUBSET (1 .. n)
    OBVIOUS
  <2>. QED BY <1>6, <2>1, <1>1
<1>9. ASSUME NEW k \in 1 .. n
      PROVE  g[k] = IF Tag(sigs[k]) = tag THEN g[k - 1] ELSE Append(g[k - 1], sigs[k])
  <2>1. Max(1 .. k) = k
    <3>1. PICK j \in Nat : k = j + 1
      BY <1>1
    <3>2. Max(1 .. j + 1) = j + 1
      BY MaxOfAll
    <3>. QED BY <3>1, <3>2
  <2>2. (1 .. k) \ {k} = 1 .. k - 1 /\ 1 .. k \in SUBSET (1 .. n) /\ 1 .. k # {}
    BY <1>1
  <2>3. chosen[1 .. k] = IF Tag(sigs[k]) = tag THEN chosen[1 .. k - 1]
                         ELSE Append(chosen[1 .. k - 1], sigs[k])
    BY <1>6, <2>1, <2>2
  <2>4. k \in 0 .. n /\ k - 1 \in 0 .. n
    BY <1>1
  <2> HIDE DEF n
  <2>5. g[k] = chosen[1 .. k]
    BY <2>4
  <2>6. g[k - 1] = chosen[1 .. k - 1]
    BY <2>4
  <2> HIDE DEF g
  <2>. QED BY <2>3, <2>5, <2>6
<1>10. WithoutTag(sigs, tag) = g[n]
  BY <1>1, <1>7
<1> HIDE DEF g
<1>. QED BY <1>8, <1>9, <1>10

\* exy::max looks at one argument after the other, and compares each with the first.
LEMMA MaxOfSteps ==
  ASSUME NEW ts \in Seq(Specs), NEW h \in Specs
  PROVE  \E g : /\ g[0] = h
                /\ \A k \in 1 .. Len(ts) : g[k] = IF AtLeast(ts[k], h) THEN ts[k] ELSE g[k - 1]
                /\ MaxOf(h, ts) = g[Len(ts)]
<1> DEFINE n == Len(ts)
           A == Specs
           F == [p \in A \X Specs |-> IF AtLeast(p[2], h) THEN p[2] ELSE p[1]]
           Eq(it) == it = [T \in SUBSET (1 .. n) |->
                             IF T = {} THEN h
                             ELSE IF AtLeast(ts[Max(T)], h) THEN ts[Max(T)] ELSE it[T \ {Max(T)}]]
           chosen == CHOOSE it : Eq(it)
<1>1. n \in Nat /\ ts \in [1 .. n -> Specs] /\ DOMAIN ts = 1 .. n
  OBVIOUS
<1>2. ASSUME NEW a \in A, NEW x \in Specs PROVE (IF AtLeast(x, h) THEN x ELSE a) \in A
  OBVIOUS
<1>3. F \in [A \X Specs -> A] /\ h \in A
  BY <1>2
<1>4. PICK it \in [SUBSET (1 .. n) -> A] : Iterates(it, F, h, ts, n)
  <2> HIDE DEF F, n, A
  <2>. QED BY <1>1, <1>3, FoldExists
<1>5. Eq(it)
  <2>1. ASSUME NEW T \in SUBSET (1 .. n), T # {}
        PROVE  it[T] = IF AtLeast(ts[Max(T)], h) THEN ts[Max(T)] ELSE it[T \ {Max(T)}]
    <3>1. Max(T) \in 1 .. n
      BY <1>1, <2>1, MaxOfSome
    <3>2. it[T \ {Max(T)}] \in A /\ ts[Max(T)] \in Specs
      BY <1>1, <1>4, <3>1
    <3>. QED BY <1>4, <2>1, <3>2 DEF Iterates
  <2>2. it[{}] = h
    BY <1>4 DEF Iterates
  <2>. QED BY <1>4, <2>1, <2>2
<1>6. Eq(chosen)
  <2> HIDE DEF Eq
  <2>. QED BY <1>5
<1>7. MaxOf(h, ts) = chosen[1 .. n]
  BY <1>1 DEF MaxOf, FoldLeft, MapThenFoldSet
<1> HIDE DEF chosen
<1> DEFINE g == [k \in 0 .. n |-> chosen[1 .. k]]
<1>8. g[0] = h
  <2>1. 1 .. 0 = {} /\ 1 .. 0 \in SUBSET (1 .. n)
    OBVIOUS
  <2>. QED BY <1>6, <2>1, <1>1
<1>9. ASSUME NEW k \in 1 .. n PROVE g[k] = IF AtLeast(ts[k], h) THEN ts[k] ELSE g[k - 1]
  <2>1. Max(1 .. k) = k
    <3>1. PICK j \in Nat : k = j + 1
      BY <1>1
    <3>2. Max(1 .. j + 1) = j + 1
      BY MaxOfAll
    <3>. QED BY <3>1, <3>2
  <2>2. (1 .. k) \ {k} = 1 .. k - 1 /\ 1 .. k \in SUBSET (1 .. n) /\ 1 .. k # {}
    BY <1>1
  <2>3. chosen[1 .. k] = IF AtLeast(ts[k], h) THEN ts[k] ELSE chosen[1 .. k - 1]
    BY <1>6, <2>1, <2>2
  <2>4. k \in 0 .. n /\ k - 1 \in 0 .. n
    BY <1>1
  <2> HIDE DEF n
  <2>5. g[k] = chosen[1 .. k]
    BY <2>4
  <2>6. g[k - 1] = chosen[1 .. k - 1]
    BY <2>4
  <2> HIDE DEF g
  <2>. QED BY <2>3, <2>5, <2>6
<1>10. MaxOf(h, ts) = g[n]
  BY <1>1, <1>7
<1> HIDE DEF g
<1>. QED BY <1>8, <1>9, <1>10

------------------------------------------------------------------------------
(* Lists of signatures *)

\* Nothing is in the empty list.
LEMMA EmptyToSet == ToSet(<<>>) = {}
BY DEF ToSet

\* Append adds one element.
LEMMA AppendToSet ==
  ASSUME NEW S, NEW sigs \in Seq(S), NEW s \in S
  PROVE  /\ Append(sigs, s) \in Seq(S)
         /\ ToSet(Append(sigs, s)) = ToSet(sigs) \cup {s}
<1> DEFINE longer == Append(sigs, s)
<1>1. /\ longer \in Seq(S)
      /\ DOMAIN longer = DOMAIN sigs \cup {Len(sigs) + 1}
      /\ \A i \in DOMAIN sigs : longer[i] = sigs[i]
      /\ longer[Len(sigs) + 1] = s
  OBVIOUS
<1> HIDE DEF longer
<1>2. ToSet(longer) = ToSet(sigs) \cup {s}
  BY <1>1 DEF ToSet
<1>. QED BY <1>1, <1>2 DEF longer

\* A concatenation has the elements of both lists.
LEMMA ConcatToSet ==
  ASSUME NEW S, NEW s \in Seq(S), NEW t \in Seq(S)
  PROVE  /\ s \o t \in Seq(S)
         /\ ToSet(s \o t) = ToSet(s) \cup ToSet(t)
<1>1. s \o t \in Seq(S) /\ Range(s \o t) = Range(s) \cup Range(t)
  BY RangeConcatenation
<1>. QED BY <1>1 DEF ToSet, Range

\* mp_set_push_back: a list of signatures with one more in it, or the same.
LEMMA PushBackType ==
  ASSUME NEW sigs \in Seq(Sigs), NEW s \in Sigs
  PROVE  /\ PushBack(sigs, s) \in Seq(Sigs)
         /\ ToSet(PushBack(sigs, s)) = ToSet(sigs) \cup {s}
<1>1. CASE Contains(sigs, s)
  BY <1>1 DEF PushBack, ToSet, Contains
<1>2. CASE ~Contains(sigs, s)
  <2>1. PushBack(sigs, s) = Append(sigs, s)
    BY <1>2 DEF PushBack
  <2>. QED BY <2>1, AppendToSet
<1>. QED BY <1>1, <1>2

\* mp_unique loses no signature and makes none up.
LEMMA UniqueType ==
  ASSUME NEW sigs \in Seq(Sigs)
  PROVE  /\ Unique(sigs) \in Seq(Sigs)
         /\ ToSet(Unique(sigs)) = ToSet(sigs)
<1> DEFINE n == Len(sigs)
<1>1. n \in Nat /\ DOMAIN sigs = 1 .. n /\ \A i \in 1 .. n : sigs[i] \in Sigs
  OBVIOUS
<1>2. PICK g : /\ g[0] = <<>>
               /\ \A k \in 1 .. n : g[k] = PushBack(g[k - 1], sigs[k])
               /\ Unique(sigs) = g[n]
  BY UniqueSteps
<1> HIDE DEF n
<1> DEFINE Good == {k \in Nat : g[k] \in Seq(Sigs) /\ ToSet(g[k]) = {sigs[i] : i \in 1 .. k}}
<1>3. 0 \in Good
  <2>1. g[0] \in Seq(Sigs) /\ ToSet(g[0]) = {}
    BY <1>2, EmptyToSet
  <2>. QED BY <2>1
<1>4. ASSUME NEW k \in 0 .. n - 1, k \in Good PROVE k + 1 \in Good
  <2>1. k + 1 \in 1 .. n /\ k + 1 \in Nat /\ k + 1 - 1 = k
    BY <1>1
  <2>2. g[k + 1] = PushBack(g[k], sigs[k + 1])
    BY <1>2, <2>1
  <2>3. g[k + 1] \in Seq(Sigs) /\ ToSet(g[k + 1]) = ToSet(g[k]) \cup {sigs[k + 1]}
    BY <1>1, <1>4, <2>1, <2>2, PushBackType
  <2>4. {sigs[i] : i \in 1 .. k + 1} = {sigs[i] : i \in 1 .. k} \cup {sigs[k + 1]}
    BY <2>1
  <2>. QED BY <1>4, <2>1, <2>3, <2>4
<1> HIDE DEF Good
<1>5. n \in Good
  BY <1>1, <1>3, <1>4, UpTo
<1>. QED BY <1>1, <1>2, <1>5 DEF Good, ToSet

\* mp_remove_if removes the signatures with that tag and no others.
LEMMA WithoutTagType ==
  ASSUME NEW sigs \in Seq(Sigs), NEW tag
  PROVE  /\ WithoutTag(sigs, tag) \in Seq(Sigs)
         /\ ToSet(WithoutTag(sigs, tag)) = {s \in ToSet(sigs) : Tag(s) # tag}
<1> DEFINE n == Len(sigs)
<1>1. n \in Nat /\ DOMAIN sigs = 1 .. n /\ \A i \in 1 .. n : sigs[i] \in Sigs
  OBVIOUS
<1>2. PICK g : /\ g[0] = <<>>
               /\ \A k \in 1 .. n : g[k] = IF Tag(sigs[k]) = tag THEN g[k - 1]
                                           ELSE Append(g[k - 1], sigs[k])
               /\ WithoutTag(sigs, tag) = g[n]
  BY WithoutTagSteps
<1> HIDE DEF n
<1> DEFINE Kept(k) == {s \in {sigs[i] : i \in 1 .. k} : Tag(s) # tag}
           Good == {k \in Nat : g[k] \in Seq(Sigs) /\ ToSet(g[k]) = Kept(k)}
<1>3. 0 \in Good
  <2>1. g[0] \in Seq(Sigs) /\ ToSet(g[0]) = {}
    BY <1>2, EmptyToSet
  <2>. QED BY <2>1
<1>4. ASSUME NEW k \in 0 .. n - 1, k \in Good PROVE k + 1 \in Good
  <2>1. k + 1 \in 1 .. n /\ k + 1 \in Nat /\ k + 1 - 1 = k
    BY <1>1
  <2>2. {sigs[i] : i \in 1 .. k + 1} = {sigs[i] : i \in 1 .. k} \cup {sigs[k + 1]}
    BY <2>1
  <2>3. g[k] \in Seq(Sigs) /\ ToSet(g[k]) = Kept(k)
    BY <1>4
  <2>4. CASE Tag(sigs[k + 1]) = tag
    <3>1. g[k + 1] = g[k]
      BY <1>2, <2>1, <2>4
    <3>2. Kept(k + 1) = Kept(k)
      BY <2>2, <2>4
    <3>. QED BY <2>1, <2>3, <3>1, <3>2
  <2>5. CASE Tag(sigs[k + 1]) # tag
    <3>1. g[k + 1] = Append(g[k], sigs[k + 1])
      <4>1. g[k + 1] = IF Tag(sigs[k + 1]) = tag THEN g[k + 1 - 1]
                       ELSE Append(g[k + 1 - 1], sigs[k + 1])
        BY <1>2, <2>1
      <4>. QED BY <4>1, <2>1, <2>5
    <3>2. Kept(k + 1) = Kept(k) \cup {sigs[k + 1]}
      BY <2>2, <2>5
    <3>3. sigs[k + 1] \in Sigs
      BY <1>1, <2>1
    <3>4. g[k + 1] \in Seq(Sigs) /\ ToSet(g[k + 1]) = ToSet(g[k]) \cup {sigs[k + 1]}
      BY <2>3, <3>1, <3>3, AppendToSet
    <3>. QED BY <2>1, <2>3, <3>2, <3>4
  <2>. QED BY <2>4, <2>5
<1> HIDE DEF Good
<1>5. n \in Good
  BY <1>1, <1>3, <1>4, UpTo
<1>. QED BY <1>1, <1>2, <1>5 DEF Good, ToSet

\* insert_exception_if adds the exception_ptr signature exactly if something may throw.
LEMMA InsertExceptionType ==
  ASSUME NEW sigs \in Seq(Sigs), NEW throws \in BOOLEAN
  PROVE  /\ InsertException(sigs, throws) \in Seq(Sigs)
         /\ ToSet(InsertException(sigs, throws)) =
              ToSet(sigs) \cup (IF throws THEN {"exception"} ELSE {})
BY PushBackType DEF InsertException, Sigs

\* replace_tag: the others are there instead of every signature with that tag.
LEMMA ReplaceTagType ==
  ASSUME NEW sigs \in Seq(Sigs), NEW tag, NEW others \in Seq(Sigs)
  PROVE  /\ ReplaceTag(sigs, tag, others) \in Seq(Sigs)
         /\ ToSet(ReplaceTag(sigs, tag, others)) =
              {s \in ToSet(sigs) : Tag(s) # tag} \cup ToSet(others)
<1> DEFINE kept == WithoutTag(sigs, tag)
<1>1. kept \in Seq(Sigs) /\ ToSet(kept) = {s \in ToSet(sigs) : Tag(s) # tag}
  BY WithoutTagType
<1> HIDE DEF kept
<1>2. /\ kept \o others \in Seq(Sigs)
      /\ ToSet(kept \o others) = ToSet(kept) \cup ToSet(others)
  BY <1>1, ConcatToSet
<1>3. ReplaceTag(sigs, tag, others) = Unique(kept \o others)
  BY DEF ReplaceTag, kept
<1>. QED BY <1>1, <1>2, <1>3, UniqueType

\* transform_tag: s is there instead of every signature with that tag.
LEMMA TransformTagType ==
  ASSUME NEW sigs \in Seq(Sigs), NEW tag, NEW s \in Sigs
  PROVE  /\ TransformTag(sigs, tag, s) \in Seq(Sigs)
         /\ ToSet(TransformTag(sigs, tag, s)) =
              {u \in ToSet(sigs) : Tag(u) # tag} \cup (IF HasTag(sigs, tag) THEN {s} ELSE {})
<1> DEFINE made == [i \in DOMAIN sigs |-> IF Tag(sigs[i]) = tag THEN s ELSE sigs[i]]
<1>1. made \in Seq(Sigs)
  OBVIOUS
<1>2. ToSet(made) = {u \in ToSet(sigs) : Tag(u) # tag} \cup (IF HasTag(sigs, tag) THEN {s} ELSE {})
  BY DEF ToSet, HasTag
<1>3. TransformTag(sigs, tag, s) = Unique(made)
  BY DEF TransformTag
<1> HIDE DEF made
<1>. QED BY <1>1, <1>2, <1>3, UniqueType

------------------------------------------------------------------------------
(* storage_spec *)

\* exy::max returns one of its arguments, and none that is less than the first.  That it
\* need not be the greatest is what MaxLosesNone is about (module PipelineProofs).
LEMMA MaxOfType ==
  ASSUME NEW h \in Specs, NEW ts \in Seq(Specs)
  PROVE  /\ MaxOf(h, ts) \in ToSet(ts) \cup {h}
         /\ AtLeast(MaxOf(h, ts), h)
<1> DEFINE n == Len(ts)
<1>1. n \in Nat /\ DOMAIN ts = 1 .. n /\ \A i \in 1 .. n : ts[i] \in Specs
  OBVIOUS
<1>2. PICK g : /\ g[0] = h
               /\ \A k \in 1 .. n : g[k] = IF AtLeast(ts[k], h) THEN ts[k] ELSE g[k - 1]
               /\ MaxOf(h, ts) = g[n]
  BY MaxOfSteps
<1> HIDE DEF n
<1> DEFINE Good == {k \in Nat : g[k] \in ToSet(ts) \cup {h} /\ AtLeast(g[k], h)}
<1>3. 0 \in Good
  BY <1>2 DEF AtLeast, Specs
<1>4. ASSUME NEW k \in 0 .. n - 1, k \in Good PROVE k + 1 \in Good
  <2>1. k + 1 \in 1 .. n /\ k + 1 \in Nat /\ k + 1 - 1 = k
    BY <1>1
  <2>2. g[k + 1] = IF AtLeast(ts[k + 1], h) THEN ts[k + 1] ELSE g[k]
    BY <1>2, <2>1
  <2>3. ts[k + 1] \in ToSet(ts)
    BY <1>1, <2>1 DEF ToSet
  <2>. QED BY <1>4, <2>1, <2>2, <2>3
<1> HIDE DEF Good
<1>5. n \in Good
  BY <1>1, <1>3, <1>4, UpTo
<1>. QED BY <1>2, <1>5 DEF Good

\* Of two it is the greater one.
LEMMA MaxOf2Is ==
  ASSUME NEW a \in Specs, NEW b \in Specs
  PROVE  MaxOf2(a, b) = IF AtLeast(b, a) THEN b ELSE a
<1>1. <<b>> \in Seq(Specs) /\ Len(<<b>>) = 1 /\ <<b>>[1] = b
  OBVIOUS
<1>2. PICK g : /\ g[0] = a
               /\ \A k \in 1 .. Len(<<b>>) :
                    g[k] = IF AtLeast(<<b>>[k], a) THEN <<b>>[k] ELSE g[k - 1]
               /\ MaxOf(a, <<b>>) = g[Len(<<b>>)]
  BY <1>1, MaxOfSteps
<1>3. g[1] = IF AtLeast(b, a) THEN b ELSE g[0]
  BY <1>1, <1>2
<1>. QED BY <1>1, <1>2, <1>3 DEF MaxOf2

------------------------------------------------------------------------------
(* Future types *)

\* The storage_specs that occur: each is that of some object.
ObjectSpecs == {SpecOf(o) : o \in Objects}

\* What is true of every future: it has a signature, and the storage_spec of an object.
FutureTypeSet == {t \in [sigs : Seq(Sigs), spec : ObjectSpecs] : t.sigs # <<>>}

\* The specs of objects are specs.
LEMMA SpecsAre ==
  /\ ObjectSpecs \subseteq Specs
  /\ \A s \in Sigs : SpecOf(s) \in ObjectSpecs
  /\ SpecOf(Temp) \in ObjectSpecs
BY FutureTypesAssumption DEF ObjectSpecs, Specs, SpecOf, Objects

\* Of two specs of objects exy::max returns one of them.
LEMMA MaxOf2Type ==
  ASSUME NEW a \in ObjectSpecs, NEW b \in ObjectSpecs
  PROVE  /\ MaxOf2(a, b) \in ObjectSpecs
         /\ MaxOf2(a, b) = IF AtLeast(b, a) THEN b ELSE a
BY SpecsAre, MaxOf2Is

\* A list is empty if nothing is in it.
LEMMA NonEmpty ==
  ASSUME NEW sigs \in Seq(Sigs)
  PROVE  sigs # <<>> <=> ToSet(sigs) # {}
<1>1. CASE sigs = <<>>
  BY <1>1, EmptyToSet
<1>2. CASE sigs # <<>>
  <2>1. 1 \in DOMAIN sigs
    BY <1>2
  <2>2. sigs[1] \in ToSet(sigs)
    BY <2>1 DEF ToSet
  <2>. QED BY <1>2, <2>2
<1>. QED BY <1>1, <1>2

\* storage_spec::get of some signatures is the spec of one of them.
LEMMA GetType ==
  ASSUME NEW sigs \in Seq(Objects), sigs # <<>>
  PROVE  Get(sigs) \in ObjectSpecs
<1> DEFINE specs == [i \in DOMAIN sigs |-> SpecOf(sigs[i])]
<1>1. specs \in Seq(ObjectSpecs) /\ specs # <<>>
  BY DEF ObjectSpecs
<1>2. Get(sigs) = MaxOf(Head(specs), Tail(specs))
  BY DEF Get
<1> HIDE DEF specs
<1>3. Head(specs) \in ObjectSpecs /\ Tail(specs) \in Seq(ObjectSpecs)
  BY <1>1
<1>4. Head(specs) \in Specs /\ Tail(specs) \in Seq(Specs)
  BY <1>3, SpecsAre, SeqMonotonic
<1>5. ToSet(Tail(specs)) \subseteq ObjectSpecs
  BY <1>3 DEF ToSet
<1>. QED BY <1>2, <1>3, <1>4, <1>5, MaxOfType

\* The type of an adapter that completes with sigs.
LEMMA OnTopOfType ==
  ASSUME NEW base \in FutureTypeSet, NEW sigs \in Seq(Sigs), ToSet(sigs) # {}
  PROVE  /\ OnTopOf(base, sigs) \in FutureTypeSet
         /\ OnTopOf(base, sigs).sigs = sigs
         /\ OnTopOf(base, sigs).spec = MaxOf2(base.spec, Get(sigs))
<1>1. sigs # <<>> /\ sigs \in Seq(Objects)
  BY NonEmpty, SeqMonotonic DEF Objects
<1>2. Get(sigs) \in ObjectSpecs
  BY <1>1, GetType
<1>3. MaxOf2(base.spec, Get(sigs)) \in ObjectSpecs
  BY <1>2, MaxOf2Type DEF FutureTypeSet
<1>. QED BY <1>1, <1>3 DEF OnTopOf, Future, FutureTypeSet

\* The type of a source that completes with sigs.
LEMMA PlainType ==
  ASSUME NEW sigs \in Seq(Sigs), ToSet(sigs) # {}
  PROVE  /\ Plain(sigs) \in FutureTypeSet
         /\ Plain(sigs).sigs = sigs
         /\ Plain(sigs).spec = Get(sigs)
<1>1. sigs # <<>> /\ sigs \in Seq(Objects)
  BY NonEmpty, SeqMonotonic DEF Objects
<1>2. Get(sigs) \in ObjectSpecs
  BY <1>1, GetType
<1>. QED BY <1>1, <1>2 DEF Plain, Future, FutureTypeSet

\* What IsStage says of the signatures a stage makes.
LEMMA StageType ==
  ASSUME NEW st, IsStage(st)
  PROVE  /\ st.to \in Seq(Sigs)
         /\ st.throws \in BOOLEAN
         /\ st.kind \in {"factory", "read_env", "transform"} =>
              st.to[1] \in Sigs /\ ToSet(st.to) = {st.to[1]}
         /\ st.kind \in {"when_any", "and_then"} => ToSet(st.to) # {}
<1>1. st.to \in Seq(Sigs) /\ st.throws \in BOOLEAN
  BY DEF IsStage
<1>2. CASE st.kind \in {"factory", "read_env", "transform"}
  <2>1. Len(st.to) = 1
    BY <1>2 DEF IsStage
  <2>. QED BY <1>1, <1>2, <2>1 DEF ToSet
<1>3. CASE st.kind \notin {"factory", "read_env", "transform"}
  BY <1>1, <1>3, NonEmpty DEF IsStage
<1>. QED BY <1>2, <1>3

(* The types of the sources, and what they declare. *)
LEMMA SourceDeclares ==
  ASSUME NEW st, IsStage(st), NEW base
  PROVE  /\ st.kind \in Sources => TypeOf(st, base) \in FutureTypeSet
         /\ st.kind \in {"factory", "read_env", "when_any"} =>
              ToSet(st.to) \cup (IF st.throws THEN {"exception"} ELSE {})
                \subseteq ToSet(TypeOf(st, base).sigs)
         /\ st.kind = "inline" => "unit" \in ToSet(TypeOf(st, base).sigs)
<1>1. CASE st.kind \in {"factory", "read_env"}
  <2> DEFINE sigs == InsertException(st.to, st.throws)
  <2>1. sigs \in Seq(Sigs) /\ ToSet(sigs) = ToSet(st.to) \cup (IF st.throws THEN {"exception"} ELSE {})
    BY StageType, InsertExceptionType
  <2>2. ToSet(st.to) # {}
    BY <1>1, StageType
  <2>3. TypeOf(st, base) = Plain(sigs)
    BY <1>1 DEF TypeOf, FactoryType, ReadEnvType
  <2> HIDE DEF sigs
  <2>. QED BY <1>1, <2>1, <2>2, <2>3, PlainType
<1>2. CASE st.kind = "when_any"
  <2> DEFINE sigs == InsertException(Unique(st.to), st.throws)
  <2>1. Unique(st.to) \in Seq(Sigs) /\ ToSet(Unique(st.to)) = ToSet(st.to)
    BY StageType, UniqueType
  <2>2. sigs \in Seq(Sigs) /\ ToSet(sigs) = ToSet(st.to) \cup (IF st.throws THEN {"exception"} ELSE {})
    BY <2>1, StageType, InsertExceptionType
  <2>3. ToSet(st.to) # {}
    BY <1>2, StageType
  <2>4. TypeOf(st, base) = Plain(sigs)
    BY <1>2 DEF TypeOf, WhenAnyType
  <2> HIDE DEF sigs
  <2>. QED BY <1>2, <2>2, <2>3, <2>4, PlainType
<1>3. CASE st.kind = "inline"
  <2>1. <<"unit">> \in Seq(Sigs) /\ ToSet(<<"unit">>) = {"unit"}
    BY DEF Sigs, ToSet
  <2>2. TypeOf(st, base) = Plain(<<"unit">>)
    BY <1>3 DEF TypeOf, InlineType
  <2>. QED BY <1>3, <2>1, <2>2, PlainType
<1>4. CASE st.kind \notin Sources
  BY <1>4 DEF Sources
<1>. QED BY <1>1, <1>2, <1>3, <1>4 DEF Sources

\* The exception of client code.
Throws(cond) == IF cond THEN {"exception"} ELSE {}

(* AtLeast orders the specifications. *)
LEMMA AtLeastOrder ==
  ASSUME NEW a \in Specs, NEW b \in Specs, NEW c \in Specs
  PROVE  /\ AtLeast(a, a)
         /\ AtLeast(a, b) \/ AtLeast(b, a)
         /\ AtLeast(a, b) /\ AtLeast(b, c) => AtLeast(a, c)
BY DEF AtLeast, Specs

\* The greater of two specs is at least each of them.
LEMMA MaxOf2AtLeast ==
  ASSUME NEW a \in ObjectSpecs, NEW b \in ObjectSpecs
  PROVE  /\ MaxOf2(a, b) \in ObjectSpecs
         /\ AtLeast(MaxOf2(a, b), a)
         /\ AtLeast(MaxOf2(a, b), b)
<1>1. a \in Specs /\ b \in Specs
  BY SpecsAre
<1>. QED BY <1>1, MaxOf2Type, AtLeastOrder

(* A future on top of base, with the list sigs, which its spec provides for. *)
Extends(t, base, sigs) ==
  /\ t \in FutureTypeSet
  /\ t.sigs = sigs
  /\ AtLeast(t.spec, base.spec)
  /\ AtLeast(t.spec, Get(sigs))

\* An adapter asks for no less than its base, and for what exy::max makes of its own signatures.
LEMMA OnTopOfExtends ==
  ASSUME NEW base \in FutureTypeSet, NEW sigs \in Seq(Sigs), ToSet(sigs) # {}
  PROVE  Extends(OnTopOf(base, sigs), base, sigs)
<1>1. sigs # <<>> /\ sigs \in Seq(Objects)
  BY NonEmpty, SeqMonotonic DEF Objects
<1>2. Get(sigs) \in ObjectSpecs /\ base.spec \in ObjectSpecs
  BY <1>1, GetType DEF FutureTypeSet
<1>. QED BY <1>2, OnTopOfType, MaxOf2AtLeast DEF Extends

\* transform.hpp: the handled signatures become the result of the function, which may throw.
LEMMA TransformDeclares ==
  ASSUME NEW st, IsStage(st), st.kind = "transform", NEW base \in FutureTypeSet
  PROVE  /\ Extends(TypeOf(st, base), base, TypeOf(st, base).sigs)
         /\ ToSet(TypeOf(st, base).sigs) =
              {s \in ToSet(base.sigs) : Tag(s) # st.from}
                \cup (IF HasTag(base.sigs, st.from) THEN {st.to[1]} \cup Throws(st.throws) ELSE {})
<1> DEFINE made == TransformTag(base.sigs, st.from, st.to[1])
           some == HasTag(base.sigs, st.from)
           sigs == InsertException(made, st.throws /\ some)
<1>1. base.sigs \in Seq(Sigs) /\ base.sigs # <<>> /\ st.to[1] \in Sigs /\ st.throws \in BOOLEAN
  BY StageType DEF FutureTypeSet
<1>2. /\ made \in Seq(Sigs)
      /\ ToSet(made) = {s \in ToSet(base.sigs) : Tag(s) # st.from}
                         \cup (IF some THEN {st.to[1]} ELSE {})
  BY <1>1, TransformTagType
<1>3. some \in BOOLEAN
  BY DEF HasTag
<1>4. some <=> \E s \in ToSet(base.sigs) : Tag(s) = st.from
  BY DEF HasTag
<1> HIDE DEF made, some
<1>5. /\ sigs \in Seq(Sigs)
      /\ ToSet(sigs) = ToSet(made) \cup Throws(st.throws /\ some)
  BY <1>1, <1>2, <1>3, InsertExceptionType DEF Throws
<1>6. ToSet(made) # {}
  <2>1. ToSet(base.sigs) # {}
    BY <1>1, NonEmpty
  <2>. QED BY <1>2, <1>4, <2>1
<1>7. TypeOf(st, base) = OnTopOf(base, sigs)
  BY DEF TypeOf, TransformType, made, some
<1> HIDE DEF sigs
<1>8. TypeOf(st, base).sigs = sigs /\ Extends(TypeOf(st, base), base, sigs)
  BY <1>5, <1>6, <1>7, OnTopOfExtends DEF Extends
<1>. QED BY <1>2, <1>5, <1>8 DEF Throws, some

\* and_then.hpp: the handled signatures become those of the inner future, whose storage_spec
\* is provided for, whatever it creates on the way included.
LEMMA AndThenDeclares ==
  ASSUME NEW st, IsStage(st), st.kind = "and_then", NEW base \in FutureTypeSet
  PROVE  /\ Extends(TypeOf(st, base), base, TypeOf(st, base).sigs)
         /\ ToSet(TypeOf(st, base).sigs) =
              {s \in ToSet(base.sigs) : Tag(s) # st.from}
                \cup (IF HasTag(base.sigs, st.from) THEN ToSet(st.to) \cup Throws(st.throws) ELSE {})
         /\ HasTag(base.sigs, st.from) =>
              /\ AtLeast(TypeOf(st, base).spec, Get(st.to))
              /\ st.mid # <<>> => AtLeast(TypeOf(st, base).spec, SpecOf(Temp))
<1>1. /\ base.sigs \in Seq(Sigs) /\ base.sigs # <<>> /\ base.spec \in ObjectSpecs
      /\ st.to \in Seq(Sigs) /\ ToSet(st.to) # {} /\ st.throws \in BOOLEAN
      /\ st.mid \in {<<>>, <<Temp>>}
  BY StageType DEF FutureTypeSet, IsStage
<1>2. CASE HasTag(base.sigs, st.from)
  <2> DEFINE made == ReplaceTag(base.sigs, st.from, st.to)
             sigs == InsertException(made, st.throws)
             inner == InnerType(st)
             outer == OnTopOf(base, sigs)
  <2>1. /\ made \in Seq(Sigs)
        /\ ToSet(made) = {s \in ToSet(base.sigs) : Tag(s) # st.from} \cup ToSet(st.to)
    BY <1>1, ReplaceTagType
  <2> HIDE DEF made
  <2>2. sigs \in Seq(Sigs) /\ ToSet(sigs) = ToSet(made) \cup Throws(st.throws)
    BY <1>1, <2>1, InsertExceptionType DEF Throws
  <2>3. ToSet(sigs) # {}
    BY <1>1, <2>1, <2>2
  <2>4. /\ inner.sigs = st.to
        /\ inner.spec \in ObjectSpecs
        /\ AtLeast(inner.spec, Get(st.to))
        /\ st.mid # <<>> => AtLeast(inner.spec, SpecOf(Temp))
    <3>1. st.to \in Seq(Objects) /\ st.to # <<>>
      BY <1>1, NonEmpty, SeqMonotonic DEF Objects
    <3>2. Get(st.to) \in ObjectSpecs /\ Get(st.to) \in Specs
      BY <3>1, GetType, SpecsAre
    <3>3. CASE st.mid = <<>>
      BY <3>2, <3>3, AtLeastOrder DEF InnerType, Future
    <3>4. CASE st.mid = <<Temp>>
      <4>1. Get(st.mid) = SpecOf(Temp)
        <5>1. st.mid \in Seq(Objects) /\ st.mid # <<>>
          BY <3>4 DEF Objects
        <5>2. \A s \in ToSet(st.mid) : s = Temp
          BY <3>4 DEF ToSet
        <5> DEFINE specs == [i \in DOMAIN st.mid |-> SpecOf(st.mid[i])]
        <5>3. Head(specs) = SpecOf(Temp) /\ Tail(specs) = <<>>
          BY <3>4
        <5>4. Get(st.mid) = MaxOf(Head(specs), Tail(specs))
          BY DEF Get
        <5> HIDE DEF specs
        <5>5. SpecOf(Temp) \in Specs /\ <<>> \in Seq(Specs)
          BY SpecsAre
        <5>6. MaxOf(SpecOf(Temp), <<>>) \in ToSet(<<>>) \cup {SpecOf(Temp)}
          BY <5>5, MaxOfType
        <5>. QED BY <5>3, <5>4, <5>6, EmptyToSet
      <4>2. inner = Future(st.to, MaxOf2(Get(st.mid), Get(st.to)))
        BY <3>4 DEF InnerType
      <4>. QED BY <3>2, <4>1, <4>2, SpecsAre, MaxOf2AtLeast DEF Future
    <3>. QED BY <1>1, <3>3, <3>4
  <2> HIDE DEF inner, sigs
  <2>5. Extends(outer, base, sigs)
    BY <2>2, <2>3, OnTopOfExtends
  <2>6. TypeOf(st, base) = Future(sigs, MaxOf2(outer.spec, inner.spec))
    <3>1. outer.sigs = sigs
      BY <2>5 DEF Extends
    <3>2. TypeOf(st, base) = AndThenType(st, base)
      BY DEF TypeOf
    <3>. QED BY <1>2, <2>4, <3>1, <3>2 DEF AndThenType, sigs, made, inner
  <2> HIDE DEF outer
  <2>7. outer.spec \in ObjectSpecs /\ outer.sigs # <<>>
    BY <2>5 DEF Extends, FutureTypeSet
  <2> DEFINE spec == MaxOf2(outer.spec, inner.spec)
  <2>8. spec \in ObjectSpecs /\ AtLeast(spec, outer.spec) /\ AtLeast(spec, inner.spec)
    BY <2>4, <2>7, MaxOf2AtLeast
  <2> HIDE DEF spec
  <2>9. TypeOf(st, base).sigs = sigs /\ TypeOf(st, base).spec = spec
    BY <2>6 DEF Future, spec
  <2>10. TypeOf(st, base) \in FutureTypeSet
    BY <2>2, <2>3, <2>6, <2>8, NonEmpty DEF Future, FutureTypeSet, spec
  <2>11. Get(sigs) \in Specs /\ Get(st.to) \in Specs
    <3>1. sigs # <<>> /\ st.to # <<>> /\ sigs \in Seq(Objects) /\ st.to \in Seq(Objects)
      BY <1>1, <2>2, <2>3, NonEmpty, SeqMonotonic DEF Objects
    <3>. QED BY <3>1, GetType, SpecsAre
  <2>12. /\ AtLeast(spec, base.spec)
         /\ AtLeast(spec, Get(sigs))
         /\ AtLeast(spec, Get(st.to))
         /\ st.mid # <<>> => AtLeast(spec, SpecOf(Temp))
    <3>1. {spec, base.spec, Get(sigs), Get(st.to), SpecOf(Temp), outer.spec, inner.spec} \subseteq Specs
      BY <1>1, <2>4, <2>7, <2>8, <2>11, SpecsAre
    <3>2. AtLeast(outer.spec, base.spec) /\ AtLeast(outer.spec, Get(sigs))
      BY <2>5 DEF Extends
    <3>. QED BY <2>4, <2>8, <3>1, <3>2, AtLeastOrder
  <2>. QED BY <1>2, <2>1, <2>2, <2>9, <2>10, <2>12 DEF Extends
<1>3. CASE ~HasTag(base.sigs, st.from)
  <2>1. TypeOf(st, base) = OnTopOf(base, base.sigs)
    BY <1>3 DEF TypeOf, AndThenType
  <2>2. ToSet(base.sigs) # {}
    BY <1>1, NonEmpty
  <2>3. {s \in ToSet(base.sigs) : Tag(s) # st.from} = ToSet(base.sigs)
    BY <1>3 DEF HasTag
  <2>. QED BY <1>1, <1>3, <2>1, <2>2, <2>3, OnTopOfExtends DEF Extends
<1>. QED BY <1>2, <1>3

\* repeat.hpp: the handled signatures start another round; stopped is how it ends.
LEMMA RepeatDeclares ==
  ASSUME NEW st, IsStage(st), st.kind = "repeat", NEW base \in FutureTypeSet
  PROVE  /\ Extends(TypeOf(st, base), base, TypeOf(st, base).sigs)
         /\ ToSet(TypeOf(st, base).sigs) =
              {s \in ToSet(base.sigs) : Tag(s) # st.from} \cup {"stopped"} \cup Throws(st.throws)
<1> DEFINE others == <<"stopped">>
           made == ReplaceTag(base.sigs, st.from, others)
           sigs == InsertException(made, st.throws)
<1>1. base.sigs \in Seq(Sigs) /\ st.throws \in BOOLEAN
  BY StageType DEF FutureTypeSet
<1>2. others \in Seq(Sigs) /\ ToSet(others) = {"stopped"}
  BY DEF Sigs, ToSet
<1> HIDE DEF others
<1>3. /\ made \in Seq(Sigs)
      /\ ToSet(made) = {s \in ToSet(base.sigs) : Tag(s) # st.from} \cup {"stopped"}
  BY <1>1, <1>2, ReplaceTagType
<1> HIDE DEF made
<1>4. sigs \in Seq(Sigs) /\ ToSet(sigs) = ToSet(made) \cup Throws(st.throws)
  BY <1>1, <1>3, InsertExceptionType DEF Throws
<1>5. TypeOf(st, base) = OnTopOf(base, sigs)
  BY DEF TypeOf, RepeatType, made, others
<1> HIDE DEF sigs
<1>6. Extends(TypeOf(st, base), base, sigs)
  BY <1>3, <1>4, <1>5, OnTopOfExtends
<1>. QED BY <1>3, <1>4, <1>6 DEF Extends

\* with.hpp and schedule.hpp: all signatures are passed on; client code may throw.
LEMMA ForwardersDeclare ==
  ASSUME NEW st, IsStage(st), st.kind \in {"with", "continues_on"}, NEW base \in FutureTypeSet
  PROVE  /\ Extends(TypeOf(st, base), base, TypeOf(st, base).sigs)
         /\ ToSet(TypeOf(st, base).sigs) =
              ToSet(base.sigs)
                \cup Throws(st.throws /\ (st.kind = "with" => HasTag(base.sigs, st.from)))
<1> DEFINE throws == st.throws /\ (st.kind = "with" => HasTag(base.sigs, st.from))
           sigs == InsertException(base.sigs, throws)
<1>1. base.sigs \in Seq(Sigs) /\ base.sigs # <<>> /\ throws \in BOOLEAN
  BY StageType DEF FutureTypeSet
<1>2. TypeOf(st, base) = OnTopOf(base, sigs)
  <2>1. CASE st.kind = "with"
    <3>1. throws = (st.throws /\ HasTag(base.sigs, st.from))
      BY <2>1, StageType DEF HasTag
    <3>. QED BY <2>1, <3>1 DEF TypeOf, WithType
  <2>2. CASE st.kind = "continues_on"
    <3>1. throws = st.throws
      BY <2>2, StageType
    <3>. QED BY <2>2, <3>1 DEF TypeOf, ContinuesOnType
  <2>. QED BY <2>1, <2>2
<1>3. sigs \in Seq(Sigs) /\ ToSet(sigs) = ToSet(base.sigs) \cup Throws(throws)
  <2> HIDE DEF throws
  <2>. QED BY <1>1, InsertExceptionType DEF Throws
<1>4. ToSet(sigs) # {}
  BY <1>1, <1>3, NonEmpty
<1> HIDE DEF sigs
<1>5. Extends(TypeOf(st, base), base, sigs)
  BY <1>2, <1>3, <1>4, OnTopOfExtends
<1>. QED BY <1>3, <1>5 DEF Extends

\* stop_point.hpp: there may be a stop, which needs no storage.
LEMMA StopPointDeclares ==
  ASSUME NEW st, st.kind = "stop_point", NEW base \in FutureTypeSet
  PROVE  /\ TypeOf(st, base) \in FutureTypeSet
         /\ TypeOf(st, base).spec = base.spec
         /\ ToSet(TypeOf(st, base).sigs) = ToSet(base.sigs) \cup {"stopped"}
<1>1. base.sigs \in Seq(Sigs) /\ "stopped" \in Sigs
  BY DEF FutureTypeSet, Sigs
<1>2. /\ PushBack(base.sigs, "stopped") \in Seq(Sigs)
      /\ ToSet(PushBack(base.sigs, "stopped")) = ToSet(base.sigs) \cup {"stopped"}
  BY <1>1, PushBackType
<1>3. TypeOf(st, base) = Future(PushBack(base.sigs, "stopped"), base.spec)
  BY DEF TypeOf, StopPointType
<1>. QED BY <1>2, <1>3, NonEmpty DEF Future, FutureTypeSet

\* yield.hpp: nothing is added.
LEMMA YieldDeclares ==
  ASSUME NEW st, st.kind = "yield", NEW base
  PROVE  TypeOf(st, base) = base
BY DEF TypeOf, YieldType

------------------------------------------------------------------------------
(* Pipelines *)

\* The future before the one of stage i; a source has none.
Before(T, i) == IF i = 1 THEN Future(<<>>, <<>>) ELSE T[i - 1]

\* There is a function that satisfies the recursive definition, so Types(p) does.
LEMMA TypesUnfold ==
  ASSUME NEW S, NEW p \in Seq(S)
  PROVE  /\ DOMAIN Types(p) = 1 .. Len(p)
         /\ \A i \in 1 .. Len(p) : Types(p)[i] = TypeOf(p[i], Before(Types(p), i))
<1> DEFINE n == Len(p)
           Is(T, k) == T = [i \in 1 .. k |-> TypeOf(p[i], IF i = 1 THEN Future(<<>>, <<>>) ELSE T[i - 1])]
           Exists(k) == \E T : Is(T, k)
           Good == {k \in Nat : Exists(k)}
<1>1. n \in Nat /\ DOMAIN p = 1 .. n
  OBVIOUS
<1>2. Exists(0)
  <2>1. Is([i \in 1 .. 0 |-> 0], 0)
    OBVIOUS
  <2>. QED BY <2>1
<1>3. ASSUME NEW k \in Nat, Exists(k) PROVE Exists(k + 1)
  <2>1. PICK T : Is(T, k)
    BY <1>3
  <2> DEFINE U == [i \in 1 .. k + 1 |->
                     TypeOf(p[i], IF i = 1 THEN Future(<<>>, <<>>) ELSE T[i - 1])]
  <2>2. \A i \in 1 .. k : U[i] = T[i]
    BY <2>1
  <2>3. ASSUME NEW i \in 1 .. k + 1, i # 1 PROVE U[i - 1] = T[i - 1]
    <3>1. i - 1 \in 1 .. k
      BY <2>3
    <3> HIDE DEF U
    <3>. QED BY <2>2, <3>1
  <2>4. Is(U, k + 1)
    BY <2>3
  <2>. QED BY <2>4
<1> HIDE DEF Exists
<1>4. 0 \in Good /\ \A k \in Nat : k \in Good => k + 1 \in Good
  BY <1>2, <1>3
<1> HIDE DEF Good
<1>5. n \in Good
  BY <1>1, <1>4, SetInduction
<1>6. \E T : Is(T, n)
  BY <1>5 DEF Good, Exists
<1>7. Types(p) = CHOOSE T : Is(T, n)
  BY <1>1 DEF Types
<1>8. Is(Types(p), n)
  <2> HIDE DEF Is
  <2>. QED BY <1>6, <1>7
<1>. QED BY <1>8 DEF Before

\* No adapter asks for less storage than its base.
LEMMA AdapterGrows ==
  ASSUME NEW st, IsStage(st), st.kind \notin Sources, NEW base \in FutureTypeSet
  PROVE  /\ TypeOf(st, base) \in FutureTypeSet
         /\ AtLeast(TypeOf(st, base).spec, base.spec)
<1>1. CASE st.kind = "transform"
  BY <1>1, TransformDeclares DEF Extends
<1>2. CASE st.kind = "and_then"
  BY <1>2, AndThenDeclares DEF Extends
<1>3. CASE st.kind = "repeat"
  BY <1>3, RepeatDeclares DEF Extends
<1>4. CASE st.kind \in {"with", "continues_on"}
  BY <1>4, ForwardersDeclare DEF Extends
<1>5. base.spec \in Specs
  BY SpecsAre DEF FutureTypeSet
<1>6. CASE st.kind = "stop_point"
  BY <1>5, <1>6, StopPointDeclares, AtLeastOrder
<1>7. CASE st.kind = "yield"
  BY <1>5, <1>7, YieldDeclares, AtLeastOrder
<1>. QED BY <1>1, <1>2, <1>3, <1>4, <1>6, <1>7 DEF IsStage, Sources

\* A source asks for what storage_spec::get says of its signatures.
LEMMA SourceProvides ==
  ASSUME NEW st, IsStage(st), st.kind \in Sources, NEW base
  PROVE  AtLeast(TypeOf(st, base).spec, Get(TypeOf(st, base).sigs))
<1>1. TypeOf(st, base) \in FutureTypeSet
  BY SourceDeclares
<1>2. TypeOf(st, base).spec = Get(TypeOf(st, base).sigs)
  <2>1. CASE st.kind = "factory"
    BY <2>1 DEF TypeOf, FactoryType, Plain, Future
  <2>2. CASE st.kind = "inline"
    BY <2>2 DEF TypeOf, InlineType, Plain, Future
  <2>3. CASE st.kind = "read_env"
    BY <2>3 DEF TypeOf, ReadEnvType, Plain, Future
  <2>4. CASE st.kind = "when_any"
    BY <2>4 DEF TypeOf, WhenAnyType, Plain, Future
  <2>. QED BY <2>1, <2>2, <2>3, <2>4 DEF Sources
<1>3. TypeOf(st, base).spec \in Specs
  BY <1>1, SpecsAre DEF FutureTypeSet
<1>. QED BY <1>2, <1>3, AtLeastOrder

\* So does an adapter, except those that leave the spec of their base as it is.
LEMMA AdapterProvides ==
  ASSUME NEW st, IsStage(st), st.kind \notin Sources \cup {"stop_point", "yield"},
         NEW base \in FutureTypeSet
  PROVE  AtLeast(TypeOf(st, base).spec, Get(TypeOf(st, base).sigs))
<1>1. CASE st.kind = "transform"
  BY <1>1, TransformDeclares DEF Extends
<1>2. CASE st.kind = "and_then"
  BY <1>2, AndThenDeclares DEF Extends
<1>3. CASE st.kind = "repeat"
  BY <1>3, RepeatDeclares DEF Extends
<1>4. CASE st.kind \in {"with", "continues_on"}
  BY <1>4, ForwardersDeclare DEF Extends
<1>. QED BY <1>1, <1>2, <1>3, <1>4 DEF IsStage, Sources

(* A source, followed by adapters. *)
IsPipeline(p) ==
  /\ p # <<>>
  /\ \A i \in 1 .. Len(p) : IsStage(p[i]) /\ (p[i].kind \in Sources <=> i = 1)

\* Every future of a pipeline has signatures and the storage_spec of some object.
LEMMA TypesAre ==
  ASSUME NEW S, NEW p \in Seq(S), IsPipeline(p)
  PROVE  \A i \in 1 .. Len(p) : Types(p)[i] \in FutureTypeSet
<1> DEFINE n == Len(p)
           T == Types(p)
           Good == {k \in Nat : k = 0 \/ T[k] \in FutureTypeSet}
<1>1. n \in Nat /\ \A i \in 1 .. n : T[i] = TypeOf(p[i], Before(T, i))
  BY TypesUnfold
<1> HIDE DEF T
<1>2. ASSUME NEW k \in 0 .. n - 1, k \in Good PROVE k + 1 \in Good
  <2>1. k + 1 \in 1 .. n /\ k + 1 - 1 = k
    BY <1>1
  <2>2. IsStage(p[k + 1]) /\ (p[k + 1].kind \in Sources <=> k + 1 = 1)
    BY <2>1 DEF IsPipeline
  <2>3. T[k + 1] = TypeOf(p[k + 1], Before(T, k + 1))
    BY <1>1, <2>1
  <2>4. CASE k = 0
    BY <2>2, <2>3, <2>4, SourceDeclares
  <2>5. CASE k # 0
    <3>1. Before(T, k + 1) \in FutureTypeSet
      BY <1>2, <2>1, <2>5 DEF Before
    <3>. QED BY <2>2, <2>3, <2>5, <3>1, AdapterGrows
  <2>. QED BY <2>4, <2>5
<1>3. 0 \in Good
  OBVIOUS
<1> HIDE DEF Good
<1>4. 0 .. n \subseteq Good
  BY <1>1, <1>2, <1>3, UpTo
<1>. QED BY <1>4 DEF Good, T

(* The storage_spec only grows along the pipeline. *)
LEMMA SpecsGrow ==
  ASSUME NEW S, NEW p \in Seq(S), IsPipeline(p), NEW i \in 1 .. Len(p)
  PROVE  AtLeast(Types(p)[Len(p)].spec, Types(p)[i].spec)
<1> DEFINE n == Len(p)
           T == Types(p)
           Good == {k \in Nat : i <= k => AtLeast(T[k].spec, T[i].spec)}
<1>1. n \in Nat /\ \A k \in 1 .. n : T[k] = TypeOf(p[k], Before(T, k))
  BY TypesUnfold
<1>2. \A k \in 1 .. n : T[k] \in FutureTypeSet /\ T[k].spec \in Specs
  BY TypesAre, SpecsAre DEF FutureTypeSet
<1>3. i \in 1 .. n
  OBVIOUS
<1> HIDE DEF T, n
<1>4. ASSUME NEW k \in 0 .. n - 1, k \in Good PROVE k + 1 \in Good
  <2>1. k + 1 \in 1 .. n /\ k + 1 - 1 = k
    BY <1>1
  <2>2. CASE i <= k
    <3>1. k \in 1 .. n /\ k + 1 # 1
      BY <1>1, <1>3, <2>2
    <3>2. IsStage(p[k + 1]) /\ p[k + 1].kind \notin Sources
      BY <2>1, <3>1 DEF IsPipeline, n
    <3>3. T[k + 1] = TypeOf(p[k + 1], T[k])
      BY <1>1, <2>1, <3>1 DEF Before
    <3>4. AtLeast(T[k + 1].spec, T[k].spec)
      BY <1>2, <3>1, <3>2, <3>3, AdapterGrows
    <3>5. AtLeast(T[k].spec, T[i].spec)
      BY <1>4, <2>2
    <3>. QED BY <1>2, <1>3, <2>1, <3>1, <3>4, <3>5, AtLeastOrder
  <2>3. CASE i = k + 1
    BY <1>2, <1>3, <2>1, <2>3, AtLeastOrder
  <2>4. CASE i > k + 1
    BY <2>1, <2>4, <1>3
  <2>. QED BY <1>3, <2>2, <2>3, <2>4
<1>5. 0 \in Good
  BY <1>3
<1> HIDE DEF Good
<1>6. 0 .. n \subseteq Good
  BY <1>1, <1>4, <1>5, UpTo
<1>7. n \in Good /\ i <= n
  BY <1>1, <1>3, <1>6
<1>. QED BY <1>7 DEF Good, T, n
=============================================================================
