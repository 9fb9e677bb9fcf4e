------------------------ MODULE Conversation_proofs ------------------------
(***************************************************************************)
(* Proofs about Conversation, for any tools, any models and any length of  *)
(* the history: what the folds over a history compute, by induction over   *)
(* its length, the names a tool goes by, where the model's reasoning is    *)
(* shown, and that the results of tools follow their calls.                *)
(***************************************************************************)
EXTENDS Conversation, FiniteSetTheorems, SequenceTheorems, WellFoundedInduction, TLAPS

-----------------------------------------------------------------------------
(* Induction: a set of numbers, a flattened sequence, a fold *)

LEMMA LeastElement ==
  ASSUME NEW S \in SUBSET Nat, S # {}
  PROVE  \E i \in S : \A j \in S : i <= j
<1>1. PICK i \in S : \A j \in S : ~(<<j, i>> \in OpToRel(<, Nat))
  BY NatLessThanWellFounded, WFMin
<1>2. \A j \in S : ~(j < i)
  BY <1>1 DEF OpToRel
<1> QED BY <1>2

LEMMA NumbersByInduction ==
  ASSUME NEW S, 0 \in S, \A n \in Nat : n \in S => n + 1 \in S
  PROVE  \A n \in Nat : n \in S
<1> DEFINE T == {n \in Nat : n \notin S}
<1> SUFFICES ASSUME T # {} PROVE FALSE
  OBVIOUS
<1>1. PICK m \in T : \A j \in T : m <= j
  BY LeastElement
<1>2. m \in Nat /\ m \notin S /\ m # 0
  OBVIOUS
<1>3. m - 1 \in Nat /\ ~(m <= m - 1) /\ (m - 1) + 1 = m
  BY <1>2
<1>4. m - 1 \in S
  BY <1>1, <1>3
<1> QED BY <1>2, <1>3, <1>4

\* f joins the first sequences of ss, one more with every number up to k.
Joins(f, ss, k) == f = [i \in 1 .. k |-> IF i = 1 THEN ss[i] ELSE f[i - 1] \o ss[i]]

LEMMA FlattenJoins ==
  ASSUME NEW ss, NEW n \in Nat \ {0}, Len(ss) = n
  PROVE  \E f : Joins(f, ss, n) /\ FlattenSeq(ss) = f[n]
<1> DEFINE Is(f, k) == f = [i \in 1 .. k |-> IF i = 1 THEN ss[i] ELSE f[i - 1] \o ss[i]]
           Some == {k \in Nat : \E f : Is(f, k)}
<1>1. \A k \in Nat : k \in Some
  <2>1. 0 \in Some
    <3>1. Is([i \in 1 .. 0 |-> 0], 0)
      OBVIOUS
    <3> QED BY <3>1
  <2>2. ASSUME NEW k \in Nat, k \in Some PROVE k + 1 \in Some
    <3>1. PICK f : Is(f, k)
      BY <2>2
    <3> DEFINE g == [i \in 1 .. k + 1 |->
                       IF i = 1 THEN ss[i] ELSE IF i <= k THEN f[i] ELSE f[k] \o ss[i]]
    <3>2. \A i \in 1 .. k : f[i] = IF i = 1 THEN ss[i] ELSE f[i - 1] \o ss[i]
      BY <3>1
    <3>3. \A i \in 1 .. k + 1 : g[i] = IF i = 1 THEN ss[i] ELSE g[i - 1] \o ss[i]
      <4> SUFFICES ASSUME NEW i \in 1 .. k + 1, i # 1 PROVE g[i] = g[i - 1] \o ss[i]
        OBVIOUS
      <4>1. i - 1 \in 1 .. k /\ i - 1 \in 1 .. k + 1 /\ i - 1 <= k
        OBVIOUS
      <4>2. g[i - 1] = f[i - 1]
        <5>1. i - 1 = 1 => f[i - 1] = ss[i - 1]
          BY <4>1, <3>2
        <5> QED BY <4>1, <5>1
      <4>3. i <= k \/ i = k + 1
        OBVIOUS
      <4>4. CASE i <= k
        <5>1. i \in 1 .. k
          BY <4>4
        <5>2. g[i] = f[i]
          BY <4>4
        <5> HIDE DEF g
        <5> QED BY <5>1, <5>2, <4>2, <3>2
      <4>5. CASE i = k + 1
        <5>0. k + 1 \in 1 .. k + 1 /\ k + 1 # 1 /\ ~(k + 1 <= k)
          BY <4>5
        <5>1. g[k + 1] = f[k] \o ss[k + 1]
          BY <5>0
        <5>2. i - 1 = k
          BY <4>5
        <5> HIDE DEF g
        <5> QED BY <5>1, <5>2, <4>2, <4>5
      <4> QED BY <4>3, <4>4, <4>5
    <3>4. g = [i \in 1 .. k + 1 |-> IF i = 1 THEN ss[i] ELSE g[i - 1] \o ss[i]]
      <4> DEFINE h == [i \in 1 .. k + 1 |-> IF i = 1 THEN ss[i] ELSE g[i - 1] \o ss[i]]
      <4>1. \A i \in 1 .. k + 1 : h[i] = g[i]
        BY <3>3
      <4> HIDE DEF h
      <4>2. DOMAIN h = 1 .. k + 1 /\ h = [i \in 1 .. k + 1 |-> h[i]]
        BY DEF h
      <4>3. g = [i \in 1 .. k + 1 |-> g[i]]
        OBVIOUS
      <4> HIDE DEF g
      <4>4. h = g
        BY <4>1, <4>2, <4>3
      <4> QED BY <4>4 DEF h
    <3> HIDE DEF g
    <3>5. Is(g, k + 1)
      BY <3>4
    <3> HIDE DEF Is
    <3>6. \E h : Is(h, k + 1)
      BY <3>5
    <3> QED BY <3>6
  <2> HIDE DEF Some
  <2> QED BY <2>1, <2>2, NumbersByInduction
<1>2. PICK e : Is(e, n)
  BY <1>1
<1> DEFINE f == CHOOSE f : Is(f, n)
<1>3. Is(f, n)
  BY <1>2
<1>4. FlattenSeq(ss) = f[n]
  BY DEF FlattenSeq
<1> QED BY <1>3, <1>4 DEF Joins

\* What holds of the first sequence and is kept when the next one is joined
\* holds of all of them together.  R is a set of pairs: how many, and which.
LEMMA FlattenByInduction ==
  ASSUME NEW ss, NEW n \in Nat \ {0}, Len(ss) = n, NEW R,
         <<1, ss[1]>> \in R,
         \A i \in 1 .. n - 1 : \A x : <<i, x>> \in R => <<i + 1, x \o ss[i + 1]>> \in R
  PROVE  <<n, FlattenSeq(ss)>> \in R
<1>1. PICK f : Joins(f, ss, n) /\ FlattenSeq(ss) = f[n]
  BY FlattenJoins
<1>2. \A i \in 1 .. n : f[i] = IF i = 1 THEN ss[i] ELSE f[i - 1] \o ss[i]
  BY <1>1 DEF Joins
<1> DEFINE Q == {k \in Nat : k + 1 <= n => <<k + 1, f[k + 1]>> \in R}
<1>5. 0 \in Q
  <2>1. f[1] = ss[1]
    BY <1>2
  <2> QED BY <2>1
<1>6. ASSUME NEW k \in Nat, k \in Q PROVE k + 1 \in Q
  <2> SUFFICES ASSUME (k + 1) + 1 <= n PROVE <<(k + 1) + 1, f[(k + 1) + 1]>> \in R
    OBVIOUS
  <2> DEFINE j == k + 1
  <2>1. j \in 1 .. n - 1 /\ j + 1 \in 1 .. n /\ j + 1 # 1 /\ (j + 1) - 1 = j
    OBVIOUS
  <2>2. <<j, f[j]>> \in R
    BY <1>6
  <2> HIDE DEF j, Q
  <2>3. f[j + 1] = f[j] \o ss[j + 1]
    BY <2>1, <1>2
  <2>4. <<j + 1, f[j + 1]>> \in R
    BY <2>1, <2>2, <2>3
  <2> QED BY <2>4 DEF j
<1> HIDE DEF Q
<1>7. n - 1 \in Q /\ n - 1 \in Nat /\ (n - 1) + 1 = n
  BY <1>5, <1>6, NumbersByInduction
<1> QED BY <1>7, <1>1 DEF Q

LEMMA GreatestOf ==
  ASSUME NEW k \in Nat, NEW S \in SUBSET (1 .. k + 1), k + 1 \in S
  PROVE  Max(S) = k + 1
<1>1. \A y \in S : k + 1 >= y
  OBVIOUS
<1>2. \A x \in S : (\A y \in S : x >= y) => x = k + 1
  OBVIOUS
<1> QED BY <1>1, <1>2 DEF Max

\* What holds of the tools that are there before the first carried one and is
\* kept by every carried one holds of all of them.
LEMMA CarriedByInduction ==
  ASSUME NEW s, NEW n \in Nat, DOMAIN s = 1 .. n, NEW b, NEW R, <<0, b>> \in R,
         \A i \in 1 .. n : \A a : <<i - 1, a>> \in R => <<i, AddCarried(a, s[i])>> \in R
  PROVE  <<n, FoldLeft(AddCarried, b, s)>> \in R
<1> DEFINE Is(it, k) ==
             it = [S \in SUBSET (1 .. k) |->
                     IF S = {} THEN b ELSE AddCarried(it[S \ {Max(S)}], s[Max(S)])]
           Some == {k \in Nat : \E it : Is(it, k)}
<1>1. \A k \in Nat : k \in Some
  <2>1. 0 \in Some
    <3> DEFINE g == [S \in SUBSET (1 .. 0) |-> b]
    <3>1. \A S \in SUBSET (1 .. 0) : S = {}
      OBVIOUS
    <3>2. Is(g, 0)
      BY <3>1
    <3> HIDE DEF Is
    <3>3. \E it : Is(it, 0)
      BY <3>2
    <3> QED BY <3>3
  <2>2. ASSUME NEW k \in Nat, k \in Some PROVE k + 1 \in Some
    <3>1. PICK f : Is(f, k)
      BY <2>2
    <3> DEFINE g == [S \in SUBSET (1 .. k + 1) |->
                       IF S = {} THEN b
                       ELSE IF k + 1 \in S THEN AddCarried(f[S \ {k + 1}], s[k + 1]) ELSE f[S]]
               New(S) == IF S = {} THEN b ELSE AddCarried(g[S \ {Max(S)}], s[Max(S)])
    <3>2. \A S \in SUBSET (1 .. k) :
            f[S] = IF S = {} THEN b ELSE AddCarried(f[S \ {Max(S)}], s[Max(S)])
      BY <3>1
    <3>3. \A S \in SUBSET (1 .. k) : S \in SUBSET (1 .. k + 1) /\ k + 1 \notin S
      OBVIOUS
    <3>4. \A S \in SUBSET (1 .. k) : g[S] = f[S]
      BY <3>2, <3>3
    <3>5. ASSUME NEW S \in SUBSET (1 .. k + 1) PROVE g[S] = New(S)
      <4>1. CASE S = {}
        BY <4>1
      <4>2. CASE k + 1 \in S
        <5>1. S \ {k + 1} \in SUBSET (1 .. k) /\ Max(S) = k + 1 /\ S # {}
          BY <4>2, GreatestOf
        <5>2. g[S] = AddCarried(f[S \ {k + 1}], s[k + 1])
          BY <4>2, <5>1
        <5>3. g[S \ {k + 1}] = f[S \ {k + 1}]
          BY <5>1, <3>4
        <5> HIDE DEF g
        <5> QED BY <5>1, <5>2, <5>3
      <4>3. CASE S # {} /\ k + 1 \notin S
        <5>1. S \in SUBSET (1 .. k)
          BY <4>3
        <5>0. S \ {Max(S)} \in SUBSET (1 .. k)
          BY <5>1
        <5>2. g[S] = f[S] /\ g[S \ {Max(S)}] = f[S \ {Max(S)}]
          BY <5>0, <5>1, <3>4
        <5> HIDE DEF g
        <5> QED BY <5>1, <5>2, <4>3, <3>2
      <4> QED BY <4>1, <4>2, <4>3
    <3>6. g = [S \in SUBSET (1 .. k + 1) |-> New(S)]
      <4> DEFINE h == [S \in SUBSET (1 .. k + 1) |-> New(S)]
      <4>1. \A S \in SUBSET (1 .. k + 1) : h[S] = g[S]
        <5> HIDE DEF New, g
        <5> QED BY <3>5
      <4>2. DOMAIN h = SUBSET (1 .. k + 1) /\ h = [S \in SUBSET (1 .. k + 1) |-> h[S]]
        <5> HIDE DEF New
        <5> QED OBVIOUS
      <4>3. g = [S \in SUBSET (1 .. k + 1) |-> g[S]]
        OBVIOUS
      <4> HIDE DEF g, h
      <4>4. h = g
        BY <4>1, <4>2, <4>3
      <4> QED BY <4>4 DEF h
    <3> HIDE DEF g
    <3>7. Is(g, k + 1)
      BY <3>6
    <3> HIDE DEF Is
    <3>8. \E it : Is(it, k + 1)
      BY <3>7
    <3> QED BY <3>8
  <2> HIDE DEF Some
  <2> QED BY <2>1, <2>2, NumbersByInduction
<1>2. PICK e : Is(e, n)
  BY <1>1
<1> DEFINE f == CHOOSE it : Is(it, n)
<1>3. Is(f, n)
  BY <1>2
<1>4. FoldLeft(AddCarried, b, s) = f[1 .. n]
  BY DEF FoldLeft, MapThenFoldSet
<1> HIDE DEF f
<1>5. \A S \in SUBSET (1 .. n) :
        f[S] = IF S = {} THEN b ELSE AddCarried(f[S \ {Max(S)}], s[Max(S)])
  BY <1>3
<1> DEFINE Q == {k \in Nat : k <= n => <<k, f[1 .. k]>> \in R}
<1>6. 0 \in Q
  <2>1. 1 .. 0 = {} /\ {} \in SUBSET (1 .. n)
    OBVIOUS
  <2>2. f[1 .. 0] = b
    BY <2>1, <1>5
  <2> QED BY <2>2
<1>7. ASSUME NEW k \in Nat, k \in Q PROVE k + 1 \in Q
  <2> SUFFICES ASSUME k + 1 <= n PROVE <<k + 1, f[1 .. k + 1]>> \in R
    OBVIOUS
  <2>1. <<k, f[1 .. k]>> \in R
    BY <1>7
  <2> HIDE DEF Q
  <2>2. k + 1 \in 1 .. k + 1 /\ k + 1 \in 1 .. n /\ (k + 1) - 1 = k
    OBVIOUS
  <2>3. 1 .. k + 1 \in SUBSET (1 .. n) /\ 1 .. k + 1 # {}
    <3>1. \A i \in 1 .. k + 1 : i \in 1 .. n
      OBVIOUS
    <3> QED BY <3>1, <2>2
  <2>4. (1 .. k + 1) \ {k + 1} = 1 .. k
    OBVIOUS
  <2>5. Max(1 .. k + 1) = k + 1
    BY <2>2, GreatestOf
  <2>6. f[1 .. k + 1] = AddCarried(f[1 .. k], s[k + 1])
    BY <2>2, <2>3, <2>4, <2>5, <1>5
  <2> QED BY <2>1, <2>2, <2>6
<1> HIDE DEF Q
<1>8. n \in Q
  BY <1>6, <1>7, NumbersByInduction
<1> QED BY <1>8, <1>4 DEF Q

\* The state of inputToChatMessages after the items of s.
Placed(s, p, keep) == FoldLeft(LAMBDA a, item : PlaceItem(a, item, p, keep), Start, s)

\* What holds at the start and is kept by every item that is placed holds after all.
LEMMA PlacedByInduction ==
  ASSUME NEW s, NEW n \in Nat, DOMAIN s = 1 .. n, NEW p, NEW keep, NEW R, <<0, Start>> \in R,
         \A i \in 1 .. n : \A a :
           <<i - 1, a>> \in R => <<i, PlaceItem(a, s[i], p, keep)>> \in R
  PROVE  <<n, Placed(s, p, keep)>> \in R
<1> DEFINE Is(it, k) ==
             it = [S \in SUBSET (1 .. k) |->
                     IF S = {} THEN Start ELSE PlaceItem(it[S \ {Max(S)}], s[Max(S)], p, keep)]
           Some == {k \in Nat : \E it : Is(it, k)}
<1>1. \A k \in Nat : k \in Some
  <2>1. 0 \in Some
    <3> DEFINE g == [S \in SUBSET (1 .. 0) |-> Start]
    <3>1. \A S \in SUBSET (1 .. 0) : S = {}
      OBVIOUS
    <3>2. Is(g, 0)
      BY <3>1
    <3> HIDE DEF Is
    <3>3. \E it : Is(it, 0)
      BY <3>2
    <3> QED BY <3>3
  <2>2. ASSUME NEW k \in Nat, k \in Some PROVE k + 1 \in Some
    <3>1. PICK f : Is(f, k)
      BY <2>2
    <3> DEFINE g == [S \in SUBSET (1 .. k + 1) |->
                       IF S = {} THEN Start
                       ELSE IF k + 1 \in S THEN PlaceItem(f[S \ {k + 1}], s[k + 1], p, keep) ELSE f[S]]
               New(S) == IF S = {} THEN Start ELSE PlaceItem(g[S \ {Max(S)}], s[Max(S)], p, keep)
    <3>2. \A S \in SUBSET (1 .. k) :
            f[S] = IF S = {} THEN Start ELSE PlaceItem(f[S \ {Max(S)}], s[Max(S)], p, keep)
      BY <3>1
    <3>3. \A S \in SUBSET (1 .. k) : S \in SUBSET (1 .. k + 1) /\ k + 1 \notin S
      OBVIOUS
    <3>4. \A S \in SUBSET (1 .. k) : g[S] = f[S]
      BY <3>2, <3>3
    <3>5. ASSUME NEW S \in SUBSET (1 .. k + 1) PROVE g[S] = New(S)
      <4>1. CASE S = {}
        BY <4>1
      <4>2. CASE k + 1 \in S
        <5>1. S \ {k + 1} \in SUBSET (1 .. k) /\ Max(S) = k + 1 /\ S # {}
          BY <4>2, GreatestOf
        <5>2. g[S] = PlaceItem(f[S \ {k + 1}], s[k + 1], p, keep)
          BY <4>2, <5>1
        <5>3. g[S \ {k + 1}] = f[S \ {k + 1}]
          BY <5>1, <3>4
        <5> HIDE DEF g
        <5> QED BY <5>1, <5>2, <5>3
      <4>3. CASE S # {} /\ k + 1 \notin S
        <5>1. S \in SUBSET (1 .. k)
          BY <4>3
        <5>0. S \ {Max(S)} \in SUBSET (1 .. k)
          BY <5>1
        <5>2. g[S] = f[S] /\ g[S \ {Max(S)}] = f[S \ {Max(S)}]
          BY <5>0, <5>1, <3>4
        <5> HIDE DEF g
        <5> QED BY <5>1, <5>2, <4>3, <3>2
      <4> QED BY <4>1, <4>2, <4>3
    <3>6. g = [S \in SUBSET (1 .. k + 1) |-> New(S)]
      <4> DEFINE h == [S \in SUBSET (1 .. k + 1) |-> New(S)]
      <4>1. \A S \in SUBSET (1 .. k + 1) : h[S] = g[S]
        <5> HIDE DEF New, g
        <5> QED BY <3>5
      <4>2. DOMAIN h = SUBSET (1 .. k + 1) /\ h = [S \in SUBSET (1 .. k + 1) |-> h[S]]
        <5> HIDE DEF New
        <5> QED OBVIOUS
      <4>3. g = [S \in SUBSET (1 .. k + 1) |-> g[S]]
        OBVIOUS
      <4> HIDE DEF g, h
      <4>4. h = g
        BY <4>1, <4>2, <4>3
      <4> QED BY <4>4 DEF h
    <3> HIDE DEF g
    <3>7. Is(g, k + 1)
      BY <3>6
    <3> HIDE DEF Is
    <3>8. \E it : Is(it, k + 1)
      BY <3>7
    <3> QED BY <3>8
  <2> HIDE DEF Some
  <2> QED BY <2>1, <2>2, NumbersByInduction
<1>2. PICK e : Is(e, n)
  BY <1>1
<1> DEFINE f == CHOOSE it : Is(it, n)
<1>3. Is(f, n)
  BY <1>2
<1>4. Placed(s, p, keep) = f[1 .. n]
  BY DEF FoldLeft, MapThenFoldSet, Placed
<1> HIDE DEF f
<1>5. \A S \in SUBSET (1 .. n) :
        f[S] = IF S = {} THEN Start ELSE PlaceItem(f[S \ {Max(S)}], s[Max(S)], p, keep)
  BY <1>3
<1> DEFINE Q == {k \in Nat : k <= n => <<k, f[1 .. k]>> \in R}
<1>6. 0 \in Q
  <2>1. 1 .. 0 = {} /\ {} \in SUBSET (1 .. n)
    OBVIOUS
  <2>2. f[1 .. 0] = Start
    BY <2>1, <1>5
  <2> QED BY <2>2
<1>7. ASSUME NEW k \in Nat, k \in Q PROVE k + 1 \in Q
  <2> SUFFICES ASSUME k + 1 <= n PROVE <<k + 1, f[1 .. k + 1]>> \in R
    OBVIOUS
  <2>1. <<k, f[1 .. k]>> \in R
    BY <1>7
  <2> HIDE DEF Q
  <2>2. k + 1 \in 1 .. k + 1 /\ k + 1 \in 1 .. n /\ (k + 1) - 1 = k
    OBVIOUS
  <2>3. 1 .. k + 1 \in SUBSET (1 .. n) /\ 1 .. k + 1 # {}
    <3>1. \A i \in 1 .. k + 1 : i \in 1 .. n
      OBVIOUS
    <3> QED BY <3>1, <2>2
  <2>4. (1 .. k + 1) \ {k + 1} = 1 .. k
    OBVIOUS
  <2>5. Max(1 .. k + 1) = k + 1
    BY <2>2, GreatestOf
  <2>6. f[1 .. k + 1] = PlaceItem(f[1 .. k], s[k + 1], p, keep)
    BY <2>2, <2>3, <2>4, <2>5, <1>5
  <2> QED BY <2>1, <2>2, <2>6
<1> HIDE DEF Q
<1>8. n \in Q
  BY <1>6, <1>7, NumbersByInduction
<1> QED BY <1>8, <1>4 DEF Q

LEMMA ChatMessagesOfPlaced ==
  ASSUME NEW input, NEW opts
  PROVE  inputToChatMessages(input, opts) =
           backfillToolCallReasoningPlaceholders(
             attachReasoningToPreviousAssistant(flushPendingToolCalls(
               Placed(input, PairedToolCallIDs(input), opts.images /\ ~opts.omit))).messages)
BY DEF inputToChatMessages, Placed, FoldLeft, MapThenFoldSet

-----------------------------------------------------------------------------
(* Stamps *)

LEMMA FirstFresh ==
  ASSUME NEW S, IsFiniteSet(S), NEW m \in Nat, Cardinality(S) <= m, NEW k \in Nat \ {0}
  PROVE  \E n \in 1 .. m + k : n \notin S /\ Cardinality((1 .. n) \ S) = k
<1> DEFINE Free(n) == Cardinality((1 .. n) \ S)
           Enough == {n \in Nat : Free(n) >= k}
<1>1. \A n \in Nat : IsFiniteSet((1 .. n) \ S) /\ Free(n) \in Nat
  <2> SUFFICES ASSUME NEW n \in Nat PROVE IsFiniteSet((1 .. n) \ S) /\ Free(n) \in Nat
    OBVIOUS
  <2>1. IsFiniteSet(1 .. n)
    BY FS_Interval
  <2>2. (1 .. n) \ S \in SUBSET (1 .. n)
    OBVIOUS
  <2> QED BY <2>1, <2>2, FS_Subset, FS_CardinalityType
<1>2. \A n \in Nat : Free(n + 1) = IF n + 1 \in S THEN Free(n) ELSE Free(n) + 1
  <2> SUFFICES ASSUME NEW n \in Nat
               PROVE  Free(n + 1) = IF n + 1 \in S THEN Free(n) ELSE Free(n) + 1
    OBVIOUS
  <2>1. n + 1 \notin (1 .. n) \ S
    OBVIOUS
  <2>2. CASE n + 1 \in S
    <3>1. (1 .. n + 1) \ S = (1 .. n) \ S
      BY <2>2
    <3> QED BY <3>1, <2>2
  <2>3. CASE n + 1 \notin S
    <3>1. (1 .. n + 1) \ S = ((1 .. n) \ S) \cup {n + 1}
      BY <2>3
    <3> QED BY <3>1, <2>1, <2>3, <1>1, FS_AddElement
  <2> QED BY <2>2, <2>3
<1>3. Free(0) = 0
  <2>1. (1 .. 0) \ S = {}
    OBVIOUS
  <2>2. Cardinality({}) = 0
    BY FS_EmptySet
  <2> QED BY <2>1, <2>2
<1>4. Free(m + k) >= k
  <2>1. IsFiniteSet(1 .. m + k) /\ Cardinality(1 .. m + k) = m + k
    BY FS_Interval
  <2> DEFINE C == (1 .. m + k) \cap S
             F == (1 .. m + k) \ S
  <2>2. IsFiniteSet(C) /\ Cardinality(C) \in Nat /\ Cardinality(C) <= m
    <3>1. C \in SUBSET S
      OBVIOUS
    <3>2. Cardinality(S) \in Nat
      BY FS_CardinalityType
    <3>3. IsFiniteSet(C) /\ Cardinality(C) <= Cardinality(S)
      BY <3>1, FS_Subset
    <3>4. Cardinality(C) \in Nat
      BY <3>3, FS_CardinalityType
    <3> HIDE DEF C
    <3> QED BY <3>2, <3>3, <3>4
  <2>3. IsFiniteSet(F) /\ Cardinality(F) \in Nat
    <3>1. m + k \in Nat
      OBVIOUS
    <3> QED BY <3>1, <1>1
  <2>4. C \cup F = 1 .. m + k /\ C \cap F = {}
    OBVIOUS
  <2>5. Cardinality({}) = 0
    BY FS_EmptySet
  <2>6. F = (1 .. m + k) \ S
    OBVIOUS
  <2> HIDE DEF C, F
  <2>7. Cardinality(C \cup F) = Cardinality(C) + Cardinality(F) - Cardinality(C \cap F)
    BY <2>2, <2>3, FS_Union
  <2>8. m + k = Cardinality(C) + Cardinality(F) - 0
    BY <2>1, <2>4, <2>5, <2>7
  <2>9. Cardinality(F) >= k
    BY <2>2, <2>3, <2>8
  <2> QED BY <2>9, <2>6
<1> HIDE DEF Free
<1>5. PICK n \in Enough : \A j \in Enough : n <= j
  <2>1. Enough \in SUBSET Nat /\ m + k \in Enough
    BY <1>4
  <2> HIDE DEF Enough
  <2> QED BY <2>1, LeastElement
<1>6. n \in Nat /\ Free(n) >= k /\ n <= m + k
  <2>1. m + k \in Enough
    BY <1>4
  <2> QED BY <2>1, <1>5
<1>7. n # 0
  BY <1>6, <1>3
<1>8. n - 1 \in Nat /\ (n - 1) + 1 = n /\ ~(n <= n - 1)
  BY <1>6, <1>7
<1>9. Free(n - 1) \in Nat /\ Free(n - 1) < k
  <2>1. n - 1 \notin Enough
    BY <1>5, <1>8
  <2>2. Free(n - 1) \in Nat
    BY <1>1, <1>8 DEF Free
  <2> QED BY <2>1, <2>2, <1>8
<1>10. Free(n) = IF n \in S THEN Free(n - 1) ELSE Free(n - 1) + 1
  BY <1>2, <1>8
<1>11. n \notin S /\ Free(n) = k
  <2>1. Free(n) \in Nat
    BY <1>1, <1>6 DEF Free
  <2> QED BY <2>1, <1>6, <1>9, <1>10
<1>12. n \in 1 .. m + k
  BY <1>6, <1>7
<1>13. Cardinality((1 .. n) \ S) = k
  BY <1>11 DEF Free
<1> QED BY <1>11, <1>12, <1>13

\* A history of at most MaxItems items: what an item may be, and its stamp.
Marks == 1 .. MaxItems + 4

Items ==
  [kind : {"user", "result"}, of : Marks, image : Images]
    \cup [kind : {"system"}, of : Marks, string : BOOLEAN]
    \cup [kind : {"carrier"}, of : {0}, tools : Groups]
    \cup [kind : {"reasoning", "assistant"}, of : Marks]
    \cup [kind : {"call"}, of : Marks, tool : Tools, meant : Tools]

LEMMA ItemFields ==
  \A x \in Items : x.of \in 0 .. MaxItems + 4 /\ (x.of = 0 <=> x.kind = "carrier")
BY ConversationAssumption DEF Items, Marks

LEMMA StampsAreFew ==
  ASSUME NEW h \in Seq(Items)
  PROVE  IsFiniteSet(Stamps(h)) /\ Cardinality(Stamps(h)) <= Len(h)
<1>1. Len(h) \in Nat /\ DOMAIN h = 1 .. Len(h)
  OBVIOUS
<1> DEFINE f == [i \in 1 .. Len(h) |-> h[i].of]
<1>2. f \in Surjection(1 .. Len(h), Stamps(h))
  BY <1>1 DEF Surjection, Stamps
<1>3. ExistsSurjection(1 .. Len(h), Stamps(h))
  BY <1>2 DEF ExistsSurjection
<1>4. IsFiniteSet(1 .. Len(h))
  BY <1>1, FS_Interval
<1> QED BY <1>1, <1>2, <1>3, <1>4, FS_Surjection, FS_SurjCardinalityBound

LEMMA FreshIsFresh ==
  ASSUME NEW h \in Seq(Items), Len(h) <= MaxItems, NEW k \in 1 .. 4
  PROVE  /\ Fresh(h, k) \in Marks /\ Fresh(h, k) \notin Stamps(h)
         /\ Cardinality((1 .. Fresh(h, k)) \ Stamps(h)) = k
<1>1. \E n \in 1 .. MaxItems + k : n \notin Stamps(h) /\ Cardinality((1 .. n) \ Stamps(h)) = k
  <2>1. MaxItems \in Nat
    BY ConversationAssumption
  <2>2. IsFiniteSet(Stamps(h)) /\ Cardinality(Stamps(h)) <= MaxItems
    <3>1. Len(h) \in Nat
      OBVIOUS
    <3>2. IsFiniteSet(Stamps(h)) /\ Cardinality(Stamps(h)) <= Len(h)
      BY StampsAreFew
    <3>3. Cardinality(Stamps(h)) \in Nat
      BY <3>2, FS_CardinalityType
    <3> QED BY <2>1, <3>1, <3>2, <3>3
  <2>3. k \in Nat \ {0}
    OBVIOUS
  <2> QED BY <2>1, <2>2, <2>3, FirstFresh
<1>2. \A n \in 1 .. MaxItems + k : n \in 1 .. MaxItems + 4
  BY ConversationAssumption
<1> QED BY <1>1, <1>2 DEF Fresh, Marks

LEMMA FreshDiffer ==
  ASSUME NEW h \in Seq(Items), Len(h) <= MaxItems, NEW k \in 1 .. 4, NEW l \in 1 .. 4, k # l
  PROVE  Fresh(h, k) # Fresh(h, l)
BY FreshIsFresh

-----------------------------------------------------------------------------
(* What flattening and filtering keep *)

LEMMA FlattenTyped ==
  ASSUME NEW V, NEW ss \in Seq(Seq(V))
  PROVE  FlattenSeq(ss) \in Seq(V)
<1>1. Len(ss) \in Nat /\ \A i \in 1 .. Len(ss) : ss[i] \in Seq(V)
  OBVIOUS
<1>2. CASE Len(ss) = 0
  <2>1. ss = <<>>
    BY <1>2
  <2>2. FlattenSeq(ss) = ss
    BY <1>2 DEF FlattenSeq
  <2>3. <<>> \in Seq(V)
    OBVIOUS
  <2> QED BY <2>1, <2>2, <2>3
<1>3. CASE Len(ss) # 0
  <2> DEFINE R == Nat \X Seq(V)
             n == Len(ss)
  <2>1. n \in Nat \ {0} /\ Len(ss) = n
    BY <1>1, <1>3
  <2>2. <<1, ss[1]>> \in R
    BY <1>1, <1>3
  <2>3. \A i \in 1 .. n - 1 : \A x : <<i, x>> \in R => <<i + 1, x \o ss[i + 1]>> \in R
    <3> SUFFICES ASSUME NEW i \in 1 .. n - 1, NEW x, <<i, x>> \in R
                 PROVE  <<i + 1, x \o ss[i + 1]>> \in R
      OBVIOUS
    <3>1. x \in Seq(V)
      BY DEF R
    <3>2. ss[i + 1] \in Seq(V) /\ i + 1 \in Nat
      BY <1>1
    <3>3. x \o ss[i + 1] \in Seq(V)
      BY <3>1, <3>2, ConcatProperties
    <3> QED BY <3>2, <3>3 DEF R
  <2> HIDE DEF R, n
  <2>4. <<n, FlattenSeq(ss)>> \in R
    BY <2>1, <2>2, <2>3, FlattenByInduction
  <2> QED BY <2>4 DEF R
<1> QED BY <1>2, <1>3

\* Nothing is lost either.
LEMMA FlattenKeeps ==
  ASSUME NEW V, NEW ss \in Seq(Seq(V)), NEW k \in DOMAIN ss, NEW j \in DOMAIN ss[k]
  PROVE  ss[k][j] \in ToSet(FlattenSeq(ss))
<1> DEFINE n == Len(ss)
           v == ss[k][j]
           Has(x) == \E q \in DOMAIN x : x[q] = v
           Q == {p \in Nat \X Seq(V) : k <= p[1] => Has(p[2])}
<1>1. n \in Nat \ {0} /\ Len(ss) = n /\ k \in 1 .. n /\ \A i \in 1 .. n : ss[i] \in Seq(V)
  OBVIOUS
<1>0. \A i, x : <<i, x>> \in Q <=> i \in Nat /\ x \in Seq(V) /\ (k <= i => Has(x))
  <2> HIDE DEF Has
  <2> QED OBVIOUS
<1> HIDE DEF Q
<1>2. <<1, ss[1]>> \in Q
  <2>1. ss[1] \in Seq(V)
    BY <1>1
  <2>2. k <= 1 => k = 1
    BY <1>1
  <2>3. Has(ss[k])
    OBVIOUS
  <2> HIDE DEF Has
  <2> QED BY <1>0, <2>1, <2>2, <2>3
<1>3. \A i \in 1 .. n - 1 : \A x : <<i, x>> \in Q => <<i + 1, x \o ss[i + 1]>> \in Q
  <2> SUFFICES ASSUME NEW i \in 1 .. n - 1, NEW x, <<i, x>> \in Q
               PROVE  <<i + 1, x \o ss[i + 1]>> \in Q
    OBVIOUS
  <2>1. x \in Seq(V) /\ (k <= i => Has(x))
    BY <1>0
  <2>2. i + 1 \in 1 .. n /\ i + 1 \in Nat /\ ss[i + 1] \in Seq(V)
    BY <1>1
  <2> DEFINE y == ss[i + 1]
             z == x \o y
  <2>3. z \in Seq(V) /\ Len(z) = Len(x) + Len(y) /\ Len(x) \in Nat /\ Len(y) \in Nat
        /\ (\A q \in 1 .. Len(x) : z[q] = x[q])
        /\ (\A q \in 1 .. Len(y) : z[Len(x) + q] = y[q])
    BY <2>1, <2>2
  <2>4. DOMAIN z = 1 .. Len(x) + Len(y) /\ DOMAIN x = 1 .. Len(x) /\ DOMAIN y = 1 .. Len(y)
    BY <2>1, <2>2, <2>3
  <2>5. ASSUME k <= i + 1 PROVE Has(z)
    <3>1. CASE k <= i
      <4>1. PICK q \in DOMAIN x : x[q] = v
        BY <2>1, <3>1
      <4> HIDE DEF z, y
      <4>2. q \in DOMAIN z /\ z[q] = v
        BY <4>1, <2>3, <2>4
      <4> QED BY <4>2
    <3>2. CASE k = i + 1
      <4>1. j \in DOMAIN y /\ y[j] = v
        BY <3>2
      <4> HIDE DEF z, y, v
      <4>2. Len(x) + j \in DOMAIN z /\ z[Len(x) + j] = v
        BY <4>1, <2>3, <2>4
      <4> QED BY <4>2
    <3>3. k <= i \/ k = i + 1
      BY <2>5, <1>1
    <3> QED BY <3>1, <3>2, <3>3
  <2> HIDE DEF z, v, Has
  <2>6. <<i + 1, z>> \in Q
    BY <2>2, <2>3, <2>5, <1>0
  <2> QED BY <2>6 DEF z
<1>4. <<n, FlattenSeq(ss)>> \in Q
  BY <1>1, <1>2, <1>3, FlattenByInduction
<1>5. Has(FlattenSeq(ss))
  <2>1. k <= n
    BY <1>1
  <2> HIDE DEF Has
  <2> QED BY <1>4, <1>0, <2>1
<1> QED BY <1>5 DEF ToSet

\* Whatever comes out was in one of the sequences.
LEMMA FlattenElements ==
  ASSUME NEW V, NEW ss \in Seq(Seq(V)), NEW x \in ToSet(FlattenSeq(ss))
  PROVE  \E i \in DOMAIN ss : x \in ToSet(ss[i])
<1> DEFINE W == UNION {ToSet(ss[i]) : i \in DOMAIN ss}
<1>1. \A i \in DOMAIN ss : ss[i] \in Seq(W)
  <2> SUFFICES ASSUME NEW i \in DOMAIN ss PROVE ss[i] \in Seq(W)
    OBVIOUS
  <2>1. ss[i] \in Seq(V)
    OBVIOUS
  <2>2. \A j \in DOMAIN ss[i] : ss[i][j] \in W
    BY DEF ToSet
  <2>3. Len(ss[i]) \in Nat /\ ss[i] = [j \in 1 .. Len(ss[i]) |-> ss[i][j]]
        /\ DOMAIN ss[i] = 1 .. Len(ss[i])
    BY <2>1
  <2> HIDE DEF W
  <2>4. ss[i] \in [1 .. Len(ss[i]) -> W]
    BY <2>2, <2>3
  <2> QED BY <2>3, <2>4, SeqDef
<1>2. ss \in Seq(Seq(W))
  <2>1. Len(ss) \in Nat /\ ss = [j \in 1 .. Len(ss) |-> ss[j]] /\ DOMAIN ss = 1 .. Len(ss)
    OBVIOUS
  <2> HIDE DEF W
  <2> QED BY <2>1, <1>1, IsASeq
<1> HIDE DEF W
<1>3. FlattenSeq(ss) \in Seq(W)
  BY <1>2, FlattenTyped
<1>4. x \in W
  BY <1>3 DEF ToSet
<1> QED BY <1>4 DEF W

-----------------------------------------------------------------------------
(* The tools of a request *)

\* What the context is after the first n carried tools: no two tools under one
\* name, each declared one has its name among them, and those of a namespace
\* are all to be restored, unless a name clashed.
ContextFits(c, given, carried, n) ==
  /\ c \in [tools : Seq(Tools), restore : SUBSET Tools, clash : BOOLEAN]
  /\ \A i, j \in DOMAIN c.tools :
       flattenNamespaceToolName(c.tools[i]) = flattenNamespaceToolName(c.tools[j]) => i = j
  /\ c.restore = {t \in ToSet(c.tools) : t.ns # <<>>}
  /\ ToSet(given) \subseteq ToSet(c.tools)
  /\ \A t \in ToSet(c.tools) : t \in ToSet(given) \/ \E i \in 1 .. n : t = carried[i]
  /\ \A i \in 1 .. n :
       /\ \E t \in ToSet(c.tools) :
            flattenNamespaceToolName(t) = flattenNamespaceToolName(carried[i])
       /\ carried[i].ns # <<>> /\ ~c.clash => carried[i] \in c.restore

LEMMA TopFits ==
  ASSUME NEW given \in Tops, NEW carried
  PROVE  ContextFits([tools |-> given, restore |-> {}, clash |-> FALSE], given, carried, 0)
<1>1. given \in Seq(Tools) /\ \A i \in DOMAIN given : given[i].ns = <<>>
  BY ConversationAssumption
<1>2. \A i, j \in DOMAIN given : given[i].name = given[j].name => i = j
  <2> DEFINE f == [i \in DOMAIN given |-> given[i].name]
  <2>1. IsInjective(f)
    BY ConversationAssumption
  <2> QED BY <2>1 DEF IsInjective
<1>3. \A i \in DOMAIN given : /\ given[i] \in Tools
                              /\ flattenNamespaceToolName(given[i]) = given[i].name
  <2> SUFFICES ASSUME NEW i \in DOMAIN given
               PROVE  given[i] \in Tools /\ flattenNamespaceToolName(given[i]) = given[i].name
    OBVIOUS
  <2>1. given[i] \in Tools
    BY <1>1
  <2>2. given[i].name \in Seq(STRING)
    BY <2>1 DEF Tools
  <2>3. <<>> \o given[i].name = given[i].name
    BY <2>2, ConcatEmptySeq
  <2> QED BY <1>1, <2>1, <2>3 DEF flattenNamespaceToolName
<1> DEFINE c == [tools |-> given, restore |-> {}, clash |-> FALSE]
<1>4. c.tools = given /\ c.restore = {} /\ c.clash = FALSE
      /\ c \in [tools : Seq(Tools), restore : SUBSET Tools, clash : BOOLEAN]
  BY <1>1
<1> HIDE DEF c
<1>5. ContextFits(c, given, carried, 0)
  <2>1. \A t \in ToSet(given) : t.ns = <<>>
    BY <1>1 DEF ToSet
  <2>2. 1 .. 0 = {}
    OBVIOUS
  <2>3. \A i, j \in DOMAIN given :
          flattenNamespaceToolName(given[i]) = flattenNamespaceToolName(given[j]) => i = j
    BY <1>2, <1>3
  <2> QED BY <1>4, <2>1, <2>2, <2>3 DEF ContextFits
<1> QED BY <1>5 DEF c

LEMMA AddCarriedFits ==
  ASSUME NEW given, NEW carried \in Seq(Tools), NEW i \in DOMAIN carried, NEW c,
         ContextFits(c, given, carried, i - 1)
  PROVE  ContextFits(AddCarried(c, carried[i]), given, carried, i)
<1> DEFINE t == carried[i]
           d == AddCarried(c, t)
           Name(u) == flattenNamespaceToolName(u)
<1>1. t \in Tools /\ i \in 1 .. Len(carried) /\ i - 1 \in Nat
  OBVIOUS
<1>2. c.tools \in Seq(Tools) /\ c.restore \in SUBSET Tools /\ c.clash \in BOOLEAN
  BY DEF ContextFits
<1>3. \A j \in 1 .. i : j \in 1 .. i - 1 \/ j = i
  BY <1>1
<1>4. CASE \E u \in ToSet(c.tools) : Name(u) = Name(t)
  <2>1. d = [c EXCEPT !.clash = @ \/ t.ns # <<>>]
    BY <1>4 DEF AddCarried
  <2>2. /\ d.tools = c.tools /\ d.restore = c.restore /\ d.clash = (c.clash \/ t.ns # <<>>)
        /\ d \in [tools : Seq(Tools), restore : SUBSET Tools, clash : BOOLEAN]
    BY <2>1, <1>2 DEF ContextFits
  <2> HIDE DEF d, t
  <2>3. \A j \in 1 .. i :
          /\ \E u \in ToSet(d.tools) : Name(u) = Name(carried[j])
          /\ carried[j].ns # <<>> /\ ~d.clash => carried[j] \in d.restore
    BY <2>2, <1>3, <1>4 DEF ContextFits, t
  <2>4. \A u \in ToSet(d.tools) : u \in ToSet(given) \/ \E j \in 1 .. i : u = carried[j]
    <3>1. \A j \in 1 .. i - 1 : j \in 1 .. i
      BY <1>1
    <3> QED BY <2>2, <3>1 DEF ContextFits
  <2> QED BY <2>2, <2>3, <2>4 DEF ContextFits, d, t
<1>5. CASE \A u \in ToSet(c.tools) : Name(u) # Name(t)
  <2> DEFINE s == Append(c.tools, t)
             n == Len(c.tools)
  <2>1. d = [c EXCEPT !.tools = s, !.restore = IF t.ns = <<>> THEN @ ELSE @ \cup {t}]
    BY <1>5 DEF AddCarried
  <2>2. s \in Seq(Tools) /\ n \in Nat /\ DOMAIN s = 1 .. n + 1 /\ DOMAIN c.tools = 1 .. n
        /\ s[n + 1] = t /\ \A j \in 1 .. n : s[j] = c.tools[j]
    BY <1>1, <1>2
  <2>3. /\ d.tools = s /\ d.clash = c.clash
        /\ d.restore = IF t.ns = <<>> THEN c.restore ELSE c.restore \cup {t}
        /\ d \in [tools : Seq(Tools), restore : SUBSET Tools, clash : BOOLEAN]
    <3>1. c \in [tools : Seq(Tools), restore : SUBSET Tools, clash : BOOLEAN]
      BY DEF ContextFits
    <3> HIDE DEF s, d, t
    <3>2. (IF t.ns = <<>> THEN c.restore ELSE c.restore \cup {t}) \in SUBSET Tools
      BY <1>1, <1>2 DEF t
    <3> QED BY <2>1, <2>2, <3>1, <3>2
  <2> HIDE DEF d, t, s, n
  <2>4. ASSUME NEW j \in DOMAIN s
        PROVE  (j \in DOMAIN c.tools /\ s[j] = c.tools[j]) \/ (j = n + 1 /\ s[j] = t)
    <3>1. j \in 1 .. n \/ j = n + 1
      BY <2>2
    <3> QED BY <2>2, <3>1
  <2>5. ToSet(s) = ToSet(c.tools) \cup {t}
    <3>1. \A j \in DOMAIN c.tools : j \in DOMAIN s /\ s[j] = c.tools[j]
      BY <2>2
    <3>2. n + 1 \in DOMAIN s /\ s[n + 1] = t
      BY <2>2
    <3> QED BY <2>4, <3>1, <3>2 DEF ToSet
  <2>6. \A j, k \in DOMAIN s : Name(s[j]) = Name(s[k]) => j = k
    <3>1. \A j \in DOMAIN c.tools : Name(c.tools[j]) # Name(t)
      BY <1>5 DEF ToSet
    <3>2. \A j, k \in DOMAIN c.tools : Name(c.tools[j]) = Name(c.tools[k]) => j = k
      BY DEF ContextFits
    <3> HIDE DEF Name
    <3> QED BY <2>4, <3>1, <3>2
  <2>7. d.restore = {u \in ToSet(s) : u.ns # <<>>}
    <3>1. c.restore = {u \in ToSet(c.tools) : u.ns # <<>>}
      BY DEF ContextFits
    <3> QED BY <3>1, <2>3, <2>5
  <2>8. \A j \in 1 .. i :
          /\ \E u \in ToSet(s) : Name(u) = Name(carried[j])
          /\ carried[j].ns # <<>> /\ ~d.clash => carried[j] \in d.restore
    <3>1. \A j \in 1 .. i - 1 :
            /\ \E u \in ToSet(c.tools) : Name(u) = Name(carried[j])
            /\ carried[j].ns # <<>> /\ ~d.clash => carried[j] \in c.restore
      BY <2>3 DEF ContextFits
    <3>2. c.restore \subseteq d.restore /\ (t.ns # <<>> => t \in d.restore)
      BY <2>3
    <3>3. carried[i] = t
      BY DEF t
    <3> HIDE DEF Name
    <3>4. ASSUME NEW j \in 1 .. i - 1
          PROVE /\ \E u \in ToSet(s) : Name(u) = Name(carried[j])
                /\ carried[j].ns # <<>> /\ ~d.clash => carried[j] \in d.restore
      BY <3>1, <3>2, <2>5
    <3>5. /\ \E u \in ToSet(s) : Name(u) = Name(carried[i])
          /\ carried[i].ns # <<>> /\ ~d.clash => carried[i] \in d.restore
      BY <3>2, <3>3, <2>5
    <3> QED BY <3>4, <3>5, <1>3
  <2>9. \A u \in ToSet(s) : u \in ToSet(given) \/ \E j \in 1 .. i : u = carried[j]
    <3>1. \A j \in 1 .. i - 1 : j \in 1 .. i
      BY <1>1
    <3>2. i \in 1 .. i /\ carried[i] = t
      BY <1>1 DEF t
    <3>3. \A u \in ToSet(c.tools) : u \in ToSet(given) \/ \E j \in 1 .. i - 1 : u = carried[j]
      BY DEF ContextFits
    <3> QED BY <3>1, <3>2, <3>3, <2>5
  <2>10. ToSet(given) \subseteq ToSet(s)
    BY <2>5 DEF ContextFits
  <2> QED BY <2>3, <2>6, <2>7, <2>8, <2>9, <2>10 DEF ContextFits, d, t
<1> QED BY <1>4, <1>5

LEMMA CarriedTyped ==
  ASSUME NEW h \in Seq(Items)
  PROVE  collectCarriedTools(h) \in Seq(Tools)
<1> DEFINE ss == [i \in DOMAIN h |-> IF h[i].kind = "carrier" THEN h[i].tools ELSE <<>>]
<1>1. \A x \in Items : x.kind = "carrier" => x.tools \in Seq(Tools)
  BY ConversationAssumption DEF Items
<1>2. \A i \in DOMAIN h : ss[i] \in Seq(Tools)
  <2> SUFFICES ASSUME NEW i \in DOMAIN h PROVE ss[i] \in Seq(Tools)
    OBVIOUS
  <2>1. h[i] \in Items
    OBVIOUS
  <2>2. <<>> \in Seq(Tools)
    OBVIOUS
  <2> QED BY <1>1, <2>1, <2>2
<1>3. ss \in Seq(Seq(Tools))
  <2>1. Len(h) \in Nat /\ DOMAIN h = 1 .. Len(h) /\ DOMAIN ss = DOMAIN h
    OBVIOUS
  <2>2. ss \in [1 .. Len(h) -> Seq(Tools)]
    BY <2>1, <1>2
  <2> HIDE DEF ss
  <2> QED BY <2>1, <2>2, SeqDef
<1> HIDE DEF ss
<1>4. FlattenSeq(ss) \in Seq(Tools)
  BY <1>3, FlattenTyped
<1> QED BY <1>4 DEF ss, collectCarriedTools

Contexts == [tools : Seq(Tools), restore : SUBSET Tools, clash : BOOLEAN]

LEMMA ContextBuilt ==
  ASSUME NEW given \in Tops, NEW h \in Seq(Items)
  PROVE  ContextFits(buildCodexToolContext(given, h), given, collectCarriedTools(h),
                     Len(collectCarriedTools(h)))
<1> DEFINE carried == collectCarriedTools(h)
           b == [tools |-> given, restore |-> {}, clash |-> FALSE]
           n == Len(carried)
           R == {p \in Nat \X Contexts : ContextFits(p[2], given, carried, p[1])}
<1>1. carried \in Seq(Tools)
  BY CarriedTyped
<1>2. n \in Nat /\ DOMAIN carried = 1 .. n
  BY <1>1
<1>3. \A i, c : <<i, c>> \in R <=> i \in Nat /\ ContextFits(c, given, carried, i)
  BY DEF ContextFits, Contexts
<1>4. buildCodexToolContext(given, h) = FoldLeft(AddCarried, b, carried)
  BY DEF buildCodexToolContext
<1> HIDE DEF carried, R, n, b
<1>5. <<0, b>> \in R
  BY <1>3, TopFits DEF b
<1>6. ASSUME NEW i \in 1 .. n, NEW a, <<i - 1, a>> \in R
      PROVE  <<i, AddCarried(a, carried[i])>> \in R
  <2>1. ContextFits(a, given, carried, i - 1)
    BY <1>3, <1>6
  <2>2. i \in DOMAIN carried /\ i \in Nat
    BY <1>2
  <2>3. ContextFits(AddCarried(a, carried[i]), given, carried, i)
    BY <1>1, <2>1, <2>2, AddCarriedFits
  <2> QED BY <1>3, <2>2, <2>3
<1>7. <<n, FoldLeft(AddCarried, b, carried)>> \in R
  BY <1>2, <1>5, <1>6, CarriedByInduction
<1> QED BY <1>3, <1>4, <1>7 DEF carried, n

\* A name that is restored is the one that was flattened.
LEMMA RestoredIsMeant ==
  ASSUME NEW c, NEW given, NEW carried, NEW n, ContextFits(c, given, carried, n),
         NEW q, q.tools = c.tools, q.restore = c.restore,
         NEW t \in ToSet(c.tools)
  PROVE  restoreNamespaceNames(q, flattenNamespaceToolName(t)) = t
<1> DEFINE Name(u) == flattenNamespaceToolName(u)
           flat  == Name(t)
           known == {u \in q.restore : Name(u) = flat}
           back  == IF known = {} THEN Tool(<<>>, flat, FALSE) ELSE CHOOSE u \in known : TRUE
<1>1. c.tools \in Seq(Tools)
  BY DEF ContextFits
<1>2. \A u \in ToSet(c.tools) : u \in Tools
  BY <1>1 DEF ToSet
<1>3. \A u, w \in ToSet(c.tools) : Name(u) = Name(w) => u = w
  BY DEF ContextFits, ToSet
<1>4. q.restore = {u \in ToSet(c.tools) : u.ns # <<>>}
  BY DEF ContextFits
<1>5. flat \in collectCustomToolNames(q) <=> t.custom
  <2> HIDE DEF Name, flat
  <2>1. flat = Name(t)
    BY DEF flat
  <2>2. \A u \in ToSet(c.tools) : Name(u) = flat => u = t
    BY <1>3, <2>1
  <2>3. flat \in collectCustomToolNames(q) <=> \E u \in ToSet(c.tools) : u.custom /\ Name(u) = flat
    BY DEF collectCustomToolNames, Name
  <2> QED BY <2>1, <2>2, <2>3
<1>6. back.ns = t.ns /\ back.name = t.name /\ back \in Tools
  <2>1. CASE t.ns = <<>>
    <3>1. known = {}
      <4> HIDE DEF Name
      <4>1. \A u \in q.restore : Name(u) # Name(t)
        BY <1>3, <1>4, <2>1
      <4> QED BY <4>1
    <3>2. t.name \in Seq(STRING)
      BY <1>2 DEF Tools
    <3>3. flat = t.name
      BY <2>1, <3>2, ConcatEmptySeq DEF flattenNamespaceToolName
    <3>4. back = [ns |-> <<>>, name |-> t.name, custom |-> FALSE]
      BY <3>1, <3>3 DEF Tool
    <3>5. <<>> \in Seq(STRING)
      OBVIOUS
    <3> HIDE DEF back
    <3> QED BY <2>1, <3>2, <3>4, <3>5 DEF Tools
  <2>2. CASE t.ns # <<>>
    <3> HIDE DEF Name
    <3>1. t \in known
      BY <1>4, <2>2
    <3>2. \A u \in known : u = t
      BY <1>3, <1>4
    <3>3. back = t
      BY <3>1, <3>2
    <3> QED BY <3>3, <1>2
  <2> QED BY <2>1, <2>2
<1>7. restoreNamespaceNames(q, flat) = [back EXCEPT !.custom = flat \in collectCustomToolNames(q)]
  BY DEF restoreNamespaceNames
<1> HIDE DEF flat, back
<1>8. t.custom \in BOOLEAN /\ t \in Tools
  BY <1>2 DEF Tools
<1>9. (flat \in collectCustomToolNames(q)) = t.custom
  BY <1>5, <1>8
<1>10. [back EXCEPT !.custom = t.custom] = t
  BY <1>6, <1>8 DEF Tools
<1> QED BY <1>7, <1>9, <1>10 DEF flat

-----------------------------------------------------------------------------
(* The history *)

Unique(h) ==
  \A i, j \in DOMAIN h :
    i # j /\ h[i].of = h[j].of /\ h[i].kind # "carrier" =>
      {h[i].kind, h[j].kind} = {"call", "result"}

MeantCalls(h) == \A i \in DOMAIN h : h[i].kind = "call" => h[i].tool = h[i].meant

\* Items that may follow the history h: known by new stamps, each but once, and
\* calls for what was meant.
Follows(g, h) ==
  /\ g \in Seq(Items) /\ Unique(g) /\ MeantCalls(g)
  /\ \A j \in DOMAIN g : g[j].kind # "carrier" => g[j].of \notin Stamps(h)

LEMMA ConcatPlaces ==
  ASSUME NEW V, NEW h \in Seq(V), NEW g \in Seq(V)
  PROVE  /\ h \o g \in Seq(V) /\ Len(h \o g) = Len(h) + Len(g)
         /\ Len(h) \in Nat /\ Len(g) \in Nat
         /\ \A i \in DOMAIN (h \o g) :
              \/ i \in DOMAIN h /\ (h \o g)[i] = h[i]
              \/ i - Len(h) \in DOMAIN g /\ i > Len(h) /\ (h \o g)[i] = g[i - Len(h)]
         /\ \A i \in DOMAIN h : i \in DOMAIN (h \o g) /\ (h \o g)[i] = h[i]
         /\ \A i \in DOMAIN g : Len(h) + i \in DOMAIN (h \o g) /\ (h \o g)[Len(h) + i] = g[i]
<1> DEFINE s == h \o g
<1>1. s \in Seq(V) /\ Len(s) = Len(h) + Len(g) /\ Len(h) \in Nat /\ Len(g) \in Nat
  OBVIOUS
<1>2. DOMAIN s = 1 .. Len(h) + Len(g) /\ DOMAIN h = 1 .. Len(h) /\ DOMAIN g = 1 .. Len(g)
  BY <1>1
<1>3. \A i \in 1 .. Len(h) + Len(g) : s[i] = IF i <= Len(h) THEN h[i] ELSE g[i - Len(h)]
  BY ConcatProperties
<1> HIDE DEF s
<1>4. ASSUME NEW i \in DOMAIN s
      PROVE \/ i \in DOMAIN h /\ s[i] = h[i]
            \/ i - Len(h) \in DOMAIN g /\ i > Len(h) /\ s[i] = g[i - Len(h)]
  <2>1. i \in 1 .. Len(h) + Len(g)
    BY <1>2
  <2>2. CASE i <= Len(h)
    <3>1. i \in 1 .. Len(h)
      BY <1>1, <2>1, <2>2
    <3> QED BY <1>2, <1>3, <2>1, <2>2, <3>1
  <2>3. CASE ~(i <= Len(h))
    <3>1. i - Len(h) \in 1 .. Len(g) /\ i > Len(h)
      BY <1>1, <2>1, <2>3
    <3> QED BY <1>2, <1>3, <2>1, <2>3, <3>1
  <2> QED BY <2>2, <2>3
<1>5. ASSUME NEW i \in DOMAIN h PROVE i \in DOMAIN s /\ s[i] = h[i]
  <2>1. i \in 1 .. Len(h) + Len(g) /\ i <= Len(h)
    BY <1>1, <1>2
  <2> QED BY <2>1, <1>2, <1>3
<1>6. ASSUME NEW i \in DOMAIN g PROVE Len(h) + i \in DOMAIN s /\ s[Len(h) + i] = g[i]
  <2>1. Len(h) + i \in 1 .. Len(h) + Len(g) /\ ~(Len(h) + i <= Len(h)) /\ (Len(h) + i) - Len(h) = i
    BY <1>1, <1>2
  <2> QED BY <2>1, <1>2, <1>3
<1> QED BY <1>1, <1>4, <1>5, <1>6 DEF s

LEMMA FollowsUnique ==
  ASSUME NEW h \in Seq(Items), Unique(h), MeantCalls(h), NEW g, Follows(g, h)
  PROVE  /\ h \o g \in Seq(Items) /\ Len(h \o g) = Len(h) + Len(g)
         /\ Unique(h \o g) /\ MeantCalls(h \o g)
<1> DEFINE s == h \o g
<1>1. g \in Seq(Items)
  BY DEF Follows
<1>2. s \in Seq(Items) /\ Len(s) = Len(h) + Len(g) /\ Len(h) \in Nat
  BY <1>1, ConcatPlaces
<1>3. \A i \in DOMAIN s :
        \/ i \in DOMAIN h /\ s[i] = h[i]
        \/ i - Len(h) \in DOMAIN g /\ i > Len(h) /\ s[i] = g[i - Len(h)]
  BY <1>1, ConcatPlaces
<1> HIDE DEF s
<1>4. MeantCalls(s)
  BY <1>3 DEF MeantCalls, Follows
<1>5. \A i \in DOMAIN h : h[i].of \in Stamps(h) /\ h[i] \in Items
  BY DEF Stamps
<1>6. \A j \in DOMAIN g : g[j] \in Items
  BY <1>1
<1>7. ASSUME NEW i \in DOMAIN s, NEW j \in DOMAIN s, i # j, s[i].of = s[j].of,
             s[i].kind # "carrier"
      PROVE  {s[i].kind, s[j].kind} = {"call", "result"}
  <2>1. i \in Nat /\ j \in Nat
    BY <1>2
  <2>2. s[j].kind # "carrier"
    <3>1. s[i] \in Items /\ s[j] \in Items
      BY <1>2
    <3> QED BY <3>1, <1>7, ItemFields
  <2>3. CASE i \in DOMAIN h /\ s[i] = h[i] /\ j \in DOMAIN h /\ s[j] = h[j]
    BY <2>3, <1>7 DEF Unique
  <2>4. CASE i \in DOMAIN h /\ s[i] = h[i] /\ j - Len(h) \in DOMAIN g /\ s[j] = g[j - Len(h)]
    BY <2>4, <2>2, <1>5, <1>7 DEF Follows
  <2>5. CASE j \in DOMAIN h /\ s[j] = h[j] /\ i - Len(h) \in DOMAIN g /\ s[i] = g[i - Len(h)]
    BY <2>5, <1>5, <1>7 DEF Follows
  <2>6. CASE i - Len(h) \in DOMAIN g /\ s[i] = g[i - Len(h)]
             /\ j - Len(h) \in DOMAIN g /\ s[j] = g[j - Len(h)]
    <3>1. i - Len(h) # j - Len(h)
      BY <2>1, <1>2, <1>7
    <3>2. \A a, b \in DOMAIN g :
            a # b /\ g[a].of = g[b].of /\ g[a].kind # "carrier" =>
              {g[a].kind, g[b].kind} = {"call", "result"}
      BY DEF Follows, Unique
    <3> DEFINE a == i - Len(h)
               b == j - Len(h)
    <3>3. a \in DOMAIN g /\ b \in DOMAIN g /\ a # b /\ s[i] = g[a] /\ s[j] = g[b]
      BY <2>6, <3>1
    <3> HIDE DEF a, b
    <3>4. {g[a].kind, g[b].kind} = {"call", "result"}
      BY <3>2, <3>3, <1>7
    <3> QED BY <3>3, <3>4
  <2> QED BY <1>3, <2>3, <2>4, <2>5, <2>6
<1>8. Unique(s)
  BY <1>7 DEF Unique
<1> QED BY <1>2, <1>4, <1>8 DEF s

LEMMA OneFollows ==
  ASSUME NEW h, NEW x \in Items, x.kind = "call" => x.tool = x.meant,
         x.kind # "carrier" => x.of \notin Stamps(h)
  PROVE  Follows(<<x>>, h) /\ Len(<<x>>) = 1
<1>1. <<x>> \in Seq(Items) /\ DOMAIN <<x>> = {1} /\ <<x>>[1] = x
  OBVIOUS
<1> QED BY <1>1 DEF Follows, Unique, MeantCalls

LEMMA TailUnique ==
  ASSUME NEW h \in Seq(Items), Unique(h), MeantCalls(h), h # <<>>
  PROVE  /\ Tail(h) \in Seq(Items) /\ Len(Tail(h)) = Len(h) - 1
         /\ Unique(Tail(h)) /\ MeantCalls(Tail(h))
<1> DEFINE s == Tail(h)
<1>1. s \in Seq(Items) /\ Len(s) = Len(h) - 1 /\ Len(h) \in Nat
      /\ \A i \in 1 .. Len(s) : s[i] = h[i + 1]
  BY HeadTailProperties
<1>2. \A i \in DOMAIN s : i \in Nat /\ i + 1 \in DOMAIN h /\ s[i] = h[i + 1]
  <2>1. DOMAIN s = 1 .. Len(s) /\ DOMAIN h = 1 .. Len(h)
    BY <1>1
  <2> HIDE DEF s
  <2> QED BY <1>1, <2>1
<1> HIDE DEF s
<1>3. MeantCalls(s)
  BY <1>2 DEF MeantCalls
<1>4. Unique(s)
  <2> SUFFICES ASSUME NEW i \in DOMAIN s, NEW j \in DOMAIN s, i # j, s[i].of = s[j].of,
                      s[i].kind # "carrier"
               PROVE  {s[i].kind, s[j].kind} = {"call", "result"}
    BY DEF Unique
  <2>1. i + 1 # j + 1
    BY <1>2
  <2> DEFINE a == i + 1
             b == j + 1
  <2>2. a \in DOMAIN h /\ b \in DOMAIN h /\ a # b /\ s[i] = h[a] /\ s[j] = h[b]
    BY <1>2, <2>1
  <2> HIDE DEF a, b
  <2>3. {h[a].kind, h[b].kind} = {"call", "result"}
    BY <2>2 DEF Unique
  <2> QED BY <2>2, <2>3
<1> QED BY <1>1, <1>3, <1>4 DEF s

\* Items of a reply after h: each has one of the stamps that K counts.
Brings(g, h, K) ==
  /\ g \in Seq(Items) /\ Unique(g) /\ MeantCalls(g)
  /\ \A j \in DOMAIN g : g[j].kind # "carrier" /\ \E k \in K : g[j].of = Fresh(h, k)

LEMMA BringsConcat ==
  ASSUME NEW h \in Seq(Items), Len(h) <= MaxItems,
         NEW K \in SUBSET (1 .. 4), NEW L \in SUBSET (1 .. 4), K \cap L = {},
         NEW a, NEW b, Brings(a, h, K), Brings(b, h, L)
  PROVE  Brings(a \o b, h, K \cup L)
<1>1. a \in Seq(Items) /\ b \in Seq(Items) /\ Unique(a) /\ MeantCalls(a)
  BY DEF Brings
<1>2. Follows(b, a)
  <2>1. ASSUME NEW j \in DOMAIN b, b[j].of \in Stamps(a) PROVE FALSE
    <3>1. PICK i \in DOMAIN a : a[i].of = b[j].of
      BY <2>1 DEF Stamps
    <3>2. PICK k \in K : a[i].of = Fresh(h, k)
      BY DEF Brings
    <3>3. PICK l \in L : b[j].of = Fresh(h, l)
      BY DEF Brings
    <3>4. k \in 1 .. 4 /\ l \in 1 .. 4 /\ k # l
      OBVIOUS
    <3> QED BY <3>1, <3>2, <3>3, <3>4, FreshDiffer
  <2> QED BY <2>1 DEF Follows, Brings
<1> DEFINE s == a \o b
<1>3. s \in Seq(Items) /\ Unique(s) /\ MeantCalls(s)
  BY <1>1, <1>2, FollowsUnique
<1>4. \A i \in DOMAIN s :
        \/ i \in DOMAIN a /\ s[i] = a[i]
        \/ i - Len(a) \in DOMAIN b /\ s[i] = b[i - Len(a)]
  BY <1>1, ConcatPlaces
<1> HIDE DEF s
<1>5. ASSUME NEW j \in DOMAIN s
      PROVE  s[j].kind # "carrier" /\ \E k \in K \cup L : s[j].of = Fresh(h, k)
  <2>1. CASE j \in DOMAIN a /\ s[j] = a[j]
    BY <2>1 DEF Brings
  <2>2. CASE j - Len(a) \in DOMAIN b /\ s[j] = b[j - Len(a)]
    BY <2>2 DEF Brings
  <2> QED BY <2>1, <2>2, <1>4
<1> QED BY <1>3, <1>5 DEF Brings, s

LEMMA BringsFollows ==
  ASSUME NEW h \in Seq(Items), Len(h) <= MaxItems, NEW K \in SUBSET (1 .. 4),
         NEW g, Brings(g, h, K)
  PROVE  Follows(g, h)
<1>1. \A k \in K : Fresh(h, k) \notin Stamps(h)
  BY FreshIsFresh
<1> QED BY <1>1 DEF Brings, Follows

LEMMA NothingBrings ==
  ASSUME NEW h, NEW K
  PROVE  Brings(<<>>, h, K)
BY DEF Brings, Unique, MeantCalls

LEMMA OneBrings ==
  ASSUME NEW h \in Seq(Items), Len(h) <= MaxItems, NEW k \in 1 .. 4, NEW x \in Items,
         x.kind \in {"reasoning", "assistant"}, x.of = Fresh(h, k)
  PROVE  Brings(<<x>>, h, {k})
<1>1. <<x>> \in Seq(Items) /\ DOMAIN <<x>> = {1} /\ <<x>>[1] = x
  OBVIOUS
<1> QED BY <1>1 DEF Brings, Unique, MeantCalls

LEMMA CallsBring ==
  ASSUME NEW h \in Seq(Items), Len(h) <= MaxItems, NEW m \in 0 .. 2, NEW used \in [1 .. m -> Tools]
  PROVE  Brings([k \in DOMAIN used |-> CallItem(Fresh(h, 2 + k), used[k], used[k])], h, 3 .. 4)
<1> DEFINE g == [k \in DOMAIN used |-> CallItem(Fresh(h, 2 + k), used[k], used[k])]
<1>1. \A k \in 1 .. m : 2 + k \in 3 .. 4 /\ 2 + k \in 1 .. 4
  OBVIOUS
<1>2. ASSUME NEW k \in 1 .. m
      PROVE  g[k] \in Items /\ g[k].kind = "call" /\ g[k].of = Fresh(h, 2 + k)
             /\ g[k].tool = g[k].meant
  <2>1. Fresh(h, 2 + k) \in Marks
    BY <1>1, FreshIsFresh
  <2>2. g[k] = [kind |-> "call", of |-> Fresh(h, 2 + k), tool |-> used[k], meant |-> used[k]]
    BY DEF CallItem
  <2>3. used[k] \in Tools
    OBVIOUS
  <2> HIDE DEF g
  <2> QED BY <2>1, <2>2, <2>3 DEF Items
<1>3. g \in Seq(Items) /\ DOMAIN g = 1 .. m
  <2>1. DOMAIN g = 1 .. m /\ g = [k \in 1 .. m |-> g[k]]
    OBVIOUS
  <2> HIDE DEF g
  <2>2. g \in [1 .. m -> Items]
    BY <2>1, <1>2
  <2> QED BY <2>1, <2>2, SeqDef
<1> HIDE DEF g
<1>4. Unique(g)
  <2> SUFFICES ASSUME NEW i \in 1 .. m, NEW j \in 1 .. m, i # j, g[i].of = g[j].of PROVE FALSE
    BY <1>3 DEF Unique
  <2>1. Fresh(h, 2 + i) = Fresh(h, 2 + j)
    BY <1>2
  <2>2. 2 + i # 2 + j
    OBVIOUS
  <2> QED BY <1>1, <2>1, <2>2, FreshDiffer
<1>5. Brings(g, h, 3 .. 4)
  BY <1>1, <1>2, <1>3, <1>4 DEF Brings, MeantCalls
<1> QED BY <1>5 DEF g

\* A reply: the calls of it stand together.
Together(g) ==
  /\ \A j \in DOMAIN g : g[j].kind \in {"reasoning", "assistant", "call"}
  /\ \A j, k, l \in DOMAIN g : j < k /\ k < l /\ g[j].kind = "call" /\ g[l].kind = "call" =>
       g[k].kind = "call"

NoCalls(g) == \A j \in DOMAIN g : g[j].kind # "call"

LEMMA NothingTogether == Together(<<>>) /\ NoCalls(<<>>)
BY DEF Together, NoCalls

LEMMA OneTogether ==
  ASSUME NEW x, x.kind \in {"reasoning", "assistant"}
  PROVE  Together(<<x>>) /\ NoCalls(<<x>>)
<1>1. DOMAIN <<x>> = {1} /\ <<x>>[1] = x
  OBVIOUS
<1> QED BY <1>1 DEF Together, NoCalls

LEMMA TogetherConcat ==
  ASSUME NEW a \in Seq(Items), NEW b \in Seq(Items), Together(a), Together(b),
         NoCalls(a) \/ NoCalls(b)
  PROVE  Together(a \o b)
<1> DEFINE s == a \o b
           n == Len(a)
<1>1. /\ n \in Nat /\ DOMAIN a = 1 .. n /\ DOMAIN s \subseteq Nat
      /\ \A i \in DOMAIN s : \/ i \in DOMAIN a /\ s[i] = a[i]
                             \/ i - n \in DOMAIN b /\ i > n /\ s[i] = b[i - n]
  BY ConcatPlaces
<1> HIDE DEF s, n
<1>2. \A j \in DOMAIN s : s[j].kind \in {"reasoning", "assistant", "call"}
  BY <1>1 DEF Together
<1>3. ASSUME NEW j \in DOMAIN s, NEW k \in DOMAIN s, NEW l \in DOMAIN s, j < k, k < l,
             s[j].kind = "call", s[l].kind = "call"
      PROVE  s[k].kind = "call"
  <2>0. j \in Nat /\ k \in Nat /\ l \in Nat
    BY <1>1
  <2>1. CASE NoCalls(a)
    <3>1. j - n \in DOMAIN b /\ j > n /\ s[j] = b[j - n]
      BY <2>1, <1>1, <1>3 DEF NoCalls
    <3>2. k > n /\ l > n /\ j - n < k - n /\ k - n < l - n
      BY <3>1, <2>0, <1>1, <1>3
    <3>3. k \notin DOMAIN a /\ l \notin DOMAIN a
      BY <3>2, <2>0, <1>1
    <3> DEFINE x == j - n
               y == k - n
               z == l - n
    <3>4. x \in DOMAIN b /\ y \in DOMAIN b /\ z \in DOMAIN b /\ x < y /\ y < z
          /\ s[j] = b[x] /\ s[k] = b[y] /\ s[l] = b[z]
      BY <3>1, <3>2, <3>3, <1>1
    <3> HIDE DEF x, y, z
    <3> QED BY <3>4, <1>3 DEF Together
  <2>2. CASE NoCalls(b)
    <3>1. l \in DOMAIN a /\ s[l] = a[l]
      BY <2>2, <1>1, <1>3 DEF NoCalls
    <3>2. ~(j > n) /\ ~(k > n)
      BY <3>1, <2>0, <1>1, <1>3
    <3>3. j \in DOMAIN a /\ k \in DOMAIN a /\ s[j] = a[j] /\ s[k] = a[k]
      BY <3>2, <1>1
    <3> QED BY <3>1, <3>3, <1>3 DEF Together
  <2> QED BY <2>1, <2>2
<1> QED BY <1>2, <1>3 DEF Together, s

-----------------------------------------------------------------------------
(* The request as the upstream has it *)

Made(system, messages, tools, choice, omit, bridge) ==
  [NoBody EXCEPT !.system = system, !.messages = messages, !.tools = tools,
                 !.choice = choice, !.omit = omit, !.bridge = bridge]

ConvertedOf(m, input, opts) ==
  IF m.route = "messages" THEN responsesToMessagesRequest(input, opts)
  ELSE responsesToChatRequest(input, opts)

Toolbox(h, c) == applyToolChoice(c.tools, neutralizeNamespaceToolChoice(c, h, c.choice))

\* What Adapted makes of a history h for the model m.
AdaptedOf(m, h, c, opts, bridge) ==
  Made(ConvertedOf(m, applyCodexToolContext(c, h), opts).system,
       ConvertedOf(m, applyCodexToolContext(c, h), opts).messages,
       Toolbox(h, c).tools, Toolbox(h, c).choice, opts.omit, bridge)

ChoicesOf(given, h) ==
  {[kind |-> k] : k \in {"auto", "none", "namespace"}}
    \cup {[kind |-> "tool", tool |-> t] : t \in ToSet(given) \cup ToSet(collectCarriedTools(h))}

Raised(y, r) == [y EXCEPT !.budget = r]

\* x and y are the tools and the body of a request for opts, the budget raised or not.
MadeFor(m, given, h, x, y, choice, opts) ==
  /\ ~buildCodexToolContext(given, h).clash
  /\ x = [tools |-> buildCodexToolContext(given, h).tools,
          restore |-> buildCodexToolContext(given, h).restore, choice |-> choice]
  /\ \E bridge, raised \in BOOLEAN :
       y = Raised(AdaptedOf(m, h, x, opts, bridge), raised)

TriesOf(m) == {[images |-> m.images, omit |-> FALSE], [images |-> FALSE, omit |-> TRUE]}

\* They are those of a request made of the history h.
MadeOf(m, given, h, x, y) ==
  \E choice \in ChoicesOf(given, h), opts \in TriesOf(m) :
    MadeFor(m, given, h, x, y, choice, opts)

Intact ==
  /\ model \in Models /\ top \in Tops
  /\ phase \in {"client", "upstream", "refused"} /\ corrected \subseteq {"image", "thinking"}
  /\ history \in Seq(Items) /\ Len(history) <= MaxItems
  /\ Unique(history) /\ MeantCalls(history)
  /\ phase # "upstream" => body = NoBody
  /\ Sent => MadeOf(model, top, history, ctx, body)

LEMMA AdaptedIsOf ==
  \A c, opts, bridge : Adapted(c, opts, bridge) = AdaptedOf(model, history, c, opts, bridge)
BY DEF Adapted, AdaptedOf, Convert, ConvertedOf, Made, Toolbox

HasParts(y, messages, tools, choice, omit) ==
  y.messages = messages /\ y.tools = tools /\ y.choice = choice /\ y.omit = omit

\* To raise a budget again changes nothing.
RaisedOnce(y, r) == Raised(Raised(y, r), TRUE) = Raised(y, TRUE) /\ Raised(y, FALSE) = y

LEMMA MadeRecord ==
  ASSUME NEW s, NEW ms, NEW t, NEW ch, NEW o, NEW b, NEW raised, NEW y,
         y = Made(s, ms, t, ch, o, b)
  PROVE  HasParts(Raised(y, raised), ms, t, ch, o) /\ RaisedOnce(y, raised)
<1> DEFINE Is(r, a1, a2, a3, a4, a5, a6, a7) ==
             r = [system |-> a1, messages |-> a2, tools |-> a3, choice |-> a4,
                  omit |-> a5, budget |-> a6, bridge |-> a7]
           N  == NoBody
           c  == N.choice
           f1 == N.omit
           f2 == N.budget
           f3 == N.bridge
           r1 == [N EXCEPT !.system = s]
           r2 == [r1 EXCEPT !.messages = ms]
           r3 == [r2 EXCEPT !.tools = t]
           r4 == [r3 EXCEPT !.choice = ch]
           r5 == [r4 EXCEPT !.omit = o]
           r6 == [r5 EXCEPT !.bridge = b]
<1>1. Is(N, <<>>, <<>>, <<>>, c, f1, f2, f3) /\ f2 = FALSE
  BY DEF NoBody
<1> HIDE DEF N, c, f1, f2, f3
<1>2. Is(r1, s, <<>>, <<>>, c, f1, f2, f3)
  BY <1>1
<1> HIDE DEF r1
<1>3. Is(r2, s, ms, <<>>, c, f1, f2, f3)
  BY <1>2
<1> HIDE DEF r2
<1>4. Is(r3, s, ms, t, c, f1, f2, f3)
  BY <1>3
<1> HIDE DEF r3
<1>5. Is(r4, s, ms, t, ch, f1, f2, f3)
  BY <1>4
<1> HIDE DEF r4
<1>6. Is(r5, s, ms, t, ch, o, f2, f3)
  BY <1>5
<1> HIDE DEF r5
<1>7. Is(r6, s, ms, t, ch, o, f2, b)
  BY <1>6
<1> HIDE DEF r6
<1>8. Made(s, ms, t, ch, o, b) = r6
  BY DEF Made, N, r1, r2, r3, r4, r5, r6
<1>9. ASSUME NEW r PROVE Is([r6 EXCEPT !.budget = r], s, ms, t, ch, o, r, b)
  BY <1>7
<1>10. [[r6 EXCEPT !.budget = raised] EXCEPT !.budget = TRUE] = [r6 EXCEPT !.budget = TRUE]
  <2> DEFINE w == [r6 EXCEPT !.budget = raised]
  <2>1. Is(w, s, ms, t, ch, o, raised, b)
    BY <1>9
  <2> HIDE DEF w
  <2>2. \A r : Is([w EXCEPT !.budget = r], s, ms, t, ch, o, r, b)
    BY <2>1
  <2>3. \A r : [w EXCEPT !.budget = r] = [r6 EXCEPT !.budget = r]
    BY <2>2, <1>9
  <2> QED BY <2>3 DEF w
<1>11. r6 = [r6 EXCEPT !.budget = FALSE]
  <2>1. r6 = [r6 EXCEPT !.budget = f2]
    BY <1>7, <1>9
  <2> QED BY <2>1, <1>1, Zenon
<1>12. Is([r6 EXCEPT !.budget = raised], s, ms, t, ch, o, raised, b)
  BY <1>9
<1> HIDE DEF Is
<1>13. \A r : Is(r, s, ms, t, ch, o, raised, b) => HasParts(r, ms, t, ch, o)
  BY DEF Is, HasParts
<1>14. HasParts(Raised(y, raised), ms, t, ch, o)
  BY <1>8, <1>12, <1>13 DEF Raised
<1>15. Raised(Raised(y, raised), TRUE) = Raised(y, TRUE)
  BY <1>8, <1>10 DEF Raised
<1>16. Raised(y, FALSE) = y
  BY <1>8, <1>11 DEF Raised
<1> QED BY <1>14, <1>15, <1>16 DEF RaisedOnce

LEMMA MadeFields ==
  ASSUME NEW m, NEW given, NEW h, NEW x, NEW y, NEW choice, NEW opts,
         MadeFor(m, given, h, x, y, choice, opts)
  PROVE  /\ y.messages = ConvertedOf(m, applyCodexToolContext(x, h), opts).messages
         /\ y.tools = Toolbox(h, x).tools /\ y.choice = Toolbox(h, x).choice
         /\ y.omit = opts.omit
         /\ x.tools = buildCodexToolContext(given, h).tools
         /\ x.restore = buildCodexToolContext(given, h).restore /\ x.choice = choice
<1>1. PICK bridge, raised \in BOOLEAN :
        y = Raised(AdaptedOf(m, h, x, opts, bridge), raised)
  BY DEF MadeFor
<1>2. x = [tools |-> buildCodexToolContext(given, h).tools,
           restore |-> buildCodexToolContext(given, h).restore, choice |-> choice]
  BY DEF MadeFor
<1>3. /\ x.tools = buildCodexToolContext(given, h).tools
      /\ x.restore = buildCodexToolContext(given, h).restore /\ x.choice = choice
  BY <1>2
<1> DEFINE s  == ConvertedOf(m, applyCodexToolContext(x, h), opts).system
           ms == ConvertedOf(m, applyCodexToolContext(x, h), opts).messages
           t  == Toolbox(h, x).tools
           ch == Toolbox(h, x).choice
           o  == opts.omit
           w  == Made(s, ms, t, ch, o, bridge)
<1>4. y = Raised(w, raised)
  BY <1>1 DEF AdaptedOf
<1> HIDE DEF s, ms, t, ch, o
<1>5. w = Made(s, ms, t, ch, o, bridge)
  OBVIOUS
<1> HIDE DEF w
<1>6. y.messages = ms /\ y.tools = t /\ y.choice = ch /\ y.omit = o
  <2>1. HasParts(Raised(w, raised), ms, t, ch, o)
    BY <1>5, MadeRecord
  <2> QED BY <2>1, <1>4 DEF HasParts
<1> QED BY <1>3, <1>6 DEF s, ms, t, ch, o

LEMMA SentTools ==
  ASSUME NEW m, NEW given \in Tops, NEW h \in Seq(Items), NEW x, NEW y,
         MadeOf(m, given, h, x, y), NEW t \in ToSet(y.tools)
  PROVE  t \in Tools /\ restoreNamespaceNames(x, flattenNamespaceToolName(t)) = t
<1> DEFINE c == buildCodexToolContext(given, h)
<1>1. PICK choice, opts : MadeFor(m, given, h, x, y, choice, opts)
  BY DEF MadeOf
<1>2. ContextFits(c, given, collectCarriedTools(h), Len(collectCarriedTools(h)))
  BY ContextBuilt
<1>3. x.tools = c.tools /\ x.restore = c.restore
  BY <1>1, MadeFields
<1>4. y.tools = Toolbox(h, x).tools
  BY <1>1, MadeFields
<1> HIDE DEF c
<1>5. y.tools = <<>> \/ y.tools = c.tools
  BY <1>3, <1>4 DEF applyToolChoice, Toolbox
<1>6. t \in ToSet(c.tools)
  <2>1. ToSet(<<>>) = {}
    BY DEF ToSet
  <2> QED BY <1>5, <2>1
<1>7. c.tools \in Seq(Tools)
  BY <1>2 DEF ContextFits
<1>8. t \in Tools
  BY <1>6, <1>7 DEF ToSet
<1> QED BY <1>2, <1>3, <1>6, <1>8, RestoredIsMeant

-----------------------------------------------------------------------------
(* Every step keeps a conversation intact *)

LEMMA ResultFollows ==
  ASSUME Intact, NEW i \in OpenCalls, NEW image \in Images
  PROVE  /\ ResultItem(history[i].of, image) \in Items
         /\ Unique(history \o <<ResultItem(history[i].of, image)>>)
         /\ MeantCalls(history \o <<ResultItem(history[i].of, image)>>)
<1> DEFINE x == ResultItem(history[i].of, image)
           g == <<x>>
           s == history \o g
<1>1. i \in DOMAIN history /\ history[i].kind = "call"
      /\ \A j \in DOMAIN history : history[j].kind = "result" => history[j].of # history[i].of
  BY DEF OpenCalls
<1>2. history \in Seq(Items) /\ Unique(history) /\ MeantCalls(history)
  BY DEF Intact
<1>3. history[i] \in Items /\ history[i].of \in Marks
  <2>1. history[i] \in Items
    BY <1>1, <1>2
  <2> QED BY <2>1, <1>1 DEF Items
<1>4. x \in Items /\ x.kind = "result" /\ x.of = history[i].of
  BY <1>3 DEF ResultItem, Items
<1> HIDE DEF x
<1>5. g \in Seq(Items) /\ DOMAIN g = {1} /\ g[1] = x
  BY <1>4
<1> HIDE DEF g
<1>6. s \in Seq(Items) /\ Len(history) \in Nat
      /\ \A k \in DOMAIN s :
           \/ k \in DOMAIN history /\ s[k] = history[k]
           \/ k - Len(history) \in DOMAIN g /\ k > Len(history) /\ s[k] = g[k - Len(history)]
  BY <1>2, <1>5, ConcatPlaces
<1> HIDE DEF s
<1>7. \A k \in DOMAIN s : \/ k \in DOMAIN history /\ s[k] = history[k]
                          \/ k = Len(history) + 1 /\ s[k] = x
  <2> SUFFICES ASSUME NEW k \in DOMAIN s, k - Len(history) \in DOMAIN g,
                      s[k] = g[k - Len(history)]
               PROVE  k = Len(history) + 1 /\ s[k] = x
    BY <1>6
  <2>1. k - Len(history) = 1 /\ k \in Nat
    BY <1>5, <1>6
  <2> QED BY <2>1, <1>5, <1>6
<1>8. MeantCalls(s)
  BY <1>2, <1>4, <1>7 DEF MeantCalls
<1>9. \A j \in DOMAIN history : history[j].of = history[i].of => history[j].kind = "call" /\ j = i
  <2> SUFFICES ASSUME NEW j \in DOMAIN history, history[j].of = history[i].of, j # i
               PROVE  FALSE
    BY <1>1
  <2>1. {history[i].kind, history[j].kind} = {"call", "result"}
    BY <1>1, <1>2 DEF Unique
  <2>2. history[j].kind = "result"
    BY <2>1, <1>1
  <2> QED BY <2>2, <1>1
<1>10. Unique(s)
  <2> SUFFICES ASSUME NEW a \in DOMAIN s, NEW b \in DOMAIN s, a # b, s[a].of = s[b].of,
                      s[a].kind # "carrier"
               PROVE  {s[a].kind, s[b].kind} = {"call", "result"}
    BY DEF Unique
  <2>1. CASE a \in DOMAIN history /\ s[a] = history[a] /\ b \in DOMAIN history /\ s[b] = history[b]
    BY <2>1, <1>2 DEF Unique
  <2>2. CASE a \in DOMAIN history /\ s[a] = history[a] /\ s[b] = x
    BY <2>2, <1>4, <1>9
  <2>3. CASE s[a] = x /\ b \in DOMAIN history /\ s[b] = history[b]
    BY <2>3, <1>4, <1>9
  <2> QED BY <2>1, <2>2, <2>3, <1>7
<1> QED BY <1>4, <1>8, <1>10 DEF s, g, x

LEMMA AddsKeeps ==
  ASSUME Intact, NEW items, Adds(items), history \o items \in Seq(Items),
         Len(history \o items) = Len(history) + Len(items),
         Unique(history \o items), MeantCalls(history \o items)
  PROVE  Intact'
BY DEF Intact, Adds, Room, Sent, request

LEMMA InitIntact == Init => Intact
BY ConversationAssumption DEF Init, Intact, Unique, MeantCalls, Sent

LEMMA ClientKeeps ==
  ASSUME Intact, UserSays \/ SystemSays \/ Declare \/ ToolDone \/ Trim
  PROVE  Intact'
<1>1. history \in Seq(Items) /\ Unique(history) /\ MeantCalls(history)
      /\ Len(history) <= MaxItems
  BY DEF Intact
<1>2. ASSUME NEW x \in Items, Adds(<<x>>), x.kind # "call",
             x.kind # "carrier" => x.of \notin Stamps(history)
      PROVE  Intact'
  <2>1. Follows(<<x>>, history) /\ Len(<<x>>) = 1
    BY <1>2, OneFollows
  <2>2. /\ history \o <<x>> \in Seq(Items) /\ Len(history \o <<x>>) = Len(history) + Len(<<x>>)
        /\ Unique(history \o <<x>>) /\ MeantCalls(history \o <<x>>)
    BY <2>1, <1>1, FollowsUnique
  <2> QED BY <2>2, <1>2, AddsKeeps
<1>3. Fresh(history, 1) \in Marks /\ Fresh(history, 1) \notin Stamps(history)
  <2>1. 1 \in 1 .. 4
    OBVIOUS
  <2> QED BY <2>1, <1>1, FreshIsFresh
<1>4. CASE UserSays
  <2>1. PICK image \in Images : Adds(<<UserItem(Fresh(history, 1), image)>>)
    BY <1>4 DEF UserSays
  <2> DEFINE x == UserItem(Fresh(history, 1), image)
  <2>2. x \in Items /\ x.kind = "user" /\ x.of = Fresh(history, 1)
    BY <1>3 DEF UserItem, Items
  <2> HIDE DEF x
  <2>3. Adds(<<x>>)
    BY <2>1 DEF x
  <2> QED BY <2>2, <2>3, <1>2, <1>3
<1>5. CASE SystemSays
  <2>1. PICK string \in BOOLEAN : Adds(<<SystemItem(Fresh(history, 1), string)>>)
    BY <1>5 DEF SystemSays
  <2> DEFINE x == SystemItem(Fresh(history, 1), string)
  <2>2. x \in Items /\ x.kind = "system" /\ x.of = Fresh(history, 1)
    BY <1>3 DEF SystemItem, Items
  <2> HIDE DEF x
  <2>3. Adds(<<x>>)
    BY <2>1 DEF x
  <2> QED BY <2>2, <2>3, <1>2, <1>3
<1>6. CASE Declare
  <2>1. PICK tools \in Groups : Adds(<<CarrierItem(tools)>>)
    BY <1>6 DEF Declare
  <2> DEFINE x == CarrierItem(tools)
  <2>2. x \in Items /\ x.kind = "carrier"
    BY DEF CarrierItem, Items
  <2> HIDE DEF x
  <2>3. Adds(<<x>>)
    BY <2>1 DEF x
  <2> QED BY <2>2, <2>3, <1>2
<1>7. CASE ToolDone
  <2>1. PICK i \in OpenCalls, image \in Images : Adds(<<ResultItem(history[i].of, image)>>)
    BY <1>7 DEF ToolDone
  <2> DEFINE x == ResultItem(history[i].of, image)
  <2>2. x \in Items /\ Unique(history \o <<x>>) /\ MeantCalls(history \o <<x>>)
    BY ResultFollows
  <2> HIDE DEF x
  <2>3. <<x>> \in Seq(Items)
    BY <2>2
  <2>4. history \o <<x>> \in Seq(Items) /\ Len(history \o <<x>>) = Len(history) + Len(<<x>>)
    BY <2>3, <1>1, ConcatPlaces
  <2>5. Adds(<<x>>)
    BY <2>1 DEF x
  <2> QED BY <2>2, <2>4, <2>5, AddsKeeps
<1>8. CASE Trim
  <2>1. Len(history) \in Nat /\ history # <<>>
    BY <1>1, <1>8, ConversationAssumption DEF Trim
  <2>2. /\ Tail(history) \in Seq(Items) /\ Len(Tail(history)) = Len(history) - 1
        /\ Unique(Tail(history)) /\ MeantCalls(Tail(history))
    BY <1>1, <2>1, TailUnique
  <2>3. Len(Tail(history)) <= MaxItems
    BY <2>1, <2>2, <1>1, ConversationAssumption
  <2> QED BY <2>2, <2>3, <1>8 DEF Trim, Intact, Sent, request
<1> QED BY <1>4, <1>5, <1>6, <1>7, <1>8

LEMMA AdaptedRaised ==
  ASSUME NEW m, NEW h, NEW x, NEW opts, NEW bridge, NEW raised
  PROVE  RaisedOnce(AdaptedOf(m, h, x, opts, bridge), raised)
<1> DEFINE s  == ConvertedOf(m, applyCodexToolContext(x, h), opts).system
           ms == ConvertedOf(m, applyCodexToolContext(x, h), opts).messages
           t  == Toolbox(h, x).tools
           ch == Toolbox(h, x).choice
           o  == opts.omit
           w  == Made(s, ms, t, ch, o, bridge)
<1>1. AdaptedOf(m, h, x, opts, bridge) = w
  BY DEF AdaptedOf
<1> HIDE DEF s, ms, t, ch, o
<1>2. w = Made(s, ms, t, ch, o, bridge)
  OBVIOUS
<1> HIDE DEF w
<1>3. RaisedOnce(w, raised)
  BY <1>2, MadeRecord
<1> QED BY <1>1, <1>3

LEMMA MadeAnew ==
  ASSUME NEW m, NEW given, NEW h, NEW x, NEW choice, NEW opts, NEW bridge \in BOOLEAN,
         ~buildCodexToolContext(given, h).clash,
         x = [tools |-> buildCodexToolContext(given, h).tools,
              restore |-> buildCodexToolContext(given, h).restore, choice |-> choice]
  PROVE  MadeFor(m, given, h, x, AdaptedOf(m, h, x, opts, bridge), choice, opts)
<1> DEFINE w == AdaptedOf(m, h, x, opts, bridge)
           no == FALSE
<1>1. no \in BOOLEAN
  OBVIOUS
<1>2. Raised(w, FALSE) = w
  <2>1. RaisedOnce(w, no)
    BY AdaptedRaised
  <2> QED BY <2>1, Zenon DEF RaisedOnce
<1>3. Raised(w, no) = w
  BY <1>2, Zenon
<1> HIDE DEF w, no
<1>4. \E b, raised \in BOOLEAN : w = Raised(AdaptedOf(m, h, x, opts, b), raised)
  BY <1>1, <1>3 DEF w
<1> QED BY <1>4 DEF MadeFor, w

LEMMA RequestKeeps ==
  ASSUME Intact, Ask \/ AskInVain \/ ImageRefused \/ BudgetRefused
  PROVE  Intact'
<1>1. history \in Seq(Items) /\ Unique(history) /\ MeantCalls(history)
      /\ Len(history) <= MaxItems /\ model \in Models /\ top \in Tops
  BY DEF Intact
<1>2. model.images \in BOOLEAN /\ Bridge \in BOOLEAN
  BY <1>1, ConversationAssumption
<1>3. FirstTry \in TriesOf(model) /\ NoImages \in TriesOf(model)
  BY DEF FirstTry, NoImages, TriesOf
<1>4. CASE Ask
  <2> DEFINE c == buildCodexToolContext(top, history)
             Q(choice) == [tools |-> c.tools, restore |-> c.restore, choice |-> choice]
  <2>1. PICK choice \in ToolChoices :
          ~Unsendable(c) /\ Asks(TRUE, Q(choice), Adapted(Q(choice), FirstTry, Bridge))
    BY <1>4 DEF Ask
  <2>2. choice \in ChoicesOf(top, history)
    BY DEF ToolChoices, ChoicesOf
  <2>3. ~c.clash
    BY <2>1 DEF Unsendable
  <2> DEFINE x == Q(choice)
             y == AdaptedOf(model, history, x, FirstTry, Bridge)
  <2>4. Adapted(x, FirstTry, Bridge) = y
    BY AdaptedIsOf
  <2>5. MadeFor(model, top, history, x, y, choice, FirstTry)
    BY <2>3, <1>2, MadeAnew
  <2> HIDE DEF y
  <2>6. /\ model' = model /\ top' = top /\ history' = history /\ phase' = "upstream"
        /\ ctx' = x /\ body' = y /\ corrected' = {}
    BY <2>1, <2>4 DEF Asks
  <2> HIDE DEF x, c
  <2>7. MadeOf(model, top, history, x, y)
    BY <2>2, <2>5, <1>3 DEF MadeOf
  <2> QED BY <2>6, <2>7, <1>1 DEF Intact, Sent
<1>5. CASE AskInVain
  BY <1>1, <1>5 DEF AskInVain, Asks, Intact, Sent
<1>6. ASSUME phase = "upstream" PROVE MadeOf(model, top, history, ctx, body)
  BY <1>6 DEF Intact, Sent
<1>7. CASE ImageRefused
  <2>1. PICK choice \in ChoicesOf(top, history), opts \in TriesOf(model) :
          MadeFor(model, top, history, ctx, body, choice, opts)
    BY <1>6, <1>7 DEF ImageRefused, MadeOf
  <2> DEFINE y == AdaptedOf(model, history, ctx, NoImages, FALSE)
  <2>2. MadeFor(model, top, history, ctx, y, choice, NoImages)
    <3> DEFINE no == FALSE
    <3>1. no \in BOOLEAN
      OBVIOUS
    <3>2. /\ ~buildCodexToolContext(top, history).clash
          /\ ctx = [tools |-> buildCodexToolContext(top, history).tools,
                    restore |-> buildCodexToolContext(top, history).restore,
                    choice |-> choice]
      BY <2>1 DEF MadeFor
    <3>3. y = AdaptedOf(model, history, ctx, NoImages, no)
      BY Zenon
    <3> HIDE DEF no, y
    <3> QED BY <3>1, <3>2, <3>3, MadeAnew
  <2>3. body' = y
    BY <1>7, AdaptedIsOf DEF ImageRefused
  <2> HIDE DEF y
  <2>4. MadeOf(model, top, history, ctx, y)
    BY <2>2, <1>3 DEF MadeOf
  <2> QED BY <2>3, <2>4, <1>1, <1>7 DEF ImageRefused, Intact, Sent
<1>8. CASE BudgetRefused
  <2>1. PICK choice \in ChoicesOf(top, history), opts \in TriesOf(model) :
          MadeFor(model, top, history, ctx, body, choice, opts)
    BY <1>6, <1>8 DEF BudgetRefused, MadeOf
  <2>2. PICK bridge \in BOOLEAN, raised \in BOOLEAN :
          body = Raised(AdaptedOf(model, history, ctx, opts, bridge), raised)
    BY <2>1 DEF MadeFor
  <2> DEFINE w == AdaptedOf(model, history, ctx, opts, bridge)
             yes == TRUE
             y == Raised(body, TRUE)
  <2>3. Raised(Raised(w, raised), TRUE) = Raised(w, TRUE)
    <3>1. RaisedOnce(w, raised)
      BY AdaptedRaised
    <3> QED BY <3>1, Zenon DEF RaisedOnce
  <2>4. y = Raised(w, TRUE)
    BY <2>2, <2>3, Zenon
  <2>5. body' = y
    BY <1>8 DEF BudgetRefused, Raised
  <2>6. yes \in BOOLEAN /\ y = Raised(w, yes)
    BY <2>4, Zenon
  <2> HIDE DEF y, yes
  <2>7. MadeFor(model, top, history, ctx, y, choice, opts)
    BY <2>1, <2>6 DEF MadeFor
  <2>8. MadeOf(model, top, history, ctx, y)
    BY <2>7 DEF MadeOf
  <2> QED BY <2>5, <2>8, <1>1, <1>8 DEF BudgetRefused, Intact, Sent
<1> QED BY <1>4, <1>5, <1>7, <1>8

LEMMA CallsAreMeant ==
  ASSUME Intact, phase = "upstream", Room(1), NEW used \in SeqOf(ToSet(body.tools), MaxCalls)
  PROVE  Brings([k \in DOMAIN used |-> Called(used[k], Fresh(history, 2 + k))], history, 3 .. 4)
<1>1. history \in Seq(Items) /\ Len(history) <= MaxItems /\ top \in Tops
      /\ MadeOf(model, top, history, ctx, body)
  BY DEF Intact, Sent
<1>2. MaxCalls \in 0 .. 2
  <2> DEFINE m == MaxItems - Len(history)
             S == {2, m}
  <2>1. m \in Nat
    BY <1>1, ConversationAssumption
  <2> HIDE DEF m
  <2>2. \E x \in S : \A y \in S : x <= y
    BY <2>1
  <2>3. Min(S) \in S /\ \A y \in S : Min(S) <= y
    BY <2>2 DEF Min
  <2>4. Min(S) \in 0 .. 2
    BY <2>1, <2>3
  <2> QED BY <2>4 DEF MaxCalls, m
<1>3. PICK m \in 0 .. MaxCalls : used \in [1 .. m -> ToSet(body.tools)]
  BY DEF SeqOf
<1>4. m \in 0 .. 2
  BY <1>2
<1>5. \A t \in ToSet(body.tools) :
        t \in Tools /\ restoreNamespaceNames(ctx, flattenNamespaceToolName(t)) = t
  BY <1>1, SentTools
<1>6. used \in [1 .. m -> Tools] /\ DOMAIN used = 1 .. m
  BY <1>3, <1>5
<1>7. \A k \in DOMAIN used : Called(used[k], Fresh(history, 2 + k))
                               = CallItem(Fresh(history, 2 + k), used[k], used[k])
  BY <1>3, <1>5 DEF Called
<1>8. [k \in DOMAIN used |-> Called(used[k], Fresh(history, 2 + k))]
        = [k \in DOMAIN used |-> CallItem(Fresh(history, 2 + k), used[k], used[k])]
  BY <1>7, Zenon
<1> QED BY <1>1, <1>4, <1>6, <1>8, CallsBring

LEMMA ReplyItems ==
  ASSUME Intact, Reply
  PROVE  \E g : /\ Follows(g, history) /\ Together(g) /\ Room(Len(g))
                /\ history' = history \o g
<1>1. history \in Seq(Items) /\ Len(history) <= MaxItems /\ Unique(history)
      /\ MeantCalls(history) /\ model \in Models /\ top \in Tops
  BY DEF Intact
<1> DEFINE Thought(thinks) == IF thinks THEN <<ReasoningItem(Fresh(history, 1))>> ELSE <<>>
           Said(speaks)    == IF speaks THEN <<AssistantItem(Fresh(history, 2))>> ELSE <<>>
           Calls(used)     == [k \in DOMAIN used |-> Called(used[k], Fresh(history, 2 + k))]
<1>2. PICK streamed \in BOOLEAN, thinks \in BOOLEAN, speaks \in BOOLEAN,
           used \in SeqOf(ToSet(body.tools), MaxCalls) :
        /\ Room(Len(OutputItems(streamed, Thought(thinks), Calls(used), Said(speaks))))
        /\ history' = history \o OutputItems(streamed, Thought(thinks), Calls(used), Said(speaks))
  BY DEF Reply
<1>3. phase = "upstream" /\ Room(1) /\ Closes
  BY DEF Reply
<1> DEFINE thought == Thought(thinks)
           said    == Said(speaks)
           calls   == Calls(used)
           items   == OutputItems(streamed, thought, calls, said)
<1>4. 1 \in 1 .. 4 /\ 2 \in 1 .. 4
  OBVIOUS
<1>5. Fresh(history, 1) \in Marks /\ Fresh(history, 2) \in Marks
  BY <1>1, <1>4, FreshIsFresh
<1>6. Brings(thought, history, {1}) /\ Together(thought) /\ NoCalls(thought)
  <2> DEFINE x == ReasoningItem(Fresh(history, 1))
  <2>1. x \in Items /\ x.kind = "reasoning" /\ x.of = Fresh(history, 1)
    BY <1>5 DEF ReasoningItem, Items
  <2> HIDE DEF x
  <2>2. Brings(<<x>>, history, {1}) /\ Together(<<x>>) /\ NoCalls(<<x>>)
    BY <2>1, <1>1, <1>4, OneBrings, OneTogether
  <2> QED BY <2>2, NothingBrings, NothingTogether DEF x
<1>7. Brings(said, history, {2}) /\ Together(said) /\ NoCalls(said)
  <2> DEFINE x == AssistantItem(Fresh(history, 2))
  <2>1. x \in Items /\ x.kind = "assistant" /\ x.of = Fresh(history, 2)
    BY <1>5 DEF AssistantItem, Items
  <2> HIDE DEF x
  <2>2. Brings(<<x>>, history, {2}) /\ Together(<<x>>) /\ NoCalls(<<x>>)
    BY <2>1, <1>1, <1>4, OneBrings, OneTogether
  <2> QED BY <2>2, NothingBrings, NothingTogether DEF x
<1>8. Brings(calls, history, 3 .. 4) /\ Together(calls)
  <2>1. \A k \in DOMAIN calls : calls[k].kind = "call"
    BY DEF Called, CallItem
  <2> QED BY <2>1, <1>3, CallsAreMeant DEF Together
<1>9. Room(Len(items)) /\ history' = history \o items
  BY <1>2
<1>10. model.route \in {"messages", "chat"}
  BY <1>1, ConversationAssumption
<1>11. items \in {said \o calls, (thought \o said) \o calls, calls \o said, (thought \o calls) \o said}
  BY <1>10 DEF OutputItems, convertOutputItems, chatCompletionToResponsesBody
<1> HIDE DEF thought, said, calls, items
<1> DEFINE K == {1}
           L == {2}
           M == 3 .. 4
<1>12. /\ K \in SUBSET (1 .. 4) /\ L \in SUBSET (1 .. 4) /\ M \in SUBSET (1 .. 4)
       /\ K \cup L \in SUBSET (1 .. 4) /\ K \cup M \in SUBSET (1 .. 4)
       /\ L \cup M \in SUBSET (1 .. 4)
       /\ K \cap L = {} /\ K \cap M = {} /\ L \cap M = {} /\ M \cap L = {}
       /\ (K \cup L) \cap M = {} /\ (K \cup M) \cap L = {}
       /\ (K \cup L) \cup M \in SUBSET (1 .. 4) /\ (K \cup M) \cup L \in SUBSET (1 .. 4)
       /\ M \cup L \in SUBSET (1 .. 4)
  OBVIOUS
<1>13. Brings(thought, history, K) /\ Brings(said, history, L) /\ Brings(calls, history, M)
  BY <1>6, <1>7, <1>8
<1> HIDE DEF K, L, M
<1>14. Brings(said \o calls, history, L \cup M)
  BY <1>1, <1>12, <1>13, BringsConcat
<1>15. Brings(calls \o said, history, M \cup L)
  BY <1>1, <1>12, <1>13, BringsConcat
<1>16. Brings(thought \o said, history, K \cup L) /\ Brings(thought \o calls, history, K \cup M)
  BY <1>1, <1>12, <1>13, BringsConcat
<1>17. Brings((thought \o said) \o calls, history, (K \cup L) \cup M)
  BY <1>1, <1>12, <1>13, <1>16, BringsConcat
<1>18. Brings((thought \o calls) \o said, history, (K \cup M) \cup L)
  BY <1>1, <1>12, <1>13, <1>16, BringsConcat
<1>19. \E N \in SUBSET (1 .. 4) : Brings(items, history, N)
  BY <1>11, <1>12, <1>14, <1>15, <1>17, <1>18
<1>20. Follows(items, history)
  BY <1>19, <1>1, BringsFollows
<1>21. Together(items)
  <2>1. thought \in Seq(Items) /\ said \in Seq(Items) /\ calls \in Seq(Items)
    BY <1>13 DEF Brings
  <2>2. \A a, b \in Seq(Items) : /\ Together(a) /\ Together(b) /\ (NoCalls(a) \/ NoCalls(b))
                                     => Together(a \o b)
                                /\ a \o b \in Seq(Items)
    BY TogetherConcat, ConcatPlaces
  <2>3. Together(said \o calls) /\ Together(calls \o said)
    BY <2>1, <2>2, <1>6, <1>7, <1>8
  <2>4. Together(thought \o calls) /\ thought \o calls \in Seq(Items)
    BY <2>1, <2>2, <1>6, <1>8
  <2>5. Together((thought \o calls) \o said)
    BY <2>1, <2>2, <2>4, <1>7
  <2>6. Together(thought \o said) /\ thought \o said \in Seq(Items) /\ NoCalls(thought \o said)
    <3>1. Together(thought \o said) /\ thought \o said \in Seq(Items)
      BY <2>1, <2>2, <1>6, <1>7
    <3>2. NoCalls(thought \o said)
      BY <2>1, <1>6, <1>7, ConcatPlaces DEF NoCalls
    <3> QED BY <3>1, <3>2
  <2>7. Together((thought \o said) \o calls)
    BY <2>1, <2>2, <2>6, <1>8
  <2> QED BY <2>3, <2>5, <2>7, <1>11
<1> QED BY <1>9, <1>20, <1>21

LEMMA ReplyKeeps ==
  ASSUME Intact, Reply
  PROVE  Intact'
<1>1. history \in Seq(Items) /\ Len(history) <= MaxItems /\ Unique(history)
      /\ MeantCalls(history) /\ model \in Models /\ top \in Tops
  BY DEF Intact
<1>2. PICK items : /\ Follows(items, history) /\ Room(Len(items))
                   /\ history' = history \o items
  BY ReplyItems
<1>3. phase = "upstream" /\ Closes
  BY DEF Reply
<1>4. /\ history \o items \in Seq(Items) /\ Len(history \o items) = Len(history) + Len(items)
      /\ Unique(history \o items) /\ MeantCalls(history \o items)
  BY <1>1, <1>2, FollowsUnique
<1>5. Len(history \o items) <= MaxItems
  BY <1>2, <1>4 DEF Room
<1> QED BY <1>1, <1>2, <1>3, <1>4, <1>5 DEF Closes, Intact, Sent

LEMMA NextKeeps ==
  ASSUME Intact, [Next]_vars
  PROVE  Intact'
<1>1. CASE UserSays \/ SystemSays \/ Declare \/ ToolDone \/ Trim
  BY <1>1, ClientKeeps
<1>2. CASE Ask \/ AskInVain \/ ImageRefused \/ BudgetRefused
  BY <1>2, RequestKeeps
<1>3. CASE Fails
  BY <1>3 DEF Fails, Closes, Intact, Sent
<1>4. CASE Reply
  BY <1>4, ReplyKeeps
<1>5. CASE UNCHANGED vars
  <2>1. UNCHANGED <<model, top, history, phase, ctx, body, corrected>>
    BY <1>5 DEF vars, request
  <2> QED BY <2>1 DEF Intact, Sent, MadeOf, MadeFor
<1> QED BY <1>1, <1>2, <1>3, <1>4, <1>5 DEF Next, Client, Upstream

\* The conversation stays intact: an inductive invariant.
THEOREM StaysIntact == Spec => []Intact
BY InitIntact, NextKeeps, PTL DEF Spec

\* Type correctness, and no stamp is used twice but for a call and its result.
THEOREM TypeCorrect == Spec => []TypeOK
<1>1. Intact => TypeOK
  BY DEF Intact, TypeOK, Unique
<1> QED BY <1>1, StaysIntact, PTL

-----------------------------------------------------------------------------
(* One name for one tool *)

\* What OneName says of the tools offered.
Offers(x, y, given, h) ==
  LET offered == {flattenNamespaceToolName(y.tools[k]) : k \in DOMAIN y.tools}
  IN  /\ Cardinality(offered) = Len(y.tools)
      /\ \A t \in ToSet(given) \cup ToSet(collectCarriedTools(h)) :
           flattenNamespaceToolName(t) \in offered
      /\ x.choice.kind = "tool" => /\ y.choice.tool.ns = <<>>
                                   /\ y.choice.tool.name \in offered

LEMMA DifferentNames ==
  ASSUME NEW V, NEW s \in Seq(V),
         \A i, j \in DOMAIN s :
           flattenNamespaceToolName(s[i]) = flattenNamespaceToolName(s[j]) => i = j
  PROVE  Cardinality({flattenNamespaceToolName(s[k]) : k \in DOMAIN s}) = Len(s)
<1> DEFINE n == Len(s)
           S == {flattenNamespaceToolName(s[k]) : k \in DOMAIN s}
           f == [k \in 1 .. n |-> flattenNamespaceToolName(s[k])]
<1>1. n \in Nat /\ DOMAIN s = 1 .. n
  OBVIOUS
<1>2. f \in Bijection(1 .. n, S)
  <2>1. f \in [1 .. n -> S]
    BY <1>1
  <2>2. \A i, j \in 1 .. n : f[i] = f[j] => i = j
    BY <1>1
  <2>3. \A v \in S : \E k \in 1 .. n : f[k] = v
    BY <1>1
  <2> HIDE DEF f, S
  <2> QED BY <2>1, <2>2, <2>3 DEF Bijection, Injection, Surjection, IsInjective
<1>3. ExistsBijection(1 .. n, S)
  BY <1>2 DEF ExistsBijection
<1> HIDE DEF S, n
<1>4. Cardinality(S) = n
  BY <1>1, <1>3, FS_CountingElements
<1> QED BY <1>4 DEF S, n

LEMMA FlatOutside ==
  \A t \in Tools : t.ns = <<>> => flattenNamespaceToolName(t) = t.name
BY ConcatEmptySeq DEF Tools, flattenNamespaceToolName

LEMMA DeclaredOffered ==
  ASSUME NEW m, NEW given \in Tops, NEW h \in Seq(Items), NEW x, NEW y,
         MadeOf(m, given, h, x, y), x.choice.kind # "none"
  PROVE  Offers(x, y, given, h)
<1> DEFINE c == buildCodexToolContext(given, h)
           carried == collectCarriedTools(h)
           n == Len(carried)
           Name(t) == flattenNamespaceToolName(t)
           offered == {Name(y.tools[k]) : k \in DOMAIN y.tools}
<1>0. PICK choice \in ChoicesOf(given, h) : \E opts : MadeFor(m, given, h, x, y, choice, opts)
  BY DEF MadeOf
<1>1. PICK opts : MadeFor(m, given, h, x, y, choice, opts)
  BY <1>0
<1>2. ContextFits(c, given, carried, n)
  BY ContextBuilt
<1>3. x.tools = c.tools /\ x.restore = c.restore /\ x.choice = choice
  BY <1>1, MadeFields
<1>4. y.tools = Toolbox(h, x).tools /\ y.choice = Toolbox(h, x).choice
  BY <1>1, MadeFields
<1>5. ~c.clash
  BY <1>1 DEF MadeFor
<1>6. carried \in Seq(Tools) /\ given \in Seq(Tools)
      /\ \A t \in ToSet(given) : t.ns = <<>>
  <2>1. given \in Seq(Tools) /\ \A i \in DOMAIN given : given[i].ns = <<>>
    BY ConversationAssumption
  <2> QED BY <2>1, CarriedTyped DEF ToSet
<1> DEFINE now == neutralizeNamespaceToolChoice(x, h, choice)
<1>7. \/ choice.kind \in {"auto", "none", "namespace"}
      \/ \E t \in ToSet(given) \cup ToSet(carried) : choice = [kind |-> "tool", tool |-> t]
  BY DEF ChoicesOf
<1>8. ASSUME choice.kind = "tool"
      PROVE  now.kind = "tool" /\ now.tool.ns = <<>>
             /\ \E t \in ToSet(given) \cup ToSet(carried) : now.tool.name = Name(t)
  <2>1. PICK t \in ToSet(given) \cup ToSet(carried) : choice = [kind |-> "tool", tool |-> t]
    BY <1>7, <1>8
  <2>2. t \in Tools
    BY <1>6, <2>1 DEF ToSet
  <2>3. choice.kind = "tool" /\ choice.tool = t
    BY <2>1
  <2>4. CASE carried = <<>>
    <3>1. now = choice
      BY <2>4 DEF neutralizeNamespaceToolChoice
    <3>2. ToSet(carried) = {}
      BY <2>4 DEF ToSet
    <3>3. t.ns = <<>>
      BY <3>2, <2>1, <1>6
    <3>4. Name(t) = t.name
      BY <2>2, <3>3, FlatOutside
    <3> HIDE DEF now, carried, Name
    <3> QED BY <2>1, <2>3, <3>1, <3>3, <3>4
  <2>5. CASE carried # <<>> /\ \E u \in x.restore : SameIdentity(u, t)
    <3>1. now = [choice EXCEPT !.tool.ns = <<>>, !.tool.name = Name(t)]
      BY <2>3, <2>5 DEF neutralizeNamespaceToolChoice
    <3>2. t = [ns |-> t.ns, name |-> t.name, custom |-> t.custom]
      BY <2>2 DEF Tools
    <3> HIDE DEF Name, now, carried
    <3>3. now.kind = "tool" /\ now.tool.ns = <<>> /\ now.tool.name = Name(t)
      BY <2>1, <3>1, <3>2
    <3> QED BY <2>1, <3>3
  <2>6. CASE carried # <<>> /\ ~\E u \in x.restore : SameIdentity(u, t)
    <3>1. now = choice
      BY <2>3, <2>6 DEF neutralizeNamespaceToolChoice
    <3>2. t.ns = <<>>
      <4>1. CASE t \in ToSet(given)
        BY <4>1, <1>6
      <4>2. CASE t \in ToSet(carried)
        <5>1. PICK i \in 1 .. n : carried[i] = t
          BY <4>2, <1>6 DEF ToSet
        <5>2. t.ns # <<>> => t \in x.restore
          BY <5>1, <1>2, <1>3, <1>5 DEF ContextFits
        <5> QED BY <5>2, <2>6 DEF SameIdentity
      <4> QED BY <4>1, <4>2, <2>1
    <3>3. Name(t) = t.name
      BY <2>2, <3>2, FlatOutside
    <3> HIDE DEF now, carried, Name
    <3> QED BY <2>1, <2>3, <3>1, <3>2, <3>3
  <2> QED BY <2>4, <2>5, <2>6
<1>9. now.kind # "none"
  <2>1. choice.kind = "tool" => now.kind # "none"
    BY <1>8
  <2>2. choice.kind \in {"auto", "namespace"} => now.kind # "none"
    BY DEF neutralizeNamespaceToolChoice
  <2>3. choice.kind # "none"
    BY <1>3
  <2> QED BY <2>1, <2>2, <2>3, <1>7
<1>10. y.tools = c.tools /\ (now.kind = "tool" => y.choice = now)
  <2>1. Toolbox(h, x) = applyToolChoice(x.tools, now)
    BY <1>3 DEF Toolbox
  <2> HIDE DEF now
  <2> QED BY <2>1, <1>3, <1>4, <1>9 DEF applyToolChoice
<1>11. c.tools \in Seq(Tools)
       /\ \A i, j \in DOMAIN c.tools : Name(c.tools[i]) = Name(c.tools[j]) => i = j
  BY <1>2 DEF ContextFits
<1>12. Cardinality(offered) = Len(y.tools)
  BY <1>10, <1>11, DifferentNames
<1>13. \A t \in ToSet(c.tools) : Name(t) \in offered
  BY <1>10 DEF ToSet
<1>14. \A t \in ToSet(given) \cup ToSet(carried) : Name(t) \in offered
  <2>1. ASSUME NEW t \in ToSet(given) PROVE Name(t) \in offered
    <3>1. t \in ToSet(c.tools)
      BY <1>2 DEF ContextFits
    <3> QED BY <3>1, <1>13
  <2>2. ASSUME NEW t \in ToSet(carried) PROVE Name(t) \in offered
    <3>1. PICK i \in 1 .. n : carried[i] = t
      BY <1>6 DEF ToSet
    <3>2. PICK u \in ToSet(c.tools) : Name(u) = Name(carried[i])
      BY <1>2 DEF ContextFits
    <3> HIDE DEF offered
    <3> QED BY <3>1, <3>2, <1>13
  <2> QED BY <2>1, <2>2
<1>15. x.choice.kind = "tool" => y.choice.tool.ns = <<>> /\ y.choice.tool.name \in offered
  <2> HIDE DEF now, offered, carried, Name
  <2> QED BY <1>3, <1>8, <1>10, <1>14
<1> QED BY <1>12, <1>14, <1>15 DEF Offers

-----------------------------------------------------------------------------
(* The names of past calls *)

\* The calls of an input, under the names they are given in it.
CallNames(input) ==
  {[of |-> input[j].of, name |-> input[j].tool.name] :
     j \in {k \in DOMAIN input : input[k].kind = "call"}}

\* The calls of the history, each under the name its tool goes by.
PastNames(x, h) ==
  {[of |-> h[i].of,
    name |-> IF collectCarriedTools(h) # <<>> /\ \E u \in x.restore : SameIdentity(u, h[i].tool)
             THEN flattenNamespaceToolName(h[i].tool) ELSE h[i].tool.name] :
     i \in {j \in DOMAIN h : h[j].kind = "call"}}

LEMMA RewrittenCall ==
  ASSUME NEW restore, NEW item \in Items
  PROVE  LET y == rewriteNamespaceCall(restore, item) IN
         /\ y \in Items /\ y.kind = item.kind /\ y.of = item.of
         /\ y.kind = "call" =>
              y.tool.name = IF \E u \in restore : SameIdentity(u, item.tool)
                            THEN flattenNamespaceToolName(item.tool) ELSE item.tool.name
<1> DEFINE y == rewriteNamespaceCall(restore, item)
<1>1. CASE item.kind = "call" /\ \E u \in restore : SameIdentity(u, item.tool)
  <2> DEFINE flat == flattenNamespaceToolName(item.tool)
             t == item.tool
             u == [t EXCEPT !.ns = <<>>, !.name = flat]
  <2>1. y = [item EXCEPT !.tool.ns = <<>>, !.tool.name = flat]
    BY <1>1 DEF rewriteNamespaceCall
  <2>2. t \in Tools /\ item.of \in Marks /\ item.meant \in Tools
        /\ item = [kind |-> "call", of |-> item.of, tool |-> t, meant |-> item.meant]
    BY <1>1 DEF Items
  <2>3. flat \in Seq(STRING)
    BY <2>2, ConcatProperties DEF flattenNamespaceToolName, Tools
  <2>4. y = [item EXCEPT !.tool = u]
    BY <2>1, <2>2
  <2>5. u \in Tools /\ u.name = flat
    <3>1. t = [ns |-> t.ns, name |-> t.name, custom |-> t.custom] /\ t.custom \in BOOLEAN
      BY <2>2 DEF Tools
    <3>2. <<>> \in Seq(STRING)
      OBVIOUS
    <3> HIDE DEF t, flat
    <3> QED BY <2>3, <3>1, <3>2 DEF Tools
  <2> HIDE DEF y, u, t, flat
  <2>6. y = [kind |-> "call", of |-> item.of, tool |-> u, meant |-> item.meant]
    BY <2>2, <2>4
  <2>7. y \in Items /\ y.kind = "call" /\ y.of = item.of /\ y.tool = u
    BY <2>2, <2>5, <2>6 DEF Items
  <2> QED BY <1>1, <2>5, <2>7 DEF flat, y
<1>2. CASE ~(item.kind = "call" /\ \E u \in restore : SameIdentity(u, item.tool))
  <2>1. y = item
    BY <1>2 DEF rewriteNamespaceCall
  <2> HIDE DEF y
  <2> QED BY <1>2, <2>1 DEF y
<1> QED BY <1>1, <1>2

LEMMA AppliedCalls ==
  ASSUME NEW x, NEW h \in Seq(Items)
  PROVE  /\ applyCodexToolContext(x, h) \in Seq(Items)
         /\ CallNames(applyCodexToolContext(x, h)) \subseteq PastNames(x, h)
<1> DEFINE y == applyCodexToolContext(x, h)
<1>1. CASE collectCarriedTools(h) = <<>>
  <2>1. y = h
    BY <1>1 DEF applyCodexToolContext
  <2>2. CallNames(h) \subseteq PastNames(x, h)
    BY <1>1 DEF CallNames, PastNames
  <2> QED BY <2>1, <2>2
<1>2. CASE collectCarriedTools(h) # <<>>
  <2> DEFINE Re(item) == rewriteNamespaceCall(x.restore, item)
             W  == {Re(h[i]) : i \in DOMAIN h}
             ss == [i \in DOMAIN h |-> IF h[i].kind = "carrier" THEN <<>> ELSE <<Re(h[i])>>]
  <2>1. y = FlattenSeq(ss)
    BY <1>2 DEF applyCodexToolContext
  <2>2. \A i \in DOMAIN h : h[i] \in Items
    OBVIOUS
  <2>3. W \subseteq Items
    <3>1. \A item \in Items : Re(item) \in Items
      BY RewrittenCall
    <3> HIDE DEF Re
    <3> QED BY <2>2, <3>1
  <2>4. ss \in Seq(Seq(W))
    <3>1. Len(h) \in Nat /\ DOMAIN h = 1 .. Len(h) /\ DOMAIN ss = DOMAIN h
      OBVIOUS
    <3> HIDE DEF Re
    <3>2. \A i \in DOMAIN h : Re(h[i]) \in W
      OBVIOUS
    <3> HIDE DEF W
    <3>3. \A i \in DOMAIN h : <<Re(h[i])>> \in Seq(W) /\ <<>> \in Seq(W)
      BY <3>2
    <3>4. \A i \in DOMAIN h : ss[i] \in Seq(W)
      BY <3>3
    <3>5. ss \in [1 .. Len(h) -> Seq(W)]
      BY <3>1, <3>4
    <3> HIDE DEF ss
    <3> QED BY <3>1, <3>5, SeqDef
  <2> HIDE DEF ss, y
  <2>5. y \in Seq(W)
    BY <2>1, <2>4, FlattenTyped
  <2>6. y \in Seq(Items)
    <3> HIDE DEF W
    <3> QED BY <2>3, <2>5
  <2>7. ASSUME NEW j \in DOMAIN y, y[j].kind = "call"
        PROVE  [of |-> y[j].of, name |-> y[j].tool.name] \in PastNames(x, h)
    <3>1. y[j] \in W
      BY <2>5
    <3>2. PICK i \in DOMAIN h : y[j] = Re(h[i])
      BY <3>1
    <3>3. /\ Re(h[i]).kind = h[i].kind /\ Re(h[i]).of = h[i].of
          /\ Re(h[i]).kind = "call" =>
               Re(h[i]).tool.name = IF \E u \in x.restore : SameIdentity(u, h[i].tool)
                                    THEN flattenNamespaceToolName(h[i].tool)
                                    ELSE h[i].tool.name
      BY <2>2, RewrittenCall
    <3> HIDE DEF Re
    <3>4. h[i].kind = "call" /\ y[j].of = h[i].of
          /\ y[j].tool.name = IF \E u \in x.restore : SameIdentity(u, h[i].tool)
                              THEN flattenNamespaceToolName(h[i].tool)
                              ELSE h[i].tool.name
      BY <2>7, <3>2, <3>3
    <3> QED BY <1>2, <3>4 DEF PastNames
  <2> QED BY <2>6, <2>7 DEF CallNames, y
<1> QED BY <1>1, <1>2

\* A past call goes by the name its tool is offered under.
LEMMA PastOffered ==
  ASSUME NEW m, NEW given \in Tops, NEW h \in Seq(Items), Unique(h), MeantCalls(h),
         NEW x, NEW y, MadeOf(m, given, h, x, y),
         NEW s \in PastNames(x, h), NEW t \in ToSet(y.tools),
         NEW i \in DOMAIN h, h[i].kind = "call", h[i].of = s.of, SameIdentity(h[i].meant, t)
  PROVE  s.name = flattenNamespaceToolName(t)
<1> DEFINE c == buildCodexToolContext(given, h)
           carried == collectCarriedTools(h)
           flat == flattenNamespaceToolName(h[i].tool)
           known == \E u \in x.restore : SameIdentity(u, h[i].tool)
<1>1. s.name = IF carried # <<>> /\ known THEN flat ELSE h[i].tool.name
  <2>1. PICK j \in DOMAIN h :
          /\ h[j].kind = "call"
          /\ s = [of |-> h[j].of,
                  name |-> IF carried # <<>> /\ \E u \in x.restore : SameIdentity(u, h[j].tool)
                           THEN flattenNamespaceToolName(h[j].tool) ELSE h[j].tool.name]
    BY DEF PastNames
  <2>2. h[j].of = h[i].of
    BY <2>1
  <2>3. j = i
    <3> SUFFICES ASSUME j # i PROVE FALSE
      OBVIOUS
    <3>1. {h[j].kind, h[i].kind} = {"call", "result"}
      BY <2>1, <2>2 DEF Unique
    <3> QED BY <3>1, <2>1
  <2> HIDE DEF carried
  <2> QED BY <2>1, <2>3
<1>2. h[i].tool.ns = t.ns /\ h[i].tool.name = t.name
  BY DEF MeantCalls, SameIdentity
<1>3. flat = flattenNamespaceToolName(t)
  BY <1>2 DEF flattenNamespaceToolName
<1>4. PICK choice, opts : MadeFor(m, given, h, x, y, choice, opts)
  BY DEF MadeOf
<1>5. ContextFits(c, given, carried, Len(carried))
  BY ContextBuilt
<1>6. x.tools = c.tools /\ x.restore = c.restore /\ y.tools = Toolbox(h, x).tools
  BY <1>4, MadeFields
<1>7. t \in ToSet(c.tools) /\ t \in Tools
  <2>1. y.tools = <<>> \/ y.tools = c.tools
    BY <1>6 DEF applyToolChoice, Toolbox
  <2>2. ToSet(<<>>) = {}
    BY DEF ToSet
  <2>3. c.tools \in Seq(Tools)
    BY <1>5 DEF ContextFits
  <2>4. t \in ToSet(c.tools)
    BY <2>1, <2>2
  <2> QED BY <2>3, <2>4 DEF ToSet
<1>8. CASE carried # <<>> /\ known
  BY <1>1, <1>3, <1>8
<1>9. CASE ~(carried # <<>> /\ known)
  <2>1. t.ns = <<>>
    <3>1. t.ns # <<>> => t \in x.restore
      BY <1>5, <1>6, <1>7 DEF ContextFits
    <3>2. SameIdentity(t, h[i].tool)
      BY <1>2 DEF SameIdentity
    <3>3. CASE carried = <<>>
      <4>1. Len(carried) = 0
        BY <3>3
      <4>2. 1 .. 0 = {}
        OBVIOUS
      <4>3. t \in ToSet(given)
        BY <1>5, <1>7, <4>1, <4>2 DEF ContextFits
      <4>4. \A k \in DOMAIN given : given[k].ns = <<>>
        BY ConversationAssumption
      <4> QED BY <4>3, <4>4 DEF ToSet
    <3>4. CASE ~known
      BY <3>1, <3>2, <3>4
    <3> QED BY <3>3, <3>4, <1>9
  <2>2. flattenNamespaceToolName(t) = t.name
    BY <1>7, <2>1, FlatOutside
  <2>3. s.name = h[i].tool.name
    BY <1>1, <1>9
  <2> QED BY <2>2, <2>3, <1>2
<1> QED BY <1>8, <1>9

-----------------------------------------------------------------------------
(* A request for a Messages upstream *)

\* What is picked from a sequence has the type of what it was picked from.
LEMMA PickTyped ==
  ASSUME NEW V, NEW s \in Seq(V), NEW f, f = [i \in DOMAIN s |-> f[i]],
         \A i \in DOMAIN s : f[i] = <<s[i]>> \/ f[i] = <<>>
  PROVE  f \in Seq(Seq(V)) /\ FlattenSeq(f) \in Seq(V)
<1>1. Len(s) \in Nat /\ DOMAIN s = 1 .. Len(s) /\ \A i \in DOMAIN s : s[i] \in V
  OBVIOUS
<1>2. \A i \in DOMAIN s : <<s[i]>> \in Seq(V) /\ <<>> \in Seq(V)
  BY <1>1
<1>3. \A i \in DOMAIN s : f[i] \in Seq(V)
  BY <1>2
<1>4. f \in [1 .. Len(s) -> Seq(V)]
  BY <1>1, <1>3
<1>5. f \in Seq(Seq(V))
  BY <1>1, <1>4, SeqDef
<1> QED BY <1>5, FlattenTyped

ResultsOf(messages) == Only(messages, IsResult)
OthersOf(messages)  == Only(messages, LAMBDA m : ~IsResult(m))
AnswersTo(m, results) ==
  Only(results, LAMBDA r : m.content[1].type = "tool_use" /\ r.content[1].of = m.content[1].of)

LEMMA NormalizedIs ==
  ASSUME NEW messages
  PROVE  normalizeToolResultOrder(messages) =
           FlattenSeq([i \in DOMAIN OthersOf(messages) |->
                         <<OthersOf(messages)[i]>>
                           \o AnswersTo(OthersOf(messages)[i], ResultsOf(messages))])
BY DEF normalizeToolResultOrder, OthersOf, AnswersTo, ResultsOf, Only

LEMMA PartsTyped ==
  ASSUME NEW V, NEW s \in Seq(V)
  PROVE  /\ ResultsOf(s) \in Seq(V) /\ OthersOf(s) \in Seq(V)
         /\ \A m : AnswersTo(m, s) \in Seq(V)
         /\ Only(s, LAMBDA m : m.role # "system") \in Seq(V)
<1>1. ResultsOf(s) \in Seq(V)
  <2> DEFINE f == [i \in DOMAIN s |-> IF IsResult(s[i]) THEN <<s[i]>> ELSE <<>>]
  <2>1. f = [i \in DOMAIN s |-> f[i]] /\ \A i \in DOMAIN s : f[i] = <<s[i]>> \/ f[i] = <<>>
    OBVIOUS
  <2>2. ResultsOf(s) = FlattenSeq(f)
    BY DEF ResultsOf, Only
  <2> HIDE DEF f
  <2> QED BY <2>1, <2>2, PickTyped
<1>2. OthersOf(s) \in Seq(V)
  <2> DEFINE f == [i \in DOMAIN s |-> IF ~IsResult(s[i]) THEN <<s[i]>> ELSE <<>>]
  <2>1. f = [i \in DOMAIN s |-> f[i]] /\ \A i \in DOMAIN s : f[i] = <<s[i]>> \/ f[i] = <<>>
    OBVIOUS
  <2>2. OthersOf(s) = FlattenSeq(f)
    BY DEF OthersOf, Only
  <2> HIDE DEF f
  <2> QED BY <2>1, <2>2, PickTyped
<1>3. ASSUME NEW m PROVE AnswersTo(m, s) \in Seq(V)
  <2> DEFINE f == [i \in DOMAIN s |->
                     IF m.content[1].type = "tool_use" /\ s[i].content[1].of = m.content[1].of
                     THEN <<s[i]>> ELSE <<>>]
  <2>1. f = [i \in DOMAIN s |-> f[i]] /\ \A i \in DOMAIN s : f[i] = <<s[i]>> \/ f[i] = <<>>
    OBVIOUS
  <2>2. AnswersTo(m, s) = FlattenSeq(f)
    BY DEF AnswersTo, Only
  <2> HIDE DEF f
  <2> QED BY <2>1, <2>2, PickTyped
<1>4. Only(s, LAMBDA m : m.role # "system") \in Seq(V)
  <2> DEFINE f == [i \in DOMAIN s |-> IF s[i].role # "system" THEN <<s[i]>> ELSE <<>>]
  <2>1. f = [i \in DOMAIN s |-> f[i]] /\ \A i \in DOMAIN s : f[i] = <<s[i]>> \/ f[i] = <<>>
    OBVIOUS
  <2>2. Only(s, LAMBDA m : m.role # "system") = FlattenSeq(f)
    BY DEF Only
  <2> HIDE DEF f
  <2> QED BY <2>1, <2>2, PickTyped
<1> QED BY <1>1, <1>2, <1>3, <1>4

LEMMA NormalizedTyped ==
  ASSUME NEW V, NEW s \in Seq(V)
  PROVE  normalizeToolResultOrder(s) \in Seq(V)
<1> DEFINE others == OthersOf(s)
           results == ResultsOf(s)
           ss == [i \in DOMAIN others |-> <<others[i]>> \o AnswersTo(others[i], results)]
<1>1. others \in Seq(V) /\ results \in Seq(V)
  BY PartsTyped
<1>2. normalizeToolResultOrder(s) = FlattenSeq(ss)
  BY NormalizedIs
<1> HIDE DEF others, results
<1>3. ASSUME NEW i \in DOMAIN others PROVE ss[i] \in Seq(V)
  <2>1. others[i] \in V
    BY <1>1
  <2>2. <<others[i]>> \in Seq(V)
    BY <2>1
  <2>3. AnswersTo(others[i], results) \in Seq(V)
    BY <1>1, PartsTyped
  <2> QED BY <2>2, <2>3, ConcatProperties
<1>4. Len(others) \in Nat /\ DOMAIN others = 1 .. Len(others)
  BY <1>1
<1>5. ss \in [1 .. Len(others) -> Seq(V)]
  BY <1>3, <1>4
<1> HIDE DEF ss
<1>6. ss \in Seq(Seq(V))
  BY <1>4, <1>5, SeqDef
<1> QED BY <1>2, <1>6, FlattenTyped

MessagesOf(input, opts) == responsesToMessagesRequest(input, opts).messages

\* Every tool_use of a request is a call of the input, under the name it has there.
LEMMA MessagesNames ==
  ASSUME NEW input \in Seq(Items), NEW opts,
         NEW i \in DOMAIN MessagesOf(input, opts),
         NEW b \in ToSet(MessagesOf(input, opts)[i].content), b.type = "tool_use"
  PROVE  [of |-> b.of, name |-> b.name] \in CallNames(input)
<1> DEFINE paired == PairedToolCallIDs(input)
           Keep(j) == opts.images /\ ~opts.omit /\ j = CurrentInput(input)
           ms == [j \in DOMAIN input |-> convertMessageItem(input[j], paired, Keep(j))]
           V  == UNION {ToSet(ms[j]) : j \in DOMAIN input}
           all == inputToMessages(input, opts)
           kept == Only(all, LAMBDA m : m.role # "system")
<1>1. ASSUME NEW j \in DOMAIN input PROVE ms[j] \in Seq(V)
  <2>1. ms[j] = <<>> \/ \E m : ms[j] = <<m>>
    BY DEF convertMessageItem
  <2>2. CASE ms[j] = <<>>
    <3> HIDE DEF ms, V
    <3>1. <<>> \in Seq(V)
      OBVIOUS
    <3> QED BY <2>2, <3>1
  <2>3. CASE \E m : ms[j] = <<m>>
    <3> HIDE DEF ms
    <3>1. PICK m : ms[j] = <<m>>
      BY <2>3
    <3>2. m \in ToSet(ms[j])
      BY <3>1 DEF ToSet
    <3>3. m \in V
      BY <3>2
    <3> HIDE DEF V
    <3>4. <<m>> \in Seq(V)
      BY <3>3
    <3> QED BY <3>1, <3>4
  <2> QED BY <2>1, <2>2, <2>3
<1>2. ms \in Seq(Seq(V))
  <2>1. Len(input) \in Nat /\ DOMAIN input = 1 .. Len(input)
    OBVIOUS
  <2>2. ms = [j \in 1 .. Len(input) |-> ms[j]]
    BY <2>1
  <2> HIDE DEF ms, V
  <2>3. ms \in [1 .. Len(input) -> Seq(V)]
    BY <1>1, <2>1, <2>2
  <2> QED BY <2>1, <2>3, SeqDef
<1>3. all = normalizeToolResultOrder(FlattenSeq(ms))
  BY DEF inputToMessages
<1>4. MessagesOf(input, opts) = kept
  BY DEF MessagesOf, responsesToMessagesRequest
<1> HIDE DEF all
<1>5. kept \in Seq(V)
  <2> HIDE DEF ms, V
  <2>1. FlattenSeq(ms) \in Seq(V)
    BY <1>2, FlattenTyped
  <2>2. all \in Seq(V)
    BY <1>3, <2>1, NormalizedTyped
  <2> QED BY <2>2, PartsTyped
<1> HIDE DEF kept
<1>6. MessagesOf(input, opts)[i] \in V
  <2> HIDE DEF V
  <2> QED BY <1>4, <1>5
<1>7. PICK j \in DOMAIN input : MessagesOf(input, opts)[i] \in ToSet(ms[j])
  <2> HIDE DEF ms
  <2> QED BY <1>6
<1> DEFINE m == MessagesOf(input, opts)[i]
<1>8. m \in ToSet(convertMessageItem(input[j], paired, Keep(j)))
  BY <1>7
<1> HIDE DEF V, ms, paired, m, Keep
<1>9. b \in ToSet(m.content)
  BY DEF m
<1>10. CASE input[j].kind = "call"
  <2>1. convertMessageItem(input[j], paired, Keep(j))
          = <<Message("assistant", <<ToolUse(input[j].of, input[j].tool.name)>>)>>
    BY <1>10 DEF convertMessageItem, convertToolItem
  <2>2. m = Message("assistant", <<ToolUse(input[j].of, input[j].tool.name)>>)
    BY <1>8, <2>1 DEF ToSet
  <2>3. m.content = <<ToolUse(input[j].of, input[j].tool.name)>>
    BY <2>2 DEF Message
  <2>4. b = ToolUse(input[j].of, input[j].tool.name)
    BY <1>9, <2>3 DEF ToSet
  <2>5. b.of = input[j].of /\ b.name = input[j].tool.name
    BY <2>4 DEF ToolUse
  <2> QED BY <1>10, <2>5 DEF CallNames
<1>11. CASE input[j].kind # "call"
  <2> DEFINE blocks == convertContentBlocks(input[j], Keep(j))
  <2>1. \A k \in DOMAIN blocks : blocks[k].type # "tool_use"
    BY DEF convertContentBlocks, Text, Picture, LeftOut
  <2>2. \A x \in ToSet(blocks) : x.type # "tool_use"
    <3> HIDE DEF blocks
    <3> QED BY <2>1 DEF ToSet
  <2>3. \/ convertMessageItem(input[j], paired, Keep(j)) = <<>>
        \/ \E c : /\ c \in {blocks, <<ToolResult(input[j].of, blocks)>>, <<Text(input[j].of)>>}
                  /\ \E r : convertMessageItem(input[j], paired, Keep(j)) = <<Message(r, c)>>
    BY <1>11 DEF convertMessageItem, convertToolItem
  <2> HIDE DEF blocks
  <2>4. convertMessageItem(input[j], paired, Keep(j)) # <<>>
    BY <1>8 DEF ToSet
  <2>5. PICK c, r : /\ c \in {blocks, <<ToolResult(input[j].of, blocks)>>, <<Text(input[j].of)>>}
                    /\ convertMessageItem(input[j], paired, Keep(j)) = <<Message(r, c)>>
    BY <2>3, <2>4
  <2>6. m.content = c
    BY <1>8, <2>5 DEF ToSet, Message
  <2>7. ToolResult(input[j].of, blocks).type # "tool_use" /\ Text(input[j].of).type # "tool_use"
    BY DEF ToolResult, Text
  <2>8. \A x \in ToSet(c) : x.type # "tool_use"
    BY <2>2, <2>5, <2>7 DEF ToSet
  <2> QED BY <1>9, <2>6, <2>8
<1> QED BY <1>10, <1>11

-----------------------------------------------------------------------------
(* A request for a Chat upstream *)

Blocks == [type : {"text", "image", "omitted"}, of : Nat]

\* The messages of a Chat request whose calls are all in N, and what
\* inputToChatMessages may hold between two items.
ChatMessages(N) ==
  [role : {"assistant", "user", "tool"}, content : Seq(Blocks), calls : Seq(N),
   reasoning : Seq(Nat), answers : Nat]

Placements(N) ==
  [messages : Seq(ChatMessages(N)), calls : Seq(N), reasoning : Seq(Nat), last : Nat]

Fits(a, N) == a \in Placements(N) /\ a.last <= Len(a.messages)

LEMMA ChatMessageTyped ==
  ASSUME NEW N, NEW role \in {"assistant", "user", "tool"}, NEW content \in Seq(Blocks)
  PROVE  ChatMessage(role, content) \in ChatMessages(N)
<1>1. <<>> \in Seq(N) /\ <<>> \in Seq(Nat) /\ 0 \in Nat
  OBVIOUS
<1> QED BY <1>1 DEF ChatMessage, ChatMessages

LEMMA AttachTyped ==
  ASSUME NEW N, NEW m \in ChatMessages(N), NEW pending \in Seq(Nat)
  PROVE  attachReasoning(m, pending) \in ChatMessages(N)
<1> DEFINE f == [i \in DOMAIN pending |-> IF ~Contains(m.reasoning, pending[i])
                                          THEN <<pending[i]>> ELSE <<>>]
           new == FlattenSeq(f)
<1>1. new \in Seq(Nat)
  <2>1. f = [i \in DOMAIN pending |-> f[i]]
        /\ \A i \in DOMAIN pending : f[i] = <<pending[i]>> \/ f[i] = <<>>
    OBVIOUS
  <2> HIDE DEF f
  <2> QED BY <2>1, PickTyped
<1>2. attachReasoning(m, pending) = [m EXCEPT !.reasoning = @ \o new]
  BY DEF attachReasoning, Only
<1> HIDE DEF new
<1>3. m.reasoning \o new \in Seq(Nat)
  BY <1>1, ConcatProperties DEF ChatMessages
<1> QED BY <1>2, <1>3 DEF ChatMessages

LEMMA FlushTyped ==
  ASSUME NEW N, NEW a, Fits(a, N)
  PROVE  Fits(flushPendingToolCalls(a), N)
<1> DEFINE b == flushPendingToolCalls(a)
           M == ChatMessages(N)
           n == Len(a.messages)
<1>1. a \in Placements(N) /\ a.messages \in Seq(M) /\ a.calls \in Seq(N)
      /\ a.reasoning \in Seq(Nat) /\ a.last \in Nat /\ a.last <= n /\ n \in Nat
      /\ DOMAIN a.messages = 1 .. n
  BY DEF Fits, Placements
<1>2. CASE a.calls = <<>>
  BY <1>2 DEF flushPendingToolCalls
<1>3. CASE a.calls # <<>>
  <2> DEFINE joins == /\ a.last # 0
                      /\ a.messages[a.last].role = "assistant"
                      /\ ~hasToolCalls(a.messages[a.last])
             base  == IF joins THEN a.messages[a.last] ELSE ChatMessage("assistant", <<>>)
             with  == [base EXCEPT !.calls = a.calls]
             full  == attachReasoning(with, a.reasoning)
             ms    == IF joins THEN [a.messages EXCEPT ![a.last] = full]
                      ELSE Append(a.messages, full)
             last  == IF joins THEN a.last ELSE Len(a.messages) + 1
  <2>1. b = [messages |-> ms, calls |-> <<>>, reasoning |-> <<>>, last |-> last]
    BY <1>3 DEF flushPendingToolCalls
  <2>2. base \in M
    <3>1. <<>> \in Seq(Blocks)
      OBVIOUS
    <3>2. ChatMessage("assistant", <<>>) \in M
      BY <3>1, ChatMessageTyped
    <3>3. joins => a.messages[a.last] \in M
      BY <1>1
    <3> HIDE DEF M, joins
    <3> QED BY <3>2, <3>3
  <2> HIDE DEF base
  <2>3. with \in M
    BY <2>2, <1>1 DEF ChatMessages
  <2> HIDE DEF with
  <2>4. full \in M
    BY <2>3, <1>1, AttachTyped
  <2> HIDE DEF full
  <2>5. ms \in Seq(M) /\ last \in Nat /\ last <= Len(ms)
    <3> HIDE DEF M
    <3>1. CASE joins
      <4>1. a.last \in DOMAIN a.messages
        BY <3>1, <1>1
      <4>2. [a.messages EXCEPT ![a.last] = full] \in Seq(M)
            /\ Len([a.messages EXCEPT ![a.last] = full]) = n
        BY <4>1, <2>4, <1>1
      <4> QED BY <3>1, <4>2, <1>1
    <3>2. CASE ~joins
      <4>1. Append(a.messages, full) \in Seq(M) /\ Len(Append(a.messages, full)) = n + 1
        BY <2>4, <1>1
      <4> QED BY <3>2, <4>1, <1>1
    <3> QED BY <3>1, <3>2
  <2> HIDE DEF ms, last, b
  <2>6. <<>> \in Seq(N) /\ <<>> \in Seq(Nat)
    OBVIOUS
  <2>7. b \in Placements(N) /\ b.messages = ms /\ b.last = last
    BY <2>1, <2>5, <2>6 DEF Placements
  <2> QED BY <2>5, <2>7 DEF Fits, b
<1> QED BY <1>2, <1>3

LEMMA SettledTyped ==
  ASSUME NEW N, NEW a, Fits(a, N)
  PROVE  Fits(attachReasoningToPreviousAssistant(a), N)
<1> DEFINE b == attachReasoningToPreviousAssistant(a)
           M == ChatMessages(N)
           n == Len(a.messages)
<1>1. a \in Placements(N) /\ a.messages \in Seq(M) /\ a.calls \in Seq(N)
      /\ a.reasoning \in Seq(Nat) /\ a.last \in Nat /\ a.last <= n /\ n \in Nat
      /\ DOMAIN a.messages = 1 .. n
  BY DEF Fits, Placements
<1> DEFINE was  == a.messages[a.last]
           full == [was EXCEPT !.reasoning = @ \o a.reasoning]
           ms   == IF a.last = 0 THEN a.messages
                   ELSE [a.messages EXCEPT ![a.last].reasoning = @ \o a.reasoning]
<1>2. ms \in Seq(M) /\ Len(ms) = n
  <2>1. CASE a.last = 0
    BY <2>1, <1>1
  <2>2. CASE a.last # 0
    <3>1. a.last \in 1 .. n
      BY <1>1, <2>2
    <3>2. was \in M
      BY <1>1, <3>1
    <3>3. was.reasoning \o a.reasoning \in Seq(Nat)
      BY <1>1, <3>2, ConcatProperties DEF ChatMessages
    <3>4. full \in M
      BY <3>2, <3>3 DEF ChatMessages
    <3>5. ms = [a.messages EXCEPT ![a.last] = full]
      BY <2>2
    <3> HIDE DEF full, ms, M
    <3> QED BY <3>1, <3>4, <3>5, <1>1
  <2> QED BY <2>1, <2>2
<1>3. b = [a EXCEPT !.messages = ms, !.reasoning = <<>>]
  <2>1. CASE a.last = 0
    <3>1. b = [a EXCEPT !.reasoning = <<>>] /\ ms = a.messages
      BY <2>1 DEF attachReasoningToPreviousAssistant
    <3> HIDE DEF ms, b
    <3> QED BY <3>1, <1>1 DEF Placements
  <2>2. CASE a.last # 0
    <3>1. b = [a EXCEPT !.messages[a.last].reasoning = @ \o a.reasoning, !.reasoning = <<>>]
      BY <2>2 DEF attachReasoningToPreviousAssistant
    <3>2. ms = [a.messages EXCEPT ![a.last].reasoning = @ \o a.reasoning]
      BY <2>2
    <3> HIDE DEF ms, b
    <3> QED BY <3>1, <3>2
  <2> QED BY <2>1, <2>2
<1> HIDE DEF ms, b
<1>4. <<>> \in Seq(Nat)
  OBVIOUS
<1>5. b \in Placements(N) /\ b.messages = ms /\ b.last = a.last
  BY <1>1, <1>2, <1>3, <1>4 DEF Placements
<1> QED BY <1>1, <1>2, <1>5 DEF Fits, b

LEMMA BlocksTyped ==
  ASSUME NEW item \in Items, NEW keep
  PROVE  /\ item.of \in Nat
         /\ convertContentBlocks(item, keep) \in Seq(Blocks)
         /\ <<Text(item.of)>> \in Seq(Blocks) /\ <<Picture(item.of)>> \in Seq(Blocks)
         /\ <<Text(item.of), LeftOut(item.of)>> \in Seq(Blocks)
<1>1. item.of \in Nat
  BY ItemFields, ConversationAssumption
<1>2. Text(item.of) \in Blocks /\ Picture(item.of) \in Blocks /\ LeftOut(item.of) \in Blocks
  BY <1>1 DEF Text, Picture, LeftOut, Blocks
<1> DEFINE t == Text(item.of)
           p == Picture(item.of)
           l == LeftOut(item.of)
<1>3. convertContentBlocks(item, keep) \in
        {<<t>> \o <<>>, <<t>> \o <<p>>, <<t>> \o <<l>>}
  BY DEF convertContentBlocks
<1> HIDE DEF t, p, l
<1>4. <<t>> \in Seq(Blocks) /\ <<p>> \in Seq(Blocks) /\ <<l>> \in Seq(Blocks)
      /\ <<>> \in Seq(Blocks) /\ <<t, l>> \in Seq(Blocks)
  BY <1>2 DEF t, p, l
<1>5. convertContentBlocks(item, keep) \in Seq(Blocks)
  BY <1>3, <1>4, ConcatProperties
<1> QED BY <1>1, <1>4, <1>5 DEF t, p, l

\* A message more, and what goes with it.
LEMMA PlacedTyped ==
  ASSUME NEW N, NEW a, Fits(a, N), NEW ms, ms \in Seq(ChatMessages(N)),
         NEW reasoning \in Seq(Nat), NEW last \in Nat, last <= Len(a.messages) + Len(ms)
  PROVE  Fits([a EXCEPT !.messages = @ \o ms, !.reasoning = reasoning, !.last = last], N)
<1> DEFINE M == ChatMessages(N)
           b == [a EXCEPT !.messages = @ \o ms, !.reasoning = reasoning, !.last = last]
<1>1. a \in Placements(N) /\ a.messages \in Seq(M)
  BY DEF Fits, Placements
<1>2. a.messages \o ms \in Seq(M) /\ Len(a.messages \o ms) = Len(a.messages) + Len(ms)
  BY <1>1, ConcatPlaces
<1> HIDE DEF b
<1>3. b \in Placements(N) /\ b.messages = a.messages \o ms /\ b.last = last
  BY <1>1, <1>2 DEF b, Placements
<1> QED BY <1>2, <1>3 DEF Fits, b

LEMMA PlaceItemTyped ==
  ASSUME NEW N, NEW a, Fits(a, N), NEW item \in Items, NEW paired, NEW keep,
         item.kind = "call" => [of |-> item.of, name |-> item.tool.name] \in N
  PROVE  Fits(PlaceItem(a, item, paired, keep), N)
<1> DEFINE M == ChatMessages(N)
           f == flushPendingToolCalls(a)
<1>1. a \in Placements(N) /\ a.messages \in Seq(M) /\ a.calls \in Seq(N)
      /\ a.reasoning \in Seq(Nat) /\ a.last \in Nat /\ a.last <= Len(a.messages)
  BY DEF Fits, Placements
<1>2. Fits(f, N)
  BY FlushTyped
<1> HIDE DEF f
<1>3. f \in Placements(N) /\ f.messages \in Seq(M) /\ f.last \in Nat
      /\ f.reasoning \in Seq(Nat) /\ f.last <= Len(f.messages) /\ Len(f.messages) \in Nat
      /\ f = [f EXCEPT !.reasoning = f.reasoning] /\ f = [f EXCEPT !.last = f.last]
  <2>1. f \in Placements(N) /\ f.messages \in Seq(M) /\ f.last \in Nat
        /\ f.reasoning \in Seq(Nat) /\ f.last <= Len(f.messages)
    BY <1>2 DEF Fits, Placements
  <2> HIDE DEF M
  <2> QED BY <2>1 DEF Placements
<1>4. CASE item.kind = "reasoning"
  <2>1. item.of \in Nat
    BY BlocksTyped
  <2> DEFINE r == appendUniqueReasoning(a.reasoning, item.of)
  <2>2. r \in Seq(Nat)
    BY <1>1, <2>1 DEF appendUniqueReasoning
  <2>3. PlaceItem(a, item, paired, keep) = [a EXCEPT !.reasoning = r]
    BY <1>4 DEF PlaceItem
  <2> HIDE DEF r
  <2> QED BY <1>1, <2>2, <2>3 DEF Fits, Placements
<1>5. CASE item.kind = "call"
  <2> DEFINE s == Append(a.calls, [of |-> item.of, name |-> item.tool.name])
  <2>1. s \in Seq(N)
    BY <1>1, <1>5
  <2>2. PlaceItem(a, item, paired, keep) = [a EXCEPT !.calls = s]
    BY <1>5 DEF PlaceItem
  <2> HIDE DEF s
  <2> QED BY <1>1, <2>1, <2>2 DEF Fits, Placements
<1>6. CASE item.kind = "result"
  <2> DEFINE ms   == toolOutputToChatMessages(item, paired, keep)
             last == IF HasImage(item) /\ keep THEN 0 ELSE f.last
  <2>1. PlaceItem(a, item, paired, keep)
          = [f EXCEPT !.messages = @ \o ms, !.last = last]
    BY <1>6 DEF PlaceItem, PlaceResult, f
  <2>2. ms \in Seq(M)
    <3> DEFINE text == IF HasImage(item) /\ ~keep THEN <<Text(item.of), LeftOut(item.of)>>
                       ELSE <<Text(item.of)>>
               plain == ChatMessage("tool", text)
               one   == IF item.of \in paired THEN [plain EXCEPT !.answers = item.of]
                        ELSE ChatMessage("user", text)
               two   == IF HasImage(item) /\ keep
                        THEN <<ChatMessage("user", <<Picture(item.of)>>)>> ELSE <<>>
    <3>1. text \in Seq(Blocks)
      BY BlocksTyped
    <3>2. <<Picture(item.of)>> \in Seq(Blocks) /\ item.of \in Nat
      BY BlocksTyped
    <3> HIDE DEF text
    <3>3. plain \in M /\ ChatMessage("user", text) \in M
          /\ ChatMessage("user", <<Picture(item.of)>>) \in M
      BY <3>1, <3>2, ChatMessageTyped
    <3> HIDE DEF plain
    <3>4. [plain EXCEPT !.answers = item.of] \in M
      BY <3>2, <3>3 DEF ChatMessages
    <3> HIDE DEF M
    <3>5. <<one>> \in Seq(M) /\ two \in Seq(M)
      BY <3>3, <3>4
    <3>6. ms = <<one>> \o two
      BY DEF toolOutputToChatMessages, text, plain
    <3> HIDE DEF one, two, ms
    <3> QED BY <3>5, <3>6, ConcatProperties
  <2>3. last \in Nat /\ last <= Len(f.messages) + Len(ms)
    <3>1. Len(ms) \in Nat
      BY <2>2
    <3> HIDE DEF ms
    <3> QED BY <1>3, <3>1
  <2>4. [f EXCEPT !.messages = @ \o ms, !.last = last]
          = [f EXCEPT !.messages = @ \o ms, !.reasoning = f.reasoning, !.last = last]
    <3> HIDE DEF ms, last, M
    <3> QED BY <1>3 DEF Placements
  <2> HIDE DEF ms, last
  <2>5. Fits([f EXCEPT !.messages = @ \o ms, !.reasoning = f.reasoning, !.last = last], N)
    BY <1>2, <1>3, <2>2, <2>3, PlacedTyped
  <2> QED BY <2>1, <2>4, <2>5
<1>7. CASE item.kind = "assistant"
  <2> DEFINE m  == attachReasoning(ChatMessage("assistant", <<Text(item.of)>>), f.reasoning)
             last == Len(f.messages) + 1
  <2>1. PlaceItem(a, item, paired, keep)
          = [f EXCEPT !.messages = Append(@, m), !.reasoning = <<>>, !.last = last]
    BY <1>7 DEF PlaceItem, PlaceAssistant, f
  <2>2. m \in M
    <3>1. ChatMessage("assistant", <<Text(item.of)>>) \in M
      BY BlocksTyped, ChatMessageTyped
    <3> QED BY <3>1, <1>3, AttachTyped
  <2> HIDE DEF m, M
  <2>3. <<m>> \in Seq(M) /\ Len(<<m>>) = 1 /\ Append(f.messages, m) = f.messages \o <<m>>
    BY <1>3, <2>2, AppendIsConcat
  <2>4. last \in Nat /\ last <= Len(f.messages) + Len(<<m>>) /\ <<>> \in Seq(Nat)
    BY <1>3, <2>3
  <2> HIDE DEF last
  <2>5. Fits([f EXCEPT !.messages = @ \o <<m>>, !.reasoning = <<>>, !.last = last], N)
    BY <1>2, <2>3, <2>4, PlacedTyped DEF M
  <2> QED BY <2>1, <2>3, <2>5
<1>8. CASE item.kind = "user"
  <2> DEFINE g == attachReasoningToPreviousAssistant(f)
             m == ChatMessage("user", convertContentBlocks(item, keep))
             no == <<>>
  <2>1. PlaceItem(a, item, paired, keep) = [g EXCEPT !.messages = Append(@, m), !.last = 0]
    BY <1>8 DEF PlaceItem, PlaceUser, f
  <2>2. Fits(g, N)
    BY <1>2, SettledTyped
  <2>3. m \in M
    BY BlocksTyped, ChatMessageTyped
  <2> HIDE DEF g, m
  <2>4. g \in Placements(N) /\ g.messages \in Seq(M) /\ g.reasoning \in Seq(Nat)
    BY <2>2 DEF Fits, Placements
  <2> HIDE DEF M
  <2>5. <<m>> \in Seq(M) /\ Len(<<m>>) = 1 /\ Append(g.messages, m) = g.messages \o <<m>>
        /\ Len(g.messages) \in Nat
    <3>1. Append(g.messages, m) = g.messages \o <<m>>
      BY <2>3, <2>4, AppendIsConcat
    <3> QED BY <2>3, <2>4, <3>1
  <2>6. 0 \in Nat /\ 0 <= Len(g.messages) + Len(<<m>>)
    BY <2>5
  <2>7. Fits([g EXCEPT !.messages = @ \o <<m>>, !.reasoning = g.reasoning, !.last = 0], N)
    BY <2>2, <2>4, <2>5, <2>6, PlacedTyped DEF M
  <2>8. [g EXCEPT !.messages = @ \o <<m>>, !.last = 0]
          = [g EXCEPT !.messages = @ \o <<m>>, !.reasoning = g.reasoning, !.last = 0]
    BY <2>4 DEF Placements
  <2> QED BY <2>1, <2>5, <2>7, <2>8
<1>9. CASE item.kind \notin {"reasoning", "call", "result", "assistant", "user"}
  BY <1>9 DEF PlaceItem
<1> QED BY <1>4, <1>5, <1>6, <1>7, <1>8, <1>9

LEMMA PlacedFits ==
  ASSUME NEW input \in Seq(Items), NEW paired, NEW keep
  PROVE  Fits(Placed(input, paired, keep), CallNames(input))
<1> DEFINE N == CallNames(input)
           n == Len(input)
           R == {p \in Nat \X Placements(N) : Fits(p[2], N)}
<1>1. n \in Nat /\ DOMAIN input = 1 .. n /\ \A i \in 1 .. n : input[i] \in Items
  OBVIOUS
<1>2. \A i, a : <<i, a>> \in R <=> i \in Nat /\ Fits(a, N)
  BY DEF Fits
<1>3. \A i \in 1 .. n : input[i].kind = "call" =>
        [of |-> input[i].of, name |-> input[i].tool.name] \in N
  BY <1>1 DEF CallNames
<1> HIDE DEF R, N, n
<1>4. <<0, Start>> \in R
  <2>1. <<>> \in Seq(ChatMessages(N)) /\ <<>> \in Seq(N) /\ <<>> \in Seq(Nat)
        /\ 0 \in Nat /\ 0 <= Len(<<>>)
    OBVIOUS
  <2>2. Start \in Placements(N) /\ Start.last = 0 /\ Start.messages = <<>>
    BY <2>1 DEF Start, Placements
  <2>3. Fits(Start, N)
    BY <2>1, <2>2 DEF Fits
  <2> QED BY <2>1, <2>3, <1>2
<1>5. ASSUME NEW i \in 1 .. n, NEW a, <<i - 1, a>> \in R
      PROVE  <<i, PlaceItem(a, input[i], paired, keep)>> \in R
  <2>1. i \in Nat
    BY <1>1
  <2>2. Fits(a, N)
    BY <1>5, <1>2
  <2>3. Fits(PlaceItem(a, input[i], paired, keep), N)
    BY <1>1, <1>3, <2>2, PlaceItemTyped
  <2> QED BY <2>1, <2>3, <1>2
<1>6. <<n, Placed(input, paired, keep)>> \in R
  BY <1>1, <1>4, <1>5, PlacedByInduction
<1> QED BY <1>6, <1>2 DEF N

LEMMA BackfillTyped ==
  ASSUME NEW N, NEW messages \in Seq(ChatMessages(N))
  PROVE  backfillToolCallReasoningPlaceholders(messages) \in Seq(ChatMessages(N))
<1> DEFINE M == ChatMessages(N)
           b == backfillToolCallReasoningPlaceholders(messages)
<1>1. Len(messages) \in Nat /\ DOMAIN messages = 1 .. Len(messages)
      /\ \A i \in DOMAIN messages : messages[i] \in M
  OBVIOUS
<1>2. \A m \in M : [m EXCEPT !.reasoning = <<Placeholder>>] \in M
  <2>1. <<Placeholder>> \in Seq(Nat)
    BY DEF Placeholder
  <2> QED BY <2>1 DEF ChatMessages
<1> HIDE DEF M
<1>3. b \in [1 .. Len(messages) -> M]
  BY <1>1, <1>2 DEF backfillToolCallReasoningPlaceholders
<1> HIDE DEF b
<1>4. b \in Seq(M)
  BY <1>1, <1>3, SeqDef
<1> QED BY <1>4 DEF M, b

LEMMA ChatTyped ==
  ASSUME NEW input \in Seq(Items), NEW opts
  PROVE  inputToChatMessages(input, opts) \in Seq(ChatMessages(CallNames(input)))
<1> DEFINE N == CallNames(input)
           p == Placed(input, PairedToolCallIDs(input), opts.images /\ ~opts.omit)
           f == flushPendingToolCalls(p)
           d == attachReasoningToPreviousAssistant(f)
<1>1. Fits(p, N)
  BY PlacedFits
<1> HIDE DEF p, N
<1>2. Fits(f, N)
  BY <1>1, FlushTyped
<1> HIDE DEF f
<1>3. Fits(d, N)
  BY <1>2, SettledTyped
<1> HIDE DEF d
<1>4. d.messages \in Seq(ChatMessages(N))
  BY <1>3 DEF Fits, Placements
<1>5. backfillToolCallReasoningPlaceholders(d.messages) \in Seq(ChatMessages(N))
  BY <1>4, BackfillTyped
<1> QED BY <1>5, ChatMessagesOfPlaced DEF N, d, f, p

\* The names shown are those of calls of the input as it is converted.
LEMMA NamesShown ==
  ASSUME NEW x, NEW opts, NEW m \in Models,
         history \in Seq(Items), model = m,
         body.messages = ConvertedOf(m, applyCodexToolContext(x, history), opts).messages,
         NEW s \in ShownNames
  PROVE  s \in PastNames(x, history)
<1> DEFINE input == applyCodexToolContext(x, history)
<1>1. input \in Seq(Items) /\ CallNames(input) \subseteq PastNames(x, history)
  BY AppliedCalls
<1> HIDE DEF input
<1>2. CASE model.route = "messages"
  <2>1. body.messages = MessagesOf(input, opts)
    BY <1>2 DEF ConvertedOf, MessagesOf, input
  <2>2. PICK i \in DOMAIN body.messages : \E b \in ToSet(body.messages[i].content) :
          b.type = "tool_use" /\ s = [of |-> b.of, name |-> b.name]
    BY <1>2 DEF ShownNames
  <2>3. s \in CallNames(input)
    <3>1. PICK b \in ToSet(body.messages[i].content) :
            b.type = "tool_use" /\ s = [of |-> b.of, name |-> b.name]
      BY <2>2
    <3> QED BY <1>1, <2>1, <3>1, MessagesNames
  <2> QED BY <2>3, <1>1
<1>3. CASE model.route # "messages"
  <2>1. body.messages = inputToChatMessages(input, opts)
    BY <1>3 DEF ConvertedOf, responsesToChatRequest, input
  <2>2. PICK i \in DOMAIN body.messages : s \in ToSet(body.messages[i].calls)
    BY <1>3 DEF ShownNames
  <2>3. body.messages[i].calls \in Seq(CallNames(input))
    <3>1. body.messages \in Seq(ChatMessages(CallNames(input)))
      BY <1>1, <2>1, ChatTyped
    <3>2. body.messages[i] \in ChatMessages(CallNames(input))
      BY <3>1
    <3> QED BY <3>2 DEF ChatMessages
  <2>4. s \in CallNames(input)
    BY <2>2, <2>3 DEF ToSet
  <2> QED BY <2>4, <1>1
<1> QED BY <1>2, <1>3

\* One name for one tool, across the turns and the retries
\* (restoreNamespaceNames, buildCodexToolContext, rewriteInputNamespaceCalls).
THEOREM OneNameForOneTool == Spec => []OneName
<1>1. Intact => OneName
  <2> SUFFICES ASSUME Intact PROVE OneName
    OBVIOUS
  <2>1. history \in Seq(Items) /\ Unique(history) /\ MeantCalls(history)
        /\ model \in Models /\ top \in Tops
    BY DEF Intact
  <2>2. \A i \in DOMAIN history : history[i].kind = "call" => history[i].tool = history[i].meant
    BY <2>1 DEF MeantCalls
  <2>3. ASSUME Sent PROVE MadeOf(model, top, history, ctx, body)
    BY <2>3 DEF Intact
  <2>4. ASSUME Sent, ctx.choice.kind # "none" PROVE Offers(ctx, body, top, history)
    BY <2>1, <2>3, <2>4, DeclaredOffered
  <2>5. ASSUME Sent, NEW t \in ToSet(body.tools), NEW s \in ShownNames,
               NEW i \in DOMAIN history, history[i].kind = "call", history[i].of = s.of,
               SameIdentity(history[i].meant, t)
        PROVE  s.name = flattenNamespaceToolName(t)
    <3>1. PICK choice, opts : MadeFor(model, top, history, ctx, body, choice, opts)
      BY <2>3, <2>5 DEF MadeOf
    <3>2. body.messages = ConvertedOf(model, applyCodexToolContext(ctx, history), opts).messages
      BY <3>1, MadeFields
    <3>3. s \in PastNames(ctx, history)
      BY <3>2, <2>1, NamesShown
    <3> QED BY <3>3, <2>1, <2>3, <2>5, PastOffered
  <2> QED BY <2>2, <2>4, <2>5 DEF OneName, Offers
<1> QED BY <1>1, StaysIntact, PTL

-----------------------------------------------------------------------------
(* What is picked stays in order *)

\* x is what the first n sequences of ss hold, each of them one element or none:
\* g[k] is the sequence that element k comes from.
Embeds(g, x, ss, n) ==
  /\ g \in [1 .. Len(x) -> 1 .. n]
  /\ \A k \in 1 .. Len(x) : ss[g[k]] = <<x[k]>>
  /\ \A j, k \in 1 .. Len(x) : j < k => g[j] < g[k]
  /\ \A i \in 1 .. n : ss[i] # <<>> => \E k \in 1 .. Len(x) : g[k] = i

LEMMA EmbedsNone ==
  ASSUME NEW V, NEW ss, NEW i \in Nat, NEW x \in Seq(V), NEW g, Embeds(g, x, ss, i),
         ss[i + 1] = <<>>
  PROVE  Embeds(g, x, ss, i + 1)
<1>1. \A k \in 1 .. i : k \in 1 .. i + 1
  OBVIOUS
<1>2. \A k \in 1 .. i + 1 : k \in 1 .. i \/ k = i + 1
  OBVIOUS
<1>3. g \in [1 .. Len(x) -> 1 .. i + 1]
  BY <1>1 DEF Embeds
<1> QED BY <1>2, <1>3 DEF Embeds

LEMMA EmbedsOne ==
  ASSUME NEW V, NEW ss, NEW i \in Nat, NEW x \in Seq(V), NEW g, Embeds(g, x, ss, i),
         NEW v \in V, ss[i + 1] = <<v>>
  PROVE  Embeds([k \in 1 .. Len(x) + 1 |-> IF k <= Len(x) THEN g[k] ELSE i + 1],
                x \o <<v>>, ss, i + 1)
<1> DEFINE y == x \o <<v>>
           n == Len(x)
           f == [k \in 1 .. n + 1 |-> IF k <= n THEN g[k] ELSE i + 1]
<1>1. n \in Nat /\ y \in Seq(V) /\ Len(y) = n + 1 /\ y[n + 1] = v
      /\ \A k \in 1 .. n : y[k] = x[k]
  OBVIOUS
<1>2. /\ \A k \in 1 .. n : g[k] \in 1 .. i /\ ss[g[k]] = <<x[k]>>
      /\ \A j, k \in 1 .. n : j < k => g[j] < g[k]
      /\ \A j \in 1 .. i : ss[j] # <<>> => \E k \in 1 .. n : g[k] = j
  BY DEF Embeds
<1>3. \A k \in 1 .. n + 1 : (k \in 1 .. n /\ f[k] = g[k] /\ k <= n) \/ (k = n + 1 /\ f[k] = i + 1)
  <2> HIDE DEF n
  <2>1. n \in Nat
    BY <1>1
  <2>2. ASSUME NEW k \in 1 .. n + 1
        PROVE  (k \in 1 .. n /\ f[k] = g[k] /\ k <= n) \/ (k = n + 1 /\ f[k] = i + 1)
    <3>1. (k \in 1 .. n /\ k <= n) \/ (k = n + 1 /\ ~(k <= n))
      <4> HIDE DEF f, y
      <4> QED BY <2>1
    <3>2. f[k] = IF k <= n THEN g[k] ELSE i + 1
      OBVIOUS
    <3> HIDE DEF f
    <3> QED BY <3>1, <3>2
  <2> QED BY <2>2
<1>4. \A k \in 1 .. n : k \in 1 .. n + 1 /\ f[k] = g[k]
  <2> HIDE DEF f
  <2>1. \A k \in 1 .. n : k \in 1 .. n + 1 /\ k # n + 1
    BY <1>1
  <2> QED BY <2>1, <1>3
<1>5. n + 1 \in 1 .. n + 1 /\ f[n + 1] = i + 1 /\ f = [k \in 1 .. n + 1 |-> f[k]]
  BY <1>1
<1> HIDE DEF y, n, f
<1>6. \A j \in 1 .. i : j \in 1 .. i + 1 /\ j < i + 1
  OBVIOUS
<1>7. i + 1 \in 1 .. i + 1
  OBVIOUS
<1>8. ASSUME NEW k \in 1 .. n + 1 PROVE f[k] \in 1 .. i + 1 /\ ss[f[k]] = <<y[k]>>
  <2>1. CASE k \in 1 .. n /\ f[k] = g[k]
    <3>1. g[k] \in 1 .. i /\ ss[g[k]] = <<x[k]>>
      BY <2>1, <1>2
    <3> QED BY <2>1, <3>1, <1>1, <1>6
  <2>2. CASE k = n + 1 /\ f[k] = i + 1
    BY <2>2, <1>1, <1>7
  <2> QED BY <2>1, <2>2, <1>3
<1>9. f \in [1 .. n + 1 -> 1 .. i + 1]
  BY <1>5, <1>8
<1>10. ASSUME NEW j \in 1 .. n + 1, NEW k \in 1 .. n + 1, j < k PROVE f[j] < f[k]
  <2>1. j \in 1 .. n /\ f[j] = g[j]
    BY <1>1, <1>3, <1>10
  <2>2. CASE k \in 1 .. n /\ f[k] = g[k]
    BY <2>1, <2>2, <1>2, <1>10
  <2>3. CASE k = n + 1 /\ f[k] = i + 1
    <3>1. g[j] \in 1 .. i
      BY <2>1, <1>2
    <3> QED BY <2>1, <2>3, <3>1, <1>6
  <2> QED BY <2>2, <2>3, <1>3
<1>11. ASSUME NEW j \in 1 .. i + 1, ss[j] # <<>> PROVE \E k \in 1 .. n + 1 : f[k] = j
  <2>1. j \in 1 .. i \/ j = i + 1
    OBVIOUS
  <2>2. CASE j \in 1 .. i
    <3>1. PICK k \in 1 .. n : g[k] = j
      BY <2>2, <1>2, <1>11
    <3> QED BY <3>1, <1>4
  <2>3. CASE j = i + 1
    BY <2>3, <1>5
  <2> QED BY <2>1, <2>2, <2>3
<1>12. Embeds(f, y, ss, i + 1)
  BY <1>1, <1>8, <1>9, <1>10, <1>11 DEF Embeds
<1> QED BY <1>12 DEF f, y, n

LEMMA FlattenEmbeds ==
  ASSUME NEW V, NEW ss \in Seq(Seq(V)),
         \A i \in DOMAIN ss : ss[i] = <<>> \/ \E v \in V : ss[i] = <<v>>
  PROVE  \E g : Embeds(g, FlattenSeq(ss), ss, Len(ss))
<1> DEFINE n == Len(ss)
           R == {p \in Nat \X Seq(V) : \E g : Embeds(g, p[2], ss, p[1])}
<1>1. n \in Nat /\ DOMAIN ss = 1 .. n /\ Len(ss) = n
  OBVIOUS
<1>2. \A i, x : <<i, x>> \in R <=> i \in Nat /\ x \in Seq(V) /\ \E g : Embeds(g, x, ss, i)
  OBVIOUS
<1> HIDE DEF R
<1>3. Embeds(<<>>, <<>>, ss, 0) /\ <<>> \in Seq(V) /\ <<>> \o <<>> = <<>>
  <2>1. 1 .. 0 = {} /\ Len(<<>>) = 0 /\ <<>> \in [{} -> {}]
    OBVIOUS
  <2> QED BY <2>1 DEF Embeds
<1>4. ASSUME NEW i \in Nat, i + 1 \in 1 .. n, NEW x, <<i, x>> \in R
      PROVE  <<i + 1, x \o ss[i + 1]>> \in R
  <2>1. x \in Seq(V)
    BY <1>2, <1>4
  <2>2. PICK g : Embeds(g, x, ss, i)
    BY <1>2, <1>4
  <2>3. i + 1 \in Nat
    OBVIOUS
  <2>4. CASE ss[i + 1] = <<>>
    <3>1. Embeds(g, x, ss, i + 1)
      BY <2>1, <2>2, <2>4, EmbedsNone
    <3>2. x \o ss[i + 1] = x
      BY <2>1, <2>4, ConcatEmptySeq
    <3> QED BY <2>1, <2>3, <3>1, <3>2, <1>2
  <2>5. CASE \E v \in V : ss[i + 1] = <<v>>
    <3>1. PICK v \in V : ss[i + 1] = <<v>>
      BY <2>5
    <3> DEFINE f == [k \in 1 .. Len(x) + 1 |-> IF k <= Len(x) THEN g[k] ELSE i + 1]
    <3>2. Embeds(f, x \o <<v>>, ss, i + 1)
      BY <2>1, <2>2, <3>1, EmbedsOne
    <3> HIDE DEF f
    <3>3. x \o <<v>> \in Seq(V)
      BY <2>1
    <3> QED BY <2>3, <3>1, <3>2, <3>3, <1>2
  <2> QED BY <2>4, <2>5, <1>1, <1>4
<1>5. CASE n = 0
  <2>1. ss = <<>>
    BY <1>5
  <2>2. FlattenSeq(ss) = <<>>
    BY <2>1 DEF FlattenSeq
  <2> QED BY <1>1, <1>3, <1>5, <2>2
<1>6. CASE n # 0
  <2>1. n \in Nat \ {0}
    BY <1>1, <1>6
  <2>2. <<1, ss[1]>> \in R
    <3>1. 0 \in Nat /\ 0 + 1 = 1 /\ 1 \in 1 .. n
      BY <2>1
    <3>2. <<0, <<>> >> \in R
      BY <1>2, <1>3
    <3>3. <<1, <<>> \o ss[1]>> \in R
      BY <3>1, <3>2, <1>4
    <3>4. ss[1] \in Seq(V)
      BY <3>1, <1>1
    <3>5. <<>> \o ss[1] = ss[1]
      BY <3>4, ConcatEmptySeq
    <3> QED BY <3>3, <3>5
  <2>3. ASSUME NEW i \in 1 .. n - 1, NEW x, <<i, x>> \in R
        PROVE  <<i + 1, x \o ss[i + 1]>> \in R
    <3>1. i \in Nat /\ i + 1 \in 1 .. n
      BY <1>1
    <3> QED BY <3>1, <2>3, <1>4
  <2> HIDE DEF n
  <2>4. <<n, FlattenSeq(ss)>> \in R
    BY <2>1, <2>2, <2>3, <1>1, FlattenByInduction
  <2>5. \E g : Embeds(g, FlattenSeq(ss), ss, n)
    BY <2>4, <1>2
  <2> QED BY <2>5 DEF n
<1> QED BY <1>5, <1>6

\* The input is the history without its carriers, every item in its place.
Follow(g, x, h) ==
  /\ g \in [1 .. Len(x) -> 1 .. Len(h)]
  /\ \A k \in 1 .. Len(x) : x[k].kind = h[g[k]].kind /\ x[k].of = h[g[k]].of
  /\ \A j, k \in 1 .. Len(x) : j < k => g[j] < g[k]
  /\ \A i \in 1 .. Len(h) : h[i].kind # "carrier" => \E k \in 1 .. Len(x) : g[k] = i

LEMMA AppliedFollows ==
  ASSUME NEW x, NEW h \in Seq(Items)
  PROVE  /\ applyCodexToolContext(x, h) \in Seq(Items)
         /\ \E g : Follow(g, applyCodexToolContext(x, h), h)
<1> DEFINE y == applyCodexToolContext(x, h)
<1>0. y \in Seq(Items) /\ Len(h) \in Nat
  BY AppliedCalls
<1>1. CASE collectCarriedTools(h) = <<>>
  <2>1. y = h
    BY <1>1 DEF applyCodexToolContext
  <2> DEFINE g == [i \in 1 .. Len(h) |-> i]
  <2>2. g \in [1 .. Len(h) -> 1 .. Len(h)] /\ \A i \in 1 .. Len(h) : g[i] = i
    OBVIOUS
  <2> HIDE DEF g, y
  <2>3. Follow(g, h, h)
    BY <2>2 DEF Follow
  <2> QED BY <1>0, <2>1, <2>3 DEF y
<1>2. CASE collectCarriedTools(h) # <<>>
  <2> DEFINE Re(item) == rewriteNamespaceCall(x.restore, item)
             ss == [i \in DOMAIN h |-> IF h[i].kind = "carrier" THEN <<>> ELSE <<Re(h[i])>>]
  <2>1. y = FlattenSeq(ss)
    BY <1>2 DEF applyCodexToolContext
  <2>2. \A i \in DOMAIN h : h[i] \in Items
    OBVIOUS
  <2>3. \A item \in Items : Re(item) \in Items /\ Re(item).kind = item.kind /\ Re(item).of = item.of
    BY RewrittenCall
  <2> HIDE DEF Re
  <2>4. \A i \in DOMAIN h : \/ h[i].kind = "carrier" /\ ss[i] = <<>>
                            \/ h[i].kind # "carrier" /\ ss[i] = <<Re(h[i])>>
    OBVIOUS
  <2>5. \A i \in DOMAIN h : <<Re(h[i])>> \in Seq(Items) /\ <<>> \in Seq(Items)
    BY <2>2, <2>3
  <2>6. ss \in Seq(Seq(Items)) /\ Len(ss) = Len(h) /\ DOMAIN ss = DOMAIN h
        /\ DOMAIN h = 1 .. Len(h)
    <3>1. DOMAIN h = 1 .. Len(h) /\ DOMAIN ss = DOMAIN h
      OBVIOUS
    <3>2. \A i \in DOMAIN h : ss[i] \in Seq(Items)
      BY <2>4, <2>5
    <3>3. ss \in [1 .. Len(h) -> Seq(Items)]
      BY <3>1, <3>2
    <3> HIDE DEF ss
    <3>4. ss \in Seq(Seq(Items))
      BY <3>3, <1>0, SeqDef
    <3>5. Len(ss) = Len(h)
      BY <3>1, <3>4, <1>0
    <3> QED BY <3>1, <3>4, <3>5
  <2> HIDE DEF ss, y
  <2>7. ASSUME NEW i \in DOMAIN ss PROVE ss[i] = <<>> \/ \E v \in Items : ss[i] = <<v>>
    <3>1. i \in DOMAIN h
      BY <2>6
    <3>2. Re(h[i]) \in Items
      BY <3>1, <2>2, <2>3
    <3> QED BY <3>1, <3>2, <2>4
  <2>8. PICK g : Embeds(g, y, ss, Len(h))
    BY <2>1, <2>6, <2>7, FlattenEmbeds
  <2>9. /\ g \in [1 .. Len(y) -> 1 .. Len(h)]
        /\ \A k \in 1 .. Len(y) : ss[g[k]] = <<y[k]>>
        /\ \A j, k \in 1 .. Len(y) : j < k => g[j] < g[k]
        /\ \A i \in 1 .. Len(h) : ss[i] # <<>> => \E k \in 1 .. Len(y) : g[k] = i
    BY <2>8 DEF Embeds
  <2>10. ASSUME NEW k \in 1 .. Len(y)
         PROVE  y[k].kind = h[g[k]].kind /\ y[k].of = h[g[k]].of
    <3>1. g[k] \in DOMAIN h /\ ss[g[k]] = <<y[k]>>
      BY <2>6, <2>9
    <3>2. y[k] = Re(h[g[k]])
      <4>1. ss[g[k]] # <<>>
        BY <3>1
      <4>2. ss[g[k]] = <<Re(h[g[k]])>>
        BY <3>1, <4>1, <2>4
      <4> QED BY <3>1, <4>2
    <3> QED BY <3>1, <3>2, <2>2, <2>3
  <2>11. \A i \in 1 .. Len(h) : h[i].kind # "carrier" => ss[i] # <<>>
    <3> SUFFICES ASSUME NEW i \in 1 .. Len(h), h[i].kind # "carrier" PROVE ss[i] # <<>>
      OBVIOUS
    <3>1. ss[i] = <<Re(h[i])>>
      BY <2>4, <2>6
    <3> QED BY <3>1
  <2>12. Follow(g, y, h)
    BY <2>9, <2>10, <2>11 DEF Follow
  <2> QED BY <1>0, <2>12 DEF y
<1> QED BY <1>1, <1>2

-----------------------------------------------------------------------------
(* Reasoning stays in its turn *)

\* The stamp of what a Chat message says first, 0 if it says nothing.
Says(m) == IF m.content = <<>> THEN 0 ELSE m.content[1].of

\* What the user says in s, in the first n items of s, and in the messages before i.
Words(s) == {s[q].of : q \in {p \in DOMAIN s : s[p].kind = "user"}}
Heard(s, n) == {s[q].of : q \in {p \in DOMAIN s : p <= n /\ s[p].kind = "user"}}
Told(ms, W, i) == {Says(ms[j]) : j \in {k \in DOMAIN ms : k < i /\ Says(ms[k]) \in W}}

\* x is a thought among the first n items of s, after just the user's words H.
Thought(x, s, n, H) ==
  \E q \in DOMAIN s : q <= n /\ s[q].kind = "reasoning" /\ s[q].of = x /\ Heard(s, q) = H

\* The messages made of the first n items of s, where P is still to be placed,
\* perhaps in the message last: the user's words are said once and in the past of
\* last, every thought is in a message of its turn, and in no other.
InTurn(ms, P, last, s, n) ==
  /\ \A j, k \in DOMAIN ms : j # k /\ Says(ms[j]) \in Words(s) => Says(ms[j]) # Says(ms[k])
  /\ Told(ms, Words(s), Len(ms) + 1) = Heard(s, n)
  /\ last # 0 => \A j \in DOMAIN ms : Says(ms[j]) \in Words(s) => j < last
  /\ \A i \in DOMAIN ms : \A x \in ToSet(ms[i].reasoning) :
       Thought(x, s, n, Told(ms, Words(s), i))
  /\ \A x \in P : Thought(x, s, n, Heard(s, n))
  /\ \A i \in DOMAIN ms : ToSet(ms[i].reasoning) \cap P = {}
  /\ \A i, j \in DOMAIN ms : i # j => ToSet(ms[i].reasoning) \cap ToSet(ms[j].reasoning) = {}

LEMMA ToldSame ==
  ASSUME NEW ms, NEW more, NEW W, NEW i \in Nat,
         \A k \in DOMAIN ms : k < i => k \in DOMAIN more,
         \A k \in DOMAIN more : k < i => k \in DOMAIN ms,
         \A k \in DOMAIN ms : k < i => Says(more[k]) = Says(ms[k])
  PROVE  Told(more, W, i) = Told(ms, W, i)
BY DEF Told

\* What is to be placed goes to the message last, or is dropped.
LEMMA JoinsInTurn ==
  ASSUME NEW V, NEW ms \in Seq(V), NEW P, NEW last \in 1 .. Len(ms), NEW s, NEW n \in Nat,
         InTurn(ms, P, last, s, n), NEW full \in V, Says(full) = Says(ms[last]),
         ToSet(full.reasoning) \subseteq ToSet(ms[last].reasoning) \cup P
  PROVE  InTurn([ms EXCEPT ![last] = full], {}, last, s, n)
<1> DEFINE W == Words(s)
           more == [ms EXCEPT ![last] = full]
           l == Len(ms)
<1>1. /\ DOMAIN ms = 1 .. l /\ DOMAIN more = 1 .. l /\ l \in Nat /\ Len(more) = l
      /\ \A i \in 1 .. l : more[i] = IF i = last THEN full ELSE ms[i]
  OBVIOUS
<1>2. \A i \in 1 .. l : Says(more[i]) = Says(ms[i])
  BY <1>1
<1> HIDE DEF more, l, W
<1>3. \A i \in Nat : Told(more, W, i) = Told(ms, W, i)
  BY <1>1, <1>2, ToldSame
<1>4. /\ \A j, k \in 1 .. l : j # k /\ Says(ms[j]) \in W => Says(ms[j]) # Says(ms[k])
      /\ Told(ms, W, l + 1) = Heard(s, n)
      /\ last # 0 => \A j \in 1 .. l : Says(ms[j]) \in W => j < last
      /\ \A i \in 1 .. l : \A x \in ToSet(ms[i].reasoning) : Thought(x, s, n, Told(ms, W, i))
      /\ \A x \in P : Thought(x, s, n, Heard(s, n))
      /\ \A i \in 1 .. l : ToSet(ms[i].reasoning) \cap P = {}
      /\ \A i, j \in 1 .. l : i # j => ToSet(ms[i].reasoning) \cap ToSet(ms[j].reasoning) = {}
  BY <1>1 DEF InTurn, W, l
<1>5. last \in 1 .. l /\ last # 0
  BY DEF l
<1>6. Told(ms, W, last) = Heard(s, n)
  <2>1. Told(ms, W, last) = Told(ms, W, l + 1)
    <3>1. \A k \in 1 .. l : Says(ms[k]) \in W => k < last /\ k < l + 1
      BY <1>1, <1>4, <1>5
    <3> QED BY <3>1, <1>1 DEF Told
  <2> QED BY <2>1, <1>4
<1>7. ASSUME NEW i \in 1 .. l, NEW x \in ToSet(more[i].reasoning)
      PROVE  Thought(x, s, n, Told(more, W, i))
  <2>1. Told(more, W, i) = Told(ms, W, i)
    BY <1>3
  <2>2. CASE x \in ToSet(ms[i].reasoning)
    BY <2>1, <2>2, <1>4
  <2>3. CASE i = last /\ x \in P
    BY <2>1, <2>3, <1>4, <1>6
  <2>4. x \in ToSet(ms[i].reasoning) \/ (i = last /\ x \in P)
    <3>1. more[i] = IF i = last THEN full ELSE ms[i]
      BY <1>1
    <3> QED BY <3>1
  <2> QED BY <2>2, <2>3, <2>4
<1>8. ASSUME NEW i \in 1 .. l, NEW j \in 1 .. l, i # j
      PROVE  ToSet(more[i].reasoning) \cap ToSet(more[j].reasoning) = {}
  <2>1. \A k \in 1 .. l : ToSet(more[k].reasoning) \subseteq
          IF k = last THEN ToSet(ms[k].reasoning) \cup P ELSE ToSet(ms[k].reasoning)
    <3> SUFFICES ASSUME NEW k \in 1 .. l
                 PROVE  ToSet(more[k].reasoning) \subseteq
                          IF k = last THEN ToSet(ms[k].reasoning) \cup P ELSE ToSet(ms[k].reasoning)
      OBVIOUS
    <3>1. more[k] = IF k = last THEN full ELSE ms[k]
      BY <1>1
    <3> QED BY <3>1
  <2>2. ToSet(ms[i].reasoning) \cap ToSet(ms[j].reasoning) = {}
    BY <1>4, <1>8
  <2>3. ToSet(ms[i].reasoning) \cap P = {} /\ ToSet(ms[j].reasoning) \cap P = {}
    BY <1>4
  <2> QED BY <2>1, <2>2, <2>3, <1>8
<1>9. InTurn(more, {}, last, s, n)
  <2>1. \A j, k \in 1 .. l : j # k /\ Says(more[j]) \in W => Says(more[j]) # Says(more[k])
    BY <1>2, <1>4
  <2>2. Told(more, W, l + 1) = Heard(s, n)
    BY <1>1, <1>3, <1>4
  <2>3. last # 0 => \A j \in 1 .. l : Says(more[j]) \in W => j < last
    BY <1>2, <1>4
  <2> QED BY <2>1, <2>2, <2>3, <1>1, <1>7, <1>8 DEF InTurn, W
<1> QED BY <1>9 DEF more

\* A message that is not the user's comes after, with some of what is to be placed.
LEMMA AddsInTurn ==
  ASSUME NEW V, NEW ms \in Seq(V), NEW P, NEW last, NEW s, NEW n \in Nat,
         InTurn(ms, P, last, s, n), NEW m \in V, Says(m) \notin Words(s),
         ToSet(m.reasoning) \subseteq P, NEW Q \in SUBSET (P \ ToSet(m.reasoning)),
         NEW new \in {0, last, Len(ms) + 1}
  PROVE  InTurn(Append(ms, m), Q, new, s, n)
<1> DEFINE W == Words(s)
           more == Append(ms, m)
           l == Len(ms)
<1>1. /\ DOMAIN ms = 1 .. l /\ DOMAIN more = 1 .. l + 1 /\ l \in Nat /\ Len(more) = l + 1
      /\ \A i \in 1 .. l : i \in 1 .. l + 1 /\ more[i] = ms[i]
      /\ l + 1 \in 1 .. l + 1 /\ more[l + 1] = m
  OBVIOUS
<1>2. \A i \in 1 .. l + 1 : i \in 1 .. l \/ i = l + 1
  BY <1>1
<1>0. \A i \in 1 .. l : i < l + 1 /\ i # l + 1
  BY <1>1
<1> HIDE DEF more, l, W
<1>3. \A i \in 1 .. l + 1 : Told(more, W, i) = Told(ms, W, i)
  <2> SUFFICES ASSUME NEW i \in 1 .. l + 1 PROVE Told(more, W, i) = Told(ms, W, i)
    OBVIOUS
  <2>1. i \in Nat /\ ~(l + 1 < i)
    BY <1>1
  <2> QED BY <2>1, <1>1, <1>2, ToldSame
<1>4. /\ \A j, k \in 1 .. l : j # k /\ Says(ms[j]) \in W => Says(ms[j]) # Says(ms[k])
      /\ Told(ms, W, l + 1) = Heard(s, n)
      /\ last # 0 => \A j \in 1 .. l : Says(ms[j]) \in W => j < last
      /\ \A i \in 1 .. l : \A x \in ToSet(ms[i].reasoning) : Thought(x, s, n, Told(ms, W, i))
      /\ \A x \in P : Thought(x, s, n, Heard(s, n))
      /\ \A i \in 1 .. l : ToSet(ms[i].reasoning) \cap P = {}
      /\ \A i, j \in 1 .. l : i # j => ToSet(ms[i].reasoning) \cap ToSet(ms[j].reasoning) = {}
  BY <1>1 DEF InTurn, W, l
<1>5. Says(m) \notin W
  BY DEF W
<1>6. ASSUME NEW j \in 1 .. l + 1, Says(more[j]) \in W
      PROVE  j \in 1 .. l /\ more[j] = ms[j]
  BY <1>1, <1>2, <1>5, <1>6
<1>7. \A j, k \in 1 .. l + 1 : j # k /\ Says(more[j]) \in W => Says(more[j]) # Says(more[k])
  BY <1>1, <1>2, <1>4, <1>5, <1>6
<1>8. Told(more, W, (l + 1) + 1) = Heard(s, n)
  <2>1. \A j \in 1 .. l + 1 : Says(more[j]) \in W => j < (l + 1) + 1 /\ j < l + 1
    BY <1>0, <1>1, <1>6
  <2>2. Told(more, W, (l + 1) + 1) = Told(more, W, l + 1)
    BY <2>1, <1>1 DEF Told
  <2> QED BY <2>2, <1>1, <1>3, <1>4
<1>9. new # 0 => \A j \in 1 .. l + 1 : Says(more[j]) \in W => j < new
  <2>1. new \in {0, last, l + 1}
    BY DEF l
  <2> QED BY <2>1, <1>0, <1>4, <1>6
<1>10. ASSUME NEW i \in 1 .. l + 1, NEW x \in ToSet(more[i].reasoning)
       PROVE  Thought(x, s, n, Told(more, W, i))
  <2>1. Told(more, W, i) = Told(ms, W, i)
    BY <1>3
  <2>2. CASE i \in 1 .. l
    BY <2>1, <2>2, <1>1, <1>4, <1>10
  <2>3. CASE i = l + 1
    <3>1. x \in P
      BY <2>3, <1>1, <1>10
    <3> QED BY <2>1, <2>3, <3>1, <1>4
  <2> QED BY <2>2, <2>3, <1>2
<1>11. \A x \in Q : Thought(x, s, n, Heard(s, n))
  BY <1>4
<1>12. ASSUME NEW i \in 1 .. l + 1 PROVE ToSet(more[i].reasoning) \cap Q = {}
  <2>1. CASE i \in 1 .. l
    <3>1. more[i] = ms[i] /\ ToSet(ms[i].reasoning) \cap P = {}
      BY <2>1, <1>1, <1>4
    <3> QED BY <3>1
  <2>2. CASE i = l + 1
    <3>1. more[i] = m
      BY <2>2, <1>1
    <3> QED BY <3>1
  <2> QED BY <2>1, <2>2, <1>2
<1>13. \A i \in 1 .. l : ToSet(ms[i].reasoning) \cap ToSet(m.reasoning) = {}
  BY <1>4
<1>14. ASSUME NEW i \in 1 .. l + 1, NEW j \in 1 .. l + 1, i # j
       PROVE  ToSet(more[i].reasoning) \cap ToSet(more[j].reasoning) = {}
  <2>1. CASE i \in 1 .. l /\ j \in 1 .. l
    BY <2>1, <1>1, <1>4, <1>14
  <2>2. CASE i = l + 1 /\ j \in 1 .. l
    <3>1. more[i] = m /\ more[j] = ms[j]
      BY <2>2, <1>1
    <3> QED BY <3>1, <2>2, <1>13
  <2>3. CASE j = l + 1 /\ i \in 1 .. l
    <3>1. more[j] = m /\ more[i] = ms[i]
      BY <2>3, <1>1
    <3> QED BY <3>1, <2>3, <1>13
  <2> QED BY <2>1, <2>2, <2>3, <1>2, <1>14
<1>15. InTurn(more, Q, new, s, n)
  BY <1>1, <1>7, <1>8, <1>9, <1>10, <1>11, <1>12, <1>14 DEF InTurn, W
<1> QED BY <1>15 DEF more

\* The next item is heard if it is the user's; what was thought before stays so.
LEMMA HeardNext ==
  ASSUME NEW s, NEW n \in Nat, n + 1 \in DOMAIN s, DOMAIN s \subseteq Nat
  PROVE  /\ s[n + 1].kind # "user" => Heard(s, n + 1) = Heard(s, n)
         /\ s[n + 1].kind = "user" => Heard(s, n + 1) = Heard(s, n) \cup {s[n + 1].of}
         /\ \A x, H : Thought(x, s, n, H) => Thought(x, s, n + 1, H)
<1>1. \A p \in DOMAIN s : /\ p <= n + 1 <=> p <= n \/ p = n + 1
                          /\ p <= n => p <= n + 1
  OBVIOUS
<1>2. ASSUME s[n + 1].kind # "user" PROVE Heard(s, n + 1) = Heard(s, n)
  <2>1. {p \in DOMAIN s : p <= n + 1 /\ s[p].kind = "user"}
          = {p \in DOMAIN s : p <= n /\ s[p].kind = "user"}
    BY <1>1, <1>2
  <2> QED BY <2>1 DEF Heard
<1>3. ASSUME s[n + 1].kind = "user" PROVE Heard(s, n + 1) = Heard(s, n) \cup {s[n + 1].of}
  <2>1. {p \in DOMAIN s : p <= n + 1 /\ s[p].kind = "user"}
          = {p \in DOMAIN s : p <= n /\ s[p].kind = "user"} \cup {n + 1}
    BY <1>1, <1>3
  <2> QED BY <2>1 DEF Heard
<1>4. ASSUME NEW x, NEW H, Thought(x, s, n, H) PROVE Thought(x, s, n + 1, H)
  BY <1>1, <1>4 DEF Thought
<1> QED BY <1>2, <1>3, <1>4

LEMMA PassesInTurn ==
  ASSUME NEW ms, NEW P, NEW last, NEW s, NEW n \in Nat, InTurn(ms, P, last, s, n),
         n + 1 \in DOMAIN s, DOMAIN s \subseteq Nat, s[n + 1].kind # "user"
  PROVE  InTurn(ms, P, last, s, n + 1)
<1>1. Heard(s, n + 1) = Heard(s, n)
  BY HeardNext
<1>2. \A x, H : Thought(x, s, n, H) => Thought(x, s, n + 1, H)
  BY HeardNext
<1> QED BY <1>1, <1>2 DEF InTurn

LEMMA ThinksInTurn ==
  ASSUME NEW ms, NEW P, NEW last, NEW s \in Seq(Items), Unique(s), NEW n \in Nat,
         InTurn(ms, P, last, s, n),
         n + 1 \in DOMAIN s, s[n + 1].kind = "reasoning", NEW Q, Q \subseteq P \cup {s[n + 1].of}
  PROVE  InTurn(ms, Q, last, s, n + 1)
<1> DEFINE x == s[n + 1].of
<1>1. DOMAIN s \subseteq Nat
  OBVIOUS
<1>2. InTurn(ms, P, last, s, n + 1)
  BY <1>1, PassesInTurn
<1>3. Thought(x, s, n + 1, Heard(s, n + 1))
  BY <1>1 DEF Thought
<1>4. \A H : ~Thought(x, s, n, H)
  <2> SUFFICES ASSUME NEW q \in DOMAIN s, q <= n, s[q].kind = "reasoning", s[q].of = x
               PROVE  FALSE
    BY DEF Thought
  <2>1. q # n + 1
    BY <1>1
  <2>2. {s[q].kind, s[n + 1].kind} = {"call", "result"}
    BY <2>1 DEF Unique
  <2> QED BY <2>2
<1>5. \A i \in DOMAIN ms : x \notin ToSet(ms[i].reasoning)
  BY <1>4 DEF InTurn
<1> HIDE DEF x
<1>6. Q \subseteq P \cup {x}
  BY DEF x
<1> QED BY <1>2, <1>3, <1>5, <1>6 DEF InTurn

\* The user's word ends a turn, in which nothing is left to be placed.
LEMMA UserInTurn ==
  ASSUME NEW V, NEW ms \in Seq(V), NEW last, NEW s \in Seq(Items), Unique(s), NEW n \in Nat,
         InTurn(ms, {}, last, s, n),
         n + 1 \in DOMAIN s, s[n + 1].kind = "user",
         NEW m \in V, Says(m) = s[n + 1].of, ToSet(m.reasoning) = {}
  PROVE  InTurn(Append(ms, m), {}, 0, s, n + 1)
<1> DEFINE W == Words(s)
           more == Append(ms, m)
           l == Len(ms)
           x == s[n + 1].of
<1>1. /\ DOMAIN ms = 1 .. l /\ DOMAIN more = 1 .. l + 1 /\ l \in Nat /\ Len(more) = l + 1
      /\ \A i \in 1 .. l : i \in 1 .. l + 1 /\ more[i] = ms[i]
      /\ l + 1 \in 1 .. l + 1 /\ more[l + 1] = m
  OBVIOUS
<1>2. \A i \in 1 .. l + 1 : i \in 1 .. l \/ i = l + 1
  BY <1>1
<1>0. \A i \in 1 .. l : i < l + 1 /\ i # l + 1
  BY <1>1
<1>3. DOMAIN s \subseteq Nat
  OBVIOUS
<1>4. Says(m) = x /\ x \in W
  BY DEF Words
<1>5. x \notin Heard(s, n)
  <2> SUFFICES ASSUME NEW q \in DOMAIN s, q <= n, s[q].kind = "user", s[q].of = x
               PROVE  FALSE
    BY DEF Heard
  <2>1. q # n + 1
    BY <1>3
  <2>2. {s[q].kind, s[n + 1].kind} = {"call", "result"}
    BY <2>1 DEF Unique
  <2> QED BY <2>2
<1>6. Heard(s, n + 1) = Heard(s, n) \cup {x} /\ \A y, H : Thought(y, s, n, H) => Thought(y, s, n + 1, H)
  BY <1>3, HeardNext
<1> HIDE DEF more, l, W, x
<1>7. /\ \A j, k \in 1 .. l : j # k /\ Says(ms[j]) \in W => Says(ms[j]) # Says(ms[k])
      /\ Told(ms, W, l + 1) = Heard(s, n)
      /\ \A i \in 1 .. l : \A y \in ToSet(ms[i].reasoning) : Thought(y, s, n, Told(ms, W, i))
      /\ \A i, j \in 1 .. l : i # j => ToSet(ms[i].reasoning) \cap ToSet(ms[j].reasoning) = {}
  BY <1>1 DEF InTurn, W, l
<1>8. \A i \in 1 .. l + 1 : Told(more, W, i) = Told(ms, W, i)
  <2> SUFFICES ASSUME NEW i \in 1 .. l + 1 PROVE Told(more, W, i) = Told(ms, W, i)
    OBVIOUS
  <2>1. i \in Nat /\ ~(l + 1 < i)
    BY <1>1
  <2> QED BY <2>1, <1>1, <1>2, ToldSame
<1>9. \A j \in 1 .. l : Says(ms[j]) \in W => Says(ms[j]) # x
  <2> SUFFICES ASSUME NEW j \in 1 .. l, Says(ms[j]) \in W PROVE Says(ms[j]) \in Heard(s, n)
    BY <1>5
  <2>1. Says(ms[j]) \in Told(ms, W, l + 1)
    BY <1>0, <1>1 DEF Told
  <2> QED BY <2>1, <1>7
<1>10. ASSUME NEW j \in 1 .. l + 1, NEW k \in 1 .. l + 1, j # k, Says(more[j]) \in W
       PROVE  Says(more[j]) # Says(more[k])
  <2>1. CASE j \in 1 .. l /\ k \in 1 .. l
    BY <2>1, <1>1, <1>7, <1>10
  <2>2. CASE j = l + 1 /\ k \in 1 .. l
    BY <2>2, <1>1, <1>4, <1>9
  <2>3. CASE k = l + 1 /\ j \in 1 .. l
    BY <2>3, <1>1, <1>4, <1>9, <1>10
  <2> QED BY <2>1, <2>2, <2>3, <1>2, <1>10
<1>11. Told(more, W, (l + 1) + 1) = Heard(s, n + 1)
  <2>1. {k \in 1 .. l + 1 : k < (l + 1) + 1 /\ Says(more[k]) \in W}
          = {k \in 1 .. l : k < l + 1 /\ Says(ms[k]) \in W} \cup {l + 1}
    <3>1. \A k \in 1 .. l : k < (l + 1) + 1
      BY <1>1
    <3>2. l + 1 < (l + 1) + 1
      BY <1>1
    <3> QED BY <3>1, <3>2, <1>0, <1>1, <1>2, <1>4
  <2>2. Told(more, W, (l + 1) + 1) = Told(ms, W, l + 1) \cup {x}
    <3>1. Told(more, W, (l + 1) + 1) =
            {Says(more[j]) : j \in {k \in 1 .. l : k < l + 1 /\ Says(ms[k]) \in W} \cup {l + 1}}
      BY <2>1, <1>1 DEF Told
    <3>2. Told(ms, W, l + 1) = {Says(ms[j]) : j \in {k \in 1 .. l : k < l + 1 /\ Says(ms[k]) \in W}}
      BY <1>1 DEF Told
    <3> QED BY <3>1, <3>2, <1>1, <1>4
  <2> QED BY <2>2, <1>6, <1>7
<1>12. ASSUME NEW i \in 1 .. l + 1, NEW y \in ToSet(more[i].reasoning)
       PROVE  Thought(y, s, n + 1, Told(more, W, i))
  <2>1. Told(more, W, i) = Told(ms, W, i)
    BY <1>8
  <2>2. CASE i \in 1 .. l
    BY <2>1, <2>2, <1>1, <1>6, <1>7, <1>12
  <2>3. CASE i = l + 1
    BY <2>3, <1>1, <1>12
  <2> QED BY <2>2, <2>3, <1>2
<1>13. ASSUME NEW i \in 1 .. l + 1, NEW j \in 1 .. l + 1, i # j
       PROVE  ToSet(more[i].reasoning) \cap ToSet(more[j].reasoning) = {}
  <2>1. CASE i \in 1 .. l /\ j \in 1 .. l
    BY <2>1, <1>1, <1>7, <1>13
  <2>2. CASE i = l + 1 \/ j = l + 1
    BY <2>2, <1>1
  <2> QED BY <2>1, <2>2, <1>2
<1>14. InTurn(more, {}, 0, s, n + 1)
  BY <1>1, <1>10, <1>11, <1>12, <1>13 DEF InTurn, W
<1> QED BY <1>14 DEF more

LEMMA ConcatElements ==
  ASSUME NEW V, NEW h \in Seq(V), NEW g \in Seq(V)
  PROVE  ToSet(h \o g) \subseteq ToSet(h) \cup ToSet(g)
BY ConcatPlaces DEF ToSet

\* What a message says stays, and it has no thought but its own and those to be placed.
LEMMA AttachKeeps ==
  ASSUME NEW N, NEW m \in ChatMessages(N), NEW pending \in Seq(Nat)
  PROVE  /\ attachReasoning(m, pending).content = m.content
         /\ ToSet(attachReasoning(m, pending).reasoning)
              \subseteq ToSet(m.reasoning) \cup ToSet(pending)
<1> DEFINE f == [i \in DOMAIN pending |-> IF ~Contains(m.reasoning, pending[i])
                                          THEN <<pending[i]>> ELSE <<>>]
           new == FlattenSeq(f)
<1>1. f \in Seq(Seq(Nat)) /\ \A i \in DOMAIN f : f[i] = <<pending[i]>> \/ f[i] = <<>>
  <2>1. f = [i \in DOMAIN pending |-> f[i]] /\ DOMAIN f = DOMAIN pending
        /\ \A i \in DOMAIN pending : f[i] = <<pending[i]>> \/ f[i] = <<>>
    OBVIOUS
  <2> HIDE DEF f
  <2> QED BY <2>1, PickTyped
<1>2. DOMAIN f = DOMAIN pending
  OBVIOUS
<1>3. attachReasoning(m, pending) = [m EXCEPT !.reasoning = @ \o new]
  BY DEF attachReasoning, Only
<1> HIDE DEF f
<1>4. new \in Seq(Nat)
  BY <1>1, FlattenTyped
<1>5. ToSet(new) \subseteq ToSet(pending)
  <2> SUFFICES ASSUME NEW x \in ToSet(new) PROVE x \in ToSet(pending)
    OBVIOUS
  <2>1. PICK i \in DOMAIN f : x \in ToSet(f[i])
    BY <1>1, FlattenElements
  <2>2. f[i] = <<pending[i]>>
    BY <1>1, <2>1 DEF ToSet
  <2>3. x = pending[i]
    BY <2>1, <2>2 DEF ToSet
  <2> QED BY <2>3, <1>2, <2>1 DEF ToSet
<1> HIDE DEF new
<1>6. m.reasoning \in Seq(Nat)
  BY DEF ChatMessages
<1>7. ToSet(m.reasoning \o new) \subseteq ToSet(m.reasoning) \cup ToSet(new)
  BY <1>4, <1>6, ConcatElements
<1> QED BY <1>3, <1>5, <1>7 DEF ChatMessages

\* The state a of inputToChatMessages after n items of s.
KeepsTurns(a, s, n) == InTurn(a.messages, ToSet(a.reasoning), a.last, s, n)

LEMMA FlushKeepsTurns ==
  ASSUME NEW N, NEW a, Fits(a, N), NEW s, 0 \notin Words(s), NEW n \in Nat, KeepsTurns(a, s, n)
  PROVE  KeepsTurns(flushPendingToolCalls(a), s, n)
<1> DEFINE b == flushPendingToolCalls(a)
           M == ChatMessages(N)
           l == Len(a.messages)
           P == ToSet(a.reasoning)
<1>1. a \in Placements(N) /\ a.messages \in Seq(M) /\ a.calls \in Seq(N)
      /\ a.reasoning \in Seq(Nat) /\ a.last \in Nat /\ a.last <= l /\ l \in Nat
      /\ DOMAIN a.messages = 1 .. l
  BY DEF Fits, Placements
<1>2. CASE a.calls = <<>>
  BY <1>2 DEF flushPendingToolCalls
<1>3. CASE a.calls # <<>>
  <2> DEFINE joins == /\ a.last # 0
                      /\ a.messages[a.last].role = "assistant"
                      /\ ~hasToolCalls(a.messages[a.last])
             base  == IF joins THEN a.messages[a.last] ELSE ChatMessage("assistant", <<>>)
             with  == [base EXCEPT !.calls = a.calls]
             full  == attachReasoning(with, a.reasoning)
             ms    == IF joins THEN [a.messages EXCEPT ![a.last] = full]
                      ELSE Append(a.messages, full)
             last  == IF joins THEN a.last ELSE Len(a.messages) + 1
  <2>1. b = [messages |-> ms, calls |-> <<>>, reasoning |-> <<>>, last |-> last]
    BY <1>3 DEF flushPendingToolCalls
  <2>2. base \in M /\ (~joins => base.content = <<>> /\ base.reasoning = <<>>)
    <3>1. <<>> \in Seq(Blocks)
      OBVIOUS
    <3>2. ChatMessage("assistant", <<>>) \in M
          /\ ChatMessage("assistant", <<>>).content = <<>>
          /\ ChatMessage("assistant", <<>>).reasoning = <<>>
      BY <3>1, ChatMessageTyped DEF ChatMessage
    <3>3. joins => a.messages[a.last] \in M
      BY <1>1
    <3> HIDE DEF M, joins
    <3> QED BY <3>2, <3>3
  <2>3. joins => base = a.messages[a.last]
    OBVIOUS
  <2> HIDE DEF base
  <2>4. with \in M /\ with.content = base.content /\ with.reasoning = base.reasoning
    BY <2>2, <1>1 DEF ChatMessages
  <2> HIDE DEF with
  <2>5. full \in M /\ full.content = base.content
        /\ ToSet(full.reasoning) \subseteq ToSet(base.reasoning) \cup P
    BY <2>4, <1>1, AttachTyped, AttachKeeps
  <2> HIDE DEF full
  <2>6. b.messages = ms /\ b.reasoning = <<>> /\ b.last = last
    BY <2>1
  <2> HIDE DEF b, M, P
  <2>7. InTurn(a.messages, P, a.last, s, n)
    BY DEF KeepsTurns, P
  <2>8. ToSet(<<>>) = {}
    BY DEF ToSet
  <2>9. CASE joins
    <3>1. a.last \in 1 .. l
      BY <2>9, <1>1
    <3>2. Says(full) = Says(a.messages[a.last])
      BY <2>3, <2>5, <2>9 DEF Says
    <3>3. InTurn([a.messages EXCEPT ![a.last] = full], {}, a.last, s, n)
      BY <2>3, <2>5, <2>7, <2>9, <3>1, <3>2, <1>1, JoinsInTurn
    <3>4. b.messages = [a.messages EXCEPT ![a.last] = full] /\ b.last = a.last
      BY <2>6, <2>9
    <3> QED BY <2>6, <2>8, <3>3, <3>4 DEF KeepsTurns, b
  <2>10. CASE ~joins
    <3>1. Says(full) \notin Words(s)
      BY <2>2, <2>5, <2>10 DEF Says
    <3>2. ToSet(full.reasoning) \subseteq P
      BY <2>2, <2>5, <2>8, <2>10
    <3>3. InTurn(Append(a.messages, full), {}, l + 1, s, n)
      <4>1. {} \in SUBSET (P \ ToSet(full.reasoning)) /\ l + 1 \in {0, a.last, l + 1}
        OBVIOUS
      <4> QED BY <4>1, <2>5, <2>7, <3>1, <3>2, <1>1, AddsInTurn
    <3>4. b.messages = Append(a.messages, full) /\ b.last = l + 1
      BY <2>6, <2>10
    <3> QED BY <2>6, <2>8, <3>3, <3>4 DEF KeepsTurns, b
  <2> QED BY <2>9, <2>10 DEF b
<1> QED BY <1>2, <1>3

LEMMA SettleKeepsTurns ==
  ASSUME NEW N, NEW a, Fits(a, N), NEW s, NEW n \in Nat, KeepsTurns(a, s, n)
  PROVE  /\ KeepsTurns(attachReasoningToPreviousAssistant(a), s, n)
         /\ ToSet(attachReasoningToPreviousAssistant(a).reasoning) = {}
<1> DEFINE b == attachReasoningToPreviousAssistant(a)
           M == ChatMessages(N)
           l == Len(a.messages)
           P == ToSet(a.reasoning)
<1>1. a \in Placements(N) /\ a.messages \in Seq(M) /\ a.calls \in Seq(N)
      /\ a.reasoning \in Seq(Nat) /\ a.last \in Nat /\ a.last <= l /\ l \in Nat
      /\ DOMAIN a.messages = 1 .. l
  BY DEF Fits, Placements
<1>2. InTurn(a.messages, P, a.last, s, n)
  BY DEF KeepsTurns
<1>3. ToSet(<<>>) = {}
  BY DEF ToSet
<1> HIDE DEF P
<1>4. CASE a.last = 0
  <2>1. b = [a EXCEPT !.reasoning = <<>>]
    BY <1>4 DEF attachReasoningToPreviousAssistant
  <2>2. b.messages = a.messages /\ b.reasoning = <<>> /\ b.last = a.last
    BY <2>1, <1>1 DEF Placements
  <2> HIDE DEF b
  <2>3. InTurn(a.messages, {}, a.last, s, n)
    BY <1>2 DEF InTurn
  <2> QED BY <2>2, <2>3, <1>3 DEF KeepsTurns, b
<1>5. CASE a.last # 0
  <2> DEFINE was  == a.messages[a.last]
             full == [was EXCEPT !.reasoning = @ \o a.reasoning]
             ms   == [a.messages EXCEPT ![a.last].reasoning = @ \o a.reasoning]
  <2>1. a.last \in 1 .. l
    BY <1>1, <1>5
  <2>2. was \in M
    BY <1>1, <2>1
  <2>3. was.reasoning \o a.reasoning \in Seq(Nat)
        /\ ToSet(was.reasoning \o a.reasoning) \subseteq ToSet(was.reasoning) \cup P
    <3>1. was.reasoning \in Seq(Nat)
      BY <2>2 DEF ChatMessages
    <3> HIDE DEF was
    <3>2. was.reasoning \o a.reasoning \in Seq(Nat)
      BY <3>1, <1>1, ConcatProperties
    <3>3. ToSet(was.reasoning \o a.reasoning) \subseteq ToSet(was.reasoning) \cup ToSet(a.reasoning)
      BY <3>1, <1>1, ConcatElements
    <3> QED BY <3>2, <3>3 DEF P
  <2>4. full \in M /\ full.content = was.content /\ full.reasoning = was.reasoning \o a.reasoning
    BY <2>2, <2>3 DEF ChatMessages
  <2>5. ms = [a.messages EXCEPT ![a.last] = full]
    OBVIOUS
  <2>6. b.messages = ms /\ b.reasoning = <<>> /\ b.last = a.last
    <3>1. b = [a EXCEPT !.messages[a.last].reasoning = @ \o a.reasoning, !.reasoning = <<>>]
      BY <1>5 DEF attachReasoningToPreviousAssistant
    <3>2. b = [a EXCEPT !.messages = ms, !.reasoning = <<>>]
      <4> HIDE DEF b
      <4> QED BY <3>1
    <3> HIDE DEF b, ms
    <3> QED BY <3>2, <1>1 DEF Placements
  <2> HIDE DEF b, ms, full, M
  <2>7. Says(full) = Says(a.messages[a.last])
    BY <2>4 DEF Says
  <2>8. InTurn([a.messages EXCEPT ![a.last] = full], {}, a.last, s, n)
    BY <2>1, <2>3, <2>4, <2>7, <1>1, <1>2, JoinsInTurn
  <2> QED BY <2>5, <2>6, <2>8, <1>3 DEF KeepsTurns, b
<1> QED BY <1>4, <1>5

\* The messages of a result, one or two, say what the tool said, and think nothing.
\* The first answers the call if there is one, the second holds a picture.
ResultSays(item, paired, keep, one, two) ==
  /\ Says(one) = item.of /\ one.reasoning = <<>>
  /\ Says(two) = item.of /\ two.reasoning = <<>>
  /\ one.role = "tool" => one.answers = item.of /\ item.of \in paired
  /\ item.of \in paired => one.role = "tool" /\ one.answers = item.of
  /\ two.role = "user" /\ two.content = <<Picture(item.of)>>
  /\ toolOutputToChatMessages(item, paired, keep) =
       IF HasImage(item) /\ keep THEN <<one, two>> ELSE <<one>>

LEMMA ResultMessages ==
  ASSUME NEW N, NEW item \in Items, NEW paired, NEW keep
  PROVE  \E one, two \in ChatMessages(N) : ResultSays(item, paired, keep, one, two)
<1> DEFINE M == ChatMessages(N)
           text  == IF HasImage(item) /\ ~keep THEN <<Text(item.of), LeftOut(item.of)>>
                    ELSE <<Text(item.of)>>
           plain == ChatMessage("tool", text)
           one   == IF item.of \in paired THEN [plain EXCEPT !.answers = item.of]
                    ELSE ChatMessage("user", text)
           two   == ChatMessage("user", <<Picture(item.of)>>)
<1>1. text \in Seq(Blocks) /\ <<Picture(item.of)>> \in Seq(Blocks) /\ item.of \in Nat
  BY BlocksTyped
<1>2. text # <<>> /\ text[1].of = item.of
      /\ <<Picture(item.of)>> # <<>> /\ <<Picture(item.of)>>[1].of = item.of
  BY DEF Text, Picture
<1> HIDE DEF text
<1>3. plain \in M /\ ChatMessage("user", text) \in M /\ two \in M
  BY <1>1, ChatMessageTyped
<1>4. /\ plain.content = text /\ plain.reasoning = <<>>
      /\ ChatMessage("user", text).content = text /\ ChatMessage("user", text).reasoning = <<>>
      /\ two.content = <<Picture(item.of)>> /\ two.reasoning = <<>>
      /\ ChatMessage("user", text).role = "user" /\ two.role = "user"
  BY DEF ChatMessage
<1>5. /\ [plain EXCEPT !.answers = item.of] \in M
      /\ [plain EXCEPT !.answers = item.of].content = text
      /\ [plain EXCEPT !.answers = item.of].reasoning = <<>>
      /\ [plain EXCEPT !.answers = item.of].answers = item.of
      /\ [plain EXCEPT !.answers = item.of].role = "tool"
  <2>1. plain.role = "tool"
    BY DEF ChatMessage
  <2> HIDE DEF plain
  <2> QED BY <2>1, <1>1, <1>3, <1>4 DEF ChatMessages
<1>6. toolOutputToChatMessages(item, paired, keep)
        = <<one>> \o (IF HasImage(item) /\ keep THEN <<two>> ELSE <<>>)
  BY DEF toolOutputToChatMessages, text
<1> HIDE DEF plain, two, M
<1>7. one \in M /\ one.content = text /\ one.reasoning = <<>>
      /\ (one.role = "tool" => one.answers = item.of /\ item.of \in paired)
      /\ (item.of \in paired => one.role = "tool" /\ one.answers = item.of)
  BY <1>3, <1>4, <1>5
<1> HIDE DEF one
<1>8. <<one>> \o <<two>> = <<one, two>> /\ <<one>> \o <<>> = <<one>>
  <2>1. <<one>> \in Seq(M)
    BY <1>7
  <2>2. <<one>> \o <<>> = <<one>>
    BY <2>1, ConcatEmptySeq
  <2>3. <<one>> \o <<two>> = <<one, two>>
    <3> DEFINE p == <<one>> \o <<two>>
               r == <<one, two>>
    <3>1. p \in Seq(M) /\ Len(p) = 2 /\ \A i \in 1 .. 2 : p[i] = IF i = 1 THEN one ELSE two
      BY <1>3, <1>7
    <3>2. r \in Seq(M) /\ Len(r) = 2 /\ \A i \in 1 .. 2 : r[i] = IF i = 1 THEN one ELSE two
      BY <1>3, <1>7
    <3> HIDE DEF p, r
    <3>3. p = r
      BY <3>1, <3>2, SeqEqual
    <3> QED BY <3>3 DEF p, r
  <2> QED BY <2>2, <2>3
<1>9. Says(one) = item.of /\ Says(two) = item.of
  BY <1>2, <1>4, <1>7 DEF Says
<1>10. ResultSays(item, paired, keep, one, two)
  BY <1>4, <1>6, <1>7, <1>8, <1>9 DEF ResultSays
<1> QED BY <1>3, <1>7, <1>10 DEF M

LEMMA OnlyUsersWords ==
  ASSUME NEW s \in Seq(Items), Unique(s)
  PROVE  /\ 0 \notin Words(s)
         /\ \A i \in DOMAIN s : s[i].kind \in {"assistant", "result"} => s[i].of \notin Words(s)
<1>1. 0 \notin Words(s)
  <2> SUFFICES ASSUME NEW q \in DOMAIN s, s[q].kind = "user", s[q].of = 0 PROVE FALSE
    BY DEF Words
  <2>1. s[q] \in Items
    OBVIOUS
  <2> QED BY <2>1, ItemFields
<1>2. ASSUME NEW i \in DOMAIN s, s[i].kind \in {"assistant", "result"} PROVE s[i].of \notin Words(s)
  <2> SUFFICES ASSUME NEW q \in DOMAIN s, s[q].kind = "user", s[q].of = s[i].of PROVE FALSE
    BY DEF Words
  <2>1. q # i
    BY <1>2
  <2>2. {s[q].kind, s[i].kind} = {"call", "result"}
    BY <2>1 DEF Unique
  <2> QED BY <2>2
<1> QED BY <1>1, <1>2

LEMMA PlaceKeepsTurns ==
  ASSUME NEW N, NEW a, Fits(a, N), NEW s \in Seq(Items), Unique(s), NEW n \in Nat,
         n + 1 \in DOMAIN s, KeepsTurns(a, s, n), NEW paired, NEW keep
  PROVE  KeepsTurns(PlaceItem(a, s[n + 1], paired, keep), s, n + 1)
<1> DEFINE item == s[n + 1]
           M == ChatMessages(N)
           f == flushPendingToolCalls(a)
<1>0. item \in Items /\ DOMAIN s \subseteq Nat /\ 0 \notin Words(s)
  BY OnlyUsersWords
<1>1. /\ Fits(f, N) /\ KeepsTurns(f, s, n)
  BY <1>0, FlushTyped, FlushKeepsTurns
<1> HIDE DEF f
<1>2. /\ a \in Placements(N) /\ f \in Placements(N) /\ f.messages \in Seq(M)
      /\ Len(f.messages) \in Nat /\ a.reasoning \in Seq(Nat) /\ f.reasoning \in Seq(Nat)
  BY <1>1 DEF Fits, Placements
<1>3. InTurn(f.messages, ToSet(f.reasoning), f.last, s, n)
  BY <1>1 DEF KeepsTurns
<1>4. ToSet(<<>>) = {}
  BY DEF ToSet
<1>5. CASE item.kind = "reasoning"
  <2> DEFINE r == appendUniqueReasoning(a.reasoning, item.of)
             b == PlaceItem(a, item, paired, keep)
  <2>1. b = [a EXCEPT !.reasoning = r]
    BY <1>5 DEF PlaceItem
  <2>2. ToSet(r) \subseteq ToSet(a.reasoning) \cup {item.of}
    <3>1. item.of \in Nat
      BY <1>0, BlocksTyped
    <3>2. ToSet(Append(a.reasoning, item.of)) \subseteq ToSet(a.reasoning) \cup {item.of}
      BY <1>2, <3>1 DEF ToSet
    <3> QED BY <3>2 DEF appendUniqueReasoning
  <2> HIDE DEF r, b
  <2>3. b.messages = a.messages /\ b.reasoning = r /\ b.last = a.last
    BY <2>1, <1>2 DEF Placements
  <2>4. InTurn(a.messages, ToSet(a.reasoning), a.last, s, n)
    BY DEF KeepsTurns
  <2>5. InTurn(a.messages, ToSet(r), a.last, s, n + 1)
    BY <2>2, <2>4, <1>5, ThinksInTurn
  <2> QED BY <2>3, <2>5 DEF KeepsTurns, b
<1>6. CASE item.kind = "call"
  <2> DEFINE b == PlaceItem(a, item, paired, keep)
             c == Append(a.calls, [of |-> item.of, name |-> item.tool.name])
  <2>1. b = [a EXCEPT !.calls = c]
    BY <1>6 DEF PlaceItem
  <2> HIDE DEF b, c
  <2>2. b.messages = a.messages /\ b.reasoning = a.reasoning /\ b.last = a.last
    BY <2>1, <1>2 DEF Placements
  <2>3. InTurn(a.messages, ToSet(a.reasoning), a.last, s, n + 1)
    BY <1>0, <1>6, PassesInTurn DEF KeepsTurns
  <2> QED BY <2>2, <2>3 DEF KeepsTurns, b
<1>7. CASE item.kind = "result"
  <2> DEFINE b    == PlaceItem(a, item, paired, keep)
             ms   == toolOutputToChatMessages(item, paired, keep)
             last == IF HasImage(item) /\ keep THEN 0 ELSE f.last
             P    == ToSet(f.reasoning)
  <2>1. b = [f EXCEPT !.messages = @ \o ms, !.last = last]
    BY <1>7 DEF PlaceItem, PlaceResult, f
  <2>2. PICK one \in M, two \in M : ResultSays(item, paired, keep, one, two)
    <3>1. \E one, two \in ChatMessages(N) : ResultSays(item, paired, keep, one, two)
      <4> HIDE DEF item
      <4> QED BY <1>0, ResultMessages
    <3> QED BY <3>1
  <2>0. /\ Says(one) = item.of /\ one.reasoning = <<>>
        /\ Says(two) = item.of /\ two.reasoning = <<>>
        /\ ms = IF HasImage(item) /\ keep THEN <<one, two>> ELSE <<one>>
    BY <2>2 DEF ResultSays
  <2> HIDE DEF b, ms
  <2>3. b.messages = f.messages \o ms /\ b.reasoning = f.reasoning /\ b.last = last
    <3> HIDE DEF M, last
    <3> QED BY <2>1, <1>2 DEF Placements
  <2>4. item.of \notin Words(s)
    BY <1>7, OnlyUsersWords
  <2> HIDE DEF P, M, item
  <2>5. P \in SUBSET (P \ {}) /\ {} \subseteq P
    OBVIOUS
  <2>6. ToSet(one.reasoning) = {} /\ ToSet(two.reasoning) = {}
    BY <2>0, <2>2, <1>4
  <2>7. InTurn(f.messages, P, f.last, s, n)
    BY <1>3 DEF P
  <2>8. \A new \in {0, f.last} : InTurn(Append(f.messages, one), P, new, s, n)
    <3> SUFFICES ASSUME NEW new \in {0, f.last}
                 PROVE  InTurn(Append(f.messages, one), P, new, s, n)
      OBVIOUS
    <3>1. new \in {0, f.last, Len(f.messages) + 1}
      OBVIOUS
    <3>2. Says(one) \notin Words(s) /\ ToSet(one.reasoning) \subseteq P
          /\ P \in SUBSET (P \ ToSet(one.reasoning))
      BY <2>0, <2>2, <2>4, <2>5, <2>6
    <3> QED BY <3>1, <3>2, <2>7, <1>2, AddsInTurn
  <2>9. InTurn(b.messages, P, last, s, n)
    <3>1. CASE HasImage(item) /\ keep
      <4> DEFINE ps == Append(f.messages, one)
      <4>1. ps \in Seq(M) /\ f.messages \o <<one, two>> = Append(ps, two)
        BY <1>2, <2>0, <2>2
      <4> HIDE DEF ps
      <4>2. InTurn(ps, P, 0, s, n)
        BY <2>8 DEF ps
      <4>3. Says(two) \notin Words(s) /\ ToSet(two.reasoning) \subseteq P
            /\ P \in SUBSET (P \ ToSet(two.reasoning)) /\ 0 \in {0, 0, Len(ps) + 1}
        BY <2>0, <2>2, <2>4, <2>5, <2>6
      <4>4. InTurn(Append(ps, two), P, 0, s, n)
        BY <4>1, <4>2, <4>3, AddsInTurn
      <4> QED BY <4>1, <4>4, <2>0, <2>2, <2>3, <3>1
    <3>2. CASE ~(HasImage(item) /\ keep)
      <4>1. f.messages \o <<one>> = Append(f.messages, one)
        BY <1>2, <2>0, <2>2
      <4>2. InTurn(Append(f.messages, one), P, f.last, s, n)
        BY <2>8
      <4> QED BY <4>1, <4>2, <2>0, <2>2, <2>3, <3>2
    <3> QED BY <3>1, <3>2
  <2>10. s[n + 1].kind # "user"
    BY <1>7 DEF item
  <2>11. InTurn(b.messages, P, last, s, n + 1)
    BY <2>9, <2>10, <1>0, PassesInTurn
  <2> QED BY <2>3, <2>11 DEF KeepsTurns, b, P, item
<1>8. CASE item.kind = "assistant"
  <2> DEFINE b    == PlaceItem(a, item, paired, keep)
             new  == ChatMessage("assistant", <<Text(item.of)>>)
             m    == attachReasoning(new, f.reasoning)
             last == Len(f.messages) + 1
             P    == ToSet(f.reasoning)
  <2>1. b = [f EXCEPT !.messages = Append(@, m), !.reasoning = <<>>, !.last = last]
    BY <1>8 DEF PlaceItem, PlaceAssistant, f
  <2>2. new \in M /\ new.content = <<Text(item.of)>> /\ new.reasoning = <<>>
    BY <1>0, BlocksTyped, ChatMessageTyped DEF ChatMessage
  <2> HIDE DEF new
  <2>3. m \in M /\ m.content = <<Text(item.of)>> /\ ToSet(m.reasoning) \subseteq P
    <3>1. m \in M
      BY <2>2, <1>2, AttachTyped
    <3>2. m.content = new.content
          /\ ToSet(m.reasoning) \subseteq ToSet(new.reasoning) \cup P
      BY <2>2, <1>2, AttachKeeps
    <3> HIDE DEF m, M, P
    <3> QED BY <3>1, <3>2, <2>2, <1>4
  <2> HIDE DEF b, m, M, P
  <2>4. b.messages = Append(f.messages, m) /\ b.reasoning = <<>> /\ b.last = last
    <3> HIDE DEF last
    <3> QED BY <2>1, <1>2 DEF Placements
  <2>5. Says(m) \notin Words(s)
    <3>1. Says(m) = item.of
      BY <2>3 DEF Says, Text
    <3> QED BY <3>1, <1>8, OnlyUsersWords
  <2>6. InTurn(Append(f.messages, m), {}, last, s, n)
    <3>1. InTurn(f.messages, P, f.last, s, n)
      BY <1>3 DEF P
    <3>2. {} \in SUBSET (P \ ToSet(m.reasoning)) /\ last \in {0, f.last, Len(f.messages) + 1}
      OBVIOUS
    <3> QED BY <3>1, <3>2, <2>3, <2>5, <1>2, AddsInTurn
  <2>7. InTurn(Append(f.messages, m), {}, last, s, n + 1)
    BY <2>6, <1>0, <1>8, PassesInTurn
  <2> QED BY <2>4, <2>7, <1>4 DEF KeepsTurns, b
<1>9. CASE item.kind = "user"
  <2> DEFINE b == PlaceItem(a, item, paired, keep)
             g == attachReasoningToPreviousAssistant(f)
             m == ChatMessage("user", convertContentBlocks(item, keep))
  <2>1. b = [g EXCEPT !.messages = Append(@, m), !.last = 0]
    BY <1>9 DEF PlaceItem, PlaceUser, f
  <2>2. Fits(g, N) /\ KeepsTurns(g, s, n) /\ ToSet(g.reasoning) = {}
    BY <1>1, SettledTyped, SettleKeepsTurns
  <2>3. m \in M /\ m.content = convertContentBlocks(item, keep) /\ m.reasoning = <<>>
    BY <1>0, BlocksTyped, ChatMessageTyped DEF ChatMessage
  <2>4. Says(m) = item.of
    <3> DEFINE c == convertContentBlocks(item, keep)
    <3>1. c # <<>> /\ c[1].of = item.of
      BY DEF convertContentBlocks, Text
    <3> HIDE DEF c, m
    <3> QED BY <3>1, <2>3 DEF Says, c
  <2> HIDE DEF b, g, m
  <2>5. g \in Placements(N) /\ g.messages \in Seq(M)
    BY <2>2 DEF Fits, Placements
  <2> HIDE DEF M
  <2>6. b.messages = Append(g.messages, m) /\ b.reasoning = g.reasoning /\ b.last = 0
    BY <2>1, <2>5 DEF Placements
  <2>7. InTurn(g.messages, {}, g.last, s, n)
    BY <2>2 DEF KeepsTurns
  <2>8. InTurn(Append(g.messages, m), {}, 0, s, n + 1)
    BY <2>3, <2>4, <2>5, <2>7, <1>4, <1>9, UserInTurn
  <2> QED BY <2>2, <2>6, <2>8 DEF KeepsTurns, b
<1>10. CASE item.kind \notin {"reasoning", "call", "result", "assistant", "user"}
  <2>1. PlaceItem(a, item, paired, keep) = a
    BY <1>10 DEF PlaceItem
  <2>2. InTurn(a.messages, ToSet(a.reasoning), a.last, s, n + 1)
    BY <1>0, <1>10, PassesInTurn DEF KeepsTurns
  <2> QED BY <2>1, <2>2 DEF KeepsTurns
<1> QED BY <1>5, <1>6, <1>7, <1>8, <1>9, <1>10

LEMMA PlacedKeepsTurns ==
  ASSUME NEW s \in Seq(Items), Unique(s), NEW paired, NEW keep
  PROVE  KeepsTurns(Placed(s, paired, keep), s, Len(s))
<1> DEFINE N == CallNames(s)
           n == Len(s)
           R == {p \in Nat \X Placements(N) : Fits(p[2], N) /\ KeepsTurns(p[2], s, p[1])}
<1>1. n \in Nat /\ DOMAIN s = 1 .. n /\ \A i \in 1 .. n : s[i] \in Items
  OBVIOUS
<1>2. \A i, a : <<i, a>> \in R <=> i \in Nat /\ Fits(a, N) /\ KeepsTurns(a, s, i)
  BY DEF Fits
<1>3. \A i \in 1 .. n : s[i].kind = "call" => [of |-> s[i].of, name |-> s[i].tool.name] \in N
  BY <1>1 DEF CallNames
<1> HIDE DEF R, N, n
<1>4. <<0, Start>> \in R
  <2>1. <<>> \in Seq(ChatMessages(N)) /\ <<>> \in Seq(N) /\ <<>> \in Seq(Nat)
        /\ 0 \in Nat /\ 0 <= Len(<<>>)
    OBVIOUS
  <2>2. /\ Start \in Placements(N) /\ Start.last = 0 /\ Start.messages = <<>>
        /\ Start.reasoning = <<>>
    BY <2>1 DEF Start, Placements
  <2>3. Fits(Start, N)
    BY <2>1, <2>2 DEF Fits
  <2>4. KeepsTurns(Start, s, 0)
    <3>1. ToSet(<<>>) = {} /\ DOMAIN <<>> = {}
      BY DEF ToSet
    <3>2. Told(<<>>, Words(s), Len(<<>>) + 1) = {}
      BY <3>1 DEF Told
    <3>3. Heard(s, 0) = {}
      <4>1. \A p \in DOMAIN s : ~(p <= 0)
        BY <1>1
      <4> QED BY <4>1 DEF Heard
    <3>4. InTurn(<<>>, {}, 0, s, 0)
      BY <3>1, <3>2, <3>3 DEF InTurn
    <3> QED BY <2>2, <3>1, <3>4 DEF KeepsTurns
  <2> QED BY <2>1, <2>3, <2>4, <1>2
<1>5. ASSUME NEW i \in 1 .. n, NEW a, <<i - 1, a>> \in R
      PROVE  <<i, PlaceItem(a, s[i], paired, keep)>> \in R
  <2>1. i \in Nat /\ i - 1 \in Nat /\ (i - 1) + 1 = i /\ i \in DOMAIN s
    BY <1>1
  <2>2. Fits(a, N) /\ KeepsTurns(a, s, i - 1)
    BY <1>5, <1>2
  <2>3. Fits(PlaceItem(a, s[i], paired, keep), N)
    BY <1>1, <1>3, <2>2, PlaceItemTyped
  <2> DEFINE j == i - 1
  <2>4. j \in Nat /\ j + 1 = i /\ KeepsTurns(a, s, j)
    BY <2>1, <2>2
  <2> HIDE DEF j
  <2>5. KeepsTurns(PlaceItem(a, s[j + 1], paired, keep), s, j + 1)
    BY <2>1, <2>2, <2>4, PlaceKeepsTurns
  <2> QED BY <2>1, <2>3, <2>4, <2>5, <1>2
<1>6. <<n, Placed(s, paired, keep)>> \in R
  BY <1>1, <1>4, <1>5, PlacedByInduction
<1> QED BY <1>6, <1>2 DEF n

\* What inputToChatMessages makes of s: no word of the user is said twice, a thought
\* stands in its turn, and in one message only.
TurnsKept(ms, s) ==
  /\ \A j, k \in DOMAIN ms : j # k /\ Says(ms[j]) \in Words(s) => Says(ms[j]) # Says(ms[k])
  /\ \A i \in DOMAIN ms, x \in Marks : Contains(ms[i].reasoning, x) =>
       /\ Thought(x, s, Len(s), Told(ms, Words(s), i))
       /\ \A j \in DOMAIN ms \ {i} : ~Contains(ms[j].reasoning, x)

LEMMA ChatKeepsTurns ==
  ASSUME NEW s \in Seq(Items), Unique(s), NEW opts
  PROVE  TurnsKept(inputToChatMessages(s, opts), s)
<1> DEFINE N == CallNames(s)
           p == Placed(s, PairedToolCallIDs(s), opts.images /\ ~opts.omit)
           f == flushPendingToolCalls(p)
           d == attachReasoningToPreviousAssistant(f)
           ms == d.messages
           b == backfillToolCallReasoningPlaceholders(ms)
<1>0. Len(s) \in Nat
  OBVIOUS
<1>1. Fits(p, N) /\ KeepsTurns(p, s, Len(s))
  BY PlacedFits, PlacedKeepsTurns
<1> HIDE DEF p, N
<1>2. Fits(f, N) /\ KeepsTurns(f, s, Len(s))
  BY <1>0, <1>1, FlushTyped, FlushKeepsTurns, OnlyUsersWords
<1> HIDE DEF f
<1>3. Fits(d, N) /\ KeepsTurns(d, s, Len(s))
  BY <1>0, <1>2, SettledTyped, SettleKeepsTurns
<1>4. b = inputToChatMessages(s, opts)
  BY ChatMessagesOfPlaced DEF f, p
<1> HIDE DEF d
<1>5. ms \in Seq(ChatMessages(N)) /\ InTurn(ms, ToSet(d.reasoning), d.last, s, Len(s))
  BY <1>3 DEF Fits, Placements, KeepsTurns
<1> HIDE DEF ms
<1>6. DOMAIN b = DOMAIN ms /\ DOMAIN ms \subseteq Nat /\ Len(ms) \in Nat
  BY <1>5 DEF backfillToolCallReasoningPlaceholders
<1>7. ASSUME NEW i \in DOMAIN ms
      PROVE  /\ Says(b[i]) = Says(ms[i])
             /\ \A x \in Marks : Contains(b[i].reasoning, x) => x \in ToSet(ms[i].reasoning)
  <2>1. ms[i] \in ChatMessages(N)
    BY <1>5
  <2>2. \/ b[i] = ms[i]
        \/ b[i] = [ms[i] EXCEPT !.reasoning = <<Placeholder>>]
    BY DEF backfillToolCallReasoningPlaceholders
  <2> HIDE DEF b
  <2>3. b[i].content = ms[i].content
        /\ (b[i].reasoning = ms[i].reasoning \/ b[i].reasoning = <<0>>)
    BY <2>1, <2>2 DEF ChatMessages, Placeholder
  <2>4. \A x \in Marks : ~Contains(<<0>>, x)
    BY ConversationAssumption DEF Contains, Marks
  <2>5. \A x : Contains(ms[i].reasoning, x) => x \in ToSet(ms[i].reasoning)
    <3>1. ms[i].reasoning \in Seq(Nat)
      BY <2>1 DEF ChatMessages
    <3> QED BY <3>1 DEF Contains, ToSet
  <2> QED BY <2>3, <2>4, <2>5 DEF Says
<1> HIDE DEF b
<1>8. \A i \in DOMAIN ms : Told(b, Words(s), i) = Told(ms, Words(s), i)
  BY <1>6, <1>7, ToldSame
<1>9. \A j, k \in DOMAIN b : j # k /\ Says(b[j]) \in Words(s) => Says(b[j]) # Says(b[k])
  BY <1>5, <1>6, <1>7 DEF InTurn
<1>10. ASSUME NEW i \in DOMAIN b, NEW x \in Marks, Contains(b[i].reasoning, x)
       PROVE  /\ Thought(x, s, Len(s), Told(b, Words(s), i))
              /\ \A j \in DOMAIN b \ {i} : ~Contains(b[j].reasoning, x)
  <2>1. i \in DOMAIN ms /\ x \in ToSet(ms[i].reasoning)
    BY <1>6, <1>7, <1>10
  <2>2. Thought(x, s, Len(s), Told(ms, Words(s), i))
    BY <2>1, <1>5 DEF InTurn
  <2>3. ASSUME NEW j \in DOMAIN b \ {i} PROVE ~Contains(b[j].reasoning, x)
    <3>1. j \in DOMAIN ms /\ j # i
      BY <1>6
    <3>2. ToSet(ms[i].reasoning) \cap ToSet(ms[j].reasoning) = {}
      BY <2>1, <3>1, <1>5 DEF InTurn
    <3> QED BY <2>1, <3>1, <3>2, <1>7
  <2> QED BY <2>1, <2>2, <2>3, <1>8
<1> QED BY <1>4, <1>9, <1>10 DEF TurnsKept

-----------------------------------------------------------------------------
(* The turns of the history and those of the request *)

LEMMA CountOnce ==
  ASSUME NEW S, IsFiniteSet(S), NEW f, f = [j \in S |-> f[j]],
         \A j, k \in S : j # k => f[j] # f[k]
  PROVE  Cardinality({f[j] : j \in S}) = Cardinality(S)
<1> DEFINE T == {f[j] : j \in S}
<1>1. f \in Surjection(S, T)
  BY DEF Surjection
<1>2. f \in Injection(S, T)
  BY DEF Injection, IsInjective
<1> HIDE DEF T
<1>3. f \in Surjection(S, T) => Cardinality(T) = Cardinality(S)
  BY <1>2, FS_Surjection
<1> QED BY <1>1, <1>3 DEF T

LEMMA CountHeard ==
  ASSUME NEW h \in Seq(Items), Unique(h), NEW n \in DOMAIN h, h[n].kind # "user"
  PROVE  Cardinality({j \in 1 .. n - 1 : h[j].kind = "user"}) = Cardinality(Heard(h, n))
<1> DEFINE S == {j \in 1 .. n - 1 : h[j].kind = "user"}
           f == [j \in S |-> h[j].of]
<1>1. n \in Nat /\ DOMAIN h = 1 .. Len(h) /\ Len(h) \in Nat /\ n <= Len(h)
  OBVIOUS
<1>2. S = {p \in DOMAIN h : p <= n /\ h[p].kind = "user"}
  <2>1. \A p \in 1 .. n - 1 : p \in DOMAIN h /\ p <= n
    BY <1>1
  <2>2. \A p \in DOMAIN h : p <= n => p \in 1 .. n - 1 \/ p = n
    BY <1>1
  <2> QED BY <2>1, <2>2
<1>3. IsFiniteSet(S)
  <2>1. IsFiniteSet(1 .. n - 1)
    <3>1. 1 \in Int /\ n - 1 \in Int
      BY <1>1
    <3> QED BY <3>1, FS_Interval
  <2> QED BY <2>1, FS_Subset
<1>4. Heard(h, n) = {f[j] : j \in S}
  BY <1>2 DEF Heard
<1>5. \A j, k \in S : j # k => f[j] # f[k]
  <2> SUFFICES ASSUME NEW j \in S, NEW k \in S, j # k, h[j].of = h[k].of PROVE FALSE
    OBVIOUS
  <2>1. j \in DOMAIN h /\ k \in DOMAIN h /\ h[j].kind = "user" /\ h[k].kind = "user"
    BY <1>2
  <2>2. {h[j].kind, h[k].kind} = {"call", "result"}
    BY <2>1 DEF Unique
  <2> QED BY <2>1, <2>2
<1>6. f = [j \in S |-> f[j]]
  OBVIOUS
<1> HIDE DEF S, f
<1>7. Cardinality({f[j] : j \in S}) = Cardinality(S)
  BY <1>3, <1>5, <1>6, CountOnce
<1> QED BY <1>4, <1>7 DEF S

LEMMA CountTold ==
  ASSUME NEW V, NEW ms \in Seq(V), NEW W, 0 \notin W, NEW i \in DOMAIN ms,
         \A j, k \in DOMAIN ms : j # k /\ Says(ms[j]) \in W => Says(ms[j]) # Says(ms[k])
  PROVE  Cardinality({j \in 1 .. i - 1 : ms[j].content # <<>> /\ ms[j].content[1].of \in W})
           = Cardinality(Told(ms, W, i))
<1> DEFINE S == {j \in 1 .. i - 1 : ms[j].content # <<>> /\ ms[j].content[1].of \in W}
           f == [j \in S |-> Says(ms[j])]
<1>1. i \in Nat /\ DOMAIN ms = 1 .. Len(ms) /\ Len(ms) \in Nat /\ i <= Len(ms)
  OBVIOUS
<1>2. S = {k \in DOMAIN ms : k < i /\ Says(ms[k]) \in W}
  <2>1. \A p \in 1 .. i - 1 : p \in DOMAIN ms /\ p < i
    BY <1>1
  <2>2. \A p \in DOMAIN ms : p < i => p \in 1 .. i - 1
    BY <1>1
  <2>3. \A m : Says(m) \in W <=> m.content # <<>> /\ m.content[1].of \in W
    BY DEF Says
  <2> QED BY <2>1, <2>2, <2>3
<1>3. IsFiniteSet(S)
  <2>1. IsFiniteSet(1 .. i - 1)
    <3>1. 1 \in Int /\ i - 1 \in Int
      BY <1>1
    <3> QED BY <3>1, FS_Interval
  <2> QED BY <2>1, FS_Subset
<1>4. Told(ms, W, i) = {f[j] : j \in S}
  BY <1>2 DEF Told
<1>5. \A j, k \in S : j # k => f[j] # f[k]
  BY <1>2
<1>6. f = [j \in S |-> f[j]]
  OBVIOUS
<1> HIDE DEF S, f
<1>7. Cardinality({f[j] : j \in S}) = Cardinality(S)
  BY <1>3, <1>5, <1>6, CountOnce
<1> QED BY <1>4, <1>7 DEF S

\* The input has the same words and thoughts, in the same order, as the history.
LEMMA FollowKeepsTurns ==
  ASSUME NEW x \in Seq(Items), NEW h \in Seq(Items), Unique(h), NEW g, Follow(g, x, h)
  PROVE  /\ Unique(x) /\ Words(x) = Words(h)
         /\ \A k \in DOMAIN x : g[k] \in DOMAIN h /\ Heard(x, k) = Heard(h, g[k])
<1>1. /\ DOMAIN x = 1 .. Len(x) /\ DOMAIN h = 1 .. Len(h)
      /\ DOMAIN x \subseteq Nat /\ DOMAIN h \subseteq Nat
  OBVIOUS
<1>2. /\ \A k \in DOMAIN x : g[k] \in DOMAIN h /\ x[k].kind = h[g[k]].kind /\ x[k].of = h[g[k]].of
      /\ \A j, k \in DOMAIN x : j < k => g[j] < g[k]
      /\ \A i \in DOMAIN h : h[i].kind # "carrier" => \E k \in DOMAIN x : g[k] = i
  BY <1>1 DEF Follow
<1>3. \A j, k \in DOMAIN x : /\ j # k => g[j] # g[k]
                             /\ j <= k <=> g[j] <= g[k]
  <2> SUFFICES ASSUME NEW j \in DOMAIN x, NEW k \in DOMAIN x
               PROVE  (j # k => g[j] # g[k]) /\ (j <= k <=> g[j] <= g[k])
    OBVIOUS
  <2>1. j < k \/ k < j \/ j = k
    BY <1>1
  <2>2. g[j] \in Nat /\ g[k] \in Nat
    BY <1>1, <1>2
  <2>3. (j < k => g[j] < g[k]) /\ (k < j => g[k] < g[j])
    BY <1>2
  <2> QED BY <2>1, <2>2, <2>3, <1>1
<1>4. Unique(x)
  <2> SUFFICES ASSUME NEW i \in DOMAIN x, NEW j \in DOMAIN x, i # j, x[i].of = x[j].of,
                      x[i].kind # "carrier"
               PROVE  {x[i].kind, x[j].kind} = {"call", "result"}
    BY DEF Unique
  <2>1. g[i] # g[j] /\ g[i] \in DOMAIN h /\ g[j] \in DOMAIN h
        /\ x[i].kind = h[g[i]].kind /\ x[j].kind = h[g[j]].kind
        /\ x[i].of = h[g[i]].of /\ x[j].of = h[g[j]].of
    BY <1>2, <1>3
  <2>2. {h[g[i]].kind, h[g[j]].kind} = {"call", "result"}
    BY <2>1 DEF Unique
  <2> QED BY <2>1, <2>2
<1>5. Words(x) = Words(h)
  <2>1. ASSUME NEW w \in Words(x) PROVE w \in Words(h)
    <3>1. PICK p \in DOMAIN x : x[p].kind = "user" /\ x[p].of = w
      BY DEF Words
    <3> QED BY <3>1, <1>2 DEF Words
  <2>2. ASSUME NEW w \in Words(h) PROVE w \in Words(x)
    <3>1. PICK p \in DOMAIN h : h[p].kind = "user" /\ h[p].of = w
      BY DEF Words
    <3>2. PICK k \in DOMAIN x : g[k] = p
      BY <3>1, <1>2
    <3> QED BY <3>1, <3>2, <1>2 DEF Words
  <2> QED BY <2>1, <2>2
<1>6. ASSUME NEW k \in DOMAIN x PROVE Heard(x, k) = Heard(h, g[k])
  <2>1. ASSUME NEW w \in Heard(x, k) PROVE w \in Heard(h, g[k])
    <3>1. PICK p \in DOMAIN x : p <= k /\ x[p].kind = "user" /\ x[p].of = w
      BY DEF Heard
    <3> QED BY <3>1, <1>2, <1>3 DEF Heard
  <2>2. ASSUME NEW w \in Heard(h, g[k]) PROVE w \in Heard(x, k)
    <3>1. PICK p \in DOMAIN h : p <= g[k] /\ h[p].kind = "user" /\ h[p].of = w
      BY DEF Heard
    <3>2. PICK q \in DOMAIN x : g[q] = p
      BY <3>1, <1>2
    <3> QED BY <3>1, <3>2, <1>2, <1>3 DEF Heard
  <2> QED BY <2>1, <2>2
<1> QED BY <1>2, <1>4, <1>5, <1>6

\* Reasoning is shown in the turn it belongs to, never past something the user
\* said, and in one place, for a history of any length
\* (attachReasoningToPreviousAssistant and flushPendingToolCalls in adapter_chat.go).
THEOREM ReasoningStaysInTurn == Spec => []ReasoningInTurn
<1>1. Intact => ReasoningInTurn
  <2> SUFFICES ASSUME Intact, Sent, model.route = "chat",
                      NEW i \in DOMAIN body.messages, NEW n \in DOMAIN history,
                      history[n].kind = "reasoning",
                      Contains(body.messages[i].reasoning, history[n].of)
               PROVE  /\ Cardinality({j \in 1 .. n - 1 : history[j].kind = "user"})
                           = Cardinality({j \in 1 .. i - 1 :
                               /\ body.messages[j].content # <<>>
                               /\ body.messages[j].content[1].of \in
                                    {history[k].of : k \in {l \in DOMAIN history :
                                                              history[l].kind = "user"}}})
                      /\ \A j \in DOMAIN body.messages \ {i} :
                           ~Contains(body.messages[j].reasoning, history[n].of)
    BY DEF ReasoningInTurn
  <2> DEFINE ms == body.messages
             input == applyCodexToolContext(ctx, history)
             x == history[n].of
  <2>1. history \in Seq(Items) /\ Unique(history)
        /\ MadeOf(model, top, history, ctx, body)
    BY DEF Intact
  <2>2. PICK choice \in ChoicesOf(top, history) :
          \E opts : MadeFor(model, top, history, ctx, body, choice, opts)
    BY <2>1 DEF MadeOf
  <2>3. PICK opts : MadeFor(model, top, history, ctx, body, choice, opts)
    BY <2>2
  <2>4. ms = inputToChatMessages(input, opts)
    <3>1. ms = ConvertedOf(model, input, opts).messages
      BY <2>3, MadeFields
    <3> QED BY <3>1 DEF ConvertedOf, responsesToChatRequest
  <2>5. input \in Seq(Items) /\ \E g : Follow(g, input, history)
    BY <2>1, AppliedFollows
  <2>6. PICK g : Follow(g, input, history)
    BY <2>5
  <2> HIDE DEF input
  <2>7. /\ Unique(input) /\ Words(input) = Words(history)
        /\ \A k \in DOMAIN input : g[k] \in DOMAIN history /\ Heard(input, k) = Heard(history, g[k])
    BY <2>1, <2>5, <2>6, FollowKeepsTurns
  <2>8. TurnsKept(ms, input) /\ ms \in Seq(ChatMessages(CallNames(input)))
    BY <2>4, <2>5, <2>7, ChatKeepsTurns, ChatTyped
  <2>9. x \in Marks
    <3>1. history[n] \in Items
      BY <2>1
    <3> QED BY <3>1 DEF Items
  <2>10. /\ Thought(x, input, Len(input), Told(ms, Words(history), i))
         /\ \A j \in DOMAIN ms \ {i} : ~Contains(ms[j].reasoning, x)
    BY <2>7, <2>8, <2>9 DEF TurnsKept
  <2>11. PICK q \in DOMAIN input : /\ input[q].kind = "reasoning" /\ input[q].of = x
                                   /\ Heard(input, q) = Told(ms, Words(history), i)
    BY <2>10 DEF Thought
  <2>12. g[q] = n
    <3>1. g[q] \in DOMAIN history /\ history[g[q]].kind = "reasoning" /\ history[g[q]].of = x
      <4>1. q \in 1 .. Len(input)
        BY <2>5
      <4> QED BY <4>1, <2>6, <2>7, <2>11 DEF Follow
    <3>2. g[q] # n => {history[g[q]].kind, history[n].kind} = {"call", "result"}
      BY <2>1, <3>1 DEF Unique
    <3> QED BY <3>1, <3>2
  <2>13. Heard(history, n) = Told(ms, Words(history), i)
    BY <2>7, <2>11, <2>12
  <2>14. Cardinality({j \in 1 .. n - 1 : history[j].kind = "user"}) = Cardinality(Heard(history, n))
    BY <2>1, CountHeard
  <2>15. Cardinality({j \in 1 .. i - 1 : ms[j].content # <<>> /\ ms[j].content[1].of \in Words(history)})
           = Cardinality(Told(ms, Words(history), i))
    <3>1. 0 \notin Words(history)
      BY <2>1, OnlyUsersWords
    <3>2. \A j, k \in DOMAIN ms :
            j # k /\ Says(ms[j]) \in Words(history) => Says(ms[j]) # Says(ms[k])
      BY <2>7, <2>8 DEF TurnsKept
    <3> HIDE DEF ms
    <3>3. ms \in Seq(ChatMessages(CallNames(input))) /\ i \in DOMAIN ms
      BY <2>8 DEF ms
    <3> QED BY <3>1, <3>2, <3>3, CountTold
  <2> QED BY <2>10, <2>13, <2>14, <2>15 DEF Words
<1> QED BY <1>1, StaysIntact, PTL

-----------------------------------------------------------------------------
(* Results follow their calls, for a Chat upstream *)

Results(s) == {s[q].of : q \in {p \in DOMAIN s : s[p].kind = "result"}}
CallsOf(calls) == {c.of : c \in ToSet(calls)}

\* Between the messages j and i there is nothing but what tools returned.
Behind(ms, R, j, i) == \A k \in DOMAIN ms : j < k /\ k < i => Says(ms[k]) \in R

\* The call n is in a message with nothing but results up to message i.
CalledBefore(ms, R, n, i) ==
  \E j \in DOMAIN ms : j < i /\ n \in CallsOf(ms[j].calls) /\ Behind(ms, R, j, i)

\* Item q of s is a call that is answered by an item after n.
Awaits(s, q, n) ==
  /\ q <= n /\ s[q].kind = "call"
  /\ \E p \in DOMAIN s : n < p /\ s[p].kind = "result" /\ s[p].of = s[q].of

\* A call and its result: what there may be between them.
Conversed(s) ==
  \A q, p \in DOMAIN s : s[q].kind = "call" /\ s[p].kind = "result" /\ s[q].of = s[p].of =>
    /\ q < p
    /\ \A t \in DOMAIN s : q < t /\ t < p =>
         /\ s[t].kind \notin {"user", "assistant"}
         /\ s[t].kind # "call" => \A u \in DOMAIN s : t < u /\ u < p => s[u].kind # "call"

\* What has been placed is answered or can still be.
Answered(ms, last, s) ==
  /\ last # 0 => Behind(ms, Results(s), last, Len(ms) + 1)
  /\ \A i \in DOMAIN ms : ms[i].role = "tool" => CalledBefore(ms, Results(s), ms[i].answers, i)

Answerable(ms, s, q) == CalledBefore(ms, Results(s), s[q].of, Len(ms) + 1)

\* The messages made of the first n items of s, where the calls P are still to be
\* placed: if there are any, then these are all that await their results.
Answering(ms, P, last, s, n) ==
  /\ Answered(ms, last, s)
  /\ \A q \in DOMAIN s : Awaits(s, q, n) =>
       \/ s[q].of \in P
       \/ /\ P = {} /\ Answerable(ms, s, q)
          /\ \E t \in DOMAIN s : q < t /\ t <= n /\ s[t].kind # "call"

Flushed(ms, last, s, n) ==
  /\ Answered(ms, last, s)
  /\ \A q \in DOMAIN s : Awaits(s, q, n) => Answerable(ms, s, q)

\* Message last gets more calls.
LEMMA JoinsAnswered ==
  ASSUME NEW V, NEW ms \in Seq(V), NEW last \in 1 .. Len(ms), NEW s,
         Answered(ms, last, s), NEW full \in V, Says(full) = Says(ms[last]),
         full.role = ms[last].role, full.answers = ms[last].answers,
         CallsOf(ms[last].calls) \subseteq CallsOf(full.calls)
  PROVE  /\ Answered([ms EXCEPT ![last] = full], last, s)
         /\ \A n \in CallsOf(full.calls) :
              CalledBefore([ms EXCEPT ![last] = full], Results(s), n, Len(ms) + 1)
         /\ \A n : CalledBefore(ms, Results(s), n, Len(ms) + 1) =>
              CalledBefore([ms EXCEPT ![last] = full], Results(s), n, Len(ms) + 1)
<1> DEFINE R == Results(s)
           more == [ms EXCEPT ![last] = full]
           l == Len(ms)
<1>1. /\ DOMAIN ms = 1 .. l /\ DOMAIN more = 1 .. l /\ l \in Nat /\ Len(more) = l
      /\ \A i \in 1 .. l : more[i] = IF i = last THEN full ELSE ms[i]
      /\ last \in 1 .. l
  OBVIOUS
<1> HIDE DEF more, R
<1>2. \A i \in 1 .. l : /\ Says(more[i]) = Says(ms[i]) /\ more[i].role = ms[i].role
                        /\ more[i].answers = ms[i].answers
                        /\ CallsOf(ms[i].calls) \subseteq CallsOf(more[i].calls)
  <2> SUFFICES ASSUME NEW i \in 1 .. l
               PROVE  /\ Says(more[i]) = Says(ms[i]) /\ more[i].role = ms[i].role
                      /\ more[i].answers = ms[i].answers
                      /\ CallsOf(ms[i].calls) \subseteq CallsOf(more[i].calls)
    OBVIOUS
  <2>1. more[i] = IF i = last THEN full ELSE ms[i]
    BY <1>1
  <2> QED BY <2>1
<1>3. \A j, i : Behind(more, R, j, i) <=> Behind(ms, R, j, i)
  BY <1>1, <1>2 DEF Behind
<1>4. \A n, i : CalledBefore(ms, R, n, i) => CalledBefore(more, R, n, i)
  BY <1>1, <1>2, <1>3 DEF CalledBefore
<1> HIDE DEF l
<1>5. Behind(ms, R, last, l + 1) /\ last < l + 1
  <2>1. last # 0 /\ last < l + 1
    BY <1>1
  <2> QED BY <2>1 DEF Answered, R, l
<1>6. Answered(more, last, s)
  <2>1. Behind(more, R, last, Len(more) + 1)
    BY <1>1, <1>3, <1>5
  <2>2. ASSUME NEW i \in 1 .. l, more[i].role = "tool" PROVE CalledBefore(more, R, more[i].answers, i)
    BY <1>1, <1>2, <1>4, <2>2 DEF Answered, R
  <2> QED BY <2>1, <2>2, <1>1 DEF Answered, R
<1>7. ASSUME NEW n \in CallsOf(full.calls) PROVE CalledBefore(more, R, n, l + 1)
  <2>1. more[last] = full
    BY <1>1
  <2> QED BY <2>1, <1>1, <1>3, <1>5 DEF CalledBefore
<1> QED BY <1>4, <1>6, <1>7 DEF R, more, l

\* A message comes after: the results before it stay where they are.
LEMMA AddsAnswered ==
  ASSUME NEW V, NEW ms \in Seq(V), NEW last, NEW s, Answered(ms, last, s), NEW m \in V,
         m.role = "tool" => CalledBefore(ms, Results(s), m.answers, Len(ms) + 1),
         NEW new, \/ new \in {0, Len(ms) + 1}
                  \/ new = last /\ Says(m) \in Results(s)
  PROVE  /\ Answered(Append(ms, m), new, s)
         /\ \A n \in CallsOf(m.calls) :
              CalledBefore(Append(ms, m), Results(s), n, Len(Append(ms, m)) + 1)
         /\ Says(m) \in Results(s) => \A n : CalledBefore(ms, Results(s), n, Len(ms) + 1) =>
              CalledBefore(Append(ms, m), Results(s), n, Len(Append(ms, m)) + 1)
<1> DEFINE R == Results(s)
           more == Append(ms, m)
           l == Len(ms)
<1>1. /\ DOMAIN ms = 1 .. l /\ DOMAIN more = 1 .. l + 1 /\ l \in Nat /\ Len(more) = l + 1
      /\ \A i \in 1 .. l : i \in 1 .. l + 1 /\ more[i] = ms[i]
      /\ l + 1 \in 1 .. l + 1 /\ more[l + 1] = m
  OBVIOUS
<1>2. \A i \in 1 .. l + 1 : i \in 1 .. l \/ i = l + 1
  BY <1>1
<1>3. /\ \A i \in 1 .. l + 1 : i <= l + 1 /\ i < (l + 1) + 1 /\ ~(l + 1 < i)
      /\ \A i \in 1 .. l : i < l + 1
  BY <1>1
<1> HIDE DEF more, R, l
<1>4. \A j : \A i \in 1 .. l + 1 : Behind(ms, R, j, i) => Behind(more, R, j, i)
  BY <1>1, <1>2, <1>3 DEF Behind
<1>5. \A n : \A i \in 1 .. l + 1 : CalledBefore(ms, R, n, i) => CalledBefore(more, R, n, i)
  BY <1>1, <1>4 DEF CalledBefore
<1>6. \A j : Behind(ms, R, j, l + 1) /\ Says(m) \in R => Behind(more, R, j, (l + 1) + 1)
  BY <1>1, <1>2, <1>3 DEF Behind
<1>7. \A n : CalledBefore(ms, R, n, l + 1) /\ Says(m) \in R => CalledBefore(more, R, n, (l + 1) + 1)
  <2> SUFFICES ASSUME NEW n, NEW j \in 1 .. l, n \in CallsOf(ms[j].calls), Behind(ms, R, j, l + 1),
                      Says(m) \in R
               PROVE  CalledBefore(more, R, n, (l + 1) + 1)
    BY <1>1 DEF CalledBefore
  <2>1. j \in 1 .. l + 1 /\ j < (l + 1) + 1 /\ more[j] = ms[j]
    BY <1>1, <1>3
  <2> QED BY <2>1, <1>1, <1>6 DEF CalledBefore
<1>8. Behind(more, R, l + 1, (l + 1) + 1)
  <2>1. \A k \in 1 .. l + 1 : ~(l + 1 < k)
    BY <1>3
  <2> QED BY <2>1, <1>1 DEF Behind
<1>9. \A n \in CallsOf(m.calls) : CalledBefore(more, R, n, (l + 1) + 1)
  BY <1>1, <1>3, <1>8 DEF CalledBefore
<1>10. Answered(more, new, s)
  <2>1. new # 0 => Behind(more, R, new, (l + 1) + 1)
    <3>1. CASE new = 0
      BY <3>1
    <3>2. CASE new = l + 1
      BY <3>2, <1>8
    <3>3. CASE new = last /\ Says(m) \in R
      BY <3>3, <1>6 DEF Answered, R, l
    <3> QED BY <3>1, <3>2, <3>3 DEF R, l
  <2>2. ASSUME NEW i \in 1 .. l + 1, more[i].role = "tool"
        PROVE  CalledBefore(more, R, more[i].answers, i)
    <3>1. CASE i \in 1 .. l
      <4>1. CalledBefore(ms, R, ms[i].answers, i)
        BY <3>1, <2>2, <1>1 DEF Answered, R
      <4> QED BY <4>1, <3>1, <1>1, <1>5
    <3>2. CASE i = l + 1
      <4>1. CalledBefore(ms, R, m.answers, l + 1)
        BY <3>2, <2>2, <1>1 DEF R, l
      <4> QED BY <4>1, <3>2, <1>1, <1>5
    <3> QED BY <3>1, <3>2, <1>2
  <2> QED BY <2>1, <2>2, <1>1 DEF Answered, R
<1> QED BY <1>1, <1>7, <1>9, <1>10 DEF R, more, l

LEMMA AttachPasses ==
  ASSUME NEW N, NEW m \in ChatMessages(N), NEW pending \in Seq(Nat)
  PROVE  /\ attachReasoning(m, pending).content = m.content
         /\ attachReasoning(m, pending).role = m.role
         /\ attachReasoning(m, pending).calls = m.calls
         /\ attachReasoning(m, pending).answers = m.answers
<1> DEFINE new == Only(pending, LAMBDA n : ~Contains(m.reasoning, n))
<1>1. attachReasoning(m, pending) = [m EXCEPT !.reasoning = @ \o new]
  BY DEF attachReasoning
<1> HIDE DEF new
<1> QED BY <1>1 DEF ChatMessages

\* The state a of inputToChatMessages after n items of s, and when its calls are placed.
KeepsAnswers(a, s, n) == Answering(a.messages, CallsOf(a.calls), a.last, s, n)
Settled(a, s, n) == a.calls = <<>> /\ Flushed(a.messages, a.last, s, n)

LEMMA FlushAnswers ==
  ASSUME NEW N, NEW a, Fits(a, N), NEW s, NEW n \in Nat, KeepsAnswers(a, s, n)
  PROVE  Settled(flushPendingToolCalls(a), s, n)
<1> DEFINE b == flushPendingToolCalls(a)
           M == ChatMessages(N)
           l == Len(a.messages)
           P == CallsOf(a.calls)
           R == Results(s)
<1>1. a \in Placements(N) /\ a.messages \in Seq(M) /\ a.calls \in Seq(N)
      /\ a.reasoning \in Seq(Nat) /\ a.last \in Nat /\ a.last <= l /\ l \in Nat
      /\ DOMAIN a.messages = 1 .. l
  BY DEF Fits, Placements
<1>2. CallsOf(<<>>) = {}
  BY DEF CallsOf, ToSet
<1>3. CASE a.calls = <<>>
  <2>1. b = a
    BY <1>3 DEF flushPendingToolCalls
  <2>2. Flushed(a.messages, a.last, s, n)
    BY <1>2, <1>3 DEF KeepsAnswers, Answering, Flushed
  <2> QED BY <1>3, <2>1, <2>2 DEF Settled
<1>4. CASE a.calls # <<>>
  <2> DEFINE joins == /\ a.last # 0
                      /\ a.messages[a.last].role = "assistant"
                      /\ ~hasToolCalls(a.messages[a.last])
             base  == IF joins THEN a.messages[a.last] ELSE ChatMessage("assistant", <<>>)
             with  == [base EXCEPT !.calls = a.calls]
             full  == attachReasoning(with, a.reasoning)
             ms    == IF joins THEN [a.messages EXCEPT ![a.last] = full]
                      ELSE Append(a.messages, full)
             last  == IF joins THEN a.last ELSE Len(a.messages) + 1
  <2>1. b = [messages |-> ms, calls |-> <<>>, reasoning |-> <<>>, last |-> last]
    BY <1>4 DEF flushPendingToolCalls
  <2>2. base \in M /\ base.role = "assistant"
    <3>1. <<>> \in Seq(Blocks)
      OBVIOUS
    <3>2. ChatMessage("assistant", <<>>) \in M
          /\ ChatMessage("assistant", <<>>).role = "assistant"
      BY <3>1, ChatMessageTyped DEF ChatMessage
    <3>3. joins => a.messages[a.last] \in M /\ a.messages[a.last].role = "assistant"
      BY <1>1
    <3> HIDE DEF M
    <3> QED BY <3>2, <3>3
  <2>3. joins => base = a.messages[a.last] /\ base.calls = <<>>
    BY DEF hasToolCalls
  <2> HIDE DEF base
  <2>4. with \in M /\ with.content = base.content /\ with.role = "assistant"
        /\ with.answers = base.answers /\ with.calls = a.calls
    BY <2>2, <1>1 DEF ChatMessages
  <2> HIDE DEF with
  <2>5. full \in M /\ full.content = base.content /\ full.role = "assistant"
        /\ full.answers = base.answers /\ full.calls = a.calls
    BY <2>4, <1>1, AttachTyped, AttachPasses
  <2> HIDE DEF full
  <2>6. b.messages = ms /\ b.calls = <<>> /\ b.last = last
    BY <2>1
  <2>7. Answered(a.messages, a.last, s)
    BY DEF KeepsAnswers, Answering
  <2>8. \A q \in DOMAIN s : Awaits(s, q, n) => s[q].of \in P
    <3>1. P # {}
      <4>1. 1 \in DOMAIN a.calls
        BY <1>1, <1>4
      <4> QED BY <4>1 DEF CallsOf, ToSet
    <3> QED BY <3>1 DEF KeepsAnswers, Answering
  <2>9. CallsOf(full.calls) = P
    BY <2>5
  <2> HIDE DEF b, M, P
  <2>10. CASE joins
    <3>1. a.last \in 1 .. l
      BY <2>10, <1>1
    <3>2. Says(full) = Says(a.messages[a.last]) /\ full.role = a.messages[a.last].role
          /\ full.answers = a.messages[a.last].answers
      BY <2>2, <2>3, <2>5, <2>10 DEF Says
    <3>3. CallsOf(a.messages[a.last].calls) \subseteq CallsOf(full.calls)
      BY <2>3, <2>10, <1>2
    <3> DEFINE more == [a.messages EXCEPT ![a.last] = full]
    <3>4. /\ Answered(more, a.last, s)
          /\ \A k \in CallsOf(full.calls) : CalledBefore(more, R, k, l + 1)
      BY <2>5, <2>7, <3>1, <3>2, <3>3, <1>1, JoinsAnswered
    <3>5. Len(more) = l
      BY <1>1
    <3>6. b.messages = more /\ b.last = a.last
      BY <2>6, <2>10
    <3> HIDE DEF more
    <3>7. Flushed(more, a.last, s, n)
      BY <2>8, <2>9, <3>4, <3>5 DEF Flushed, Answerable
    <3> QED BY <2>6, <3>6, <3>7 DEF Settled, b
  <2>11. CASE ~joins
    <3> DEFINE more == Append(a.messages, full)
    <3>1. /\ Answered(more, l + 1, s)
          /\ \A k \in CallsOf(full.calls) : CalledBefore(more, R, k, Len(more) + 1)
      <4>1. full.role # "tool" /\ (l + 1 \in {0, l + 1})
        BY <2>5
      <4> QED BY <4>1, <2>5, <2>7, <1>1, AddsAnswered
    <3>2. b.messages = more /\ b.last = l + 1
      BY <2>6, <2>11
    <3> HIDE DEF more
    <3>3. Flushed(more, l + 1, s, n)
      BY <2>8, <2>9, <3>1 DEF Flushed, Answerable
    <3> QED BY <2>6, <3>2, <3>3 DEF Settled, b
  <2> QED BY <2>10, <2>11 DEF b
<1> QED BY <1>3, <1>4

LEMMA SettleAnswers ==
  ASSUME NEW N, NEW a, Fits(a, N), NEW s, NEW n \in Nat, Settled(a, s, n)
  PROVE  Settled(attachReasoningToPreviousAssistant(a), s, n)
<1> DEFINE b == attachReasoningToPreviousAssistant(a)
           M == ChatMessages(N)
           l == Len(a.messages)
           R == Results(s)
<1>1. a \in Placements(N) /\ a.messages \in Seq(M) /\ a.calls \in Seq(N)
      /\ a.reasoning \in Seq(Nat) /\ a.last \in Nat /\ a.last <= l /\ l \in Nat
      /\ DOMAIN a.messages = 1 .. l
  BY DEF Fits, Placements
<1>2. a.calls = <<>> /\ Answered(a.messages, a.last, s)
      /\ \A q \in DOMAIN s : Awaits(s, q, n) => CalledBefore(a.messages, R, s[q].of, l + 1)
  BY DEF Settled, Flushed, Answerable
<1>3. CASE a.last = 0
  <2>1. b = [a EXCEPT !.reasoning = <<>>]
    BY <1>3 DEF attachReasoningToPreviousAssistant
  <2>2. b.messages = a.messages /\ b.calls = a.calls /\ b.last = a.last
    BY <2>1, <1>1 DEF Placements
  <2> QED BY <2>2 DEF Settled
<1>4. CASE a.last # 0
  <2> DEFINE was  == a.messages[a.last]
             full == [was EXCEPT !.reasoning = @ \o a.reasoning]
             ms   == [a.messages EXCEPT ![a.last].reasoning = @ \o a.reasoning]
  <2>1. a.last \in 1 .. l
    BY <1>1, <1>4
  <2>2. was \in M
    BY <1>1, <2>1
  <2>3. was.reasoning \o a.reasoning \in Seq(Nat)
    <3>1. was.reasoning \in Seq(Nat)
      BY <2>2 DEF ChatMessages
    <3> HIDE DEF was
    <3> QED BY <3>1, <1>1, ConcatProperties
  <2>4. full \in M /\ full.content = was.content /\ full.role = was.role
        /\ full.answers = was.answers /\ full.calls = was.calls
    BY <2>2, <2>3 DEF ChatMessages
  <2>5. ms = [a.messages EXCEPT ![a.last] = full]
    OBVIOUS
  <2>6. b.messages = ms /\ b.calls = a.calls /\ b.last = a.last
    <3>1. b = [a EXCEPT !.messages[a.last].reasoning = @ \o a.reasoning, !.reasoning = <<>>]
      BY <1>4 DEF attachReasoningToPreviousAssistant
    <3>2. b = [a EXCEPT !.messages = ms, !.reasoning = <<>>]
      <4> HIDE DEF b
      <4> QED BY <3>1
    <3> HIDE DEF b, ms
    <3> QED BY <3>2, <1>1 DEF Placements
  <2> HIDE DEF b, full, M
  <2>7. Says(full) = Says(a.messages[a.last]) /\ full.role = a.messages[a.last].role
        /\ full.answers = a.messages[a.last].answers
        /\ CallsOf(a.messages[a.last].calls) \subseteq CallsOf(full.calls)
    BY <2>4 DEF Says
  <2> DEFINE more == [a.messages EXCEPT ![a.last] = full]
  <2>8. /\ Answered(more, a.last, s)
        /\ \A k : CalledBefore(a.messages, R, k, l + 1) => CalledBefore(more, R, k, l + 1)
    BY <2>1, <2>4, <2>7, <1>1, <1>2, JoinsAnswered
  <2>9. Len(more) = l
    BY <1>1
  <2> HIDE DEF ms, more
  <2>10. Flushed(more, a.last, s, n)
    BY <2>8, <2>9, <1>2 DEF Flushed, Answerable
  <2> QED BY <2>5, <2>6, <2>10, <1>2 DEF Settled, b, more
<1> QED BY <1>3, <1>4

\* What awaits its result after the next item already did before it, but for a call.
LEMMA AwaitsNext ==
  ASSUME NEW s, DOMAIN s \subseteq Nat, NEW n \in Nat, n + 1 \in DOMAIN s,
         NEW q \in DOMAIN s, Awaits(s, q, n + 1)
  PROVE  /\ q # n + 1 => q <= n /\ Awaits(s, q, n)
         /\ s[q].kind = "call"
         /\ Conversed(s) /\ q # n + 1 => s[n + 1].kind \notin {"user", "assistant"}
         /\ Conversed(s) /\ s[n + 1].kind = "call" =>
              \A t \in DOMAIN s : q < t /\ t <= n => s[t].kind = "call"
<1>1. /\ q \in Nat /\ q <= n + 1 /\ s[q].kind = "call"
      /\ \E p \in DOMAIN s : n + 1 < p /\ s[p].kind = "result" /\ s[p].of = s[q].of
  BY DEF Awaits
<1>2. PICK p \in DOMAIN s : n + 1 < p /\ s[p].kind = "result" /\ s[p].of = s[q].of
  BY <1>1
<1>3. p \in Nat /\ n < p
  BY <1>2
<1>4. ASSUME q # n + 1 PROVE q <= n /\ Awaits(s, q, n) /\ q < n + 1
  <2>1. q <= n /\ q < n + 1
    BY <1>1, <1>4
  <2> QED BY <2>1, <1>1, <1>2, <1>3 DEF Awaits
<1>5. ASSUME Conversed(s), q # n + 1 PROVE s[n + 1].kind \notin {"user", "assistant"}
  BY <1>1, <1>2, <1>4, <1>5 DEF Conversed
<1>6. ASSUME Conversed(s), s[n + 1].kind = "call", NEW t \in DOMAIN s, q < t, t <= n
      PROVE  s[t].kind = "call"
  <2>1. t < n + 1 /\ t < p
    BY <1>2, <1>3, <1>6
  <2> QED BY <2>1, <1>1, <1>2, <1>6 DEF Conversed
<1> QED BY <1>1, <1>4, <1>5, <1>6

\* The next item is no call: what is placed and what is still to be placed are the same.
LEMMA PassesAnswering ==
  ASSUME NEW ms, NEW P, NEW last, NEW s, DOMAIN s \subseteq Nat, NEW n \in Nat,
         n + 1 \in DOMAIN s, s[n + 1].kind # "call", Answering(ms, P, last, s, n)
  PROVE  Answering(ms, P, last, s, n + 1)
<1> SUFFICES ASSUME NEW q \in DOMAIN s, Awaits(s, q, n + 1)
             PROVE  \/ s[q].of \in P
                    \/ /\ P = {} /\ Answerable(ms, s, q)
                       /\ \E t \in DOMAIN s : q < t /\ t <= n + 1 /\ s[t].kind # "call"
  BY DEF Answering
<1>1. Awaits(s, q, n)
  BY AwaitsNext
<1>2. \A t \in DOMAIN s : t <= n => t <= n + 1
  OBVIOUS
<1> QED BY <1>1, <1>2 DEF Answering

\* It is a call: one more is to be placed, and none of those before it was.
LEMMA CallAnswering ==
  ASSUME NEW ms, NEW P, NEW last, NEW s, DOMAIN s \subseteq Nat, NEW n \in Nat,
         n + 1 \in DOMAIN s, s[n + 1].kind = "call", Conversed(s), Answering(ms, P, last, s, n),
         NEW Q, P \cup {s[n + 1].of} \subseteq Q
  PROVE  Answering(ms, Q, last, s, n + 1)
<1> SUFFICES ASSUME NEW q \in DOMAIN s, Awaits(s, q, n + 1)
             PROVE  s[q].of \in Q
  BY DEF Answering
<1>1. CASE q = n + 1
  BY <1>1
<1>2. CASE q # n + 1
  <2>1. Awaits(s, q, n) /\ \A t \in DOMAIN s : q < t /\ t <= n => s[t].kind = "call"
    BY <1>2, AwaitsNext
  <2> QED BY <2>1 DEF Answering
<1> QED BY <1>1, <1>2

\* A result after the calls are placed.
LEMMA ResultAnswering ==
  ASSUME NEW ms, NEW more, NEW last, NEW new, NEW s, DOMAIN s \subseteq Nat, NEW n \in Nat,
         n + 1 \in DOMAIN s, s[n + 1].kind = "result", Flushed(ms, last, s, n),
         Answered(more, new, s),
         \A k : CalledBefore(ms, Results(s), k, Len(ms) + 1) =>
                  CalledBefore(more, Results(s), k, Len(more) + 1)
  PROVE  Answering(more, {}, new, s, n + 1)
<1> SUFFICES ASSUME NEW q \in DOMAIN s, Awaits(s, q, n + 1)
             PROVE  /\ Answerable(more, s, q)
                    /\ \E t \in DOMAIN s : q < t /\ t <= n + 1 /\ s[t].kind # "call"
  BY DEF Answering
<1>1. q # n + 1
  BY AwaitsNext
<1>2. Awaits(s, q, n) /\ q <= n
  BY <1>1, AwaitsNext
<1>3. Answerable(more, s, q)
  BY <1>2 DEF Flushed, Answerable
<1>4. q < n + 1 /\ n + 1 <= n + 1
  BY <1>2
<1> QED BY <1>3, <1>4

\* Somebody speaks: nothing awaits a result.
LEMMA SpokenAnswering ==
  ASSUME NEW more, NEW new, NEW s, DOMAIN s \subseteq Nat, NEW n \in Nat,
         n + 1 \in DOMAIN s, s[n + 1].kind \in {"user", "assistant"}, Conversed(s),
         Answered(more, new, s)
  PROVE  Answering(more, {}, new, s, n + 1)
<1> SUFFICES ASSUME NEW q \in DOMAIN s, Awaits(s, q, n + 1) PROVE FALSE
  BY DEF Answering
<1>1. q # n + 1
  BY AwaitsNext
<1> QED BY <1>1, AwaitsNext

LEMMA PlaceAnswers ==
  ASSUME NEW N, NEW a, Fits(a, N), NEW s \in Seq(Items), Conversed(s), NEW n \in Nat,
         n + 1 \in DOMAIN s, KeepsAnswers(a, s, n), NEW keep
  PROVE  KeepsAnswers(PlaceItem(a, s[n + 1], PairedToolCallIDs(s), keep), s, n + 1)
<1> DEFINE item == s[n + 1]
           paired == PairedToolCallIDs(s)
           M == ChatMessages(N)
           f == flushPendingToolCalls(a)
           R == Results(s)
<1>0. item \in Items /\ DOMAIN s \subseteq Nat
  OBVIOUS
<1>1. /\ Fits(f, N) /\ Settled(f, s, n)
  BY FlushTyped, FlushAnswers
<1> HIDE DEF f
<1>2. /\ a \in Placements(N) /\ f \in Placements(N) /\ f.messages \in Seq(M)
      /\ Len(f.messages) \in Nat /\ f.reasoning \in Seq(Nat) /\ a.calls \in Seq(N)
  BY <1>1 DEF Fits, Placements
<1>3. f.calls = <<>> /\ Flushed(f.messages, f.last, s, n) /\ Answered(f.messages, f.last, s)
  BY <1>1 DEF Settled, Flushed
<1>4. CallsOf(<<>>) = {}
  BY DEF CallsOf, ToSet
<1>5. Answering(a.messages, CallsOf(a.calls), a.last, s, n)
  BY DEF KeepsAnswers
<1>6. CASE item.kind \notin {"call", "result", "assistant", "user"}
  <2> DEFINE b == PlaceItem(a, item, paired, keep)
             r == appendUniqueReasoning(a.reasoning, item.of)
  <2>1. b = a \/ b = [a EXCEPT !.reasoning = r]
    BY <1>6 DEF PlaceItem
  <2> HIDE DEF b, r
  <2>2. b.messages = a.messages /\ b.calls = a.calls /\ b.last = a.last
    BY <2>1, <1>2 DEF Placements
  <2>3. Answering(a.messages, CallsOf(a.calls), a.last, s, n + 1)
    BY <1>0, <1>5, <1>6, PassesAnswering
  <2> QED BY <2>2, <2>3 DEF KeepsAnswers, b
<1>7. CASE item.kind = "call"
  <2> DEFINE b == PlaceItem(a, item, paired, keep)
             e == [of |-> item.of, name |-> item.tool.name]
             c == Append(a.calls, e)
  <2>1. b = [a EXCEPT !.calls = c]
    BY <1>7 DEF PlaceItem
  <2>2. CallsOf(a.calls) \cup {item.of} \subseteq CallsOf(c)
    <3>1. /\ DOMAIN c = 1 .. Len(a.calls) + 1 /\ DOMAIN a.calls = 1 .. Len(a.calls)
          /\ Len(a.calls) \in Nat /\ c[Len(a.calls) + 1] = e
          /\ \A i \in 1 .. Len(a.calls) : i \in 1 .. Len(a.calls) + 1 /\ c[i] = a.calls[i]
          /\ Len(a.calls) + 1 \in 1 .. Len(a.calls) + 1
      <4> HIDE DEF e
      <4> QED BY <1>2
    <3>2. e.of = item.of
      OBVIOUS
    <3> HIDE DEF c, e
    <3> QED BY <3>1, <3>2 DEF CallsOf, ToSet
  <2> HIDE DEF b, c
  <2>3. b.messages = a.messages /\ b.calls = c /\ b.last = a.last
    BY <2>1, <1>2 DEF Placements
  <2>4. Answering(a.messages, CallsOf(c), a.last, s, n + 1)
    BY <1>0, <1>5, <1>7, <2>2, CallAnswering
  <2> QED BY <2>3, <2>4 DEF KeepsAnswers, b
<1>8. CASE item.kind = "result"
  <2> DEFINE b    == PlaceItem(a, item, paired, keep)
             ms   == toolOutputToChatMessages(item, paired, keep)
             last == IF HasImage(item) /\ keep THEN 0 ELSE f.last
  <2>1. b = [f EXCEPT !.messages = @ \o ms, !.last = last]
    BY <1>8 DEF PlaceItem, PlaceResult, f
  <2>2. PICK one \in M, two \in M : ResultSays(item, paired, keep, one, two)
    <3>1. \E one, two \in ChatMessages(N) : ResultSays(item, paired, keep, one, two)
      <4> HIDE DEF item, paired
      <4> QED BY <1>0, ResultMessages
    <3> QED BY <3>1
  <2>3. /\ Says(one) = item.of /\ Says(two) = item.of /\ two.role = "user"
        /\ one.role = "tool" => one.answers = item.of /\ item.of \in paired
        /\ ms = IF HasImage(item) /\ keep THEN <<one, two>> ELSE <<one>>
    BY <2>2 DEF ResultSays
  <2> HIDE DEF b, ms
  <2>4. b.messages = f.messages \o ms /\ b.calls = <<>> /\ b.last = last
    <3> HIDE DEF M, last
    <3> QED BY <2>1, <1>2, <1>3 DEF Placements
  <2>5. item.of \in R
    BY <1>8 DEF Results
  <2>6. item.of \in paired => CalledBefore(f.messages, R, item.of, Len(f.messages) + 1)
    <3> SUFFICES ASSUME item.of \in paired PROVE CalledBefore(f.messages, R, item.of, Len(f.messages) + 1)
      OBVIOUS
    <3>1. PICK q \in DOMAIN s : s[q].kind = "call" /\ s[q].of = item.of
      BY DEF PairedToolCallIDs
    <3>2. q < n + 1
      BY <3>1, <1>8 DEF Conversed
    <3>3. q <= n /\ n < n + 1
      BY <3>2, <1>0
    <3>4. Awaits(s, q, n)
      BY <3>1, <3>3, <1>8 DEF Awaits
    <3> QED BY <3>1, <3>4, <1>3 DEF Flushed, Answerable
  <2> DEFINE ps == Append(f.messages, one)
  <2>7. /\ ps \in Seq(M)
        /\ Answered(ps, f.last, s) /\ Answered(ps, 0, s)
        /\ \A k : CalledBefore(f.messages, R, k, Len(f.messages) + 1) =>
                    CalledBefore(ps, R, k, Len(ps) + 1)
    <3>1. Says(one) \in R /\ (one.role = "tool" => CalledBefore(f.messages, R, one.answers, Len(f.messages) + 1))
      BY <2>3, <2>5, <2>6
    <3>2. ps \in Seq(M)
      BY <1>2, <2>2
    <3> HIDE DEF M, item, paired
    <3>3. /\ Answered(ps, f.last, s)
          /\ Says(one) \in R => \A k : CalledBefore(f.messages, R, k, Len(f.messages) + 1) =>
                    CalledBefore(ps, R, k, Len(ps) + 1)
      BY <3>1, <1>2, <1>3, <2>2, AddsAnswered
    <3>4. Answered(ps, 0, s)
      <4>1. 0 \in {0, Len(f.messages) + 1}
        OBVIOUS
      <4> QED BY <4>1, <3>1, <1>2, <1>3, <2>2, AddsAnswered
    <3> QED BY <3>1, <3>2, <3>3, <3>4
  <2> HIDE DEF ps
  <2>8. CASE HasImage(item) /\ keep
    <3>1. b.messages = Append(ps, two) /\ b.last = 0
      BY <2>2, <2>3, <2>4, <2>8, <1>2 DEF ps
    <3>2. /\ Answered(Append(ps, two), 0, s)
          /\ \A k : CalledBefore(ps, R, k, Len(ps) + 1) =>
                      CalledBefore(Append(ps, two), R, k, Len(Append(ps, two)) + 1)
      <4>1. two.role # "tool" /\ 0 \in {0, Len(ps) + 1} /\ Says(two) \in R
        BY <2>3, <2>5
      <4> HIDE DEF M, R
      <4> QED BY <4>1, <2>2, <2>7, AddsAnswered DEF R
    <3>3. Answering(Append(ps, two), {}, 0, s, n + 1)
      BY <3>2, <2>7, <1>0, <1>3, <1>8, ResultAnswering
    <3> QED BY <3>1, <3>3, <2>4, <1>4 DEF KeepsAnswers, b
  <2>9. CASE ~(HasImage(item) /\ keep)
    <3>1. b.messages = ps /\ b.last = f.last
      <4>1. f.messages \o <<one>> = ps
        BY <1>2, <2>2 DEF ps
      <4>2. ms = <<one>> /\ last = f.last
        BY <2>3, <2>9
      <4> QED BY <4>1, <4>2, <2>4
    <3>2. Answering(ps, {}, f.last, s, n + 1)
      BY <2>7, <1>0, <1>3, <1>8, ResultAnswering
    <3> QED BY <3>1, <3>2, <2>4, <1>4 DEF KeepsAnswers, b
  <2> QED BY <2>8, <2>9
<1>9. CASE item.kind = "assistant"
  <2> DEFINE b    == PlaceItem(a, item, paired, keep)
             new  == ChatMessage("assistant", <<Text(item.of)>>)
             m    == attachReasoning(new, f.reasoning)
             last == Len(f.messages) + 1
  <2>1. b = [f EXCEPT !.messages = Append(@, m), !.reasoning = <<>>, !.last = last]
    BY <1>9 DEF PlaceItem, PlaceAssistant, f
  <2>2. new \in M /\ new.role = "assistant"
    BY <1>0, BlocksTyped, ChatMessageTyped DEF ChatMessage
  <2> HIDE DEF new
  <2>3. m \in M /\ m.role # "tool"
    <3>1. m \in M
      BY <2>2, <1>2, AttachTyped
    <3>2. m.role = new.role
      BY <2>2, <1>2, AttachPasses
    <3> QED BY <3>1, <3>2, <2>2
  <2> HIDE DEF b, m, M
  <2>4. b.messages = Append(f.messages, m) /\ b.calls = <<>> /\ b.last = last
    <3> HIDE DEF last
    <3> QED BY <2>1, <1>2, <1>3 DEF Placements
  <2>5. Answered(Append(f.messages, m), last, s)
    <3>1. last \in {0, Len(f.messages) + 1}
      OBVIOUS
    <3> QED BY <3>1, <2>3, <1>2, <1>3, AddsAnswered
  <2>6. Answering(Append(f.messages, m), {}, last, s, n + 1)
    BY <2>5, <1>0, <1>9, SpokenAnswering
  <2> QED BY <2>4, <2>6, <1>4 DEF KeepsAnswers, b
<1>10. CASE item.kind = "user"
  <2> DEFINE b == PlaceItem(a, item, paired, keep)
             g == attachReasoningToPreviousAssistant(f)
             m == ChatMessage("user", convertContentBlocks(item, keep))
  <2>1. b = [g EXCEPT !.messages = Append(@, m), !.last = 0]
    BY <1>10 DEF PlaceItem, PlaceUser, f
  <2>2. Fits(g, N) /\ Settled(g, s, n)
    BY <1>1, SettledTyped, SettleAnswers
  <2>3. m \in M /\ m.role # "tool"
    BY <1>0, BlocksTyped, ChatMessageTyped DEF ChatMessage
  <2> HIDE DEF b, g, m
  <2>4. g \in Placements(N) /\ g.messages \in Seq(M) /\ g.calls = <<>>
        /\ Answered(g.messages, g.last, s)
    BY <2>2 DEF Fits, Placements, Settled, Flushed
  <2> HIDE DEF M
  <2>5. b.messages = Append(g.messages, m) /\ b.calls = <<>> /\ b.last = 0
    BY <2>1, <2>4 DEF Placements
  <2>6. Answered(Append(g.messages, m), 0, s)
    <3>1. 0 \in {0, Len(g.messages) + 1}
      OBVIOUS
    <3> QED BY <3>1, <2>3, <2>4, AddsAnswered
  <2>7. Answering(Append(g.messages, m), {}, 0, s, n + 1)
    BY <2>6, <1>0, <1>10, SpokenAnswering
  <2> QED BY <2>5, <2>7, <1>4 DEF KeepsAnswers, b
<1> QED BY <1>6, <1>7, <1>8, <1>9, <1>10

LEMMA PlacedAnswers ==
  ASSUME NEW s \in Seq(Items), Conversed(s), NEW keep
  PROVE  KeepsAnswers(Placed(s, PairedToolCallIDs(s), keep), s, Len(s))
<1> DEFINE N == CallNames(s)
           n == Len(s)
           paired == PairedToolCallIDs(s)
           R == {p \in Nat \X Placements(N) : Fits(p[2], N) /\ KeepsAnswers(p[2], s, p[1])}
<1>1. n \in Nat /\ DOMAIN s = 1 .. n /\ \A i \in 1 .. n : s[i] \in Items
  OBVIOUS
<1>2. \A i, a : <<i, a>> \in R <=> i \in Nat /\ Fits(a, N) /\ KeepsAnswers(a, s, i)
  BY DEF Fits
<1>3. \A i \in 1 .. n : s[i].kind = "call" => [of |-> s[i].of, name |-> s[i].tool.name] \in N
  BY <1>1 DEF CallNames
<1> HIDE DEF R, N, n, paired
<1>4. <<0, Start>> \in R
  <2>1. <<>> \in Seq(ChatMessages(N)) /\ <<>> \in Seq(N) /\ <<>> \in Seq(Nat)
        /\ 0 \in Nat /\ 0 <= Len(<<>>)
    OBVIOUS
  <2>2. /\ Start \in Placements(N) /\ Start.last = 0 /\ Start.messages = <<>>
        /\ Start.calls = <<>>
    BY <2>1 DEF Start, Placements
  <2>3. Fits(Start, N)
    BY <2>1, <2>2 DEF Fits
  <2>4. KeepsAnswers(Start, s, 0)
    <3>1. CallsOf(<<>>) = {} /\ DOMAIN <<>> = {}
      BY DEF CallsOf, ToSet
    <3>2. Answered(<<>>, 0, s)
      BY <3>1 DEF Answered
    <3>3. \A q \in DOMAIN s : ~Awaits(s, q, 0)
      <4>1. \A q \in DOMAIN s : ~(q <= 0)
        BY <1>1
      <4> QED BY <4>1 DEF Awaits
    <3>4. Answering(<<>>, {}, 0, s, 0)
      BY <3>2, <3>3 DEF Answering
    <3> QED BY <2>2, <3>1, <3>4 DEF KeepsAnswers
  <2> QED BY <2>1, <2>3, <2>4, <1>2
<1>5. ASSUME NEW i \in 1 .. n, NEW a, <<i - 1, a>> \in R
      PROVE  <<i, PlaceItem(a, s[i], paired, keep)>> \in R
  <2>1. i \in Nat /\ i - 1 \in Nat /\ (i - 1) + 1 = i /\ i \in DOMAIN s
    BY <1>1
  <2>2. Fits(a, N) /\ KeepsAnswers(a, s, i - 1)
    BY <1>5, <1>2
  <2>3. Fits(PlaceItem(a, s[i], paired, keep), N)
    BY <1>1, <1>3, <2>2, PlaceItemTyped
  <2> DEFINE j == i - 1
  <2>4. j \in Nat /\ j + 1 = i /\ KeepsAnswers(a, s, j)
    BY <2>1, <2>2
  <2> HIDE DEF j
  <2>5. KeepsAnswers(PlaceItem(a, s[j + 1], paired, keep), s, j + 1)
    BY <2>1, <2>2, <2>4, PlaceAnswers DEF paired
  <2> QED BY <2>1, <2>3, <2>4, <2>5, <1>2
<1>6. <<n, Placed(s, paired, keep)>> \in R
  BY <1>1, <1>4, <1>5, PlacedByInduction
<1> QED BY <1>6, <1>2 DEF n, paired

\* What inputToChatMessages makes of s: a tool's answer comes after its call, with
\* nothing but what tools returned in between.
AnswersFollow(ms, s) ==
  \A i \in DOMAIN ms : ms[i].role = "tool" => CalledBefore(ms, Results(s), ms[i].answers, i)

LEMMA ChatAnswersFollow ==
  ASSUME NEW s \in Seq(Items), Conversed(s), NEW opts
  PROVE  AnswersFollow(inputToChatMessages(s, opts), s)
<1> DEFINE N == CallNames(s)
           p == Placed(s, PairedToolCallIDs(s), opts.images /\ ~opts.omit)
           f == flushPendingToolCalls(p)
           d == attachReasoningToPreviousAssistant(f)
           ms == d.messages
           b == backfillToolCallReasoningPlaceholders(ms)
<1>0. Len(s) \in Nat
  OBVIOUS
<1>1. Fits(p, N) /\ KeepsAnswers(p, s, Len(s))
  BY PlacedFits, PlacedAnswers
<1> HIDE DEF p, N
<1>2. Fits(f, N) /\ Settled(f, s, Len(s))
  BY <1>0, <1>1, FlushTyped, FlushAnswers
<1> HIDE DEF f
<1>3. Fits(d, N) /\ Settled(d, s, Len(s))
  BY <1>0, <1>2, SettledTyped, SettleAnswers
<1>4. b = inputToChatMessages(s, opts)
  BY ChatMessagesOfPlaced DEF f, p
<1> HIDE DEF d
<1>5. ms \in Seq(ChatMessages(N)) /\ AnswersFollow(ms, s)
  BY <1>3 DEF Fits, Placements, Settled, Flushed, Answered, AnswersFollow
<1> HIDE DEF ms
<1>6. DOMAIN b = DOMAIN ms
  BY DEF backfillToolCallReasoningPlaceholders
<1>7. ASSUME NEW i \in DOMAIN ms
      PROVE  /\ Says(b[i]) = Says(ms[i]) /\ b[i].role = ms[i].role
             /\ b[i].calls = ms[i].calls /\ b[i].answers = ms[i].answers
  <2>1. ms[i] \in ChatMessages(N)
    BY <1>5
  <2>2. \/ b[i] = ms[i]
        \/ b[i] = [ms[i] EXCEPT !.reasoning = <<Placeholder>>]
    BY DEF backfillToolCallReasoningPlaceholders
  <2> HIDE DEF b
  <2> QED BY <2>1, <2>2 DEF ChatMessages, Says
<1> HIDE DEF b
<1>8. \A n, i : CalledBefore(ms, Results(s), n, i) => CalledBefore(b, Results(s), n, i)
  BY <1>6, <1>7 DEF CalledBefore, Behind
<1> QED BY <1>4, <1>5, <1>6, <1>7, <1>8 DEF AnswersFollow

-----------------------------------------------------------------------------
(* How a client talks: a call, more calls, their results *)

\* Call q is not answered, and no user has spoken since.
Open(h, q) ==
  /\ h[q].kind = "call"
  /\ \A p \in DOMAIN h : h[p].kind = "result" => h[p].of # h[q].of
  /\ \A t \in DOMAIN h : q < t => h[t].kind # "user"

\* Between the items q and e nobody but the model and its tools is heard, and no
\* call comes after anything else.
Quiet(h, q, e) ==
  \A t \in DOMAIN h : q < t /\ t < e =>
    /\ h[t].kind # "user"
    /\ h[t].kind # "call" => \A u \in DOMAIN h : t < u /\ u < e => h[u].kind # "call"

Talk(h) ==
  /\ \A q, p \in DOMAIN h : h[q].kind = "call" /\ h[p].kind = "result" /\ h[q].of = h[p].of =>
       q < p /\ Quiet(h, q, p)
  /\ \A q \in DOMAIN h : Open(h, q) => Quiet(h, q, Len(h) + 1)

LEMMA LastOf ==
  ASSUME NEW n \in Nat, NEW S \in SUBSET (1 .. n), S # {}
  PROVE  Max(S) \in S /\ \A y \in S : y <= Max(S)
<1> DEFINE D == {n - y : y \in S}
<1>1. D \in SUBSET Nat /\ D # {}
  <2>1. \A y \in S : n - y \in Nat
    OBVIOUS
  <2> QED BY <2>1
<1>2. PICK d \in D : \A c \in D : d <= c
  BY <1>1, LeastElement
<1>3. PICK x \in S : d = n - x
  BY <1>2
<1>4. \A y \in S : x >= y
  <2> SUFFICES ASSUME NEW y \in S PROVE x >= y
    OBVIOUS
  <2>1. n - x <= n - y
    BY <1>2, <1>3
  <2> QED BY <2>1
<1>5. Max(S) \in S /\ \A y \in S : Max(S) >= y
  BY <1>4 DEF Max
<1> QED BY <1>5

LEMMA OpenCallsAre ==
  ASSUME history \in Seq(Items)
  PROVE  OpenCalls = {q \in DOMAIN history : Open(history, q)}
<1> DEFINE users == {i \in DOMAIN history : history[i].kind = "user"}
           from  == IF users = {} THEN 0 ELSE Max(users)
           answered == {history[i].of : i \in {j \in DOMAIN history : history[j].kind = "result"}}
<1>1. Len(history) \in Nat /\ DOMAIN history = 1 .. Len(history)
  OBVIOUS
<1>2. ASSUME NEW q \in DOMAIN history, history[q].kind = "call"
      PROVE  q > from <=> \A t \in DOMAIN history : q < t => history[t].kind # "user"
  <2>1. CASE users = {}
    <3>1. q > 0
      BY <1>1
    <3> QED BY <2>1, <3>1
  <2>2. CASE users # {}
    <3>1. users \in SUBSET (1 .. Len(history))
      BY <1>1
    <3>2. from = Max(users)
      BY <2>2
    <3>3. from \in users /\ \A t \in users : t <= from
      BY <2>2, <3>1, <3>2, <1>1, LastOf
    <3>4. ASSUME q > from, NEW t \in DOMAIN history, q < t PROVE history[t].kind # "user"
      <4>1. from \in Nat /\ t \in Nat /\ q \in Nat
        BY <3>1, <3>3, <1>1
      <4>2. ~(t <= from)
        BY <4>1, <3>4
      <4> QED BY <4>2, <3>3
    <3>5. ASSUME ~(q > from) PROVE \E t \in DOMAIN history : q < t /\ history[t].kind = "user"
      <4>1. from \in Nat /\ q \in Nat
        BY <3>1, <3>3, <1>1
      <4>2. from # q
        BY <3>3, <1>2
      <4>3. q < from
        BY <4>1, <4>2, <3>5
      <4> QED BY <4>3, <3>3
    <3> QED BY <3>4, <3>5
  <2> QED BY <2>1, <2>2
<1>3. OpenCalls = {i \in DOMAIN history : i > from /\ history[i].kind = "call"
                                           /\ history[i].of \notin answered}
  BY DEF OpenCalls
<1>4. ASSUME NEW q \in DOMAIN history
      PROVE  history[q].of \notin answered <=>
               \A p \in DOMAIN history : history[p].kind = "result" => history[p].of # history[q].of
  OBVIOUS
<1> HIDE DEF from, answered
<1> QED BY <1>2, <1>3, <1>4 DEF Open

\* An item that is no call comes after; a result is that of an open call.
LEMMA OneTalks ==
  ASSUME NEW h \in Seq(Items), Unique(h), Talk(h), NEW x \in Items, x.kind # "call",
         x.kind = "result" => \E i \in DOMAIN h : Open(h, i) /\ h[i].of = x.of
  PROVE  Talk(h \o <<x>>)
<1> DEFINE s == h \o <<x>>
           l == Len(h)
<1>1. /\ DOMAIN h = 1 .. l /\ DOMAIN s = 1 .. l + 1 /\ l \in Nat /\ Len(s) = l + 1
      /\ \A i \in 1 .. l : i \in 1 .. l + 1 /\ s[i] = h[i]
      /\ l + 1 \in 1 .. l + 1 /\ s[l + 1] = x
  OBVIOUS
<1>2. \A i \in 1 .. l + 1 : i \in 1 .. l \/ i = l + 1
  BY <1>1
<1>3. /\ \A i \in 1 .. l : i < l + 1 /\ i < (l + 1) + 1 /\ i <= l + 1
      /\ \A i \in 1 .. l + 1 : ~(l + 1 < i)
      /\ \A t, p \in 1 .. l + 1 : t < p => t \in 1 .. l
  BY <1>1
<1> HIDE DEF s, l
<1>4. ASSUME NEW q \in 1 .. l, NEW p \in 1 .. l + 1, Quiet(h, q, p) PROVE Quiet(s, q, p)
  <2>1. \A t \in 1 .. l + 1 : t < p => t \in 1 .. l /\ s[t] = h[t]
    BY <1>1, <1>3
  <2> QED BY <2>1, <1>1, <1>4 DEF Quiet
<1>5. ASSUME NEW q \in 1 .. l, Quiet(h, q, l + 1), x.kind # "user" PROVE Quiet(s, q, (l + 1) + 1)
  <2> SUFFICES ASSUME NEW t \in 1 .. l + 1, q < t
               PROVE  /\ s[t].kind # "user"
                      /\ s[t].kind # "call" =>
                           \A u \in 1 .. l + 1 : t < u => s[u].kind # "call"
    BY <1>1 DEF Quiet
  <2>1. CASE t \in 1 .. l
    <3>1. s[t] = h[t] /\ t < l + 1
      BY <2>1, <1>1, <1>3
    <3>2. h[t].kind # "user" /\ (h[t].kind # "call" => \A u \in 1 .. l : t < u => h[u].kind # "call")
      BY <2>1, <3>1, <1>1, <1>3, <1>5 DEF Quiet
    <3> QED BY <3>1, <3>2, <1>1, <1>2
  <2>2. CASE t = l + 1
    BY <2>2, <1>1, <1>3, <1>5
  <2> QED BY <2>1, <2>2, <1>2
<1>6. ASSUME NEW q \in 1 .. l + 1, NEW p \in 1 .. l + 1,
             s[q].kind = "call", s[p].kind = "result", s[q].of = s[p].of
      PROVE  q < p /\ Quiet(s, q, p)
  <2>1. q \in 1 .. l /\ s[q] = h[q]
    BY <1>1, <1>2, <1>6
  <2>2. CASE p \in 1 .. l
    <3>1. q < p /\ Quiet(h, q, p)
      BY <2>1, <2>2, <1>1, <1>6 DEF Talk
    <3> QED BY <3>1, <2>1, <1>4
  <2>3. CASE p = l + 1
    <3>1. x.kind = "result" /\ x.of = h[q].of
      BY <2>1, <2>3, <1>1, <1>6
    <3>2. PICK i \in DOMAIN h : Open(h, i) /\ h[i].of = x.of
      BY <3>1
    <3>3. i = q
      <4> SUFFICES ASSUME i # q PROVE FALSE
        OBVIOUS
      <4>1. q \in DOMAIN h /\ h[i].kind = "call" /\ h[q].kind = "call" /\ h[i].of = h[q].of
        BY <2>1, <3>1, <3>2, <1>1, <1>6 DEF Open
      <4>2. {h[i].kind, h[q].kind} = {"call", "result"}
        BY <4>1 DEF Unique
      <4> QED BY <4>1, <4>2
    <3>4. Quiet(h, q, l + 1)
      BY <3>2, <3>3 DEF Talk, l
    <3>5. Quiet(s, q, p)
      BY <2>1, <2>3, <3>4, <1>4
    <3> QED BY <2>1, <2>3, <3>5, <1>3
  <2> QED BY <2>2, <2>3, <1>2
<1>7. ASSUME NEW q \in 1 .. l + 1, Open(s, q) PROVE Quiet(s, q, Len(s) + 1)
  <2>1. q \in 1 .. l /\ s[q] = h[q]
    BY <1>1, <1>2, <1>7 DEF Open
  <2>2. x.kind # "user"
    BY <2>1, <1>1, <1>3, <1>7 DEF Open
  <2>3. Open(h, q)
    BY <2>1, <1>1, <1>7 DEF Open
  <2>4. Quiet(h, q, l + 1)
    BY <2>1, <2>3, <1>1 DEF Talk, l
  <2> QED BY <2>1, <2>2, <2>4, <1>1, <1>5
<1>8. Talk(s)
  BY <1>1, <1>6, <1>7 DEF Talk
<1> QED BY <1>8 DEF s

LEMMA ReplyTalks ==
  ASSUME NEW h \in Seq(Items), Talk(h), \A i \in DOMAIN h : ~Open(h, i),
         NEW g, Follows(g, h), Together(g)
  PROVE  Talk(h \o g)
<1> DEFINE s == h \o g
           n == Len(h)
<1>0. g \in Seq(Items)
  BY DEF Follows
<1>1. /\ n \in Nat /\ DOMAIN h = 1 .. n /\ DOMAIN s \subseteq Nat
      /\ \A i \in DOMAIN s : \/ i \in DOMAIN h /\ s[i] = h[i]
                             \/ i - n \in DOMAIN g /\ i > n /\ s[i] = g[i - n]
      /\ \A i \in DOMAIN h : i \in DOMAIN s /\ s[i] = h[i]
  BY <1>0, ConcatPlaces
<1> HIDE DEF s, n
<1>2. ASSUME NEW q \in DOMAIN s, NEW p \in DOMAIN s,
             s[q].kind = "call", s[p].kind = "result", s[q].of = s[p].of
      PROVE  q < p /\ Quiet(s, q, p)
  <2>1. p \in DOMAIN h /\ s[p] = h[p]
    BY <1>1, <1>2 DEF Together
  <2>2. q \in DOMAIN h /\ s[q] = h[q]
    <3> SUFFICES ASSUME q - n \in DOMAIN g, s[q] = g[q - n] PROVE FALSE
      BY <1>1
    <3>1. h[p].of \in Stamps(h)
      BY <2>1 DEF Stamps
    <3>2. g[q - n].kind = "call"
      BY <1>2
    <3>3. g[q - n].of \notin Stamps(h)
      BY <3>2 DEF Follows
    <3> QED BY <2>1, <3>1, <3>3, <1>2
  <2>3. q < p /\ Quiet(h, q, p)
    BY <2>1, <2>2, <1>2 DEF Talk
  <2>4. \A t \in DOMAIN s : t < p => t \in DOMAIN h /\ s[t] = h[t]
    <3> SUFFICES ASSUME NEW t \in DOMAIN s, t < p PROVE ~(t > n)
      BY <1>1
    <3>1. t \in Nat /\ p \in Nat /\ p <= n
      BY <2>1, <1>1
    <3> QED BY <3>1, <1>1
  <2> QED BY <2>3, <2>4 DEF Quiet
<1>3. ASSUME NEW q \in DOMAIN s, Open(s, q) PROVE Quiet(s, q, Len(s) + 1)
  <2>1. s[q].kind = "call" /\ q \in Nat
    BY <1>1, <1>3 DEF Open
  <2>2. q - n \in DOMAIN g /\ q > n /\ s[q] = g[q - n]
    <3> SUFFICES ASSUME q \in DOMAIN h, s[q] = h[q] PROVE FALSE
      BY <1>1
    <3>1. Open(h, q)
      BY <1>1, <1>3 DEF Open
    <3> QED BY <3>1
  <2>3. ASSUME NEW t \in DOMAIN s, q < t
        PROVE  t \in Nat /\ t - n \in DOMAIN g /\ q - n < t - n /\ s[t] = g[t - n]
    <3>1. t \in Nat /\ t > n
      BY <2>1, <2>2, <2>3, <1>1
    <3>2. t \notin DOMAIN h
      BY <3>1, <1>1
    <3> QED BY <3>1, <3>2, <2>1, <2>3, <1>1
  <2>4. ASSUME NEW t \in DOMAIN s, q < t PROVE s[t].kind # "user"
    BY <2>3, <2>4 DEF Together
  <2>5. ASSUME NEW t \in DOMAIN s, NEW u \in DOMAIN s, q < t, t < u, s[u].kind = "call"
        PROVE  s[t].kind = "call"
    <3>1. q < u
      BY <2>1, <2>5, <1>1
    <3> DEFINE x == q - n
               y == t - n
               z == u - n
    <3>2. y < z
      BY <2>5, <1>1
    <3>3. x \in DOMAIN g /\ y \in DOMAIN g /\ z \in DOMAIN g /\ x < y
          /\ s[q] = g[x] /\ s[t] = g[y] /\ s[u] = g[z]
      BY <2>2, <2>3, <2>5, <3>1
    <3> HIDE DEF x, y, z
    <3> QED BY <3>2, <3>3, <2>1, <2>5 DEF Together
  <2> QED BY <2>4, <2>5 DEF Quiet
<1> QED BY <1>2, <1>3 DEF Talk, s

LEMMA TailTalks ==
  ASSUME NEW h \in Seq(Items), Talk(h), h # <<>>
  PROVE  Talk(Tail(h))
<1> DEFINE s == Tail(h)
           l == Len(s)
<1>1. s \in Seq(Items) /\ Len(h) = l + 1 /\ l \in Nat
      /\ DOMAIN s = 1 .. l /\ DOMAIN h = 1 .. l + 1
      /\ \A i \in 1 .. l : i + 1 \in 1 .. l + 1 /\ s[i] = h[i + 1]
  BY HeadTailProperties
<1> HIDE DEF s, l
<1>2. ASSUME NEW q \in 1 .. l, NEW p \in Nat, Quiet(h, q + 1, p + 1) PROVE Quiet(s, q, p)
  <2> SUFFICES ASSUME NEW t \in 1 .. l, q < t, t < p
               PROVE  /\ s[t].kind # "user"
                      /\ s[t].kind # "call" =>
                           \A u \in 1 .. l : t < u /\ u < p => s[u].kind # "call"
    BY <1>1 DEF Quiet
  <2>1. t + 1 \in DOMAIN h /\ q + 1 < t + 1 /\ t + 1 < p + 1
    BY <1>1, <1>2
  <2>2. /\ h[t + 1].kind # "user"
        /\ h[t + 1].kind # "call" =>
             \A u \in DOMAIN h : t + 1 < u /\ u < p + 1 => h[u].kind # "call"
    BY <2>1, <1>2 DEF Quiet
  <2>3. ASSUME NEW u \in 1 .. l, t < u, u < p
        PROVE  u + 1 \in DOMAIN h /\ t + 1 < u + 1 /\ u + 1 < p + 1
    BY <2>3, <1>1, <1>2
  <2> QED BY <2>2, <2>3, <1>1
<1>3. ASSUME NEW q \in 1 .. l, NEW p \in 1 .. l,
             s[q].kind = "call", s[p].kind = "result", s[q].of = s[p].of
      PROVE  q < p /\ Quiet(s, q, p)
  <2>1. q + 1 \in DOMAIN h /\ p + 1 \in DOMAIN h /\ s[q] = h[q + 1] /\ s[p] = h[p + 1]
    BY <1>1
  <2>2. q + 1 < p + 1 /\ Quiet(h, q + 1, p + 1)
    BY <2>1, <1>3 DEF Talk
  <2>3. q < p /\ p \in Nat
    BY <2>2, <1>1
  <2> QED BY <2>2, <2>3, <1>2
<1>4. ASSUME NEW q \in 1 .. l, Open(s, q) PROVE Quiet(s, q, l + 1)
  <2>1. q \in Nat /\ q + 1 \in DOMAIN h /\ s[q] = h[q + 1] /\ h[q + 1].kind = "call"
    BY <1>1, <1>4 DEF Open
  <2>2. ASSUME NEW p \in DOMAIN h, h[p].kind = "result", h[p].of = h[q + 1].of PROVE FALSE
    <3>1. q + 1 < p
      BY <2>1, <2>2 DEF Talk
    <3>2. p \in Nat /\ p - 1 \in 1 .. l /\ (p - 1) + 1 = p
      BY <3>1, <2>1, <1>1
    <3> DEFINE k == p - 1
    <3>3. k \in 1 .. l /\ s[k] = h[p]
      BY <3>2, <1>1
    <3> HIDE DEF k
    <3> QED BY <3>3, <2>1, <2>2, <1>1, <1>4 DEF Open
  <2>3. ASSUME NEW t \in DOMAIN h, q + 1 < t PROVE h[t].kind # "user"
    <3>2. t \in Nat /\ t - 1 \in 1 .. l /\ (t - 1) + 1 = t /\ q < t - 1
      BY <2>1, <2>3, <1>1
    <3> DEFINE k == t - 1
    <3>3. k \in 1 .. l /\ s[k] = h[t] /\ q < k
      BY <3>2, <1>1
    <3> HIDE DEF k
    <3> QED BY <3>3, <1>1, <1>4 DEF Open
  <2>4. Open(h, q + 1)
    BY <2>1, <2>2, <2>3 DEF Open
  <2>5. Quiet(h, q + 1, (l + 1) + 1)
    BY <2>1, <2>4, <1>1 DEF Talk
  <2> QED BY <2>5, <1>1, <1>2
<1>5. Talk(s)
  BY <1>1, <1>3, <1>4 DEF Talk, l
<1> QED BY <1>5 DEF s

\* An inductive invariant: nobody asks while a call is open.
Polite == Intact /\ Talk(history) /\ (Sent => OpenCalls = {})

LEMMA InitPolite == Init => Polite
<1> SUFFICES ASSUME Init PROVE Polite
  OBVIOUS
<1>1. history = <<>> /\ DOMAIN history = {} /\ phase = "client"
  BY DEF Init
<1> QED BY <1>1, InitIntact DEF Polite, Talk, Sent

LEMMA AddsPolite ==
  ASSUME Polite, NEW x \in Items, Adds(<<x>>), x.kind # "call",
         x.kind = "result" => \E i \in OpenCalls : history[i].of = x.of
  PROVE  Talk(history)'
<1>1. history \in Seq(Items) /\ Unique(history) /\ Talk(history)
  BY DEF Polite, Intact
<1>2. x.kind = "result" => \E i \in DOMAIN history : Open(history, i) /\ history[i].of = x.of
  BY <1>1, OpenCallsAre
<1>3. Talk(history \o <<x>>)
  BY <1>1, <1>2, OneTalks
<1> QED BY <1>3 DEF Adds

LEMMA ClientPolite ==
  ASSUME Polite, UserSays \/ SystemSays \/ Declare \/ ToolDone \/ Trim
  PROVE  Polite'
<1>1. Intact' /\ history \in Seq(Items) /\ Talk(history) /\ Len(history) <= MaxItems
  BY ClientKeeps DEF Polite, Intact
<1>2. ~Sent'
  BY DEF UserSays, SystemSays, Declare, ToolDone, Trim, Adds, Sent
<1>3. Fresh(history, 1) \in Marks
  <2>1. 1 \in 1 .. 4
    OBVIOUS
  <2> QED BY <2>1, <1>1, FreshIsFresh
<1>4. CASE UserSays
  <2>1. PICK image \in Images : Adds(<<UserItem(Fresh(history, 1), image)>>)
    BY <1>4 DEF UserSays
  <2> DEFINE x == UserItem(Fresh(history, 1), image)
  <2>2. x \in Items /\ x.kind = "user"
    BY <1>3 DEF UserItem, Items
  <2>3. Adds(<<x>>)
    BY <2>1
  <2> HIDE DEF x
  <2> QED BY <2>2, <2>3, <1>1, <1>2, AddsPolite DEF Polite
<1>5. CASE SystemSays
  <2>1. PICK string \in BOOLEAN : Adds(<<SystemItem(Fresh(history, 1), string)>>)
    BY <1>5 DEF SystemSays
  <2> DEFINE x == SystemItem(Fresh(history, 1), string)
  <2>2. x \in Items /\ x.kind = "system"
    BY <1>3 DEF SystemItem, Items
  <2>3. Adds(<<x>>)
    BY <2>1
  <2> HIDE DEF x
  <2> QED BY <2>2, <2>3, <1>1, <1>2, AddsPolite DEF Polite
<1>6. CASE Declare
  <2>1. PICK tools \in Groups : Adds(<<CarrierItem(tools)>>)
    BY <1>6 DEF Declare
  <2> DEFINE x == CarrierItem(tools)
  <2>2. x \in Items /\ x.kind = "carrier"
    BY DEF CarrierItem, Items
  <2>3. Adds(<<x>>)
    BY <2>1
  <2> HIDE DEF x
  <2> QED BY <2>2, <2>3, <1>1, <1>2, AddsPolite DEF Polite
<1>7. CASE ToolDone
  <2>1. PICK i \in OpenCalls, image \in Images : Adds(<<ResultItem(history[i].of, image)>>)
    BY <1>7 DEF ToolDone
  <2> DEFINE x == ResultItem(history[i].of, image)
  <2>2. x \in Items /\ x.kind = "result" /\ x.of = history[i].of
    BY ResultFollows DEF Polite, ResultItem
  <2>3. Adds(<<x>>)
    BY <2>1
  <2> HIDE DEF x
  <2> QED BY <2>1, <2>2, <2>3, <1>1, <1>2, AddsPolite DEF Polite
<1>8. CASE Trim
  <2>1. Len(history) \in Nat /\ history # <<>>
    BY <1>1, <1>8, ConversationAssumption DEF Trim
  <2>2. Talk(Tail(history))
    BY <1>1, <2>1, TailTalks
  <2> QED BY <2>2, <1>1, <1>2, <1>8 DEF Polite, Trim
<1> QED BY <1>4, <1>5, <1>6, <1>7, <1>8

LEMMA NextPolite ==
  ASSUME Polite, [Next]_vars
  PROVE  Polite'
<1>1. Intact /\ Intact' /\ history \in Seq(Items) /\ Talk(history)
  BY NextKeeps DEF Polite, Intact
<1>2. CASE UserSays \/ SystemSays \/ Declare \/ ToolDone \/ Trim
  BY <1>2, ClientPolite
<1>3. CASE Ask \/ AskInVain
  <2>1. OpenCalls = {} /\ history' = history
    BY <1>3 DEF Ask, AskInVain, Asks
  <2>2. OpenCalls' = OpenCalls
    BY <2>1 DEF OpenCalls
  <2> QED BY <2>1, <2>2, <1>1 DEF Polite
<1>4. CASE ImageRefused \/ BudgetRefused \/ Fails \/ UNCHANGED vars
  <2>1. history' = history /\ (Sent' => Sent)
    BY <1>4 DEF ImageRefused, BudgetRefused, Fails, Closes, vars, Sent
  <2>2. OpenCalls' = OpenCalls
    BY <2>1 DEF OpenCalls
  <2> QED BY <2>1, <2>2, <1>1 DEF Polite
<1>5. CASE Reply
  <2>1. Sent /\ ~Sent'
    BY <1>5 DEF Reply, Closes, Sent
  <2>2. \A i \in DOMAIN history : ~Open(history, i)
    BY <2>1, <1>1, OpenCallsAre DEF Polite
  <2>3. PICK g : Follows(g, history) /\ Together(g) /\ history' = history \o g
    BY <1>1, <1>5, ReplyItems
  <2>4. Talk(history \o g)
    BY <2>2, <2>3, <1>1, ReplyTalks
  <2> QED BY <2>1, <2>3, <2>4, <1>1 DEF Polite
<1> QED BY <1>2, <1>3, <1>4, <1>5 DEF Next, Client, Upstream

LEMMA StaysPolite == Spec => []Polite
BY InitPolite, NextPolite, PTL DEF Spec

\* x is what s has at the places P, in the same order: g[k] is where element k is from.
Picked(g, x, s, P) ==
  /\ g \in [1 .. Len(x) -> P]
  /\ \A k \in 1 .. Len(x) : x[k] = s[g[k]]
  /\ \A j, k \in 1 .. Len(x) : j < k => g[j] < g[k]
  /\ \A i \in P : \E k \in 1 .. Len(x) : g[k] = i

LEMMA PickedInOrder ==
  ASSUME NEW V, NEW s \in Seq(V), NEW P \in SUBSET DOMAIN s, NEW f,
         f = [i \in DOMAIN s |-> f[i]],
         \A i \in DOMAIN s : f[i] = IF i \in P THEN <<s[i]>> ELSE <<>>
  PROVE  FlattenSeq(f) \in Seq(V) /\ \E g : Picked(g, FlattenSeq(f), s, P)
<1> DEFINE x == FlattenSeq(f)
<1>1. \A i \in DOMAIN s : f[i] = <<s[i]>> \/ f[i] = <<>>
  OBVIOUS
<1>2. f \in Seq(Seq(V)) /\ x \in Seq(V)
  BY <1>1, PickTyped
<1>3. DOMAIN f = DOMAIN s /\ DOMAIN s = 1 .. Len(s) /\ Len(s) \in Nat /\ \A i \in DOMAIN s : s[i] \in V
  <2>1. DOMAIN f = DOMAIN s
    OBVIOUS
  <2> QED BY <2>1
<1>4. DOMAIN f = 1 .. Len(f) /\ Len(f) = Len(s)
  BY <1>2, <1>3
<1>5. ASSUME NEW i \in DOMAIN f PROVE f[i] = <<>> \/ \E v \in V : f[i] = <<v>>
  BY <1>1, <1>3
<1>6. PICK g : Embeds(g, x, f, Len(f))
  BY <1>2, <1>5, FlattenEmbeds
<1> HIDE DEF x
<1>0. \A v : <<v>> # <<>>
  OBVIOUS
<1>7. /\ g \in [1 .. Len(x) -> 1 .. Len(s)]
      /\ \A k \in 1 .. Len(x) : f[g[k]] = <<x[k]>>
      /\ \A j, k \in 1 .. Len(x) : j < k => g[j] < g[k]
      /\ \A i \in 1 .. Len(s) : f[i] # <<>> => \E k \in 1 .. Len(x) : g[k] = i
  BY <1>4, <1>6 DEF Embeds
<1>8. ASSUME NEW k \in 1 .. Len(x) PROVE g[k] \in P /\ x[k] = s[g[k]]
  <2>1. g[k] \in DOMAIN s /\ f[g[k]] = <<x[k]>>
    BY <1>3, <1>7
  <2>2. f[g[k]] # <<>>
    BY <2>1, <1>0
  <2>3. g[k] \in P /\ f[g[k]] = <<s[g[k]]>>
    BY <2>1, <2>2
  <2> QED BY <2>1, <2>3
<1>9. ASSUME NEW i \in P PROVE \E k \in 1 .. Len(x) : g[k] = i
  <2>1. i \in 1 .. Len(s) /\ f[i] = <<s[i]>>
    BY <1>3
  <2>2. f[i] # <<>>
    BY <2>1, <1>0
  <2> QED BY <2>1, <2>2, <1>7
<1>10. g \in [1 .. Len(x) -> P]
  BY <1>7, <1>8
<1>11. Picked(g, x, s, P)
  BY <1>7, <1>8, <1>9, <1>10 DEF Picked
<1> QED BY <1>2, <1>11 DEF x

\* No text before a result means no text between a call and its result.
LEMMA NoTextBetween ==
  ASSUME history \in Seq(Items), Talk(history), ~TextBeforeResult,
         NEW q \in DOMAIN history, NEW p \in DOMAIN history, NEW t \in DOMAIN history,
         history[q].kind = "call", history[p].kind = "result", history[q].of = history[p].of,
         q < t, t < p
  PROVE  history[t].kind # "assistant"
<1> SUFFICES ASSUME history[t].kind = "assistant" PROVE FALSE
  OBVIOUS
<1> DEFINE K == {"user", "assistant", "call", "result"}
           P == {i \in DOMAIN history : history[i].kind \in K}
           f == [i \in DOMAIN history |-> IF history[i].kind \in K THEN <<history[i]>> ELSE <<>>]
           items == FlattenSeq(f)
           A == {i \in DOMAIN history : q < i /\ i < p /\ history[i].kind = "assistant"}
           z == Max(A)
<1>1. DOMAIN history = 1 .. Len(history) /\ Len(history) \in Nat
  OBVIOUS
<1>2. z \in A /\ \A y \in A : y <= z
  <2>1. A \in SUBSET (1 .. Len(history)) /\ A # {}
    BY <1>1
  <2> HIDE DEF A
  <2> QED BY <2>1, <1>1, LastOf
<1> HIDE DEF z
<1>3. z \in 1 .. Len(history) /\ q < z /\ z < p /\ history[z].kind = "assistant"
  BY <1>1, <1>2
<1>4. items \in Seq(Items) /\ \E g : Picked(g, items, history, P)
  <2>1. f = [i \in DOMAIN history |-> f[i]] /\ P \in SUBSET DOMAIN history
    OBVIOUS
  <2>2. \A i \in DOMAIN history : f[i] = IF i \in P THEN <<history[i]>> ELSE <<>>
    OBVIOUS
  <2> HIDE DEF f, P
  <2> QED BY <2>1, <2>2, PickedInOrder
<1>5. PICK g : Picked(g, items, history, P)
  BY <1>4
<1>6. \E i \in 1 .. Len(items) - 1 : items[i].kind = "assistant" /\ items[i + 1].kind = "result"
  <2> HIDE DEF items, f
  <2>1. /\ Len(items) \in Nat
        /\ g \in [1 .. Len(items) -> P]
        /\ \A k \in 1 .. Len(items) : items[k] = history[g[k]]
        /\ \A j, k \in 1 .. Len(items) : j < k => g[j] < g[k]
        /\ \A i \in P : \E k \in 1 .. Len(items) : g[k] = i
    BY <1>4, <1>5 DEF Picked
  <2>2. z \in P /\ p \in P
    BY <1>1, <1>3
  <2>3. PICK k \in 1 .. Len(items) : g[k] = z
    BY <2>1, <2>2
  <2>4. PICK m \in 1 .. Len(items) : g[m] = p
    BY <2>1, <2>2
  <2>5. k < m
    <3>1. \A j \in 1 .. Len(items) : g[j] \in Nat
      <4>1. \A i \in P : i \in Nat
        BY <1>1
      <4> QED BY <4>1, <2>1
    <3>2. k \in Nat /\ m \in Nat /\ ~(g[m] <= g[k])
      BY <2>1, <2>3, <2>4, <3>1, <1>3
    <3>3. m < k => g[m] < g[k]
      BY <2>1
    <3>4. m = k => g[m] = g[k]
      OBVIOUS
    <3>5. g[m] \in Nat /\ g[k] \in Nat
      BY <3>1
    <3> QED BY <3>2, <3>3, <3>4, <3>5
  <2>6. k \in 1 .. Len(items) - 1 /\ k + 1 \in 1 .. Len(items) /\ k < k + 1 /\ (k + 1 < m \/ k + 1 = m)
    BY <2>1, <2>5
  <2> DEFINE u == g[k + 1]
  <2>7. u \in P /\ z < u /\ (u < p \/ u = p) /\ items[k + 1] = history[u]
    BY <2>1, <2>3, <2>4, <2>6
  <2> HIDE DEF u
  <2>8. u \in DOMAIN history /\ u \in Nat /\ q < u /\ history[u].kind \in K
    BY <2>7, <1>1, <1>3
  <2>9. CASE u = p
    BY <2>1, <2>3, <2>6, <2>7, <2>9, <1>3
  <2>10. CASE u < p
    <3>1. Quiet(history, q, p)
      BY DEF Talk
    <3>2. history[u].kind # "user"
      BY <2>8, <2>10, <3>1 DEF Quiet
    <3>3. history[u].kind # "call"
      BY <2>7, <2>8, <2>10, <3>1, <1>1, <1>3 DEF Quiet
    <3>4. history[u].kind # "assistant"
      <4>1. ~(u <= z)
        BY <2>7, <2>8, <1>3
      <4> QED BY <4>1, <2>8, <2>10, <1>2
    <3>5. history[u].kind = "result"
      BY <2>8, <3>2, <3>3, <3>4
    <3> QED BY <2>1, <2>3, <2>6, <2>7, <3>5, <1>3
  <2> QED BY <2>7, <2>9, <2>10
<1> QED BY <1>6 DEF TextBeforeResult, Only

LEMMA TalkConversed ==
  ASSUME history \in Seq(Items), Talk(history), ~TextBeforeResult
  PROVE  Conversed(history)
<1> SUFFICES ASSUME NEW q \in DOMAIN history, NEW p \in DOMAIN history,
                    history[q].kind = "call", history[p].kind = "result",
                    history[q].of = history[p].of
             PROVE  /\ q < p
                    /\ \A t \in DOMAIN history : q < t /\ t < p =>
                         /\ history[t].kind \notin {"user", "assistant"}
                         /\ history[t].kind # "call" =>
                              \A u \in DOMAIN history : t < u /\ u < p => history[u].kind # "call"
  BY DEF Conversed
<1>1. q < p /\ Quiet(history, q, p)
  BY DEF Talk
<1>2. \A t \in DOMAIN history : q < t /\ t < p => history[t].kind # "assistant"
  BY NoTextBetween
<1> QED BY <1>1, <1>2 DEF Quiet

\* The input keeps the order of the history, and what is said in it.
LEMMA FollowConversed ==
  ASSUME NEW x \in Seq(Items), NEW h \in Seq(Items), Conversed(h), NEW g, Follow(g, x, h)
  PROVE  Conversed(x) /\ Results(x) = Results(h)
<1>1. /\ DOMAIN x = 1 .. Len(x) /\ DOMAIN h = 1 .. Len(h)
      /\ DOMAIN x \subseteq Nat /\ DOMAIN h \subseteq Nat
  OBVIOUS
<1>2. /\ \A k \in DOMAIN x : g[k] \in DOMAIN h /\ x[k].kind = h[g[k]].kind /\ x[k].of = h[g[k]].of
      /\ \A j, k \in DOMAIN x : j < k => g[j] < g[k]
      /\ \A i \in DOMAIN h : h[i].kind # "carrier" => \E k \in DOMAIN x : g[k] = i
  BY <1>1 DEF Follow
<1>3. ASSUME NEW j \in DOMAIN x, NEW k \in DOMAIN x, g[j] < g[k] PROVE j < k
  <2>1. j < k \/ k < j \/ j = k
    BY <1>1
  <2>2. g[j] \in Nat /\ g[k] \in Nat
    BY <1>1, <1>2
  <2>3. k < j => g[k] < g[j]
    BY <1>2
  <2>4. j = k => g[j] = g[k]
    OBVIOUS
  <2> QED BY <2>1, <2>2, <2>3, <2>4, <1>3
<1>4. Conversed(x)
  <2> SUFFICES ASSUME NEW q \in DOMAIN x, NEW p \in DOMAIN x,
                      x[q].kind = "call", x[p].kind = "result", x[q].of = x[p].of
               PROVE  /\ q < p
                      /\ \A t \in DOMAIN x : q < t /\ t < p =>
                           /\ x[t].kind \notin {"user", "assistant"}
                           /\ x[t].kind # "call" =>
                                \A u \in DOMAIN x : t < u /\ u < p => x[u].kind # "call"
    BY DEF Conversed
  <2>1. g[q] \in DOMAIN h /\ g[p] \in DOMAIN h /\ h[g[q]].kind = "call"
        /\ h[g[p]].kind = "result" /\ h[g[q]].of = h[g[p]].of
    BY <1>2
  <2>2. /\ g[q] < g[p]
        /\ \A t \in DOMAIN h : g[q] < t /\ t < g[p] =>
             /\ h[t].kind \notin {"user", "assistant"}
             /\ h[t].kind # "call" => \A u \in DOMAIN h : t < u /\ u < g[p] => h[u].kind # "call"
    BY <2>1 DEF Conversed
  <2>3. q < p
    BY <2>2, <1>3
  <2>4. ASSUME NEW t \in DOMAIN x, q < t, t < p
        PROVE  g[t] \in DOMAIN h /\ g[q] < g[t] /\ g[t] < g[p] /\ x[t].kind = h[g[t]].kind
    BY <2>4, <1>2
  <2>5. ASSUME NEW t \in DOMAIN x, q < t, t < p, x[t].kind # "call",
               NEW u \in DOMAIN x, t < u, u < p
        PROVE  x[u].kind # "call"
    <3>1. g[u] \in DOMAIN h /\ g[t] < g[u] /\ g[u] < g[p] /\ x[u].kind = h[g[u]].kind
      BY <2>5, <1>2
    <3> QED BY <3>1, <2>2, <2>4, <2>5
  <2> QED BY <2>2, <2>3, <2>4, <2>5
<1>5. Results(x) = Results(h)
  <2>1. ASSUME NEW w \in Results(x) PROVE w \in Results(h)
    <3>1. PICK k \in DOMAIN x : x[k].kind = "result" /\ x[k].of = w
      BY DEF Results
    <3> QED BY <3>1, <1>2 DEF Results
  <2>2. ASSUME NEW w \in Results(h) PROVE w \in Results(x)
    <3>1. PICK p \in DOMAIN h : h[p].kind = "result" /\ h[p].of = w
      BY DEF Results
    <3>2. PICK k \in DOMAIN x : g[k] = p
      BY <3>1, <1>2
    <3> QED BY <3>1, <3>2, <1>2 DEF Results
  <2> QED BY <2>1, <2>2
<1> QED BY <1>4, <1>5

-----------------------------------------------------------------------------
(* Results follow their calls, for a Messages upstream *)

\* The message made of an item: only a result of the input becomes a tool's result.
StandsFor(m, item) ==
  /\ IsResult(m) => item.kind = "result" /\ m.content[1].of = item.of
  /\ m.content[1].type = "tool_use" => m.role # "system"

LEMMA ConvertedItem ==
  ASSUME NEW item \in Items, NEW paired, NEW keep
  PROVE  \/ convertMessageItem(item, paired, keep) = <<>>
         \/ \E m : convertMessageItem(item, paired, keep) = <<m>> /\ StandsFor(m, item)
<1> DEFINE blocks == convertContentBlocks(item, keep)
           c == convertMessageItem(item, paired, keep)
<1>1. blocks[1].type = "text"
  BY DEF convertContentBlocks, Text
<1> HIDE DEF blocks
<1>2. CASE item.kind = "call"
  <2> DEFINE use == ToolUse(item.of, item.tool.name)
             m == Message("assistant", <<use>>)
  <2>1. c = <<m>>
    BY <1>2 DEF convertMessageItem, convertToolItem
  <2>2. m.content[1] = use /\ m.role = "assistant" /\ use.type = "tool_use"
    BY DEF Message, ToolUse
  <2> HIDE DEF m, use, c
  <2>3. StandsFor(m, item)
    BY <2>2 DEF StandsFor, IsResult
  <2> QED BY <2>1, <2>3 DEF c
<1>3. CASE item.kind = "result"
  <2> DEFINE told == IF item.of \in paired THEN ToolResult(item.of, blocks) ELSE Text(item.of)
             m == Message("user", <<told>>)
  <2>1. c = <<m>>
    BY <1>3 DEF convertMessageItem, convertToolItem, blocks
  <2>2. told.of = item.of /\ m.content[1] = told /\ m.role = "user"
    BY DEF Message, ToolResult, Text
  <2> HIDE DEF m, told, c
  <2>3. StandsFor(m, item)
    BY <2>2, <1>3 DEF StandsFor, IsResult
  <2> QED BY <2>1, <2>3 DEF c
<1>4. CASE item.kind \in {"user", "assistant", "system"}
  <2> DEFINE m == Message(item.kind, blocks)
  <2>1. c = <<m>>
    BY <1>4 DEF convertMessageItem, blocks
  <2>2. m.content[1].type = "text"
    BY <1>1 DEF Message
  <2> HIDE DEF m, c
  <2>3. StandsFor(m, item)
    BY <2>2 DEF StandsFor, IsResult
  <2> QED BY <2>1, <2>3 DEF c
<1>5. CASE item.kind \notin {"call", "result", "user", "assistant", "system"}
  BY <1>5 DEF convertMessageItem
<1> QED BY <1>2, <1>3, <1>4, <1>5

\* A call has one result.
OneEach(u) ==
  \A j, k \in DOMAIN u :
    IsResult(u[j]) /\ IsResult(u[k]) /\ u[j].content[1].of = u[k].content[1].of => j = k

\* A system text is no call.
CallsStay(u) == \A i \in DOMAIN u : u[i].content[1].type = "tool_use" => u[i].role # "system"

LEMMA ConvertedMessages ==
  ASSUME NEW input \in Seq(Items), Unique(input), NEW ms, ms = [j \in DOMAIN input |-> ms[j]],
         \A j \in DOMAIN input : \/ ms[j] = <<>>
                                 \/ \E m : ms[j] = <<m>> /\ StandsFor(m, input[j])
  PROVE  \E V : FlattenSeq(ms) \in Seq(V) /\ OneEach(FlattenSeq(ms)) /\ CallsStay(FlattenSeq(ms))
<1> DEFINE V == UNION {ToSet(ms[j]) : j \in DOMAIN input}
           u == FlattenSeq(ms)
<1>0. Len(input) \in Nat /\ DOMAIN input = 1 .. Len(input) /\ DOMAIN ms = DOMAIN input
  <2>1. DOMAIN ms = DOMAIN input
    OBVIOUS
  <2> QED BY <2>1
<1>1. ASSUME NEW j \in DOMAIN input PROVE ms[j] = <<>> \/ \E v \in V : ms[j] = <<v>>
  <2> SUFFICES ASSUME NEW m, ms[j] = <<m>> PROVE \E v \in V : ms[j] = <<v>>
    OBVIOUS
  <2>1. m \in ToSet(ms[j])
    BY DEF ToSet
  <2> QED BY <2>1
<1> HIDE DEF V
<1>2. \A v \in V : <<v>> \in Seq(V)
  OBVIOUS
<1>3. <<>> \in Seq(V)
  OBVIOUS
<1>4. \A j \in 1 .. Len(input) : ms[j] \in Seq(V)
  BY <1>0, <1>1, <1>2, <1>3
<1>5. ms \in [1 .. Len(input) -> Seq(V)]
  BY <1>0, <1>4
<1>6. ms \in Seq(Seq(V)) /\ Len(ms) = Len(input)
  <2>1. ms \in Seq(Seq(V))
    BY <1>0, <1>5, SeqDef
  <2> QED BY <2>1, <1>0
<1>7. u \in Seq(V)
  BY <1>6, FlattenTyped
<1>8. PICK g : Embeds(g, u, ms, Len(ms))
  BY <1>0, <1>1, <1>6, FlattenEmbeds
<1> HIDE DEF u
<1>9. /\ DOMAIN u = 1 .. Len(u) /\ Len(u) \in Nat
      /\ \A k \in DOMAIN u : g[k] \in DOMAIN input /\ ms[g[k]] = <<u[k]>>
      /\ \A j, k \in DOMAIN u : j < k => g[j] < g[k]
  <2>1. DOMAIN u = 1 .. Len(u) /\ Len(u) \in Nat
    BY <1>7
  <2>2. g \in [1 .. Len(u) -> 1 .. Len(ms)] /\ 1 .. Len(ms) = DOMAIN input
    BY <1>0, <1>6, <1>8 DEF Embeds
  <2>3. /\ \A k \in 1 .. Len(u) : ms[g[k]] = <<u[k]>>
        /\ \A j, k \in 1 .. Len(u) : j < k => g[j] < g[k]
    BY <1>8 DEF Embeds
  <2>4. \A k \in DOMAIN u : g[k] \in DOMAIN input
    BY <2>1, <2>2
  <2> QED BY <2>1, <2>3, <2>4
<1>10. ASSUME NEW k \in DOMAIN u PROVE g[k] \in DOMAIN input /\ StandsFor(u[k], input[g[k]])
  <2>1. g[k] \in DOMAIN input /\ ms[g[k]] = <<u[k]>>
    BY <1>9
  <2>2. <<u[k]>> # <<>>
    OBVIOUS
  <2>3. PICK m : ms[g[k]] = <<m>> /\ StandsFor(m, input[g[k]])
    BY <2>1, <2>2
  <2>4. m = u[k]
    BY <2>1, <2>3
  <2> QED BY <2>1, <2>3, <2>4
<1>11. OneEach(u)
  <2> SUFFICES ASSUME NEW j \in DOMAIN u, NEW k \in DOMAIN u, IsResult(u[j]), IsResult(u[k]),
                      u[j].content[1].of = u[k].content[1].of, j # k
               PROVE  FALSE
    BY DEF OneEach
  <2>1. input[g[j]].kind = "result" /\ input[g[k]].kind = "result" /\ input[g[j]].of = input[g[k]].of
        /\ g[j] \in DOMAIN input /\ g[k] \in DOMAIN input
    BY <1>10 DEF StandsFor
  <2>2. g[j] = g[k]
    <3> SUFFICES ASSUME g[j] # g[k] PROVE FALSE
      OBVIOUS
    <3>1. \A a, b \in DOMAIN input :
            a # b /\ input[a].of = input[b].of /\ input[a].kind # "carrier" =>
              {input[a].kind, input[b].kind} = {"call", "result"}
      BY DEF Unique
    <3>2. "result" # "carrier" /\ "result" # "call"
      OBVIOUS
    <3>3. {input[g[j]].kind, input[g[k]].kind} = {"call", "result"}
      BY <2>1, <3>1, <3>2
    <3>4. "call" \in {input[g[j]].kind, input[g[k]].kind}
      BY <3>3
    <3> QED BY <2>1, <3>2, <3>4
  <2>3. j < k \/ k < j
    BY <1>9
  <2>4. g[j] \in Nat /\ g[k] \in Nat
    BY <2>1, <1>0
  <2> QED BY <2>2, <2>3, <2>4, <1>9
<1>12. CallsStay(u)
  BY <1>10 DEF CallsStay, StandsFor
<1> QED BY <1>7, <1>11, <1>12 DEF u

PairedWith(c, r) == c.content[1].type = "tool_use" /\ c.content[1].of = r.content[1].of

\* Every result stands right after its call.
Pairing(x) == \A i \in DOMAIN x : IsResult(x[i]) => i > 1 /\ PairedWith(x[i - 1], x[i])

LEMMA PairingConcat ==
  ASSUME NEW V, NEW x \in Seq(V), NEW b \in Seq(V), Pairing(x), Pairing(b)
  PROVE  Pairing(x \o b)
<1> DEFINE s == x \o b
           n == Len(x)
<1>1. /\ n \in Nat /\ DOMAIN x = 1 .. n /\ DOMAIN s \subseteq Nat
      /\ DOMAIN b = 1 .. Len(b) /\ Len(b) \in Nat
      /\ \A i \in DOMAIN s : \/ i \in DOMAIN x /\ s[i] = x[i]
                             \/ i - n \in DOMAIN b /\ i > n /\ s[i] = b[i - n]
      /\ \A i \in DOMAIN x : i \in DOMAIN s /\ s[i] = x[i]
      /\ \A i \in DOMAIN b : n + i \in DOMAIN s /\ s[n + i] = b[i]
  BY ConcatPlaces
<1> HIDE DEF s, n
<1> SUFFICES ASSUME NEW i \in DOMAIN s, IsResult(s[i])
             PROVE  i > 1 /\ PairedWith(s[i - 1], s[i])
  BY DEF Pairing, s
<1>2. CASE i \in DOMAIN x /\ s[i] = x[i]
  <2>1. i > 1 /\ PairedWith(x[i - 1], x[i])
    BY <1>2 DEF Pairing
  <2>2. i - 1 \in DOMAIN x
    BY <2>1, <1>1, <1>2
  <2> QED BY <2>1, <2>2, <1>1, <1>2
<1>3. CASE i - n \in DOMAIN b /\ i > n /\ s[i] = b[i - n]
  <2> DEFINE k == i - n
  <2>1. k \in DOMAIN b /\ s[i] = b[k]
    BY <1>3
  <2>2. k > 1 /\ PairedWith(b[k - 1], b[k])
    BY <2>1 DEF Pairing
  <2>3. k - 1 \in DOMAIN b /\ n + (k - 1) = i - 1 /\ i > 1
    BY <2>1, <2>2, <1>1
  <2>4. s[i - 1] = b[k - 1]
    BY <2>3, <1>1
  <2> QED BY <2>1, <2>2, <2>3, <2>4
<1> QED BY <1>1, <1>2, <1>3

LEMMA NormalizedPairs ==
  ASSUME NEW V, NEW u \in Seq(V), OneEach(u)
  PROVE  Pairing(normalizeToolResultOrder(u))
<1> DEFINE others  == OthersOf(u)
           results == ResultsOf(u)
           ss == [i \in DOMAIN others |-> <<others[i]>> \o AnswersTo(others[i], results)]
<1>1. others \in Seq(V) /\ results \in Seq(V)
  BY PartsTyped
<1>2. normalizeToolResultOrder(u) = FlattenSeq(ss)
  BY NormalizedIs
<1>3. \A i \in DOMAIN others : ~IsResult(others[i])
  <2> DEFINE f == [i \in DOMAIN u |-> IF ~IsResult(u[i]) THEN <<u[i]>> ELSE <<>>]
             P == {i \in DOMAIN u : ~IsResult(u[i])}
  <2>1. f = [i \in DOMAIN u |-> f[i]] /\ P \in SUBSET DOMAIN u
        /\ \A i \in DOMAIN u : f[i] = IF i \in P THEN <<u[i]>> ELSE <<>>
    OBVIOUS
  <2>2. others = FlattenSeq(f)
    BY DEF OthersOf, Only
  <2>3. \A i \in P : ~IsResult(u[i])
    OBVIOUS
  <2> HIDE DEF f, P, others
  <2>4. PICK g : Picked(g, others, u, P)
    BY <2>1, <2>2, PickedInOrder
  <2>5. DOMAIN others = 1 .. Len(others)
    BY <1>1
  <2>6. \A k \in DOMAIN others : g[k] \in P /\ others[k] = u[g[k]]
    BY <2>4, <2>5 DEF Picked
  <2> QED BY <2>3, <2>6
<1>4. (\A i \in DOMAIN results : IsResult(results[i])) /\ OneEach(results)
  <2> DEFINE f == [i \in DOMAIN u |-> IF IsResult(u[i]) THEN <<u[i]>> ELSE <<>>]
             P == {i \in DOMAIN u : IsResult(u[i])}
  <2>1. f = [i \in DOMAIN u |-> f[i]] /\ P \in SUBSET DOMAIN u
        /\ \A i \in DOMAIN u : f[i] = IF i \in P THEN <<u[i]>> ELSE <<>>
    OBVIOUS
  <2>2. results = FlattenSeq(f)
    BY DEF ResultsOf, Only
  <2>3. \A i \in P : i \in DOMAIN u /\ IsResult(u[i])
    OBVIOUS
  <2> HIDE DEF f, P, results
  <2>4. PICK g : Picked(g, results, u, P)
    BY <2>1, <2>2, PickedInOrder
  <2>5. /\ DOMAIN results = 1 .. Len(results) /\ DOMAIN u \subseteq Nat
        /\ \A k \in DOMAIN results : g[k] \in P /\ results[k] = u[g[k]]
        /\ \A j, k \in DOMAIN results : j < k => g[j] < g[k]
    BY <2>4, <1>1 DEF Picked
  <2>6. OneEach(results)
    <3> SUFFICES ASSUME NEW j \in DOMAIN results, NEW k \in DOMAIN results,
                        IsResult(results[j]), IsResult(results[k]),
                        results[j].content[1].of = results[k].content[1].of, j # k
                 PROVE  FALSE
      BY DEF OneEach
    <3>1. g[j] = g[k] /\ g[j] \in Nat
      BY <2>3, <2>5 DEF OneEach
    <3>2. j < k \/ k < j
      BY <1>1, <2>5
    <3> QED BY <3>1, <3>2, <2>5
  <2> QED BY <2>3, <2>5, <2>6
<1> HIDE DEF others, results
<1>5. ASSUME NEW i \in DOMAIN others PROVE ss[i] \in Seq(V) /\ Pairing(ss[i])
  <2> DEFINE m == others[i]
             x == AnswersTo(m, results)
             f == [j \in DOMAIN results |->
                     IF m.content[1].type = "tool_use" /\ results[j].content[1].of = m.content[1].of
                     THEN <<results[j]>> ELSE <<>>]
             P == {j \in DOMAIN results :
                     m.content[1].type = "tool_use" /\ results[j].content[1].of = m.content[1].of}
  <2>1. f = [j \in DOMAIN results |-> f[j]] /\ P \in SUBSET DOMAIN results
        /\ \A j \in DOMAIN results : f[j] = IF j \in P THEN <<results[j]>> ELSE <<>>
    OBVIOUS
  <2>2. x = FlattenSeq(f)
    BY DEF AnswersTo, Only
  <2>3. \A j \in P : j \in DOMAIN results /\ PairedWith(m, results[j])
    BY DEF PairedWith
  <2>4. m \in V /\ ~IsResult(m)
    BY <1>1, <1>3
  <2> HIDE DEF f, P, x, m
  <2>5. x \in Seq(V)
    BY <1>1, PartsTyped DEF x
  <2>6. PICK g : Picked(g, x, results, P)
    BY <2>1, <2>2, <1>1, PickedInOrder
  <2>7. /\ DOMAIN x = 1 .. Len(x) /\ Len(x) \in Nat /\ DOMAIN results \subseteq Nat
        /\ \A k \in DOMAIN x : g[k] \in P /\ x[k] = results[g[k]]
        /\ \A j, k \in DOMAIN x : j < k => g[j] < g[k]
    BY <2>5, <2>6, <1>1 DEF Picked
  <2>8. \A j, k \in DOMAIN x : j = k
    <3> SUFFICES ASSUME NEW j \in DOMAIN x, NEW k \in DOMAIN x, j # k PROVE FALSE
      OBVIOUS
    <3>1. g[j] \in DOMAIN results /\ g[k] \in DOMAIN results
          /\ results[g[j]].content[1].of = results[g[k]].content[1].of
      BY <2>3, <2>7 DEF PairedWith
    <3>2. g[j] = g[k] /\ g[j] \in Nat
      BY <3>1, <1>4, <2>7 DEF OneEach
    <3>3. j < k \/ k < j
      BY <2>7
    <3> QED BY <3>2, <3>3, <2>7
  <2>9. <<m>> \in Seq(V) /\ Len(<<m>>) = 1 /\ DOMAIN <<m>> = {1} /\ <<m>>[1] = m
    BY <2>4
  <2> DEFINE b == <<m>> \o x
             one == <<m>>
  <2>10. /\ b \in Seq(V) /\ DOMAIN b \subseteq Nat
         /\ \A k \in DOMAIN b : \/ k \in DOMAIN one /\ b[k] = one[k]
                                \/ k - 1 \in DOMAIN x /\ k > 1 /\ b[k] = x[k - 1]
         /\ \A k \in DOMAIN one : k \in DOMAIN b /\ b[k] = one[k]
    <3>1. one \in Seq(V) /\ Len(one) = 1
      BY <2>9
    <3> HIDE DEF one
    <3>2. /\ one \o x \in Seq(V)
          /\ \A k \in DOMAIN (one \o x) :
               \/ k \in DOMAIN one /\ (one \o x)[k] = one[k]
               \/ k - Len(one) \in DOMAIN x /\ k > Len(one) /\ (one \o x)[k] = x[k - Len(one)]
          /\ \A k \in DOMAIN one : k \in DOMAIN (one \o x) /\ (one \o x)[k] = one[k]
      BY <3>1, <2>5, ConcatPlaces
    <3> QED BY <3>1, <3>2 DEF one
  <2> HIDE DEF b
  <2>11. Pairing(b)
    <3> SUFFICES ASSUME NEW k \in DOMAIN b, IsResult(b[k])
                 PROVE  k > 1 /\ PairedWith(b[k - 1], b[k])
      BY DEF Pairing
    <3>1. b[1] = m /\ k \in Nat
      BY <2>9, <2>10
    <3>2. k \notin DOMAIN one
      BY <2>4, <2>9, <3>1
    <3>3. k - 1 \in DOMAIN x /\ k > 1 /\ b[k] = x[k - 1]
      BY <3>2, <2>10
    <3>4. k - 1 = 1
      <4>1. 1 \in DOMAIN x
        BY <3>3, <2>7
      <4> QED BY <4>1, <3>3, <2>8
    <3>5. PairedWith(m, x[k - 1])
      BY <3>3, <2>3, <2>7
    <3> QED BY <3>1, <3>3, <3>4, <3>5
  <2> QED BY <2>10, <2>11 DEF b, x, m
<1>6. Len(others) \in Nat /\ DOMAIN others = 1 .. Len(others) /\ DOMAIN ss = DOMAIN others
  BY <1>1
<1> HIDE DEF ss
<1>7. ss \in Seq(Seq(V)) /\ Len(ss) = Len(others)
  <2>1. ss = [i \in 1 .. Len(others) |-> ss[i]]
    BY <1>6 DEF ss
  <2>2. ss \in [1 .. Len(others) -> Seq(V)]
    BY <2>1, <1>5, <1>6
  <2>3. ss \in Seq(Seq(V))
    BY <2>2, <1>6, SeqDef
  <2> QED BY <2>3, <1>6
<1>8. CASE Len(ss) = 0
  <2>1. FlattenSeq(ss) = ss /\ DOMAIN ss = {}
    BY <1>6, <1>7, <1>8 DEF FlattenSeq
  <2> QED BY <2>1, <1>2 DEF Pairing
<1>9. CASE Len(ss) # 0
  <2> DEFINE n == Len(ss)
             R == {p \in Nat \X Seq(V) : Pairing(p[2])}
  <2>1. n \in Nat \ {0} /\ \A i \in 1 .. n : ss[i] \in Seq(V) /\ Pairing(ss[i])
    BY <1>5, <1>6, <1>7, <1>9
  <2>2. \A i, x : <<i, x>> \in R <=> i \in Nat /\ x \in Seq(V) /\ Pairing(x)
    OBVIOUS
  <2> HIDE DEF R
  <2>3. <<1, ss[1]>> \in R
    <3>1. 1 \in 1 .. n /\ 1 \in Nat
      BY <2>1
    <3> QED BY <3>1, <2>1, <2>2
  <2>4. ASSUME NEW i \in 1 .. n - 1, NEW x, <<i, x>> \in R
        PROVE  <<i + 1, x \o ss[i + 1]>> \in R
    <3>1. i + 1 \in 1 .. n /\ i + 1 \in Nat
      BY <2>1
    <3>2. x \in Seq(V) /\ Pairing(x) /\ ss[i + 1] \in Seq(V) /\ Pairing(ss[i + 1])
      BY <3>1, <2>1, <2>2, <2>4
    <3>3. x \o ss[i + 1] \in Seq(V)
      BY <3>2, ConcatProperties
    <3>4. Pairing(x \o ss[i + 1])
      BY <3>2, PairingConcat
    <3> QED BY <3>1, <3>3, <3>4, <2>2
  <2> HIDE DEF n
  <2>5. Len(ss) = n
    BY DEF n
  <2>6. <<n, FlattenSeq(ss)>> \in R
    BY <2>1, <2>3, <2>4, <2>5, FlattenByInduction
  <2> QED BY <2>6, <2>2, <1>2
<1> QED BY <1>8, <1>9

LEMMA FilteredPairs ==
  ASSUME NEW V, NEW x \in Seq(V), Pairing(x), CallsStay(x)
  PROVE  Pairing(Only(x, LAMBDA m : m.role # "system"))
<1> DEFINE f == [i \in DOMAIN x |-> IF x[i].role # "system" THEN <<x[i]>> ELSE <<>>]
           P == {i \in DOMAIN x : x[i].role # "system"}
           y == FlattenSeq(f)
<1>1. f = [i \in DOMAIN x |-> f[i]] /\ P \in SUBSET DOMAIN x
      /\ \A i \in DOMAIN x : f[i] = IF i \in P THEN <<x[i]>> ELSE <<>>
  OBVIOUS
<1>2. Only(x, LAMBDA m : m.role # "system") = y
  BY DEF Only
<1>3. \A i \in DOMAIN x : i \in P <=> x[i].role # "system"
  OBVIOUS
<1> HIDE DEF f, P
<1>4. y \in Seq(V) /\ \E g : Picked(g, y, x, P)
  BY <1>1, PickedInOrder
<1> HIDE DEF y
<1>5. PICK g : Picked(g, y, x, P)
  BY <1>4
<1>6. /\ DOMAIN y = 1 .. Len(y) /\ Len(y) \in Nat /\ DOMAIN x \subseteq Nat /\ DOMAIN x = 1 .. Len(x)
      /\ \A k \in DOMAIN y : g[k] \in P /\ y[k] = x[g[k]]
      /\ \A j, k \in DOMAIN y : j < k => g[j] < g[k]
      /\ \A i \in P : \E k \in DOMAIN y : g[k] = i
  <2>1. DOMAIN y = 1 .. Len(y) /\ Len(y) \in Nat
    BY <1>4
  <2>2. DOMAIN x \subseteq Nat /\ DOMAIN x = 1 .. Len(x)
    OBVIOUS
  <2>3. g \in [1 .. Len(y) -> P]
    BY <1>5 DEF Picked
  <2>4. /\ \A k \in 1 .. Len(y) : y[k] = x[g[k]]
        /\ \A j, k \in 1 .. Len(y) : j < k => g[j] < g[k]
        /\ \A i \in P : \E k \in 1 .. Len(y) : g[k] = i
    BY <1>5 DEF Picked
  <2>5. \A k \in DOMAIN y : g[k] \in P
    BY <2>1, <2>3
  <2> QED BY <2>1, <2>2, <2>4, <2>5
<1> SUFFICES ASSUME NEW k \in DOMAIN y, IsResult(y[k])
             PROVE  k > 1 /\ PairedWith(y[k - 1], y[k])
  BY <1>2 DEF Pairing
<1>7. g[k] \in DOMAIN x /\ g[k] \in Nat /\ y[k] = x[g[k]]
  BY <1>1, <1>6
<1> DEFINE i == g[k]
<1>8. i > 1 /\ PairedWith(x[i - 1], x[i])
  BY <1>7 DEF Pairing
<1>9. i - 1 \in DOMAIN x /\ i \in Nat
  BY <1>6, <1>7, <1>8
<1>10. i - 1 \in P
  BY <1>3, <1>8, <1>9 DEF CallsStay, PairedWith
<1>11. PICK j \in DOMAIN y : g[j] = i - 1
  BY <1>6, <1>10
<1>12. j = k - 1 /\ k > 1
  <2>0. \A l \in DOMAIN y : l \in Nat /\ g[l] \in Nat
    BY <1>1, <1>6
  <2>1. ~(k <= j)
    <3>1. k < j => g[k] < g[j]
      BY <1>6
    <3>2. k = j => g[k] = g[j]
      OBVIOUS
    <3>3. ~(i < i - 1) /\ i # i - 1
      BY <1>9
    <3>4. j \in Nat /\ k \in Nat
      BY <2>0
    <3> QED BY <3>1, <3>2, <3>3, <3>4, <1>11
  <2>2. ~(j + 1 < k)
    <3> SUFFICES ASSUME j + 1 < k PROVE FALSE
      OBVIOUS
    <3>1. j \in Nat /\ j + 1 \in DOMAIN y /\ j < j + 1
      BY <2>0, <1>6
    <3> DEFINE l == j + 1
    <3>2. l \in DOMAIN y /\ g[j] < g[l] /\ g[l] < g[k] /\ g[l] \in Nat
      BY <3>1, <2>0, <1>6
    <3> HIDE DEF l
    <3>3. i - 1 < g[l] /\ g[l] < i
      BY <3>2, <1>11
    <3> QED BY <3>2, <3>3, <1>9
  <2> QED BY <2>0, <2>1, <2>2, <1>6
<1> QED BY <1>6, <1>7, <1>8, <1>11, <1>12

LEMMA MessagesPaired ==
  ASSUME NEW input \in Seq(Items), Unique(input), NEW opts
  PROVE  Pairing(MessagesOf(input, opts))
<1> DEFINE paired == PairedToolCallIDs(input)
           Keep(j) == opts.images /\ ~opts.omit /\ j = CurrentInput(input)
           ms == [j \in DOMAIN input |-> convertMessageItem(input[j], paired, Keep(j))]
           u  == FlattenSeq(ms)
           all == normalizeToolResultOrder(u)
<1>1. MessagesOf(input, opts) = Only(all, LAMBDA m : m.role # "system")
  BY DEF MessagesOf, responsesToMessagesRequest, inputToMessages
<1>2. ms = [j \in DOMAIN input |-> ms[j]]
  OBVIOUS
<1>3. ASSUME NEW j \in DOMAIN input
      PROVE  ms[j] = <<>> \/ \E m : ms[j] = <<m>> /\ StandsFor(m, input[j])
  <2>1. input[j] \in Items /\ ms[j] = convertMessageItem(input[j], paired, Keep(j))
    OBVIOUS
  <2> HIDE DEF ms, paired, Keep
  <2> QED BY <2>1, ConvertedItem
<1> HIDE DEF ms
<1>4. PICK V : u \in Seq(V) /\ OneEach(u) /\ CallsStay(u)
  BY <1>2, <1>3, ConvertedMessages
<1> HIDE DEF u
<1> DEFINE W == {m \in V : m.content[1].type = "tool_use" => m.role # "system"}
<1>5. u \in Seq(W)
  <2>1. \A i \in DOMAIN u : u[i] \in W
    BY <1>4 DEF CallsStay
  <2>2. Len(u) \in Nat /\ u = [i \in 1 .. Len(u) |-> u[i]] /\ DOMAIN u = 1 .. Len(u)
    BY <1>4
  <2> HIDE DEF W
  <2>3. u \in [1 .. Len(u) -> W]
    BY <2>1, <2>2
  <2> QED BY <2>2, <2>3, SeqDef
<1> HIDE DEF W
<1>6. all \in Seq(W)
  BY <1>5, NormalizedTyped
<1>7. Pairing(all)
  BY <1>4, NormalizedPairs
<1> HIDE DEF all
<1>8. CallsStay(all)
  <2>1. \A i \in DOMAIN all : all[i] \in W
    BY <1>6
  <2> QED BY <2>1 DEF CallsStay, W
<1> QED BY <1>1, <1>6, <1>7, <1>8, FilteredPairs

LEMMA ResultsAreMarked ==
  ASSUME NEW h \in Seq(Items)
  PROVE  0 \notin Results(h)
<1> SUFFICES ASSUME NEW q \in DOMAIN h, h[q].kind = "result", h[q].of = 0 PROVE FALSE
  BY DEF Results
<1>1. h[q] \in Items
  OBVIOUS
<1> QED BY <1>1, ItemFields

\* A message that says what a tool returned is the tool's own, the user message with
\* its picture right behind that one, or one for a result whose call is lost.
Rendered(ms, s) ==
  \A k \in DOMAIN ms : Says(ms[k]) \in Results(s) =>
    \/ ms[k].role = "tool"
    \/ Says(ms[k]) \notin PairedToolCallIDs(s)
    \/ k > 1 /\ ms[k].content = <<Picture(Says(ms[k]))>> /\ ms[k - 1].answers = Says(ms[k])

\* Calls and reasoning that join a message change none of that.
LEMMA JoinsRendered ==
  ASSUME NEW M, NEW ms \in Seq(M), NEW s, Rendered(ms, s), NEW new, DOMAIN new = DOMAIN ms,
         \A i \in DOMAIN ms : /\ new[i].content = ms[i].content /\ new[i].role = ms[i].role
                              /\ new[i].answers = ms[i].answers
  PROVE  Rendered(new, s)
<1>1. \A k \in DOMAIN ms : Says(new[k]) = Says(ms[k])
  BY DEF Says
<1>2. \A k \in DOMAIN ms : k > 1 => k - 1 \in DOMAIN ms
  OBVIOUS
<1> QED BY <1>1, <1>2 DEF Rendered

LEMMA AddsRendered ==
  ASSUME NEW M, NEW ms \in Seq(M), NEW m \in M, NEW s, Rendered(ms, s),
         Says(m) \in Results(s) =>
           \/ m.role = "tool"
           \/ Says(m) \notin PairedToolCallIDs(s)
           \/ Len(ms) > 0 /\ m.content = <<Picture(Says(m))>> /\ ms[Len(ms)].answers = Says(m)
  PROVE  Rendered(Append(ms, m), s)
<1> DEFINE l == Len(ms)
           more == Append(ms, m)
<1>1. /\ l \in Nat /\ DOMAIN ms = 1 .. l /\ DOMAIN more = 1 .. l + 1
      /\ \A i \in 1 .. l : more[i] = ms[i]
      /\ more[l + 1] = m
  OBVIOUS
<1> HIDE DEF more, l
<1> SUFFICES ASSUME NEW k \in 1 .. l + 1, Says(more[k]) \in Results(s),
                    more[k].role # "tool", Says(more[k]) \in PairedToolCallIDs(s)
             PROVE  k > 1 /\ more[k].content = <<Picture(Says(more[k]))>>
                    /\ more[k - 1].answers = Says(more[k])
  BY <1>1 DEF Rendered, more
<1>2. CASE k \in 1 .. l
  <2>1. /\ k > 1 /\ ms[k].content = <<Picture(Says(ms[k]))>> /\ ms[k - 1].answers = Says(ms[k])
    BY <1>1, <1>2 DEF Rendered
  <2>2. k - 1 \in 1 .. l
    BY <2>1, <1>1, <1>2
  <2> QED BY <2>1, <2>2, <1>1, <1>2
<1>3. CASE k = l + 1
  <2>1. l > 0 /\ m.content = <<Picture(Says(m))>> /\ ms[l].answers = Says(m)
    BY <1>1, <1>3 DEF l
  <2>2. l \in 1 .. l /\ k - 1 = l /\ k > 1
    BY <2>1, <1>1, <1>3
  <2> QED BY <2>1, <2>2, <1>1, <1>3
<1> QED BY <1>1, <1>2, <1>3

LEMMA FlushRenders ==
  ASSUME NEW N, NEW a, Fits(a, N), NEW s, 0 \notin Results(s), Rendered(a.messages, s)
  PROVE  Rendered(flushPendingToolCalls(a).messages, s)
<1> DEFINE b == flushPendingToolCalls(a)
           M == ChatMessages(N)
           l == Len(a.messages)
<1>1. a \in Placements(N) /\ a.messages \in Seq(M) /\ a.calls \in Seq(N)
      /\ a.reasoning \in Seq(Nat) /\ a.last \in Nat /\ a.last <= l /\ l \in Nat
      /\ DOMAIN a.messages = 1 .. l
  BY DEF Fits, Placements
<1>2. CASE a.calls = <<>>
  BY <1>2 DEF flushPendingToolCalls
<1>3. CASE a.calls # <<>>
  <2> DEFINE joins == /\ a.last # 0
                      /\ a.messages[a.last].role = "assistant"
                      /\ ~hasToolCalls(a.messages[a.last])
             base  == IF joins THEN a.messages[a.last] ELSE ChatMessage("assistant", <<>>)
             with  == [base EXCEPT !.calls = a.calls]
             full  == attachReasoning(with, a.reasoning)
             ms    == IF joins THEN [a.messages EXCEPT ![a.last] = full]
                      ELSE Append(a.messages, full)
             last  == IF joins THEN a.last ELSE Len(a.messages) + 1
  <2>1. b = [messages |-> ms, calls |-> <<>>, reasoning |-> <<>>, last |-> last]
    BY <1>3 DEF flushPendingToolCalls
  <2>2. base \in M /\ (~joins => base.content = <<>>)
    <3>1. <<>> \in Seq(Blocks)
      OBVIOUS
    <3>2. ChatMessage("assistant", <<>>) \in M /\ ChatMessage("assistant", <<>>).content = <<>>
      BY <3>1, ChatMessageTyped DEF ChatMessage
    <3>3. joins => a.messages[a.last] \in M
      BY <1>1
    <3> HIDE DEF M, joins
    <3> QED BY <3>2, <3>3
  <2>3. joins => base = a.messages[a.last]
    OBVIOUS
  <2> HIDE DEF base
  <2>4. with \in M /\ with.content = base.content /\ with.role = base.role
        /\ with.answers = base.answers
    BY <2>2, <1>1 DEF ChatMessages
  <2> HIDE DEF with
  <2>5. full \in M /\ full.content = base.content /\ full.role = base.role
        /\ full.answers = base.answers
    BY <2>4, <1>1, AttachTyped, AttachPasses
  <2> HIDE DEF full
  <2>6. b.messages = ms
    BY <2>1
  <2> HIDE DEF b, M
  <2>7. CASE joins
    <3> DEFINE more == [a.messages EXCEPT ![a.last] = full]
    <3>1. /\ DOMAIN more = DOMAIN a.messages
          /\ \A i \in DOMAIN a.messages : /\ more[i].content = a.messages[i].content
                                          /\ more[i].role = a.messages[i].role
                                          /\ more[i].answers = a.messages[i].answers
      BY <2>3, <2>5, <2>7, <1>1
    <3>2. b.messages = more
      BY <2>6, <2>7
    <3> HIDE DEF more
    <3>3. Rendered(more, s)
      BY <3>1, <1>1, JoinsRendered
    <3> QED BY <3>2, <3>3 DEF b
  <2>8. CASE ~joins
    <3>1. Says(full) \notin Results(s)
      BY <2>2, <2>5, <2>8 DEF Says
    <3>2. Rendered(Append(a.messages, full), s)
      BY <2>5, <3>1, <1>1, AddsRendered
    <3> QED BY <2>6, <2>8, <3>2 DEF b
  <2> QED BY <2>7, <2>8
<1> QED BY <1>2, <1>3

LEMMA SettleRenders ==
  ASSUME NEW N, NEW a, Fits(a, N), NEW s, Rendered(a.messages, s)
  PROVE  Rendered(attachReasoningToPreviousAssistant(a).messages, s)
<1> DEFINE b == attachReasoningToPreviousAssistant(a)
           M == ChatMessages(N)
           l == Len(a.messages)
<1>1. a \in Placements(N) /\ a.messages \in Seq(M) /\ a.reasoning \in Seq(Nat)
      /\ a.last \in Nat /\ a.last <= l /\ l \in Nat /\ DOMAIN a.messages = 1 .. l
  BY DEF Fits, Placements
<1>2. CASE a.last = 0
  <2>1. b = [a EXCEPT !.reasoning = <<>>]
    BY <1>2 DEF attachReasoningToPreviousAssistant
  <2>2. b.messages = a.messages
    BY <2>1, <1>1 DEF Placements
  <2> QED BY <2>2
<1>3. CASE a.last # 0
  <2> DEFINE was  == a.messages[a.last]
             full == [was EXCEPT !.reasoning = @ \o a.reasoning]
             ms   == [a.messages EXCEPT ![a.last].reasoning = @ \o a.reasoning]
  <2>1. a.last \in 1 .. l /\ was \in M
    BY <1>1, <1>3
  <2>2. full.content = was.content /\ full.role = was.role /\ full.answers = was.answers
    BY <2>1 DEF ChatMessages
  <2>3. ms = [a.messages EXCEPT ![a.last] = full]
    OBVIOUS
  <2>4. b.messages = ms
    <3>1. b = [a EXCEPT !.messages[a.last].reasoning = @ \o a.reasoning, !.reasoning = <<>>]
      BY <1>3 DEF attachReasoningToPreviousAssistant
    <3>2. b = [a EXCEPT !.messages = ms, !.reasoning = <<>>]
      <4> HIDE DEF b
      <4> QED BY <3>1
    <3> HIDE DEF b, ms
    <3> QED BY <3>2, <1>1 DEF Placements
  <2> HIDE DEF b, ms, full, M
  <2>5. /\ DOMAIN ms = DOMAIN a.messages
        /\ \A i \in DOMAIN a.messages : /\ ms[i].content = a.messages[i].content
                                        /\ ms[i].role = a.messages[i].role
                                        /\ ms[i].answers = a.messages[i].answers
    BY <2>1, <2>2, <2>3, <1>1
  <2>6. Rendered(ms, s)
    BY <2>5, <1>1, JoinsRendered
  <2> QED BY <2>4, <2>6 DEF b
<1> QED BY <1>2, <1>3

\* Nothing but a result has the stamp of a result and is put into a message's text.
LEMMA OnlyResultsStamps ==
  ASSUME NEW s \in Seq(Items), Unique(s), NEW i \in DOMAIN s, s[i].kind \in {"assistant", "user"}
  PROVE  s[i].of \notin Results(s)
<1> SUFFICES ASSUME NEW q \in DOMAIN s, s[q].kind = "result", s[q].of = s[i].of PROVE FALSE
  BY DEF Results
<1>1. q # i
  OBVIOUS
<1>2. {s[q].kind, s[i].kind} = {"call", "result"}
  BY <1>1 DEF Unique
<1> QED BY <1>2

LEMMA PlaceRenders ==
  ASSUME NEW N, NEW a, Fits(a, N), NEW s \in Seq(Items), Unique(s), 0 \notin Results(s),
         NEW i \in DOMAIN s, Rendered(a.messages, s), NEW keep
  PROVE  Rendered(PlaceItem(a, s[i], PairedToolCallIDs(s), keep).messages, s)
<1> DEFINE item == s[i]
           paired == PairedToolCallIDs(s)
           M == ChatMessages(N)
           f == flushPendingToolCalls(a)
           b == PlaceItem(a, item, paired, keep)
<1>0. item \in Items
  OBVIOUS
<1>1. Fits(f, N) /\ Rendered(f.messages, s)
  BY FlushTyped, FlushRenders
<1> HIDE DEF f
<1>2. /\ a \in Placements(N) /\ f \in Placements(N) /\ f.messages \in Seq(M)
      /\ Len(f.messages) \in Nat /\ f.reasoning \in Seq(Nat)
  BY <1>1 DEF Fits, Placements
<1>3. CASE item.kind \notin {"result", "assistant", "user"}
  <2> DEFINE r == appendUniqueReasoning(a.reasoning, item.of)
             c == Append(a.calls, [of |-> item.of, name |-> item.tool.name])
  <2>1. b \in {a, [a EXCEPT !.reasoning = r], [a EXCEPT !.calls = c]}
    BY <1>3 DEF PlaceItem
  <2> HIDE DEF b, r, c
  <2>2. b.messages = a.messages
    BY <2>1, <1>2 DEF Placements
  <2> QED BY <2>2 DEF b
<1>4. CASE item.kind = "result"
  <2> DEFINE ms   == toolOutputToChatMessages(item, paired, keep)
             last == IF HasImage(item) /\ keep THEN 0 ELSE f.last
  <2>1. b = [f EXCEPT !.messages = @ \o ms, !.last = last]
    BY <1>4 DEF PlaceItem, PlaceResult, f
  <2>2. PICK one \in M, two \in M : ResultSays(item, paired, keep, one, two)
    <3>1. \E one, two \in ChatMessages(N) : ResultSays(item, paired, keep, one, two)
      <4> HIDE DEF item, paired
      <4> QED BY <1>0, ResultMessages
    <3> QED BY <3>1
  <2>3. /\ Says(one) = item.of /\ Says(two) = item.of
        /\ item.of \in paired => one.role = "tool" /\ one.answers = item.of
        /\ two.content = <<Picture(item.of)>>
        /\ ms = IF HasImage(item) /\ keep THEN <<one, two>> ELSE <<one>>
    BY <2>2 DEF ResultSays
  <2> HIDE DEF b, ms
  <2>4. b.messages = f.messages \o ms
    <3> HIDE DEF M, last
    <3> QED BY <2>1, <1>2 DEF Placements
  <2> DEFINE ps == Append(f.messages, one)
  <2> HIDE DEF M, item
  <2>5. ps \in Seq(M) /\ Len(ps) > 0 /\ ps[Len(ps)] = one
    BY <1>2, <2>2
  <2>6. Rendered(ps, s)
    BY <2>2, <2>3, <1>1, <1>2, AddsRendered
  <2>7. f.messages \o <<one>> = ps
    BY <1>2, <2>2
  <2>9. ps \in Seq(M) /\ f.messages \o <<one, two>> = Append(ps, two)
    BY <1>2, <2>2
  <2> HIDE DEF ps
  <2>8. Rendered(Append(ps, two), s)
    <3>1. \/ Says(two) \notin PairedToolCallIDs(s)
          \/ Len(ps) > 0 /\ two.content = <<Picture(Says(two))>> /\ ps[Len(ps)].answers = Says(two)
      BY <2>3, <2>5
    <3> QED BY <3>1, <2>2, <2>5, <2>6, AddsRendered
  <2>10. b.messages = ps \/ b.messages = Append(ps, two)
    <3>1. ms = <<one, two>> \/ ms = <<one>>
      BY <2>3
    <3> QED BY <3>1, <2>4, <2>7, <2>9
  <2> QED BY <2>6, <2>8, <2>10 DEF b, item
<1>5. CASE item.kind = "assistant"
  <2> DEFINE new  == ChatMessage("assistant", <<Text(item.of)>>)
             m    == attachReasoning(new, f.reasoning)
             last == Len(f.messages) + 1
  <2>1. b = [f EXCEPT !.messages = Append(@, m), !.reasoning = <<>>, !.last = last]
    BY <1>5 DEF PlaceItem, PlaceAssistant, f
  <2>2. new \in M /\ new.content = <<Text(item.of)>>
    BY <1>0, BlocksTyped, ChatMessageTyped DEF ChatMessage
  <2> HIDE DEF new
  <2>3. m \in M /\ m.content = <<Text(item.of)>>
    BY <2>2, <1>2, AttachTyped, AttachPasses
  <2> HIDE DEF b, m, M
  <2>4. b.messages = Append(f.messages, m)
    <3> HIDE DEF last
    <3> QED BY <2>1, <1>2 DEF Placements
  <2>5. Says(m) \notin Results(s)
    <3>1. Says(m) = item.of
      BY <2>3 DEF Says, Text
    <3> QED BY <3>1, <1>5, OnlyResultsStamps
  <2>6. Rendered(Append(f.messages, m), s)
    BY <2>3, <2>5, <1>1, <1>2, AddsRendered
  <2> QED BY <2>4, <2>6 DEF b
<1>6. CASE item.kind = "user"
  <2> DEFINE g == attachReasoningToPreviousAssistant(f)
             m == ChatMessage("user", convertContentBlocks(item, keep))
  <2>1. b = [g EXCEPT !.messages = Append(@, m), !.last = 0]
    BY <1>6 DEF PlaceItem, PlaceUser, f
  <2>2. Fits(g, N) /\ Rendered(g.messages, s)
    BY <1>1, SettledTyped, SettleRenders
  <2>3. m \in M /\ m.content = convertContentBlocks(item, keep)
    BY <1>0, BlocksTyped, ChatMessageTyped DEF ChatMessage
  <2>4. Says(m) = item.of
    <3> DEFINE c == convertContentBlocks(item, keep)
    <3>1. c # <<>> /\ c[1].of = item.of
      BY DEF convertContentBlocks, Text
    <3> HIDE DEF c, m
    <3> QED BY <3>1, <2>3 DEF Says, c
  <2> HIDE DEF b, g, m
  <2>5. g \in Placements(N) /\ g.messages \in Seq(M)
    BY <2>2 DEF Fits, Placements
  <2> HIDE DEF M
  <2>6. b.messages = Append(g.messages, m)
    BY <2>1, <2>5 DEF Placements
  <2>7. Says(m) \notin Results(s)
    BY <2>4, <1>6, OnlyResultsStamps
  <2>8. Rendered(Append(g.messages, m), s)
    BY <2>2, <2>3, <2>5, <2>7, AddsRendered
  <2> QED BY <2>6, <2>8 DEF b
<1> QED BY <1>3, <1>4, <1>5, <1>6

LEMMA PlacedRenders ==
  ASSUME NEW s \in Seq(Items), Unique(s), NEW keep
  PROVE  Rendered(Placed(s, PairedToolCallIDs(s), keep).messages, s)
<1> DEFINE N == CallNames(s)
           n == Len(s)
           paired == PairedToolCallIDs(s)
           R == {p \in Nat \X Placements(N) : Fits(p[2], N) /\ Rendered(p[2].messages, s)}
<1>0. 0 \notin Results(s)
  BY ResultsAreMarked
<1>1. n \in Nat /\ DOMAIN s = 1 .. n /\ \A i \in 1 .. n : s[i] \in Items
  OBVIOUS
<1>2. \A i, a : <<i, a>> \in R <=> i \in Nat /\ Fits(a, N) /\ Rendered(a.messages, s)
  BY DEF Fits
<1>3. \A i \in 1 .. n : s[i].kind = "call" => [of |-> s[i].of, name |-> s[i].tool.name] \in N
  BY <1>1 DEF CallNames
<1> HIDE DEF R, N, n, paired
<1>4. <<0, Start>> \in R
  <2>1. <<>> \in Seq(ChatMessages(N)) /\ <<>> \in Seq(N) /\ <<>> \in Seq(Nat)
        /\ 0 \in Nat /\ 0 <= Len(<<>>) /\ DOMAIN <<>> = {}
    OBVIOUS
  <2>2. Start \in Placements(N) /\ Start.last = 0 /\ Start.messages = <<>>
    BY <2>1 DEF Start, Placements
  <2>3. Fits(Start, N) /\ Rendered(Start.messages, s)
    BY <2>1, <2>2 DEF Fits, Rendered
  <2> QED BY <2>1, <2>3, <1>2
<1>5. ASSUME NEW i \in 1 .. n, NEW a, <<i - 1, a>> \in R
      PROVE  <<i, PlaceItem(a, s[i], paired, keep)>> \in R
  <2>1. Fits(a, N) /\ Rendered(a.messages, s)
    BY <1>5, <1>2
  <2>2. Fits(PlaceItem(a, s[i], paired, keep), N)
    BY <1>1, <1>3, <2>1, PlaceItemTyped
  <2>3. Rendered(PlaceItem(a, s[i], paired, keep).messages, s)
    BY <1>0, <1>1, <2>1, PlaceRenders DEF paired
  <2>4. i \in Nat
    BY <1>1
  <2> QED BY <2>2, <2>3, <2>4, <1>2
<1>6. <<n, Placed(s, paired, keep)>> \in R
  BY <1>1, <1>4, <1>5, PlacedByInduction
<1> QED BY <1>6, <1>2 DEF paired

LEMMA ChatRenders ==
  ASSUME NEW s \in Seq(Items), Unique(s), NEW opts
  PROVE  Rendered(inputToChatMessages(s, opts), s)
<1> DEFINE N == CallNames(s)
           p == Placed(s, PairedToolCallIDs(s), opts.images /\ ~opts.omit)
           f == flushPendingToolCalls(p)
           d == attachReasoningToPreviousAssistant(f)
           ms == d.messages
           b == backfillToolCallReasoningPlaceholders(ms)
<1>0. 0 \notin Results(s)
  BY ResultsAreMarked
<1>1. Fits(p, N) /\ Rendered(p.messages, s)
  BY PlacedFits, PlacedRenders
<1> HIDE DEF p, N
<1>2. Fits(f, N) /\ Rendered(f.messages, s)
  BY <1>0, <1>1, FlushTyped, FlushRenders
<1> HIDE DEF f
<1>3. Fits(d, N) /\ Rendered(ms, s)
  BY <1>2, SettledTyped, SettleRenders
<1>4. b = inputToChatMessages(s, opts)
  BY ChatMessagesOfPlaced DEF f, p
<1> HIDE DEF d
<1>5. ms \in Seq(ChatMessages(N))
  BY <1>3 DEF Fits, Placements
<1> HIDE DEF ms
<1>6. DOMAIN b = DOMAIN ms
  BY DEF backfillToolCallReasoningPlaceholders
<1>7. ASSUME NEW i \in DOMAIN ms
      PROVE  /\ b[i].content = ms[i].content /\ b[i].role = ms[i].role
             /\ b[i].answers = ms[i].answers
  <2>1. ms[i] \in ChatMessages(N)
    BY <1>5
  <2>2. \/ b[i] = ms[i]
        \/ b[i] = [ms[i] EXCEPT !.reasoning = <<Placeholder>>]
    BY DEF backfillToolCallReasoningPlaceholders
  <2> HIDE DEF b
  <2> QED BY <2>1, <2>2 DEF ChatMessages
<1> HIDE DEF b
<1>8. Rendered(b, s)
  BY <1>3, <1>5, <1>6, <1>7, JoinsRendered
<1> QED BY <1>4, <1>8

\* The items of the input at their places in the history: the same calls can be paired.
LEMMA FollowPairs ==
  ASSUME NEW x \in Seq(Items), NEW h \in Seq(Items), NEW g, Follow(g, x, h)
  PROVE  PairedToolCallIDs(x) = PairedToolCallIDs(h)
<1>1. /\ \A k \in DOMAIN x : g[k] \in DOMAIN h /\ x[k].kind = h[g[k]].kind /\ x[k].of = h[g[k]].of
      /\ \A i \in DOMAIN h : h[i].kind # "carrier" => \E k \in DOMAIN x : g[k] = i
  <2>1. DOMAIN x = 1 .. Len(x) /\ DOMAIN h = 1 .. Len(h)
    OBVIOUS
  <2> QED BY <2>1 DEF Follow
<1>2. ASSUME NEW w \in PairedToolCallIDs(x) PROVE w \in PairedToolCallIDs(h)
  <2>1. PICK k \in DOMAIN x : x[k].kind = "call" /\ x[k].of = w
    BY DEF PairedToolCallIDs
  <2> QED BY <2>1, <1>1 DEF PairedToolCallIDs
<1>3. ASSUME NEW w \in PairedToolCallIDs(h) PROVE w \in PairedToolCallIDs(x)
  <2>1. PICK p \in DOMAIN h : h[p].kind = "call" /\ h[p].of = w
    BY DEF PairedToolCallIDs
  <2>2. PICK k \in DOMAIN x : g[k] = p
    BY <2>1, <1>1
  <2> QED BY <2>1, <2>2, <1>1 DEF PairedToolCallIDs
<1> QED BY <1>2, <1>3

\* For a history of any length, a Messages result stands right after its call, and a
\* Chat result after the message that calls it, with nothing in between but other
\* tools' answers and the messages the proxy makes up for results: the model and the
\* user are not heard there (normalizeToolResultOrder in adapter.go,
\* flushPendingToolCalls and toolOutputToChatMessages in adapter_chat.go).
THEOREM ResultsFollowTheirCalls == Spec => []ResultsFollowCalls
<1>1. Polite => ResultsFollowCalls
  <2> SUFFICES ASSUME Polite, Sent PROVE ResultsFollowCalls
    BY DEF ResultsFollowCalls
  <2> DEFINE ms == body.messages
             R == Results(history)
             input == applyCodexToolContext(ctx, history)
  <2>1. history \in Seq(Items) /\ Unique(history) /\ Talk(history)
        /\ MadeOf(model, top, history, ctx, body)
    BY DEF Polite, Intact
  <2>2. PICK choice \in ChoicesOf(top, history) :
          \E opts : MadeFor(model, top, history, ctx, body, choice, opts)
    BY <2>1 DEF MadeOf
  <2>3. PICK opts : MadeFor(model, top, history, ctx, body, choice, opts)
    BY <2>2
  <2>4. ms = ConvertedOf(model, input, opts).messages
    BY <2>3, MadeFields
  <2>5. input \in Seq(Items) /\ \E g : Follow(g, input, history)
    BY <2>1, AppliedFollows
  <2>6. PICK g : Follow(g, input, history)
    BY <2>5
  <2>7. R = {history[i].of : i \in {j \in DOMAIN history : history[j].kind = "result"}}
    BY DEF Results
  <2> HIDE DEF input
  <2>8. CASE model.route = "messages"
    <3>1. Unique(input)
      BY <2>1, <2>5, <2>6, FollowKeepsTurns
    <3>2. ms = MessagesOf(input, opts)
      BY <2>4, <2>8 DEF ConvertedOf, MessagesOf
    <3>3. Pairing(ms)
      BY <2>5, <3>1, <3>2, MessagesPaired
    <3> QED BY <2>8, <3>3 DEF ResultsFollowCalls, Pairing, PairedWith
  <2>9. CASE model.route # "messages" /\ ~TextBeforeResult
    <3>1. ms = inputToChatMessages(input, opts)
      BY <2>4, <2>9 DEF ConvertedOf, responsesToChatRequest
    <3>2. Conversed(input) /\ Results(input) = R
      BY <2>1, <2>5, <2>6, <2>9, TalkConversed, FollowConversed
    <3>3. AnswersFollow(ms, input) /\ ms \in Seq(ChatMessages(CallNames(input)))
      BY <2>5, <3>1, <3>2, ChatAnswersFollow, ChatTyped
    <3>4. DOMAIN ms = 1 .. Len(ms) /\ Len(ms) \in Nat
      BY <3>3
    <3>5. 0 \notin R
      BY <2>1, ResultsAreMarked
    <3>7. Unique(input)
      BY <2>1, <2>5, <2>6, FollowKeepsTurns
    <3>8. Rendered(ms, input) /\ PairedToolCallIDs(input) = PairedToolCallIDs(history)
      BY <2>1, <2>5, <2>6, <3>1, <3>7, ChatRenders, FollowPairs
    <3> HIDE DEF ms, R
    <3>6. ASSUME NEW i \in DOMAIN ms, ms[i].role = "tool"
          PROVE  \E j \in 1 .. i - 1 :
                   /\ \E c \in ToSet(ms[j].calls) : c.of = ms[i].answers
                   /\ \A k \in j + 1 .. i - 1 : \E n \in R : Returned(ms, k, n)
      <4>1. PICK j \in DOMAIN ms : /\ j < i /\ ms[i].answers \in CallsOf(ms[j].calls)
                                   /\ Behind(ms, R, j, i)
        BY <3>2, <3>3, <3>6 DEF AnswersFollow, CalledBefore
      <4>2. j \in 1 .. i - 1 /\ i \in Nat /\ j \in Nat
        BY <3>4, <4>1
      <4>3. \E c \in ToSet(ms[j].calls) : c.of = ms[i].answers
        BY <4>1 DEF CallsOf
      <4>4. ASSUME NEW k \in j + 1 .. i - 1 PROVE \E n \in R : Returned(ms, k, n)
        <5>1. k \in DOMAIN ms /\ j < k /\ k < i
          BY <3>4, <4>2
        <5>2. Says(ms[k]) \in R
          BY <4>1, <5>1 DEF Behind
        <5>3. ms[k].content # <<>> /\ ms[k].content[1].of = Says(ms[k])
          BY <3>5, <5>2 DEF Says
        <5>4. \/ ms[k].role = "tool"
              \/ Says(ms[k]) \notin PairedToolCallIDs(history)
              \/ ms[k].content = <<Picture(Says(ms[k]))>> /\ ms[k - 1].answers = Says(ms[k])
          BY <3>2, <3>8, <5>1, <5>2 DEF Rendered
        <5> QED BY <5>2, <5>3, <5>4 DEF Returned
      <4> QED BY <4>2, <4>3, <4>4
    <3> QED BY <2>7, <2>9, <3>6 DEF ResultsFollowCalls, ms
  <2>10. CASE model.route # "messages" /\ TextBeforeResult
    BY <2>10 DEF ResultsFollowCalls
  <2> QED BY <2>8, <2>9, <2>10
<1> QED BY <1>1, StaysPolite, PTL
=============================================================================
