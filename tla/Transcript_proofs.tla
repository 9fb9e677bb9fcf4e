------------------------- MODULE Transcript_proofs --------------------------
(***************************************************************************)
(* That a request shows the whole history of a conversation, each thing    *)
(* once, in its order but for the results, and with the pictures that fit: *)
(* for any tools, any models and any length of the history.  First come    *)
(* lemmas about sequences that are put together of parts, then what each   *)
(* converter makes of an item, then the requests.                          *)
(***************************************************************************)
EXTENDS Conversation_proofs

-----------------------------------------------------------------------------
(* Sequences, one element after the other *)

LEMMA SeqByInduction ==
  ASSUME NEW S, NEW R, <<>> \in R, \A s \in Seq(S), e \in S : s \in R => Append(s, e) \in R
  PROVE  \A s \in Seq(S) : s \in R
<1> DEFINE Q == {n \in Nat : \A s \in Seq(S) : Len(s) = n => s \in R}
<1>1. 0 \in Q
  <2>1. \A s \in Seq(S) : Len(s) = 0 => s = <<>>
    OBVIOUS
  <2> QED BY <2>1
<1>2. ASSUME NEW n \in Nat, n \in Q PROVE n + 1 \in Q
  <2> SUFFICES ASSUME NEW s \in Seq(S), Len(s) = n + 1 PROVE s \in R
    OBVIOUS
  <2>1. s # <<>>
    OBVIOUS
  <2>2. PICK q \in Seq(S), e \in S : s = Append(q, e)
    BY <2>1, SequenceEmptyOrAppend
  <2>3. Len(q) = n
    BY <2>2, AppendProperties
  <2> QED BY <1>2, <2>2, <2>3
<1> HIDE DEF Q
<1>3. \A n \in Nat : n \in Q
  BY <1>1, <1>2, NumbersByInduction
<1>4. \A s \in Seq(S) : Len(s) \in Nat
  OBVIOUS
<1> QED BY <1>3, <1>4 DEF Q

LEMMA ConcatAppend ==
  ASSUME NEW V, NEW x \in Seq(V), NEW y \in Seq(V), NEW e \in V
  PROVE  x \o Append(y, e) = Append(x \o y, e)
<1>1. Append(y, e) = y \o <<e>> /\ <<e>> \in Seq(V) /\ x \o y \in Seq(V)
  BY AppendIsConcat, ConcatProperties
<1>2. Append(x \o y, e) = (x \o y) \o <<e>>
  BY <1>1, AppendIsConcat
<1> QED BY <1>1, <1>2, ConcatAssociative

LEMMA FlattenEmpty == FlattenSeq(<<>>) = <<>>
BY DEF FlattenSeq

LEMMA FlattenAppend ==
  ASSUME NEW V, NEW ss \in Seq(Seq(V)), NEW x \in Seq(V)
  PROVE  FlattenSeq(Append(ss, x)) = FlattenSeq(ss) \o x
<1> DEFINE n  == Len(ss)
           tt == Append(ss, x)
<1>1. n \in Nat /\ tt \in Seq(Seq(V)) /\ Len(tt) = n + 1 /\ tt[n + 1] = x
      /\ \A i \in 1 .. n : tt[i] = ss[i]
  BY AppendProperties
<1> HIDE DEF tt
<1>2. PICK f : Joins(f, tt, n + 1) /\ FlattenSeq(tt) = f[n + 1]
  <2>1. n + 1 \in Nat \ {0}
    BY <1>1
  <2> QED BY <1>1, <2>1, FlattenJoins
<1>3. \A i \in 1 .. n + 1 : f[i] = IF i = 1 THEN tt[i] ELSE f[i - 1] \o tt[i]
  BY <1>2 DEF Joins
<1>4. CASE n = 0
  <2>1. FlattenSeq(tt) = x
    BY <1>1, <1>2, <1>3, <1>4
  <2>2. ss = <<>>
    BY <1>4
  <2>3. FlattenSeq(ss) = <<>>
    BY <2>2, FlattenEmpty
  <2>4. <<>> \o x = x
    BY ConcatEmptySeq
  <2> QED BY <2>1, <2>3, <2>4 DEF tt
<1>5. CASE n # 0
  <2>1. PICK g : Joins(g, ss, n) /\ FlattenSeq(ss) = g[n]
    BY <1>1, <1>5, FlattenJoins
  <2>2. \A i \in 1 .. n : g[i] = IF i = 1 THEN ss[i] ELSE g[i - 1] \o ss[i]
    BY <2>1 DEF Joins
  <2> HIDE DEF n
  <2> DEFINE Q == {k \in Nat : k + 1 <= n => g[k + 1] = f[k + 1]}
  <2>3. 0 \in Q
    <3>1. 1 \in 1 .. n /\ 1 \in 1 .. n + 1
      BY <1>1, <1>5
    <3>2. g[1] = f[1]
      BY <3>1, <2>2, <1>3, <1>1
    <3> QED BY <3>2
  <2>4. ASSUME NEW k \in Nat, k \in Q PROVE k + 1 \in Q
    <3> SUFFICES ASSUME (k + 1) + 1 <= n PROVE g[(k + 1) + 1] = f[(k + 1) + 1]
      OBVIOUS
    <3> DEFINE j == k + 1
    <3>0. n \in Nat
      BY <1>1
    <3>1. j + 1 \in 1 .. n /\ j + 1 \in 1 .. n + 1 /\ j + 1 # 1 /\ (j + 1) - 1 = j /\ j <= n
      BY <3>0
    <3>2. g[j] = f[j]
      BY <2>4, <3>1
    <3> HIDE DEF j, Q
    <3>3. g[j + 1] = g[j] \o ss[j + 1]
      BY <3>1, <2>2
    <3>4. f[j + 1] = f[j] \o tt[j + 1]
      BY <3>1, <1>3
    <3>5. tt[j + 1] = ss[j + 1]
      BY <3>1, <1>1
    <3>6. g[j + 1] = f[j + 1]
      BY <3>2, <3>3, <3>4, <3>5
    <3> QED BY <3>6 DEF j
  <2> HIDE DEF Q
  <2>5. n - 1 \in Q /\ (n - 1) + 1 = n
    <3>1. n - 1 \in Nat /\ (n - 1) + 1 = n
      BY <1>1, <1>5
    <3> QED BY <3>1, <2>3, <2>4, NumbersByInduction
  <2>6. g[n] = f[n]
    BY <2>5, <1>1 DEF Q
  <2>7. f[n + 1] = f[n] \o x
    <3>0. n \in Nat /\ n # 0
      BY <1>1, <1>5 DEF n
    <3>1. n + 1 \in 1 .. n + 1 /\ n + 1 # 1 /\ (n + 1) - 1 = n
      BY <3>0
    <3> QED BY <3>1, <1>1, <1>3
  <2> QED BY <2>1, <2>6, <2>7, <1>2 DEF tt
<1> QED BY <1>4, <1>5

LEMMA FlattenConcat ==
  ASSUME NEW V, NEW a \in Seq(Seq(V)), NEW b \in Seq(Seq(V))
  PROVE  FlattenSeq(a \o b) = FlattenSeq(a) \o FlattenSeq(b)
<1> DEFINE R == {t \in Seq(Seq(V)) : FlattenSeq(a \o t) = FlattenSeq(a) \o FlattenSeq(t)}
<1>1. <<>> \in R
  <2>1. a \o <<>> = a /\ FlattenSeq(a) \o <<>> = FlattenSeq(a) /\ <<>> \in Seq(Seq(V))
    BY FlattenTyped, ConcatEmptySeq
  <2> QED BY <2>1, FlattenEmpty
<1>2. ASSUME NEW t \in Seq(Seq(V)), NEW e \in Seq(V), t \in R PROVE Append(t, e) \in R
  <2>1. Append(t, e) \in Seq(Seq(V)) /\ a \o t \in Seq(Seq(V))
    BY AppendProperties, ConcatProperties
  <2>2. a \o Append(t, e) = Append(a \o t, e)
    BY ConcatAppend
  <2>3. FlattenSeq(Append(a \o t, e)) = FlattenSeq(a \o t) \o e
    BY <2>1, FlattenAppend
  <2>4. FlattenSeq(Append(t, e)) = FlattenSeq(t) \o e
    BY FlattenAppend
  <2>5. FlattenSeq(a) \in Seq(V) /\ FlattenSeq(t) \in Seq(V)
    BY FlattenTyped
  <2>6. (FlattenSeq(a) \o FlattenSeq(t)) \o e = FlattenSeq(a) \o (FlattenSeq(t) \o e)
    BY <2>5, ConcatAssociative
  <2> QED BY <1>2, <2>1, <2>2, <2>3, <2>4, <2>6
<1> HIDE DEF R
<1>3. b \in R
  BY <1>1, <1>2, SeqByInduction
<1> QED BY <1>3 DEF R

\* The same elements, and as many.
Alike(x, y) == ToSet(x) = ToSet(y) /\ Len(x) = Len(y)

LEMMA ConcatToSet ==
  ASSUME NEW V, NEW h \in Seq(V), NEW g \in Seq(V)
  PROVE  ToSet(h \o g) = ToSet(h) \cup ToSet(g)
<1>1. ToSet(h \o g) \subseteq ToSet(h) \cup ToSet(g)
  BY ConcatElements
<1>2. /\ \A i \in DOMAIN h : i \in DOMAIN (h \o g) /\ (h \o g)[i] = h[i]
      /\ \A i \in DOMAIN g : Len(h) + i \in DOMAIN (h \o g) /\ (h \o g)[Len(h) + i] = g[i]
  BY ConcatPlaces
<1> DEFINE s == h \o g
<1>3. /\ \A i \in DOMAIN h : i \in DOMAIN s /\ s[i] = h[i]
      /\ \A i \in DOMAIN g : Len(h) + i \in DOMAIN s /\ s[Len(h) + i] = g[i]
  BY <1>2
<1> HIDE DEF s
<1>4. ToSet(h) \subseteq ToSet(s) /\ ToSet(g) \subseteq ToSet(s)
  BY <1>3 DEF ToSet
<1> QED BY <1>1, <1>4 DEF s

\* One of the sequences gets longer.
Longer(ss, i, y) == [ss EXCEPT ![i] = ss[i] \o y]

LEMMA LongerTyped ==
  ASSUME NEW V, NEW ss \in Seq(Seq(V)), NEW i \in DOMAIN ss, NEW y \in Seq(V)
  PROVE  /\ Longer(ss, i, y) \in Seq(Seq(V)) /\ Len(Longer(ss, i, y)) = Len(ss)
         /\ Longer(ss, i, y)[i] = ss[i] \o y
         /\ \A j \in 1 .. Len(ss) : j # i => Longer(ss, i, y)[j] = ss[j]
<1>1. i \in 1 .. Len(ss) /\ ss[i] \in Seq(V)
  OBVIOUS
<1> DEFINE e == ss[i] \o y
<1>2. e \in Seq(V)
  BY <1>1, ConcatProperties
<1>3. Longer(ss, i, y) = [ss EXCEPT ![i] = e]
  BY DEF Longer
<1> HIDE DEF e
<1>4. /\ [ss EXCEPT ![i] = e] \in Seq(Seq(V)) /\ Len([ss EXCEPT ![i] = e]) = Len(ss)
      /\ \A j \in 1 .. Len(ss) : [ss EXCEPT ![i] = e][j] = IF j = i THEN e ELSE ss[j]
  BY <1>1, <1>2, ExceptSeq
<1> QED BY <1>3, <1>4 DEF e

LEMMA LongerAppend ==
  ASSUME NEW V, NEW t \in Seq(Seq(V)), NEW e \in Seq(V), NEW y \in Seq(V),
         NEW k \in 1 .. Len(t) + 1
  PROVE  /\ k \in DOMAIN t => Longer(Append(t, e), k, y) = Append(Longer(t, k, y), e)
         /\ k \notin DOMAIN t => Longer(Append(t, e), k, y) = Append(t, e \o y)
<1> DEFINE n == Len(t)
           s == Append(t, e)
           l == Longer(s, k, y)
           u == Longer(t, k, y)
           r == IF k \in DOMAIN t THEN Append(u, e) ELSE Append(t, e \o y)
<1>1. /\ n \in Nat /\ s \in Seq(Seq(V)) /\ Len(s) = n + 1 /\ s[n + 1] = e
      /\ DOMAIN t = 1 .. n /\ \A j \in 1 .. n : s[j] = t[j]
  BY AppendProperties
<1>2. k \in DOMAIN s
  BY <1>1
<1> HIDE DEF s
<1>3. /\ l \in Seq(Seq(V)) /\ Len(l) = n + 1 /\ l[k] = s[k] \o y
      /\ \A j \in 1 .. n + 1 : j # k => l[j] = s[j]
  <2>1. s \in Seq(Seq(V)) /\ Len(s) = n + 1
    BY <1>1
  <2> HIDE DEF n
  <2>2. \A i \in DOMAIN s :
           /\ Longer(s, i, y) \in Seq(Seq(V)) /\ Len(Longer(s, i, y)) = Len(s)
           /\ Longer(s, i, y)[i] = s[i] \o y
           /\ \A j \in 1 .. Len(s) : j # i => Longer(s, i, y)[j] = s[j]
    BY <2>1, LongerTyped
  <2> QED BY <2>1, <2>2, <1>2
<1> HIDE DEF l
<1>4. r \in Seq(Seq(V)) /\ Len(r) = n + 1 /\ \A j \in 1 .. n + 1 : l[j] = r[j]
  <2>1. CASE k \in DOMAIN t
    <3>1. /\ u \in Seq(Seq(V)) /\ Len(u) = n
          /\ u[k] = t[k] \o y /\ \A j \in 1 .. n : j # k => u[j] = t[j]
      <4> HIDE DEF r, l
      <4>1. \A i \in DOMAIN t :
              /\ Longer(t, i, y) \in Seq(Seq(V)) /\ Len(Longer(t, i, y)) = Len(t)
              /\ Longer(t, i, y)[i] = t[i] \o y
              /\ \A j \in 1 .. Len(t) : j # i => Longer(t, i, y)[j] = t[j]
        BY LongerTyped
      <4> QED BY <4>1, <2>1
    <3> HIDE DEF u
    <3>2. /\ Append(u, e) \in Seq(Seq(V)) /\ Len(Append(u, e)) = n + 1
          /\ Append(u, e)[n + 1] = e /\ \A j \in 1 .. n : Append(u, e)[j] = u[j]
      <4>0. u \in Seq(Seq(V)) /\ Len(u) = n
        BY <3>1
      <4> HIDE DEF n, r, l
      <4> QED BY <4>0, AppendProperties
    <3>3. r = Append(u, e)
      BY <2>1
    <3> HIDE DEF r, n
    <3>4. ASSUME NEW j \in 1 .. n + 1 PROVE l[j] = r[j]
      <4>1. (j = n + 1 /\ j # k) \/ j \in 1 .. n
        BY <2>1, <1>1
      <4>2. CASE j = n + 1 /\ j # k
        BY <4>2, <1>1, <1>3, <3>2, <3>3
      <4>3. CASE j \in 1 .. n
        BY <4>3, <2>1, <1>1, <1>3, <3>1, <3>2, <3>3
      <4> QED BY <4>1, <4>2, <4>3
    <3> QED BY <3>2, <3>3, <3>4
  <2>2. CASE k \notin DOMAIN t
    <3>0. k = n + 1
      BY <2>2, <1>1
    <3>1. e \o y \in Seq(V)
      BY ConcatProperties
    <3> DEFINE z == e \o y
    <3>2. z \in Seq(V)
      BY <3>1
    <3>3. r = Append(t, z)
      BY <2>2
    <3> HIDE DEF z, r
    <3>4. Append(t, z) \in Seq(Seq(V)) /\ Len(Append(t, z)) = n + 1
          /\ Append(t, z)[n + 1] = z /\ \A j \in 1 .. n : Append(t, z)[j] = t[j]
      BY <3>2, AppendProperties
    <3>5. s[k] \o y = z
      BY <3>0, <1>1 DEF z
    <3> HIDE DEF n
    <3>6. ASSUME NEW j \in 1 .. n + 1 PROVE l[j] = r[j]
      <4>1. j = n + 1 \/ (j \in 1 .. n /\ j # k)
        BY <3>0, <1>1
      <4> QED BY <4>1, <1>1, <1>3, <3>0, <3>3, <3>4, <3>5
    <3> QED BY <3>3, <3>4, <3>6
  <2> QED BY <2>1, <2>2
<1> HIDE DEF r
<1>5. l = r
  BY <1>3, <1>4, SeqEqual
<1>6. l = IF k \in DOMAIN t THEN Append(u, e) ELSE Append(t, e \o y)
  BY <1>5 DEF r
<1> HIDE DEF u
<1>7. (k \in DOMAIN t => l = Append(u, e)) /\ (k \notin DOMAIN t => l = Append(t, e \o y))
  BY <1>6
<1> QED BY <1>7 DEF l, s, u

LEMMA LongerLast ==
  ASSUME NEW V, NEW t \in Seq(Seq(V)), NEW e \in Seq(V), NEW y \in Seq(V),
         NEW k \in 1 .. Len(t) + 1, k \notin DOMAIN t
  PROVE  Longer(Append(t, e), k, y) = Append(t, e \o y)
BY LongerAppend

LEMMA GrowsByOne ==
  ASSUME NEW V, NEW t \in Seq(Seq(V)), NEW e \in Seq(V), NEW y \in Seq(V),
         \A j \in DOMAIN t : Alike(FlattenSeq(Longer(t, j, y)), FlattenSeq(t) \o y),
         NEW k \in DOMAIN Append(t, e)
  PROVE  /\ Alike(FlattenSeq(Longer(Append(t, e), k, y)), FlattenSeq(Append(t, e)) \o y)
         /\ k = Len(Append(t, e)) =>
              FlattenSeq(Longer(Append(t, e), k, y)) = FlattenSeq(Append(t, e)) \o y
<1> DEFINE n == Len(t)
           s == Append(t, e)
           f == FlattenSeq(t)
<1>1. /\ n \in Nat /\ s \in Seq(Seq(V)) /\ Len(s) = n + 1
      /\ DOMAIN s = 1 .. n + 1 /\ DOMAIN t = 1 .. n
  BY AppendProperties
<1>2. FlattenSeq(s) = f \o e /\ f \in Seq(V) /\ f \o e \in Seq(V)
  BY FlattenAppend, FlattenTyped, ConcatProperties
<1>3. (f \o e) \o y = f \o (e \o y) /\ e \o y \in Seq(V)
  <2>0. f \in Seq(V)
    BY <1>2
  <2> HIDE DEF f
  <2>1. (f \o e) \o y = f \o (e \o y)
    BY <2>0, ConcatAssociative
  <2>2. e \o y \in Seq(V)
    BY ConcatProperties
  <2> QED BY <2>1, <2>2
<1>10. k \in 1 .. n + 1
  BY <1>1
<1>11. CASE k \notin DOMAIN t
  <2>1. Longer(s, k, y) = Append(t, e \o y)
    <3>1. k \in 1 .. Len(t) + 1
      BY <1>10
    <3> HIDE DEF f, n
    <3> QED BY <3>1, <1>11, LongerLast DEF s
  <2>2. FlattenSeq(Longer(s, k, y)) = f \o (e \o y)
    BY <1>3, <2>1, FlattenAppend
  <2> HIDE DEF f, s
  <2>3. FlattenSeq(Longer(s, k, y)) = FlattenSeq(s) \o y
    BY <2>2, <1>2, <1>3
  <2> QED BY <2>3 DEF Alike, s
<1>12. CASE k \in DOMAIN t
  <2> DEFINE u == Longer(t, k, y)
             g == FlattenSeq(u)
  <2>1. Longer(s, k, y) = Append(u, e)
    BY <1>10, <1>12, LongerAppend
  <2>2. u \in Seq(Seq(V))
    BY <1>12, LongerTyped
  <2>3. Alike(g, f \o y)
    BY <1>12
  <2> HIDE DEF u, f
  <2>4. g \in Seq(V) /\ FlattenSeq(Longer(s, k, y)) = g \o e
    BY <2>1, <2>2, FlattenTyped, FlattenAppend
  <2> HIDE DEF g
  <2>5. f \o y \in Seq(V)
    BY <1>2, ConcatProperties
  <2>6. /\ ToSet(g \o e) = ToSet(g) \cup ToSet(e)
        /\ ToSet(f \o y) = ToSet(f) \cup ToSet(y)
        /\ ToSet((f \o e) \o y) = ToSet(f \o e) \cup ToSet(y)
        /\ ToSet(f \o e) = ToSet(f) \cup ToSet(e)
    <3>1. ToSet(g \o e) = ToSet(g) \cup ToSet(e)
      BY <2>4, ConcatToSet
    <3>2. ToSet(f \o y) = ToSet(f) \cup ToSet(y)
      BY <1>2, ConcatToSet
    <3>3. ToSet((f \o e) \o y) = ToSet(f \o e) \cup ToSet(y)
      <4>1. f \o e \in Seq(V)
        BY <1>2
      <4> QED BY <4>1, ConcatToSet
    <3>4. ToSet(f \o e) = ToSet(f) \cup ToSet(e)
      BY <1>2, ConcatToSet
    <3> QED BY <3>1, <3>2, <3>3, <3>4
  <2>7. /\ Len(g \o e) = Len(g) + Len(e)
        /\ Len(f \o y) = Len(f) + Len(y)
        /\ Len((f \o e) \o y) = Len(f \o e) + Len(y)
        /\ Len(f \o e) = Len(f) + Len(e)
        /\ Len(f) \in Nat /\ Len(e) \in Nat /\ Len(y) \in Nat /\ Len(g) \in Nat
    BY <1>2, <2>4, <2>5, ConcatProperties
  <2>8. ToSet(g \o e) = ToSet((f \o e) \o y)
    BY <2>3, <2>6 DEF Alike
  <2>9. Len(g \o e) = Len((f \o e) \o y)
    BY <2>3, <2>7 DEF Alike
  <2>10. k # Len(s)
    BY <1>1, <1>12
  <2> QED BY <2>4, <2>8, <2>9, <2>10, <1>2 DEF Alike
<1> QED BY <1>11, <1>12

LEMMA FlattenGrows ==
  ASSUME NEW V, NEW ss \in Seq(Seq(V)), NEW i \in DOMAIN ss, NEW y \in Seq(V)
  PROVE  /\ Alike(FlattenSeq(Longer(ss, i, y)), FlattenSeq(ss) \o y)
         /\ i = Len(ss) => FlattenSeq(Longer(ss, i, y)) = FlattenSeq(ss) \o y
<1> DEFINE R == {t \in Seq(Seq(V)) : \A k \in DOMAIN t :
                   /\ Alike(FlattenSeq(Longer(t, k, y)), FlattenSeq(t) \o y)
                   /\ k = Len(t) => FlattenSeq(Longer(t, k, y)) = FlattenSeq(t) \o y}
<1>1. <<>> \in R
  <2>1. DOMAIN <<>> = {} /\ <<>> \in Seq(Seq(V))
    OBVIOUS
  <2> QED BY <2>1
<1>2. ASSUME NEW t \in Seq(Seq(V)), NEW e \in Seq(V), t \in R PROVE Append(t, e) \in R
  <2>1. /\ Append(t, e) \in Seq(Seq(V))
        /\ \A k \in DOMAIN t : Alike(FlattenSeq(Longer(t, k, y)), FlattenSeq(t) \o y)
    BY <1>2, AppendProperties
  <2>2. \A k \in DOMAIN Append(t, e) :
          /\ Alike(FlattenSeq(Longer(Append(t, e), k, y)), FlattenSeq(Append(t, e)) \o y)
          /\ k = Len(Append(t, e)) =>
               FlattenSeq(Longer(Append(t, e), k, y)) = FlattenSeq(Append(t, e)) \o y
    BY <2>1, GrowsByOne
  <2> QED BY <2>1, <2>2
<1> HIDE DEF R
<1>3. ss \in R
  BY <1>1, <1>2, SeqByInduction
<1> QED BY <1>3 DEF R

-----------------------------------------------------------------------------
(* A sequence for every element of a sequence *)

\* f has a value in U for every element of V.
Maps(f, V, U) == f \in [V -> U]

Each(f, s) == [i \in DOMAIN s |-> f[s[i]]]

\* What f makes of the elements of s, one after the other.
Spread(f, s) == FlattenSeq(Each(f, s))

LEMMA EachTyped ==
  ASSUME NEW V, NEW U, NEW f, Maps(f, V, U), NEW s \in Seq(V)
  PROVE  /\ Each(f, s) \in Seq(U) /\ Len(Each(f, s)) = Len(s)
         /\ DOMAIN Each(f, s) = DOMAIN s /\ \A i \in DOMAIN s : Each(f, s)[i] = f[s[i]]
<1> DEFINE x == Each(f, s)
<1>1. Len(s) \in Nat /\ DOMAIN s = 1 .. Len(s) /\ \A i \in DOMAIN s : s[i] \in V
  OBVIOUS
<1>2. DOMAIN x = DOMAIN s /\ \A i \in DOMAIN s : x[i] = f[s[i]]
  BY DEF Each
<1>3. x = [i \in 1 .. Len(s) |-> f[s[i]]]
  BY <1>1 DEF Each
<1>4. x \in Seq(U)
  <2>1. \A i \in 1 .. Len(s) : f[s[i]] \in U
    BY <1>1 DEF Maps
  <2> QED BY <1>1, <1>3, <2>1, IsASeq
<1> HIDE DEF x
<1>5. Len(x) = Len(s)
  BY <1>1, <1>2, <1>4
<1> QED BY <1>2, <1>4, <1>5 DEF x

LEMMA EachAppend ==
  ASSUME NEW V, NEW U, NEW f, Maps(f, V, U), NEW s \in Seq(V), NEW e \in V
  PROVE  Each(f, Append(s, e)) = Append(Each(f, s), f[e])
<1> DEFINE n == Len(s)
           t == Append(s, e)
           x == Each(f, t)
           y == Each(f, s)
           z == Append(y, f[e])
<1>1. /\ n \in Nat /\ t \in Seq(V) /\ Len(t) = n + 1 /\ t[n + 1] = e
      /\ DOMAIN t = 1 .. n + 1 /\ DOMAIN s = 1 .. n /\ \A i \in 1 .. n : t[i] = s[i]
  BY AppendProperties
<1> HIDE DEF t
<1>2. x \in Seq(U) /\ Len(x) = n + 1 /\ \A i \in 1 .. n + 1 : x[i] = f[t[i]]
  <2>1. /\ x \in Seq(U) /\ Len(x) = Len(t)
        /\ \A i \in DOMAIN t : x[i] = f[t[i]]
    BY <1>1, EachTyped
  <2> HIDE DEF x
  <2> QED BY <2>1, <1>1
<1>3. y \in Seq(U) /\ Len(y) = n /\ \A i \in 1 .. n : y[i] = f[s[i]]
  <2>1. /\ y \in Seq(U) /\ Len(y) = Len(s)
        /\ \A i \in DOMAIN s : y[i] = f[s[i]]
    BY EachTyped
  <2> HIDE DEF y
  <2> QED BY <2>1, <1>1
<1>4. f[e] \in U
  BY DEF Maps
<1> HIDE DEF x, y, n
<1>5. z \in Seq(U) /\ Len(z) = n + 1 /\ z[n + 1] = f[e] /\ \A i \in 1 .. n : z[i] = y[i]
  BY <1>3, <1>4, AppendProperties
<1> HIDE DEF z
<1>6. \A i \in 1 .. n + 1 : x[i] = z[i]
  <2> SUFFICES ASSUME NEW i \in 1 .. n + 1 PROVE x[i] = z[i]
    OBVIOUS
  <2>1. i \in 1 .. n \/ i = n + 1
    BY <1>1
  <2> QED BY <2>1, <1>1, <1>2, <1>3, <1>5
<1>7. x = z
  BY <1>2, <1>5, <1>6, SeqEqual
<1> QED BY <1>7 DEF x, y, z, t

LEMMA SpreadTyped ==
  ASSUME NEW V, NEW U, NEW f, Maps(f, V, Seq(U)), NEW s \in Seq(V)
  PROVE  Spread(f, s) \in Seq(U)
<1>1. Each(f, s) \in Seq(Seq(U))
  BY EachTyped
<1> QED BY <1>1, FlattenTyped DEF Spread

LEMMA SpreadEmpty == \A f : Spread(f, <<>>) = <<>>
<1>1. \A f : Each(f, <<>>) = <<>>
  BY DEF Each
<1> QED BY <1>1, FlattenEmpty DEF Spread

LEMMA SpreadAppend ==
  ASSUME NEW V, NEW U, NEW f, Maps(f, V, Seq(U)), NEW s \in Seq(V), NEW e \in V
  PROVE  Spread(f, Append(s, e)) = Spread(f, s) \o f[e]
<1>1. Each(f, Append(s, e)) = Append(Each(f, s), f[e])
  BY EachAppend
<1>2. f[e] \in Seq(U)
  BY DEF Maps
<1>3. Each(f, s) \in Seq(Seq(U))
  BY EachTyped
<1> QED BY <1>1, <1>2, <1>3, FlattenAppend DEF Spread

LEMMA SpreadOne ==
  ASSUME NEW V, NEW U, NEW f, Maps(f, V, Seq(U)), NEW e \in V
  PROVE  Spread(f, <<e>>) = f[e]
<1>1. <<e>> = Append(<<>>, e) /\ <<>> \in Seq(V) /\ f[e] \in Seq(U)
  BY DEF Maps
<1>2. Spread(f, <<e>>) = Spread(f, <<>>) \o f[e]
  BY <1>1, SpreadAppend
<1> QED BY <1>1, <1>2, SpreadEmpty, ConcatEmptySeq

LEMMA SpreadConcat ==
  ASSUME NEW V, NEW U, NEW f, Maps(f, V, Seq(U)), NEW s \in Seq(V), NEW t \in Seq(V)
  PROVE  Spread(f, s \o t) = Spread(f, s) \o Spread(f, t)
<1>1. Each(f, s \o t) = Each(f, s) \o Each(f, t)
  <2> DEFINE R == {q \in Seq(V) : Each(f, s \o q) = Each(f, s) \o Each(f, q)}
  <2>1. <<>> \in R
    <3>0. Each(f, s) \in Seq(Seq(U))
      BY EachTyped
    <3>1. Each(f, <<>>) = <<>> /\ Each(f, s) \in Seq(Seq(U)) /\ <<>> \in Seq(V)
      BY <3>0 DEF Each
    <3>2. s \o <<>> = s /\ Each(f, s) \o <<>> = Each(f, s)
      BY <3>1, ConcatEmptySeq
    <3> QED BY <3>1, <3>2
  <2>2. ASSUME NEW q \in Seq(V), NEW e \in V, q \in R PROVE Append(q, e) \in R
    <3>1. Append(q, e) \in Seq(V) /\ s \o q \in Seq(V)
      BY AppendProperties, ConcatProperties
    <3>2. s \o Append(q, e) = Append(s \o q, e)
      BY ConcatAppend
    <3>3. Each(f, Append(s \o q, e)) = Append(Each(f, s \o q), f[e])
      <4> DEFINE w == s \o q
      <4>1. w \in Seq(V)
        BY <3>1
      <4> HIDE DEF w
      <4>2. Each(f, Append(w, e)) = Append(Each(f, w), f[e])
        BY <4>1, EachAppend
      <4> QED BY <4>2 DEF w
    <3>4. Each(f, Append(q, e)) = Append(Each(f, q), f[e])
      BY EachAppend
    <3>5. Each(f, s) \in Seq(Seq(U)) /\ Each(f, q) \in Seq(Seq(U)) /\ f[e] \in Seq(U)
      <4>1. f[e] \in Seq(U)
        BY DEF Maps
      <4> QED BY <4>1, EachTyped
    <3>6. Each(f, s) \o Append(Each(f, q), f[e]) = Append(Each(f, s) \o Each(f, q), f[e])
      BY <3>5, ConcatAppend
    <3> QED BY <2>2, <3>1, <3>2, <3>3, <3>4, <3>6
  <2> HIDE DEF R
  <2>3. t \in R
    BY <2>1, <2>2, SeqByInduction
  <2> QED BY <2>3 DEF R
<1>2. Each(f, s) \in Seq(Seq(U)) /\ Each(f, t) \in Seq(Seq(U))
  BY EachTyped
<1> QED BY <1>1, <1>2, FlattenConcat DEF Spread

\* A sequence given by its elements.
LEMMA SpreadIs ==
  ASSUME NEW V, NEW U, NEW f, Maps(f, V, U), NEW s \in Seq(V), NEW q,
         q = [i \in DOMAIN s |-> q[i]], \A i \in DOMAIN s : q[i] = f[s[i]]
  PROVE  FlattenSeq(q) = Spread(f, s)
<1>1. q = Each(f, s)
  BY DEF Each
<1> QED BY <1>1 DEF Spread

\* What g makes of a sequence that is put together of parts.
LEMMA SpreadFlatten ==
  ASSUME NEW V, NEW U, NEW f, Maps(f, V, Seq(U)), NEW ss \in Seq(Seq(V)),
         NEW q, q = [i \in DOMAIN ss |-> q[i]], \A i \in DOMAIN ss : q[i] = Spread(f, ss[i])
  PROVE  Spread(f, FlattenSeq(ss)) = FlattenSeq(q)
<1> DEFINE F == [x \in Seq(V) |-> Spread(f, x)]
           R == {t \in Seq(Seq(V)) : Spread(f, FlattenSeq(t)) = Spread(F, t)}
<1>1. Maps(F, Seq(V), Seq(U)) /\ \A x \in Seq(V) : F[x] = Spread(f, x)
  BY SpreadTyped DEF Maps
<1> HIDE DEF F
<1>2. <<>> \in R
  BY FlattenEmpty, SpreadEmpty
<1>3. ASSUME NEW t \in Seq(Seq(V)), NEW e \in Seq(V), t \in R PROVE Append(t, e) \in R
  <2>1. FlattenSeq(Append(t, e)) = FlattenSeq(t) \o e /\ FlattenSeq(t) \in Seq(V)
    BY FlattenAppend, FlattenTyped
  <2>2. Spread(f, FlattenSeq(t) \o e) = Spread(f, FlattenSeq(t)) \o Spread(f, e)
    <3> DEFINE x == FlattenSeq(t)
    <3>1. x \in Seq(V)
      BY <2>1
    <3> HIDE DEF x
    <3>2. Spread(f, x \o e) = Spread(f, x) \o Spread(f, e)
      BY <3>1, SpreadConcat
    <3> QED BY <3>2 DEF x
  <2>3. Spread(F, Append(t, e)) = Spread(F, t) \o F[e]
    <3> DEFINE X == Seq(V)
    <3>1. Maps(F, X, Seq(U)) /\ t \in Seq(X) /\ e \in X
      BY <1>1
    <3> HIDE DEF X
    <3> QED BY <3>1, SpreadAppend
  <2>4. Append(t, e) \in Seq(Seq(V))
    BY AppendProperties
  <2> QED BY <1>1, <1>3, <2>1, <2>2, <2>3, <2>4
<1> HIDE DEF R
<1>4. ss \in R
  BY <1>2, <1>3, SeqByInduction
<1>5. Spread(f, FlattenSeq(ss)) = Spread(F, ss)
  BY <1>4 DEF R
<1>6. \A i \in DOMAIN ss : q[i] = F[ss[i]]
  BY <1>1
<1>7. FlattenSeq(q) = Spread(F, ss)
  <2> DEFINE X == Seq(V)
             Y == Seq(U)
  <2>1. Maps(F, X, Y) /\ ss \in Seq(X)
    BY <1>1
  <2> HIDE DEF X, Y
  <2> QED BY <1>6, <2>1, SpreadIs
<1> QED BY <1>5, <1>7

LEMMA SpreadTwice ==
  ASSUME NEW V, NEW U, NEW W, NEW f, Maps(f, V, Seq(U)), NEW g, Maps(g, U, Seq(W)),
         NEW h, Maps(h, V, Seq(W)), \A v \in V : h[v] = Spread(g, f[v]), NEW s \in Seq(V)
  PROVE  Spread(g, Spread(f, s)) = Spread(h, s)
<1> DEFINE ss == Each(f, s)
           q  == Each(h, s)
<1>1. ss \in Seq(Seq(U)) /\ DOMAIN ss = DOMAIN s /\ \A i \in DOMAIN s : ss[i] = f[s[i]]
  <2> DEFINE X == Seq(U)
  <2>1. Maps(f, V, X)
    OBVIOUS
  <2> HIDE DEF X
  <2>2. ss \in Seq(X) /\ DOMAIN ss = DOMAIN s /\ \A i \in DOMAIN s : ss[i] = f[s[i]]
    BY <2>1, EachTyped
  <2> QED BY <2>2 DEF X
<1>2. q = [i \in DOMAIN s |-> q[i]] /\ \A i \in DOMAIN s : q[i] = h[s[i]]
  BY DEF Each
<1> HIDE DEF ss, q
<1>3. \A i \in DOMAIN s : s[i] \in V
  OBVIOUS
<1>4. q = [i \in DOMAIN ss |-> q[i]] /\ \A i \in DOMAIN ss : q[i] = Spread(g, ss[i])
  BY <1>1, <1>2, <1>3
<1>5. Spread(g, FlattenSeq(ss)) = FlattenSeq(q)
  <2>1. ss \in Seq(Seq(U))
    BY <1>1
  <2> QED BY <1>4, <2>1, SpreadFlatten
<1> QED BY <1>5 DEF Spread, ss, q

LEMMA SpreadNothing ==
  ASSUME NEW V, NEW U, NEW f, Maps(f, V, Seq(U)), NEW s \in Seq(V),
         \A v \in ToSet(s) : f[v] = <<>>
  PROVE  Spread(f, s) = <<>>
<1> DEFINE R == {t \in Seq(V) : (\A v \in ToSet(t) : f[v] = <<>>) => Spread(f, t) = <<>>}
<1>1. <<>> \in R
  BY SpreadEmpty
<1>2. ASSUME NEW t \in Seq(V), NEW e \in V, t \in R PROVE Append(t, e) \in R
  <2>0. Append(t, e) \in Seq(V)
    BY AppendProperties
  <2> SUFFICES ASSUME \A v \in ToSet(Append(t, e)) : f[v] = <<>>
               PROVE  Spread(f, Append(t, e)) = <<>>
    BY <2>0
  <2>1. ToSet(Append(t, e)) = ToSet(t) \cup {e}
    <3>1. <<e>> \in Seq(V) /\ ToSet(<<e>>) = {e} /\ Append(t, e) = t \o <<e>>
      BY AppendIsConcat DEF ToSet
    <3> DEFINE o == <<e>>
    <3>2. o \in Seq(V) /\ ToSet(o) = {e} /\ Append(t, e) = t \o o
      BY <3>1
    <3> HIDE DEF o
    <3>3. ToSet(t \o o) = ToSet(t) \cup ToSet(o)
      BY <3>2, ConcatToSet
    <3> QED BY <3>2, <3>3
  <2>2. Spread(f, t) = <<>> /\ f[e] = <<>>
    BY <1>2, <2>1
  <2>3. Spread(f, Append(t, e)) = Spread(f, t) \o f[e]
    BY SpreadAppend
  <2> QED BY <2>2, <2>3
<1> HIDE DEF R
<1>3. s \in R
  BY <1>1, <1>2, SeqByInduction
<1> QED BY <1>3 DEF R

\* What comes out, and nothing else.
LEMMA SpreadToSet ==
  ASSUME NEW V, NEW U, NEW f, Maps(f, V, Seq(U)), NEW s \in Seq(V)
  PROVE  ToSet(Spread(f, s)) = UNION {ToSet(f[v]) : v \in ToSet(s)}
<1> DEFINE ss == Each(f, s)
<1>1. ss \in Seq(Seq(U)) /\ DOMAIN ss = DOMAIN s /\ \A i \in DOMAIN s : ss[i] = f[s[i]]
  <2> DEFINE X == Seq(U)
  <2>1. Maps(f, V, X)
    OBVIOUS
  <2> HIDE DEF X
  <2>2. ss \in Seq(X) /\ DOMAIN ss = DOMAIN s /\ \A i \in DOMAIN s : ss[i] = f[s[i]]
    BY <2>1, EachTyped
  <2> QED BY <2>2 DEF X
<1> HIDE DEF ss
<1>2. ASSUME NEW x \in ToSet(FlattenSeq(ss)) PROVE \E v \in ToSet(s) : x \in ToSet(f[v])
  <2>1. PICK i \in DOMAIN ss : x \in ToSet(ss[i])
    BY <1>1, FlattenElements
  <2>2. i \in DOMAIN s /\ s[i] \in ToSet(s) /\ x \in ToSet(f[s[i]])
    BY <2>1, <1>1 DEF ToSet
  <2> QED BY <2>2
<1>3. ASSUME NEW v \in ToSet(s), NEW x \in ToSet(f[v]) PROVE x \in ToSet(FlattenSeq(ss))
  <2>1. PICK i \in DOMAIN s : s[i] = v
    BY DEF ToSet
  <2>2. i \in DOMAIN ss /\ ss[i] = f[v]
    BY <1>1, <2>1
  <2>3. PICK j \in DOMAIN ss[i] : ss[i][j] = x
    BY <2>2 DEF ToSet
  <2> QED BY <1>1, <2>2, <2>3, FlattenKeeps
<1>4. FlattenSeq(ss) = Spread(f, s)
  BY DEF Spread, ss
<1> QED BY <1>2, <1>3, <1>4

-----------------------------------------------------------------------------
(* Sequences without repetition *)

Distinct(s) == \A j, k \in DOMAIN s : s[j] = s[k] => j = k

LEMMA DistinctConcat ==
  ASSUME NEW V, NEW x \in Seq(V), NEW y \in Seq(V), Distinct(x), Distinct(y),
         ToSet(x) \cap ToSet(y) = {}
  PROVE  Distinct(x \o y)
<1> DEFINE s == x \o y
           n == Len(x)
<1>1. /\ n \in Nat /\ DOMAIN s \subseteq Nat
      /\ \A i \in DOMAIN s : \/ i \in DOMAIN x /\ s[i] = x[i]
                             \/ i - n \in DOMAIN y /\ i > n /\ s[i] = y[i - n]
  BY ConcatPlaces
<1> HIDE DEF s, n
<1>2. \A i \in DOMAIN x, j \in DOMAIN y : x[i] # y[j]
  BY DEF ToSet
<1> SUFFICES ASSUME NEW j \in DOMAIN s, NEW k \in DOMAIN s, s[j] = s[k] PROVE j = k
  BY DEF Distinct, s
<1>3. CASE j \in DOMAIN x /\ s[j] = x[j]
  <2>1. k \in DOMAIN x /\ s[k] = x[k]
    BY <1>1, <1>2, <1>3
  <2> QED BY <1>3, <2>1 DEF Distinct
<1>4. CASE j - n \in DOMAIN y /\ j > n /\ s[j] = y[j - n]
  <2>1. k - n \in DOMAIN y /\ k > n /\ s[k] = y[k - n]
    BY <1>1, <1>2, <1>4
  <2>2. j - n = k - n
    BY <1>4, <2>1 DEF Distinct
  <2>3. j \in Nat /\ k \in Nat
    BY <1>1
  <2> QED BY <1>1, <2>2, <2>3
<1> QED BY <1>1, <1>3, <1>4

LEMMA OneDistinct == Distinct(<<>>) /\ \A e : Distinct(<<e>>) /\ ToSet(<<e>>) = {e}
BY DEF Distinct, ToSet

LEMMA SpreadDistinct ==
  ASSUME NEW V, NEW U, NEW f, Maps(f, V, Seq(U)), NEW s \in Seq(V), Distinct(s),
         \A v \in V : Distinct(f[v]),
         \A v, w \in V : v # w => ToSet(f[v]) \cap ToSet(f[w]) = {}
  PROVE  Distinct(Spread(f, s))
<1> DEFINE R == {t \in Seq(V) : Distinct(t) => Distinct(Spread(f, t))}
<1>1. <<>> \in R
  BY SpreadEmpty, OneDistinct
<1>2. ASSUME NEW t \in Seq(V), NEW e \in V, t \in R PROVE Append(t, e) \in R
  <2> DEFINE x == Append(t, e)
             n == Len(t)
  <2>0. /\ x \in Seq(V) /\ n \in Nat /\ DOMAIN x = 1 .. n + 1 /\ DOMAIN t = 1 .. n
        /\ x[n + 1] = e /\ \A i \in 1 .. n : x[i] = t[i]
    BY AppendProperties
  <2> HIDE DEF x
  <2> SUFFICES ASSUME Distinct(x) PROVE Distinct(Spread(f, x))
    BY <2>0 DEF x
  <2>1. Distinct(t) /\ e \notin ToSet(t)
    <3>1. Distinct(t)
      BY <2>0 DEF Distinct
    <3>2. ASSUME NEW i \in DOMAIN t, t[i] = e PROVE FALSE
      <4>1. i \in DOMAIN x /\ n + 1 \in DOMAIN x /\ x[i] = x[n + 1] /\ i # n + 1
        BY <2>0, <3>2
      <4> QED BY <4>1 DEF Distinct
    <3> QED BY <3>1, <3>2 DEF ToSet
  <2>2. Distinct(Spread(f, t))
    BY <1>2, <2>1
  <2>3. Spread(f, x) = Spread(f, t) \o f[e] /\ Spread(f, t) \in Seq(U)
    BY SpreadAppend, SpreadTyped DEF x
  <2>4. f[e] \in Seq(U) /\ Distinct(f[e])
    BY DEF Maps
  <2>5. ToSet(Spread(f, t)) \cap ToSet(f[e]) = {}
    <3>1. ToSet(Spread(f, t)) = UNION {ToSet(f[v]) : v \in ToSet(t)}
      BY SpreadToSet
    <3>2. \A v \in ToSet(t) : v \in V /\ v # e
      BY <2>1 DEF ToSet
    <3> QED BY <3>1, <3>2
  <2>6. Distinct(Spread(f, t) \o f[e])
    BY <2>2, <2>3, <2>4, <2>5, DistinctConcat
  <2> QED BY <2>3, <2>6
<1> HIDE DEF R
<1>3. s \in R
  BY <1>1, <1>2, SeqByInduction
<1> QED BY <1>3 DEF R

\* The same for parts that are given by their places.
LEMMA FlattenDistinct ==
  ASSUME NEW U, NEW ss \in Seq(Seq(U)), \A i \in DOMAIN ss : Distinct(ss[i]),
         \A i, j \in DOMAIN ss : i # j => ToSet(ss[i]) \cap ToSet(ss[j]) = {}
  PROVE  Distinct(FlattenSeq(ss))
<1> DEFINE n == Len(ss)
           V == 1 .. n
           s == [i \in 1 .. n |-> i]
<1>1. n \in Nat /\ DOMAIN ss = V /\ ss = [i \in V |-> ss[i]] /\ \A i \in V : ss[i] \in Seq(U)
  OBVIOUS
<1>2. Maps(ss, V, Seq(U))
  BY <1>1 DEF Maps
<1>3. s \in Seq(V) /\ DOMAIN s = V /\ \A i \in V : s[i] = i
  OBVIOUS
<1>4. Distinct(s)
  BY <1>3 DEF Distinct
<1> HIDE DEF s, V, n
<1>5. Distinct(Spread(ss, s))
  BY <1>1, <1>2, <1>3, <1>4, SpreadDistinct
<1>6. FlattenSeq(ss) = Spread(ss, s)
  <2>1. ss = [i \in DOMAIN s |-> ss[i]] /\ \A i \in DOMAIN s : ss[i] = ss[s[i]]
    BY <1>1, <1>3
  <2> QED BY <1>2, <1>3, <2>1, SpreadIs
<1> QED BY <1>5, <1>6

LEMMA SameLength ==
  ASSUME NEW V, NEW x \in Seq(V), NEW y \in Seq(V), Distinct(x), Distinct(y),
         ToSet(x) = ToSet(y)
  PROVE  Len(x) = Len(y)
<1>1. ASSUME NEW z \in Seq(V), Distinct(z) PROVE Cardinality(ToSet(z)) = Len(z)
  <2>1. /\ Len(z) \in Nat /\ DOMAIN z = 1 .. Len(z) /\ z = [j \in 1 .. Len(z) |-> z[j]]
        /\ \A j, k \in 1 .. Len(z) : j # k => z[j] # z[k]
    <3>1. Len(z) \in Nat /\ DOMAIN z = 1 .. Len(z) /\ z = [j \in 1 .. Len(z) |-> z[j]]
      OBVIOUS
    <3> QED BY <3>1, <1>1 DEF Distinct
  <2>2. IsFiniteSet(1 .. Len(z)) /\ Cardinality(1 .. Len(z)) = Len(z)
    <3> DEFINE n == Len(z)
    <3>1. n \in Nat /\ 1 \in Int /\ n \in Int
      BY <2>1
    <3> HIDE DEF n
    <3>2. IsFiniteSet(1 .. n) /\ Cardinality(1 .. n) = IF 1 > n THEN 0 ELSE n - 1 + 1
      BY <3>1, FS_Interval
    <3>3. Cardinality(1 .. n) = n
      BY <3>1, <3>2
    <3> QED BY <3>2, <3>3 DEF n
  <2>3. Cardinality({z[j] : j \in 1 .. Len(z)}) = Cardinality(1 .. Len(z))
    BY <2>1, <2>2, CountOnce
  <2> QED BY <2>1, <2>2, <2>3 DEF ToSet
<1> QED BY <1>1

\* The same elements, each once.
LEMMA DistinctAlike ==
  ASSUME NEW V, NEW x \in Seq(V), NEW y \in Seq(V), Distinct(x), Distinct(y),
         ToSet(x) = ToSet(y)
  PROVE  Alike(x, y)
BY SameLength DEF Alike

-----------------------------------------------------------------------------
(* When a request is sent, and what of it is to be shown *)

\* The client asks after it has said something or has run a tool.
Asked == Sent => history # <<>> /\ history[Len(history)].kind \in {"user", "result"}

LEMMA StaysAsked == Spec => []Asked
<1>1. Init => Asked
  BY DEF Init, Asked, Sent
<1>2. ASSUME Asked, [Next]_vars PROVE Asked'
  <2>1. CASE UserSays \/ SystemSays \/ Declare \/ ToolDone \/ Trim
    <3>1. ~Sent'
      BY <2>1 DEF UserSays, SystemSays, Declare, ToolDone, Trim, Adds, Sent
    <3> QED BY <3>1 DEF Asked
  <2>2. CASE Ask \/ AskInVain
    <3>1. history # <<>> /\ history[Len(history)].kind \in {"user", "result"} /\ history' = history
      BY <2>2 DEF Ask, AskInVain, Asks
    <3> QED BY <3>1 DEF Asked
  <2>3. CASE ImageRefused \/ BudgetRefused \/ UNCHANGED vars
    <3>1. history' = history /\ (Sent' => Sent)
      BY <2>3 DEF ImageRefused, BudgetRefused, vars, Sent
    <3> QED BY <3>1, <1>2 DEF Asked
  <2>4. CASE Fails \/ Reply
    <3>1. ~Sent'
      BY <2>4 DEF Fails, Reply, Closes, Sent
    <3> QED BY <3>1 DEF Asked
  <2> QED BY <1>2, <2>1, <2>2, <2>3, <2>4 DEF Next, Client, Upstream
<1> QED BY <1>1, <1>2, PTL DEF Spec

Entries == [type : {"text", "tool_use", "tool_result"}, of : Nat]

\* How an item is to be shown when the calls P can be paired.
ItemView(item, P) ==
  CASE item.kind \in {"user", "assistant"} -> <<Shown("text", item.of)>>
    [] item.kind = "call"   -> <<Shown("tool_use", item.of)>>
    [] item.kind = "result" ->
         <<Shown(IF item.of \in P THEN "tool_result" ELSE "text", item.of)>>
    [] OTHER -> <<>>

ViewOf(P) == [item \in Items |-> ItemView(item, P)]

HistoryOf(s, P) == Spread(ViewOf(P), s)

LEMMA ShownTyped ==
  \A type \in {"text", "tool_use", "tool_result"}, n \in Nat :
    Shown(type, n) \in Entries /\ Shown(type, n).type = type /\ Shown(type, n).of = n
BY DEF Shown, Entries

LEMMA ItemViews ==
  ASSUME NEW item \in Items, NEW P
  PROVE  /\ item.kind \in {"user", "assistant"} => ItemView(item, P) = <<Shown("text", item.of)>>
         /\ item.kind = "call" => ItemView(item, P) = <<Shown("tool_use", item.of)>>
         /\ item.kind = "result" =>
              ItemView(item, P)
                = <<Shown(IF item.of \in P THEN "tool_result" ELSE "text", item.of)>>
         /\ item.kind \in {"system", "carrier", "reasoning"} => ItemView(item, P) = <<>>
         /\ item.kind \in {"user", "assistant", "call", "result", "system", "carrier", "reasoning"}
         /\ ItemView(item, P) \in Seq(Entries)
<1>1. item.kind \in {"user", "assistant", "call", "result", "system", "carrier", "reasoning"}
  BY DEF Items
<1>2. item.kind \in {"user", "assistant"} => ItemView(item, P) = <<Shown("text", item.of)>>
  BY DEF ItemView
<1>3. item.kind = "call" => ItemView(item, P) = <<Shown("tool_use", item.of)>>
  BY DEF ItemView
<1>4. item.kind = "result" =>
        ItemView(item, P) = <<Shown(IF item.of \in P THEN "tool_result" ELSE "text", item.of)>>
  BY DEF ItemView
<1>5. item.kind \in {"system", "carrier", "reasoning"} => ItemView(item, P) = <<>>
  BY DEF ItemView
<1>6. ItemView(item, P) \in Seq(Entries)
  <2>1. item.of \in Nat
    BY BlocksTyped
  <2>2. /\ <<Shown("text", item.of)>> \in Seq(Entries)
        /\ <<Shown("tool_use", item.of)>> \in Seq(Entries)
        /\ <<Shown(IF item.of \in P THEN "tool_result" ELSE "text", item.of)>> \in Seq(Entries)
        /\ <<>> \in Seq(Entries)
    BY <2>1, ShownTyped
  <2> QED BY <2>2, <1>1, <1>2, <1>3, <1>4, <1>5
<1> QED BY <1>1, <1>2, <1>3, <1>4, <1>5, <1>6

LEMMA ViewMaps ==
  ASSUME NEW P
  PROVE  Maps(ViewOf(P), Items, Seq(Entries)) /\ \A item \in Items : ViewOf(P)[item] = ItemView(item, P)
BY ItemViews DEF ViewOf, Maps

LEMMA HistoryIs ==
  ASSUME history \in Seq(Items)
  PROVE  History = HistoryOf(history, PairedToolCallIDs(history))
<1> DEFINE P == PairedToolCallIDs(history)
           q == [i \in DOMAIN history |-> ItemView(history[i], P)]
<1>1. History = FlattenSeq(q)
  BY DEF History, ItemView
<1>2. q = [i \in DOMAIN history |-> q[i]] /\ \A i \in DOMAIN history : q[i] = ItemView(history[i], P)
  OBVIOUS
<1> HIDE DEF q, P
<1>3. \A i \in DOMAIN history : history[i] \in Items
  OBVIOUS
<1>4. \A i \in DOMAIN history : q[i] = ViewOf(P)[history[i]]
  BY <1>2, <1>3, ViewMaps
<1>5. FlattenSeq(q) = Spread(ViewOf(P), history)
  BY <1>2, <1>4, ViewMaps, SpreadIs
<1> QED BY <1>1, <1>5 DEF HistoryOf, P

\* The input that the converters read is to be shown as the history is.
LEMMA AppliedHistory ==
  ASSUME NEW x, NEW h \in Seq(Items), NEW P
  PROVE  HistoryOf(applyCodexToolContext(x, h), P) = HistoryOf(h, P)
<1> DEFINE y == applyCodexToolContext(x, h)
<1>1. CASE collectCarriedTools(h) = <<>>
  BY <1>1 DEF applyCodexToolContext
<1>2. CASE collectCarriedTools(h) # <<>>
  <2> DEFINE Re(item) == rewriteNamespaceCall(x.restore, item)
             ss == [i \in DOMAIN h |-> IF h[i].kind = "carrier" THEN <<>> ELSE <<Re(h[i])>>]
             q  == Each(ViewOf(P), h)
  <2>1. y = FlattenSeq(ss)
    BY <1>2 DEF applyCodexToolContext
  <2>2. \A i \in DOMAIN h : h[i] \in Items
    OBVIOUS
  <2>3. \A item \in Items : Re(item) \in Items /\ Re(item).kind = item.kind /\ Re(item).of = item.of
    BY RewrittenCall
  <2>4. q = [i \in DOMAIN h |-> q[i]] /\ \A i \in DOMAIN h : q[i] = ViewOf(P)[h[i]]
    BY DEF Each
  <2> HIDE DEF Re, q
  <2>5. \A i \in DOMAIN h : \/ h[i].kind = "carrier" /\ ss[i] = <<>>
                            \/ h[i].kind # "carrier" /\ ss[i] = <<Re(h[i])>>
    OBVIOUS
  <2>6. \A i \in DOMAIN h : <<Re(h[i])>> \in Seq(Items) /\ <<>> \in Seq(Items)
    BY <2>2, <2>3
  <2>7. ss \in Seq(Seq(Items)) /\ DOMAIN ss = DOMAIN h
    <3>1. Len(h) \in Nat /\ DOMAIN h = 1 .. Len(h) /\ DOMAIN ss = DOMAIN h
      OBVIOUS
    <3>2. \A i \in DOMAIN h : ss[i] \in Seq(Items)
      BY <2>5, <2>6
    <3>3. ss \in [1 .. Len(h) -> Seq(Items)]
      BY <3>1, <3>2
    <3> HIDE DEF ss
    <3> QED BY <3>1, <3>3, SeqDef
  <2> HIDE DEF ss
  <2>8. ASSUME NEW i \in DOMAIN h PROVE q[i] = Spread(ViewOf(P), ss[i])
    <3>1. h[i] \in Items /\ q[i] = ItemView(h[i], P)
      BY <2>2, <2>4, ViewMaps
    <3>2. CASE h[i].kind = "carrier" /\ ss[i] = <<>>
      <4>1. ItemView(h[i], P) = <<>>
        BY <3>1, <3>2, ItemViews
      <4> QED BY <3>1, <3>2, <4>1, SpreadEmpty
    <3>3. CASE h[i].kind # "carrier" /\ ss[i] = <<Re(h[i])>>
      <4> DEFINE e == Re(h[i])
      <4>1. e \in Items /\ e.kind = h[i].kind /\ e.of = h[i].of
        BY <2>3, <3>1
      <4> HIDE DEF e
      <4>2. Spread(ViewOf(P), <<e>>) = ViewOf(P)[e]
        BY <4>1, ViewMaps, SpreadOne
      <4>3. ViewOf(P)[e] = ItemView(e, P)
        BY <4>1, ViewMaps
      <4>4. ItemView(e, P) = ItemView(h[i], P)
        BY <4>1 DEF ItemView
      <4> QED BY <3>1, <3>3, <4>2, <4>3, <4>4 DEF e
    <3> QED BY <2>5, <3>2, <3>3
  <2>9. Spread(ViewOf(P), FlattenSeq(ss)) = FlattenSeq(q)
    <3>1. q = [i \in DOMAIN ss |-> q[i]] /\ \A i \in DOMAIN ss : q[i] = Spread(ViewOf(P), ss[i])
      BY <2>4, <2>7, <2>8
    <3>2. Maps(ViewOf(P), Items, Seq(Entries))
      BY ViewMaps
    <3> QED BY <2>7, <3>1, <3>2, SpreadFlatten
  <2> QED BY <2>1, <2>9 DEF HistoryOf, Spread, q
<1> QED BY <1>1, <1>2

\* What was said or returned is in the input as it is in the history.
LEMMA AppliedItems ==
  ASSUME NEW x, NEW h \in Seq(Items), NEW j \in DOMAIN h, h[j].kind \in {"user", "result"}
  PROVE  h[j] \in ToSet(applyCodexToolContext(x, h))
<1> DEFINE y == applyCodexToolContext(x, h)
<1>1. CASE collectCarriedTools(h) = <<>>
  BY <1>1 DEF applyCodexToolContext, ToSet
<1>2. CASE collectCarriedTools(h) # <<>>
  <2> DEFINE Re(item) == rewriteNamespaceCall(x.restore, item)
             ss == [i \in DOMAIN h |-> IF h[i].kind = "carrier" THEN <<>> ELSE <<Re(h[i])>>]
  <2>1. y = FlattenSeq(ss)
    BY <1>2 DEF applyCodexToolContext
  <2>2. \A i \in DOMAIN h : h[i] \in Items
    OBVIOUS
  <2>3. \A item \in Items : Re(item) \in Items
    BY RewrittenCall
  <2>4. Re(h[j]) = h[j]
    BY DEF rewriteNamespaceCall
  <2> HIDE DEF Re
  <2>5. \A i \in DOMAIN h : ss[i] = <<>> \/ ss[i] = <<Re(h[i])>>
    OBVIOUS
  <2>6. ss \in Seq(Seq(Items)) /\ DOMAIN ss = DOMAIN h
    <3>1. Len(h) \in Nat /\ DOMAIN h = 1 .. Len(h) /\ DOMAIN ss = DOMAIN h
      OBVIOUS
    <3>2. \A i \in DOMAIN h : <<Re(h[i])>> \in Seq(Items) /\ <<>> \in Seq(Items)
      BY <2>2, <2>3
    <3>3. \A i \in DOMAIN h : ss[i] \in Seq(Items)
      BY <2>5, <3>2
    <3>4. ss \in [1 .. Len(h) -> Seq(Items)]
      BY <3>1, <3>3
    <3> HIDE DEF ss
    <3> QED BY <3>1, <3>4, SeqDef
  <2>7. ss[j] = <<h[j]>>
    BY <2>4
  <2> HIDE DEF ss
  <2>8. 1 \in DOMAIN ss[j] /\ ss[j][1] = h[j]
    BY <2>7
  <2>9. ss[j][1] \in ToSet(FlattenSeq(ss))
    BY <2>6, <2>8, FlattenKeeps
  <2> QED BY <2>1, <2>8, <2>9
<1> QED BY <1>1, <1>2

\* The items of the input at their places in the history: the same calls can be
\* paired, and if the last item of the history is no call and no list of tools then
\* it is the last of the input.
LEMMA FollowEnds ==
  ASSUME NEW x \in Seq(Items), NEW h \in Seq(Items), NEW g, Follow(g, x, h), Unique(x)
  PROVE  /\ PairedToolCallIDs(x) = PairedToolCallIDs(h)
         /\ h # <<>> /\ h[Len(h)].kind \in {"user", "result"} /\ h[Len(h)] \in ToSet(x) =>
              x # <<>> /\ x[Len(x)] = h[Len(h)]
<1>1. /\ DOMAIN x = 1 .. Len(x) /\ DOMAIN h = 1 .. Len(h)
      /\ Len(x) \in Nat /\ Len(h) \in Nat
  OBVIOUS
<1>2. /\ \A k \in DOMAIN x : g[k] \in DOMAIN h /\ x[k].kind = h[g[k]].kind /\ x[k].of = h[g[k]].of
      /\ \A j, k \in DOMAIN x : j < k => g[j] < g[k]
      /\ \A i \in DOMAIN h : h[i].kind # "carrier" => \E k \in DOMAIN x : g[k] = i
  BY <1>1 DEF Follow
<1>3. PairedToolCallIDs(x) = PairedToolCallIDs(h)
  BY FollowPairs
<1>4. ASSUME h # <<>>, h[Len(h)].kind \in {"user", "result"}, h[Len(h)] \in ToSet(x)
      PROVE  x # <<>> /\ x[Len(x)] = h[Len(h)]
  <2> DEFINE n == Len(h)
             m == Len(x)
  <2>1. n \in DOMAIN h /\ n \in Nat
    BY <1>1, <1>4
  <2>2. h[n].kind # "carrier"
    BY <1>4
  <2>3. PICK k \in DOMAIN x : g[k] = n
    BY <1>2, <2>1, <2>2
  <2>4. m \in DOMAIN x /\ k \in Nat /\ m \in Nat /\ k <= m
    BY <1>1, <2>3
  <2>5. k = m
    <3> SUFFICES ASSUME k # m PROVE FALSE
      OBVIOUS
    <3>1. k < m
      BY <2>4
    <3>2. n < g[m] /\ g[m] \in 1 .. n
      BY <1>1, <1>2, <2>3, <2>4, <3>1
    <3> QED BY <2>1, <3>2
  <2>6. x[m].kind = h[n].kind /\ x[m].of = h[n].of
    BY <1>2, <2>3, <2>5
  <2>7. PICK j \in DOMAIN x : x[j] = h[n]
    BY <1>4 DEF ToSet
  <2>8. j = m
    <3> SUFFICES ASSUME j # m PROVE FALSE
      OBVIOUS
    <3>1. {x[j].kind, x[m].kind} = {"call", "result"}
      BY <2>2, <2>4, <2>6, <2>7 DEF Unique
    <3>2. "call" \in {x[j].kind, x[m].kind}
      BY <3>1
    <3> QED BY <3>2, <2>6, <2>7, <1>4
  <2>9. x # <<>>
    BY <2>4
  <2> QED BY <2>7, <2>8, <2>9
<1> QED BY <1>3, <1>4

-----------------------------------------------------------------------------
(* What a Chat message shows *)

\* The texts of a message as they are shown, and its calls.
Speech(type, content) ==
  LET spoken == Only(content, LAMBDA b : b.type = "text")
  IN  [k \in DOMAIN spoken |-> Shown(type, spoken[k].of)]

Uses(calls) == [k \in DOMAIN calls |-> Shown("tool_use", calls[k].of)]

SpeechType(m) == IF m.role = "tool" THEN "tool_result" ELSE "text"

LEMMA ChatViewIs ==
  ASSUME NEW m
  PROVE  ChatView(m) = Speech(SpeechType(m), m.content) \o Uses(m.calls)
BY DEF ChatView, Speech, SpeechType, Uses, Only

TextOf == [b \in Blocks |-> IF b.type = "text" THEN <<b>> ELSE <<>>]

LEMMA TextMaps ==
  /\ Maps(TextOf, Blocks, Seq(Blocks))
  /\ \A b \in Blocks : /\ b.type = "text" => TextOf[b] = <<b>>
                       /\ b.type # "text" => TextOf[b] = <<>>
<1>1. ASSUME NEW b \in Blocks
      PROVE  /\ TextOf[b] \in Seq(Blocks)
             /\ b.type = "text" => TextOf[b] = <<b>>
             /\ b.type # "text" => TextOf[b] = <<>>
  <2>1. <<b>> \in Seq(Blocks) /\ <<>> \in Seq(Blocks)
    OBVIOUS
  <2>2. TextOf[b] = IF b.type = "text" THEN <<b>> ELSE <<>>
    BY DEF TextOf
  <2> QED BY <2>1, <2>2
<1>2. DOMAIN TextOf = Blocks /\ TextOf = [b \in Blocks |-> TextOf[b]]
  BY DEF TextOf
<1> HIDE DEF TextOf
<1>3. TextOf \in [Blocks -> Seq(Blocks)]
  BY <1>1, <1>2
<1> QED BY <1>1, <1>3 DEF Maps

LEMMA SpeechIs ==
  ASSUME NEW type, NEW content \in Seq(Blocks)
  PROVE  Speech(type, content)
           = [k \in DOMAIN Spread(TextOf, content) |-> Shown(type, Spread(TextOf, content)[k].of)]
<1> DEFINE q == [i \in DOMAIN content |-> IF content[i].type = "text" THEN <<content[i]>> ELSE <<>>]
<1>1. Speech(type, content) = [k \in DOMAIN FlattenSeq(q) |-> Shown(type, FlattenSeq(q)[k].of)]
  BY DEF Speech, Only
<1>2. q = [i \in DOMAIN content |-> q[i]] /\ \A i \in DOMAIN content : q[i] = TextOf[content[i]]
  <2>1. \A i \in DOMAIN content : content[i] \in Blocks
    OBVIOUS
  <2>2. \A i \in DOMAIN content : q[i] = IF content[i].type = "text" THEN <<content[i]>> ELSE <<>>
    OBVIOUS
  <2>3. q = [i \in DOMAIN content |-> q[i]]
    OBVIOUS
  <2> HIDE DEF q
  <2> QED BY <2>1, <2>2, <2>3, TextMaps
<1> HIDE DEF q
<1>3. FlattenSeq(q) = Spread(TextOf, content)
  BY <1>2, TextMaps, SpreadIs
<1> QED BY <1>1, <1>3

LEMMA SpeechTyped ==
  ASSUME NEW type \in {"text", "tool_use", "tool_result"}, NEW content \in Seq(Blocks)
  PROVE  Speech(type, content) \in Seq(Entries)
<1> DEFINE x == Spread(TextOf, content)
           y == [k \in DOMAIN x |-> Shown(type, x[k].of)]
<1>1. x \in Seq(Blocks)
  BY TextMaps, SpreadTyped
<1> HIDE DEF x
<1>2. Len(x) \in Nat /\ DOMAIN x = 1 .. Len(x) /\ \A k \in DOMAIN x : x[k].of \in Nat
  <2>1. \A k \in DOMAIN x : x[k] \in Blocks
    BY <1>1
  <2> QED BY <1>1, <2>1 DEF Blocks
<1>3. \A k \in DOMAIN x : Shown(type, x[k].of) \in Entries
  BY <1>2, ShownTyped
<1>4. y \in [1 .. Len(x) -> Entries]
  BY <1>2, <1>3
<1> HIDE DEF y
<1>5. y \in Seq(Entries)
  BY <1>2, <1>4, SeqDef
<1> QED BY <1>5, SpeechIs DEF x, y

\* A text, and whatever else is in its message that is none.
LEMMA SpeechOfTexts ==
  ASSUME NEW type, NEW n \in Nat
  PROVE  /\ Speech(type, <<>>) = <<>>
         /\ Speech(type, <<Text(n)>>) = <<Shown(type, n)>>
         /\ Speech(type, <<Text(n)>> \o <<>>) = <<Shown(type, n)>>
         /\ Speech(type, <<Text(n)>> \o <<Picture(n)>>) = <<Shown(type, n)>>
         /\ Speech(type, <<Text(n)>> \o <<LeftOut(n)>>) = <<Shown(type, n)>>
         /\ Speech(type, <<Picture(n)>>) = <<>>
<1> DEFINE t == Text(n)
           p == Picture(n)
           l == LeftOut(n)
           T == TextOf
<1>1. /\ t \in Blocks /\ p \in Blocks /\ l \in Blocks
      /\ t.type = "text" /\ p.type # "text" /\ l.type # "text" /\ t.of = n
  BY DEF Text, Picture, LeftOut, Blocks
<1> HIDE DEF t, p, l
<1>2. /\ <<>> \in Seq(Blocks) /\ <<t>> \in Seq(Blocks) /\ <<p>> \in Seq(Blocks)
      /\ <<l>> \in Seq(Blocks)
  BY <1>1
<1>3. Spread(T, <<>>) = <<>> /\ Spread(T, <<t>>) = <<t>> /\ Spread(T, <<p>>) = <<>>
      /\ Spread(T, <<l>>) = <<>>
  <2>1. \A b \in Blocks : Spread(T, <<b>>) = T[b]
    BY TextMaps, SpreadOne
  <2> QED BY <1>1, <2>1, TextMaps, SpreadEmpty
<1>4. ASSUME NEW x \in Seq(Blocks), Spread(T, x) = <<t>>
      PROVE  Speech(type, x) = <<Shown(type, n)>>
  <2>1. Speech(type, x) = [k \in DOMAIN <<t>> |-> Shown(type, <<t>>[k].of)]
    BY <1>4, SpeechIs
  <2>2. DOMAIN <<t>> = {1} /\ <<t>>[1].of = n
    BY <1>1
  <2>3. Speech(type, x) = [k \in {1} |-> Shown(type, n)]
    BY <2>1, <2>2
  <2>4. [k \in {1} |-> Shown(type, n)] = <<Shown(type, n)>>
    OBVIOUS
  <2> QED BY <2>3, <2>4
<1>5. ASSUME NEW x \in Seq(Blocks), Spread(T, x) = <<>>
      PROVE  Speech(type, x) = <<>>
  <2>1. Speech(type, x) = [k \in DOMAIN <<>> |-> Shown(type, <<>>[k].of)]
    BY <1>5, SpeechIs
  <2>2. DOMAIN <<>> = {}
    OBVIOUS
  <2> QED BY <2>1, <2>2
<1>6. ASSUME NEW y \in {p, l}
      PROVE  <<t>> \o <<y>> \in Seq(Blocks) /\ Spread(T, <<t>> \o <<y>>) = <<t>>
  <2>1. <<t>> \o <<y>> \in Seq(Blocks)
    BY <1>2, ConcatProperties
  <2>2. Spread(T, <<t>> \o <<y>>) = Spread(T, <<t>>) \o Spread(T, <<y>>)
    <3> DEFINE a == <<t>>
               b == <<y>>
    <3>1. a \in Seq(Blocks) /\ b \in Seq(Blocks) /\ Maps(T, Blocks, Seq(Blocks))
      BY <1>2, TextMaps
    <3> HIDE DEF a, b, T
    <3>2. Spread(T, a \o b) = Spread(T, a) \o Spread(T, b)
      BY <3>1, SpreadConcat
    <3> QED BY <3>2 DEF a, b
  <2> QED BY <1>2, <1>3, <2>1, <2>2, ConcatEmptySeq
<1>7. <<t>> \o <<>> = <<t>>
  BY <1>2, ConcatEmptySeq
<1>8. /\ Speech(type, <<>>) = <<>> /\ Speech(type, <<t>>) = <<Shown(type, n)>>
      /\ Speech(type, <<p>>) = <<>>
  BY <1>2, <1>3, <1>4, <1>5
<1>9. \A y \in {p, l} : Speech(type, <<t>> \o <<y>>) = <<Shown(type, n)>>
  BY <1>4, <1>6
<1> QED BY <1>7, <1>8, <1>9 DEF t, p, l

LEMMA UsesTyped ==
  ASSUME NEW N, \A c \in N : c.of \in Nat, NEW calls \in Seq(N)
  PROVE  /\ Uses(calls) \in Seq(Entries) /\ Uses(<<>>) = <<>>
         /\ \A e \in N : Uses(Append(calls, e)) = Uses(calls) \o <<Shown("tool_use", e.of)>>
<1> DEFINE f == [c \in N |-> Shown("tool_use", c.of)]
<1>1. \A c \in N : Shown("tool_use", c.of) \in Entries
  BY ShownTyped
<1>2. Maps(f, N, Entries) /\ \A c \in N : f[c] = Shown("tool_use", c.of)
  BY <1>1 DEF Maps
<1> HIDE DEF f
<1>3. ASSUME NEW s \in Seq(N) PROVE Uses(s) = Each(f, s)
  <2>1. \A k \in DOMAIN s : s[k] \in N
    OBVIOUS
  <2> QED BY <1>2, <2>1 DEF Uses, Each
<1>4. Uses(calls) \in Seq(Entries)
  BY <1>2, <1>3, EachTyped
<1>5. Uses(<<>>) = <<>>
  BY DEF Uses
<1>6. ASSUME NEW e \in N PROVE Uses(Append(calls, e)) = Uses(calls) \o <<Shown("tool_use", e.of)>>
  <2>1. Append(calls, e) \in Seq(N)
    OBVIOUS
  <2>2. Each(f, Append(calls, e)) = Append(Each(f, calls), f[e])
    BY <1>2, EachAppend
  <2>3. f[e] \in Entries /\ Each(f, calls) \in Seq(Entries)
    BY <1>1, <1>2, EachTyped
  <2>4. Append(Each(f, calls), f[e]) = Each(f, calls) \o <<f[e]>>
    BY <2>3, AppendIsConcat
  <2> QED BY <1>2, <1>3, <2>1, <2>2, <2>4
<1> QED BY <1>4, <1>5, <1>6

-----------------------------------------------------------------------------
(* What a list of Chat messages shows *)

Numbered(N) == \A c \in N : c.of \in Nat

LEMMA ChatViewTyped ==
  ASSUME NEW N, Numbered(N), NEW m \in ChatMessages(N)
  PROVE  /\ ChatView(m) \in Seq(Entries)
         /\ Speech(SpeechType(m), m.content) \in Seq(Entries)
         /\ m.calls = <<>> => ChatView(m) = Speech(SpeechType(m), m.content)
<1> DEFINE x == Speech(SpeechType(m), m.content)
           y == Uses(m.calls)
<1>1. m.content \in Seq(Blocks) /\ m.calls \in Seq(N)
  BY DEF ChatMessages
<1>2. SpeechType(m) \in {"text", "tool_use", "tool_result"}
  BY DEF SpeechType
<1>3. x \in Seq(Entries)
  BY <1>1, <1>2, SpeechTyped
<1>4. y \in Seq(Entries) /\ Uses(<<>>) = <<>>
  BY <1>1, UsesTyped DEF Numbered
<1>5. ChatView(m) = x \o y
  BY ChatViewIs
<1>6. m.calls = <<>> => y = <<>>
  BY <1>4
<1> HIDE DEF x, y
<1>7. x \o y \in Seq(Entries) /\ x \o <<>> = x
  BY <1>3, <1>4, ConcatProperties, ConcatEmptySeq
<1> QED BY <1>3, <1>5, <1>6, <1>7 DEF x

ChatViews(N) == [m \in ChatMessages(N) |-> ChatView(m)]
Seen(N, ms) == Spread(ChatViews(N), ms)

LEMMA ChatViewsMap ==
  ASSUME NEW N, Numbered(N)
  PROVE  /\ Maps(ChatViews(N), ChatMessages(N), Seq(Entries))
         /\ \A m \in ChatMessages(N) : ChatViews(N)[m] = ChatView(m)
<1>1. \A m \in ChatMessages(N) : ChatView(m) \in Seq(Entries)
  BY ChatViewTyped
<1> QED BY <1>1 DEF ChatViews, Maps

\* Equal if exact, otherwise only the same entries.
Same(x, y, exact) == Alike(x, y) /\ (exact => x = y)

LEMMA SameConcat ==
  ASSUME NEW V, NEW x \in Seq(V), NEW y \in Seq(V), NEW z \in Seq(V), NEW exact, Same(x, y, exact)
  PROVE  Same(x \o z, y \o z, exact)
<1>1. ToSet(x \o z) = ToSet(x) \cup ToSet(z) /\ ToSet(y \o z) = ToSet(y) \cup ToSet(z)
  BY ConcatToSet
<1>2. Len(x \o z) = Len(x) + Len(z) /\ Len(y \o z) = Len(y) + Len(z)
  BY ConcatProperties
<1> QED BY <1>1, <1>2 DEF Same, Alike

LEMMA SameTwice ==
  \A x, y, z, exact : Same(x, y, exact) /\ Same(y, z, exact) => Same(x, z, exact)
BY DEF Same, Alike

\* One message is put in the place of another.
LEMMA SeenReplaced ==
  ASSUME NEW N, Numbered(N), NEW ms \in Seq(ChatMessages(N)), NEW i \in DOMAIN ms,
         NEW m \in ChatMessages(N)
  PROVE  /\ ChatView(m) = ChatView(ms[i]) => Seen(N, [ms EXCEPT ![i] = m]) = Seen(N, ms)
         /\ \A y \in Seq(Entries) : ChatView(m) = ChatView(ms[i]) \o y =>
              Same(Seen(N, [ms EXCEPT ![i] = m]), Seen(N, ms) \o y, i = Len(ms))
<1> DEFINE M == ChatMessages(N)
           f == ChatViews(N)
           more == [ms EXCEPT ![i] = m]
           ss == Each(f, ms)
           tt == Each(f, more)
           X == Seq(Entries)
<1>1. Maps(f, M, X) /\ \A k \in M : f[k] = ChatView(k)
  BY ChatViewsMap
<1>2. DOMAIN ms = 1 .. Len(ms) /\ Len(ms) \in Nat /\ \A k \in DOMAIN ms : ms[k] \in M
  OBVIOUS
<1>3. more \in Seq(M) /\ Len(more) = Len(ms) /\ more[i] = m
      /\ \A k \in DOMAIN ms : k # i => more[k] = ms[k]
  <2>1. ms \in Seq(M) /\ i \in 1 .. Len(ms) /\ m \in M
    BY <1>2
  <2> HIDE DEF M, f
  <2>2. [ms EXCEPT ![i] = m] \in Seq(M) /\ Len([ms EXCEPT ![i] = m]) = Len(ms)
    BY <2>1, ExceptSeq
  <2>3. \A k \in DOMAIN ms : [ms EXCEPT ![i] = m][k] = IF k = i THEN m ELSE ms[k]
    BY <2>1, ExceptSeq
  <2> QED BY <2>1, <2>2, <2>3
<1>4. DOMAIN more = DOMAIN ms
  BY <1>2, <1>3
<1> HIDE DEF M, f, X, more
<1>5. ss \in Seq(X) /\ Len(ss) = Len(ms) /\ DOMAIN ss = DOMAIN ms
      /\ \A k \in DOMAIN ms : ss[k] = f[ms[k]]
  BY <1>1, EachTyped DEF M
<1>6. tt \in Seq(X) /\ Len(tt) = Len(ms) /\ DOMAIN tt = DOMAIN ms
      /\ \A k \in DOMAIN ms : tt[k] = f[more[k]]
  BY <1>1, <1>3, <1>4, EachTyped
<1> HIDE DEF ss, tt
<1>7. Seen(N, more) = FlattenSeq(tt) /\ Seen(N, ms) = FlattenSeq(ss)
  BY DEF Seen, Spread, f, ss, tt
<1>8. \A k \in DOMAIN ms : k # i => tt[k] = ss[k]
  BY <1>3, <1>5, <1>6
<1>9. tt[i] = ChatView(m) /\ ss[i] = ChatView(ms[i])
  BY <1>1, <1>2, <1>3, <1>5, <1>6 DEF M
<1>10. ASSUME ChatView(m) = ChatView(ms[i]) PROVE Seen(N, more) = Seen(N, ms)
  <2>1. \A k \in 1 .. Len(ss) : tt[k] = ss[k]
    BY <1>2, <1>5, <1>8, <1>9, <1>10
  <2>2. tt = ss
    BY <2>1, <1>5, <1>6, SeqEqual
  <2> QED BY <2>2, <1>7
<1>11. ASSUME NEW y \in Seq(Entries), ChatView(m) = ChatView(ms[i]) \o y
       PROVE  Same(Seen(N, more), Seen(N, ms) \o y, i = Len(ms))
  <2> DEFINE l == Longer(ss, i, y)
  <2>1. ss \in Seq(Seq(Entries)) /\ i \in DOMAIN ss
    BY <1>5 DEF X
  <2>2. l \in Seq(X) /\ Len(l) = Len(ss) /\ l[i] = ss[i] \o y
        /\ \A k \in 1 .. Len(ss) : k # i => l[k] = ss[k]
    BY <2>1, LongerTyped DEF X
  <2>3. /\ Alike(FlattenSeq(l), FlattenSeq(ss) \o y)
        /\ i = Len(ss) => FlattenSeq(l) = FlattenSeq(ss) \o y
    BY <2>1, FlattenGrows
  <2> HIDE DEF l
  <2>4. \A k \in 1 .. Len(ss) : tt[k] = l[k]
    BY <2>2, <1>2, <1>5, <1>8, <1>9, <1>11
  <2>5. tt = l
    BY <2>2, <2>4, <1>5, <1>6, SeqEqual
  <2> QED BY <2>3, <2>5, <1>5, <1>7 DEF Same
<1> QED BY <1>10, <1>11 DEF more, M

LEMMA SeenTyped ==
  ASSUME NEW N, Numbered(N), NEW ms \in Seq(ChatMessages(N))
  PROVE  /\ Seen(N, ms) \in Seq(Entries) /\ Seen(N, <<>>) = <<>>
         /\ \A m \in ChatMessages(N) : Seen(N, Append(ms, m)) = Seen(N, ms) \o ChatView(m)
<1> DEFINE M == ChatMessages(N)
           f == ChatViews(N)
<1>1. Maps(f, M, Seq(Entries)) /\ \A k \in M : f[k] = ChatView(k)
  BY ChatViewsMap
<1> HIDE DEF M, f
<1>2. Spread(f, ms) \in Seq(Entries)
  BY <1>1, SpreadTyped DEF M
<1>3. \A m \in M : Spread(f, Append(ms, m)) = Spread(f, ms) \o f[m]
  BY <1>1, SpreadAppend DEF M
<1> QED BY <1>1, <1>2, <1>3, SpreadEmpty DEF Seen, M, f

\* The first n items, as they are to be shown.
Past(s, P, n) == HistoryOf(SubSeq(s, 1, n), P)

LEMMA PastGrows ==
  ASSUME NEW s \in Seq(Items), NEW P
  PROVE  /\ Past(s, P, 0) = <<>> /\ Past(s, P, Len(s)) = HistoryOf(s, P)
         /\ \A n \in 0 .. Len(s) : Past(s, P, n) \in Seq(Entries)
         /\ \A n \in Nat : n + 1 \in DOMAIN s =>
              Past(s, P, n + 1) = Past(s, P, n) \o ItemView(s[n + 1], P)
<1>0. Len(s) \in Nat /\ DOMAIN s = 1 .. Len(s)
  OBVIOUS
<1>1. SubSeq(s, 1, 0) = <<>> /\ SubSeq(s, 1, Len(s)) = s
  BY SubSeqEmpty, SubSeqFull
<1>2. ASSUME NEW n \in 0 .. Len(s) PROVE SubSeq(s, 1, n) \in Seq(Items)
  <2>1. \A k \in 1 .. n : k \in DOMAIN s
    BY <1>0
  <2> QED BY <2>1, <1>0
<1>3. Maps(ViewOf(P), Items, Seq(Entries)) /\ \A item \in Items : ViewOf(P)[item] = ItemView(item, P)
  BY ViewMaps
<1>4. ASSUME NEW n \in 0 .. Len(s) PROVE Past(s, P, n) \in Seq(Entries)
  BY <1>2, <1>3, SpreadTyped DEF Past, HistoryOf
<1>5. ASSUME NEW n \in Nat, n + 1 \in DOMAIN s
      PROVE  Past(s, P, n + 1) = Past(s, P, n) \o ItemView(s[n + 1], P)
  <2> DEFINE x == SubSeq(s, 1, n)
             e == s[n + 1]
  <2>1. x \in Seq(Items) /\ e \in Items
    <3>1. n \in 0 .. Len(s)
      BY <1>0, <1>5
    <3> QED BY <3>1, <1>2, <1>5
  <2>2. SubSeq(s, 1, n + 1) = Append(x, e)
    <3>1. n + 1 \in 1 .. Len(s)
      BY <1>0, <1>5
    <3> QED BY <3>1
  <2> HIDE DEF x, e
  <2>3. Spread(ViewOf(P), Append(x, e)) = Spread(ViewOf(P), x) \o ViewOf(P)[e]
    BY <2>1, <1>3, SpreadAppend
  <2>4. ViewOf(P)[e] = ItemView(e, P)
    BY <2>1, <1>3
  <2> QED BY <2>2, <2>3, <2>4 DEF Past, HistoryOf, x, e
<1>6. Past(s, P, 0) = <<>> /\ Past(s, P, Len(s)) = HistoryOf(s, P)
  BY <1>1, SpreadEmpty DEF Past, HistoryOf
<1> QED BY <1>4, <1>5, <1>6

-----------------------------------------------------------------------------
(* What a Chat request shows *)

Speaks(item) == item.kind \in {"user", "assistant", "call", "result"}

\* No text stands directly before a result.
Spaced(s) ==
  \A q, p \in DOMAIN s : s[q].kind = "assistant" /\ s[p].kind = "result" /\ q < p =>
    \E t \in DOMAIN s : q < t /\ t < p /\ Speaks(s[t])

\* The last of the first n items that speaks is a text.
Lonely(s, n) ==
  \E q \in DOMAIN s : /\ q <= n /\ s[q].kind = "assistant"
                      /\ \A t \in DOMAIN s : q < t /\ t <= n => ~Speaks(s[t])

\* A message that calls may still join is the last one.
Late(ms, calls, last, s, n) ==
  last # 0 /\ ms[last].calls = <<>> =>
    last = Len(ms) /\ (calls = <<>> => Lonely(s, n))

\* The state of inputToChatMessages after n items of s shows these items, and if s
\* is Spaced then in their order.
Showing(N, ms, calls, last, s, P, n) ==
  /\ Same(Seen(N, ms) \o Uses(calls), Past(s, P, n), Spaced(s))
  /\ Spaced(s) => Late(ms, calls, last, s, n)

KeepsView(N, a, s, P, n) == Showing(N, a.messages, a.calls, a.last, s, P, n)

LEMMA NothingPending ==
  ASSUME NEW N, Numbered(N), NEW ms \in Seq(ChatMessages(N))
  PROVE  Seen(N, ms) \o Uses(<<>>) = Seen(N, ms)
<1>1. <<>> \in Seq(N)
  OBVIOUS
<1>2. Uses(<<>>) = <<>>
  BY <1>1, UsesTyped DEF Numbered
<1>3. Seen(N, ms) \in Seq(Entries)
  BY SeenTyped
<1> QED BY <1>2, <1>3, ConcatEmptySeq

LEMMA FlushView ==
  ASSUME NEW N, Numbered(N), NEW a, Fits(a, N), NEW s, NEW P, NEW n, KeepsView(N, a, s, P, n)
  PROVE  KeepsView(N, flushPendingToolCalls(a), s, P, n) /\ flushPendingToolCalls(a).calls = <<>>
<1> DEFINE b == flushPendingToolCalls(a)
           M == ChatMessages(N)
           l == Len(a.messages)
           past == Past(s, P, n)
           E == Spaced(s)
<1>1. a \in Placements(N) /\ a.messages \in Seq(M) /\ a.calls \in Seq(N)
      /\ a.reasoning \in Seq(Nat) /\ a.last \in Nat /\ a.last <= l /\ l \in Nat
      /\ DOMAIN a.messages = 1 .. l
  BY DEF Fits, Placements
<1>2. CASE a.calls = <<>>
  BY <1>2 DEF flushPendingToolCalls
<1>3. CASE a.calls # <<>>
  <2> DEFINE joins == /\ a.last # 0
                      /\ a.messages[a.last].role = "assistant"
                      /\ ~hasToolCalls(a.messages[a.last])
             base  == IF joins THEN a.messages[a.last] ELSE ChatMessage("assistant", <<>>)
             with  == [base EXCEPT !.calls = a.calls]
             full  == attachReasoning(with, a.reasoning)
             ms    == IF joins THEN [a.messages EXCEPT ![a.last] = full]
                      ELSE Append(a.messages, full)
             last  == IF joins THEN a.last ELSE Len(a.messages) + 1
  <2>1. b = [messages |-> ms, calls |-> <<>>, reasoning |-> <<>>, last |-> last]
    BY <1>3 DEF flushPendingToolCalls
  <2>2. base \in M /\ base.role = "assistant" /\ base.calls = <<>>
    <3>1. <<>> \in Seq(Blocks)
      OBVIOUS
    <3>2. ChatMessage("assistant", <<>>) \in M
          /\ ChatMessage("assistant", <<>>).role = "assistant"
          /\ ChatMessage("assistant", <<>>).calls = <<>>
      BY <3>1, ChatMessageTyped DEF ChatMessage
    <3>3. joins => a.messages[a.last] \in M /\ a.messages[a.last].role = "assistant"
                   /\ a.messages[a.last].calls = <<>>
      BY <1>1 DEF hasToolCalls
    <3> HIDE DEF M
    <3> QED BY <3>2, <3>3
  <2>3. /\ joins => base = a.messages[a.last]
        /\ ~joins => base.content = <<>>
    BY DEF ChatMessage
  <2> HIDE DEF base
  <2>4. with \in M /\ with.content = base.content /\ with.role = base.role /\ with.calls = a.calls
    BY <2>2, <1>1 DEF ChatMessages
  <2> HIDE DEF with
  <2>5. full \in M /\ full.content = base.content /\ full.role = base.role /\ full.calls = a.calls
    BY <2>4, <1>1, AttachTyped, AttachPasses
  <2> HIDE DEF full
  <2>6. b.messages = ms /\ b.calls = <<>> /\ b.last = last
    BY <2>1
  <2> DEFINE uses == Uses(a.calls)
             was  == Seen(N, a.messages)
  <2>7. uses \in Seq(Entries) /\ was \in Seq(Entries)
    BY <1>1, UsesTyped, SeenTyped DEF Numbered
  <2>8. ChatView(full) = ChatView(base) \o uses
    <3>1. ChatView(base) = Speech(SpeechType(base), base.content)
      BY <2>2, ChatViewTyped
    <3>2. SpeechType(full) = SpeechType(base)
      BY <2>5 DEF SpeechType
    <3> QED BY <3>1, <3>2, <2>5, ChatViewIs
  <2>9. Same(was \o uses, past, E) /\ (E => Late(a.messages, a.calls, a.last, s, n))
    BY DEF KeepsView, Showing
  <2> HIDE DEF b, M, past, E, uses, was
  <2>10. CASE joins
    <3> DEFINE more == [a.messages EXCEPT ![a.last] = full]
    <3>1. a.last \in DOMAIN a.messages
      BY <2>10, <1>1
    <3>2. b.messages = more /\ b.last = a.last
      BY <2>6, <2>10
    <3>3. ChatView(full) = ChatView(a.messages[a.last]) \o uses
      BY <2>3, <2>8, <2>10
    <3>4. more \in Seq(M) /\ more[a.last] = full
      BY <3>1, <1>1, <2>5
    <3>5. Same(Seen(N, more), was \o uses, a.last = l)
      <4> HIDE DEF more
      <4> QED BY <3>1, <3>3, <1>1, <2>5, <2>7, SeenReplaced DEF M, was, more
    <3> HIDE DEF more
    <3>6. E => a.last = l
      BY <2>2, <2>3, <2>9, <2>10 DEF Late
    <3>7. Same(Seen(N, more), past, E)
      BY <3>5, <3>6, <2>9, SameTwice DEF Same
    <3>8. Seen(N, more) \o Uses(<<>>) = Seen(N, more)
      BY <3>4, NothingPending DEF M
    <3>9. Late(more, <<>>, a.last, s, n)
      BY <3>4, <2>5, <1>3 DEF Late
    <3> QED BY <3>2, <3>7, <3>8, <3>9, <2>6 DEF KeepsView, Showing, b, past, E
  <2>11. CASE ~joins
    <3> DEFINE more == Append(a.messages, full)
    <3>1. b.messages = more /\ b.last = l + 1
      BY <2>6, <2>11
    <3>2. ChatView(full) = uses
      <4>1. SpeechType(base) = "text" /\ 0 \in Nat
        BY <2>2 DEF SpeechType
      <4>2. ChatView(base) = <<>>
        <5>1. ChatView(base) = Speech(SpeechType(base), base.content)
          BY <2>2, ChatViewTyped DEF M
        <5> QED BY <4>1, <5>1, <2>3, <2>11, SpeechOfTexts
      <4> QED BY <4>2, <2>7, <2>8, ConcatEmptySeq
    <3>3. Seen(N, more) = was \o uses
      BY <3>2, <1>1, <2>5, SeenTyped DEF M, was
    <3>4. more \in Seq(M) /\ more[l + 1] = full
      BY <1>1, <2>5
    <3> HIDE DEF more
    <3>5. Seen(N, more) \o Uses(<<>>) = Seen(N, more)
      BY <3>4, NothingPending DEF M
    <3>6. Late(more, <<>>, l + 1, s, n)
      BY <3>4, <2>5, <1>3 DEF Late
    <3> QED BY <3>1, <3>3, <3>5, <3>6, <2>6, <2>9 DEF KeepsView, Showing, b, past, E
  <2> QED BY <2>6, <2>10, <2>11 DEF b
<1> QED BY <1>2, <1>3

LEMMA SettleView ==
  ASSUME NEW N, Numbered(N), NEW a, Fits(a, N), NEW s, NEW P, NEW n, KeepsView(N, a, s, P, n)
  PROVE  /\ KeepsView(N, attachReasoningToPreviousAssistant(a), s, P, n)
         /\ attachReasoningToPreviousAssistant(a).calls = a.calls
<1> DEFINE b == attachReasoningToPreviousAssistant(a)
           M == ChatMessages(N)
           l == Len(a.messages)
<1>1. a \in Placements(N) /\ a.messages \in Seq(M) /\ a.calls \in Seq(N)
      /\ a.reasoning \in Seq(Nat) /\ a.last \in Nat /\ a.last <= l /\ l \in Nat
      /\ DOMAIN a.messages = 1 .. l
  BY DEF Fits, Placements
<1>3. CASE a.last = 0
  <2>1. b = [a EXCEPT !.reasoning = <<>>]
    BY <1>3 DEF attachReasoningToPreviousAssistant
  <2>2. b.messages = a.messages /\ b.calls = a.calls /\ b.last = a.last
    BY <2>1, <1>1 DEF Placements
  <2> QED BY <2>2 DEF KeepsView
<1>4. CASE a.last # 0
  <2> DEFINE was  == a.messages[a.last]
             full == [was EXCEPT !.reasoning = @ \o a.reasoning]
             ms   == [a.messages EXCEPT ![a.last].reasoning = @ \o a.reasoning]
  <2>1. a.last \in 1 .. l
    BY <1>1, <1>4
  <2>2. was \in M
    BY <1>1, <2>1
  <2>3. was.reasoning \o a.reasoning \in Seq(Nat)
    <3>1. was.reasoning \in Seq(Nat)
      BY <2>2 DEF ChatMessages
    <3> HIDE DEF was
    <3> QED BY <3>1, <1>1, ConcatProperties
  <2>4. full \in M /\ full.content = was.content /\ full.role = was.role /\ full.calls = was.calls
    BY <2>2, <2>3 DEF ChatMessages
  <2>5. ms = [a.messages EXCEPT ![a.last] = full]
    OBVIOUS
  <2>6. b.messages = ms /\ b.calls = a.calls /\ b.last = a.last
    <3>1. b = [a EXCEPT !.messages[a.last].reasoning = @ \o a.reasoning, !.reasoning = <<>>]
      BY <1>4 DEF attachReasoningToPreviousAssistant
    <3>2. b = [a EXCEPT !.messages = ms, !.reasoning = <<>>]
      <4> HIDE DEF b
      <4> QED BY <3>1
    <3> HIDE DEF b, ms
    <3> QED BY <3>2, <1>1 DEF Placements
  <2> HIDE DEF b, full, M, ms
  <2>7. ChatView(full) = ChatView(a.messages[a.last])
    <3>1. SpeechType(full) = SpeechType(was)
      BY <2>4 DEF SpeechType
    <3> QED BY <3>1, <2>4, ChatViewIs
  <2>8. Seen(N, ms) = Seen(N, a.messages)
    <3>1. full \in ChatMessages(N) /\ a.messages \in Seq(ChatMessages(N))
          /\ a.last \in DOMAIN a.messages
      BY <2>1, <2>4, <1>1 DEF M
    <3> HIDE DEF was
    <3>2. Seen(N, [a.messages EXCEPT ![a.last] = full]) = Seen(N, a.messages)
      BY <3>1, <2>7, SeenReplaced
    <3> QED BY <3>2, <2>5
  <2>9. Len(ms) = l /\ ms[a.last].calls = a.messages[a.last].calls
    BY <2>1, <2>4, <2>5, <1>1
  <2> QED BY <2>6, <2>8, <2>9 DEF KeepsView, Showing, Late, b
<1> QED BY <1>3, <1>4

\* The messages of a result, one or two: the first says what the tool said, the
\* second holds its picture.
ResultShows(item, paired, keep, one, two) ==
  /\ toolOutputToChatMessages(item, paired, keep) =
       IF HasImage(item) /\ keep THEN <<one, two>> ELSE <<one>>
  /\ one.calls = <<>> /\ two.calls = <<>> /\ two.role = "user"
  /\ one.role = IF item.of \in paired THEN "tool" ELSE "user"
  /\ one.content \in {<<Text(item.of)>>, <<Text(item.of)>> \o <<LeftOut(item.of)>>}
  /\ two.content = <<Picture(item.of)>>

LEMMA TextAndNote ==
  ASSUME NEW n \in Nat
  PROVE  <<Text(n), LeftOut(n)>> = <<Text(n)>> \o <<LeftOut(n)>>
<1> DEFINE t == Text(n)
           l == LeftOut(n)
           p == <<t>> \o <<l>>
           r == <<t, l>>
<1>1. t \in Blocks /\ l \in Blocks
  BY DEF Text, LeftOut, Blocks
<1> HIDE DEF t, l
<1>2. p \in Seq(Blocks) /\ Len(p) = 2 /\ \A i \in 1 .. 2 : p[i] = IF i = 1 THEN t ELSE l
  BY <1>1
<1>3. r \in Seq(Blocks) /\ Len(r) = 2 /\ \A i \in 1 .. 2 : r[i] = IF i = 1 THEN t ELSE l
  BY <1>1
<1> HIDE DEF p, r
<1>4. p = r
  BY <1>2, <1>3, SeqEqual
<1> QED BY <1>4 DEF p, r, t, l

LEMMA ResultPlaced ==
  ASSUME NEW N, NEW item \in Items, NEW paired, NEW keep
  PROVE  \E one, two \in ChatMessages(N) : ResultShows(item, paired, keep, one, two)
<1> DEFINE M == ChatMessages(N)
           text  == IF HasImage(item) /\ ~keep THEN <<Text(item.of), LeftOut(item.of)>>
                    ELSE <<Text(item.of)>>
           plain == ChatMessage("tool", text)
           other == ChatMessage("user", text)
           one   == IF item.of \in paired THEN [plain EXCEPT !.answers = item.of] ELSE other
           two   == ChatMessage("user", <<Picture(item.of)>>)
<1>1. text \in Seq(Blocks) /\ <<Picture(item.of)>> \in Seq(Blocks) /\ item.of \in Nat
  BY BlocksTyped
<1>2. text \in {<<Text(item.of)>>, <<Text(item.of)>> \o <<LeftOut(item.of)>>}
  BY <1>1, TextAndNote
<1>3. toolOutputToChatMessages(item, paired, keep)
        = <<one>> \o (IF HasImage(item) /\ keep THEN <<two>> ELSE <<>>)
  BY DEF toolOutputToChatMessages, text
<1> HIDE DEF text
<1>4. plain \in M /\ other \in M /\ two \in M
  BY <1>1, ChatMessageTyped
<1>5. /\ plain.content = text /\ plain.calls = <<>> /\ plain.role = "tool"
      /\ other.content = text /\ other.calls = <<>> /\ other.role = "user"
      /\ two.content = <<Picture(item.of)>> /\ two.calls = <<>> /\ two.role = "user"
  BY DEF ChatMessage
<1> HIDE DEF plain, other, two
<1>6. /\ [plain EXCEPT !.answers = item.of] \in M
      /\ [plain EXCEPT !.answers = item.of].content = text
      /\ [plain EXCEPT !.answers = item.of].calls = <<>>
      /\ [plain EXCEPT !.answers = item.of].role = "tool"
  BY <1>1, <1>4, <1>5 DEF ChatMessages
<1> HIDE DEF M
<1>7. one \in M /\ one.content = text /\ one.calls = <<>>
      /\ one.role = IF item.of \in paired THEN "tool" ELSE "user"
  BY <1>4, <1>5, <1>6
<1> HIDE DEF one
<1>8. <<one>> \o <<two>> = <<one, two>> /\ <<one>> \o <<>> = <<one>>
  <2>1. <<one>> \in Seq(M)
    BY <1>7
  <2>2. <<one>> \o <<>> = <<one>>
    BY <2>1, ConcatEmptySeq
  <2>3. <<one>> \o <<two>> = <<one, two>>
    <3> DEFINE p == <<one>> \o <<two>>
               r == <<one, two>>
    <3>1. p \in Seq(M) /\ Len(p) = 2 /\ \A i \in 1 .. 2 : p[i] = IF i = 1 THEN one ELSE two
      BY <1>4, <1>7
    <3>2. r \in Seq(M) /\ Len(r) = 2 /\ \A i \in 1 .. 2 : r[i] = IF i = 1 THEN one ELSE two
      BY <1>4, <1>7
    <3> HIDE DEF p, r
    <3>3. p = r
      BY <3>1, <3>2, SeqEqual
    <3> QED BY <3>3 DEF p, r
  <2> QED BY <2>2, <2>3
<1>9. ResultShows(item, paired, keep, one, two)
  BY <1>2, <1>3, <1>5, <1>7, <1>8 DEF ResultShows
<1> QED BY <1>4, <1>7, <1>9 DEF M

LEMMA ResultViews ==
  ASSUME NEW N, Numbered(N), NEW item \in Items, item.kind = "result", NEW paired, NEW keep,
         NEW one \in ChatMessages(N), NEW two \in ChatMessages(N),
         ResultShows(item, paired, keep, one, two)
  PROVE  ChatView(one) = ItemView(item, paired) /\ ChatView(two) = <<>>
<1>1. item.of \in Nat
  BY BlocksTyped
<1>2. /\ ChatView(one) = Speech(SpeechType(one), one.content)
      /\ ChatView(two) = Speech(SpeechType(two), two.content)
  BY ChatViewTyped DEF ResultShows
<1>3. ChatView(two) = <<>>
  BY <1>1, <1>2, SpeechOfTexts DEF ResultShows
<1>4. ChatView(one) = <<Shown(SpeechType(one), item.of)>>
  BY <1>1, <1>2, SpeechOfTexts DEF ResultShows
<1>5. SpeechType(one) = IF item.of \in paired THEN "tool_result" ELSE "text"
  BY DEF SpeechType, ResultShows
<1> QED BY <1>3, <1>4, <1>5, ItemViews

LEMMA LonelyNext ==
  ASSUME NEW s, DOMAIN s \subseteq Nat, NEW n \in Nat, n + 1 \in DOMAIN s, Lonely(s, n)
  PROVE  /\ ~Speaks(s[n + 1]) => Lonely(s, n + 1)
         /\ Spaced(s) => s[n + 1].kind # "result"
<1>1. PICK q \in DOMAIN s : /\ q <= n /\ s[q].kind = "assistant"
                            /\ \A t \in DOMAIN s : q < t /\ t <= n => ~Speaks(s[t])
  BY DEF Lonely
<1>2. q \in Nat /\ q <= n + 1 /\ q < n + 1
  BY <1>1
<1>3. ASSUME ~Speaks(s[n + 1]), NEW t \in DOMAIN s, q < t, t <= n + 1 PROVE ~Speaks(s[t])
  <2>1. t \in Nat /\ (t <= n \/ t = n + 1)
    BY <1>3
  <2> QED BY <2>1, <1>1, <1>3
<1>4. ASSUME Spaced(s), s[n + 1].kind = "result" PROVE FALSE
  <2>1. PICK t \in DOMAIN s : q < t /\ t < n + 1 /\ Speaks(s[t])
    BY <1>1, <1>2, <1>4 DEF Spaced
  <2>2. t <= n
    BY <2>1
  <2> QED BY <2>1, <2>2, <1>1
<1> QED BY <1>1, <1>2, <1>3, <1>4 DEF Lonely

LEMMA AppendedView ==
  ASSUME NEW N, Numbered(N), NEW ms \in Seq(ChatMessages(N)), NEW m \in ChatMessages(N),
         NEW s \in Seq(Items), NEW P, NEW n \in Nat, n + 1 \in DOMAIN s, NEW exact,
         Same(Seen(N, ms) \o Uses(<<>>), Past(s, P, n), exact),
         ChatView(m) = ItemView(s[n + 1], P)
  PROVE  Same(Seen(N, Append(ms, m)) \o Uses(<<>>), Past(s, P, n + 1), exact)
<1> DEFINE x == Seen(N, ms)
           y == Past(s, P, n)
           z == ItemView(s[n + 1], P)
           M == ChatMessages(N)
<1>1. x \in Seq(Entries) /\ x \o Uses(<<>>) = x
  BY SeenTyped, NothingPending
<1>2. Append(ms, m) \in Seq(M)
  BY DEF M
<1>3. Seen(N, Append(ms, m)) = x \o z
  BY SeenTyped
<1>4. Seen(N, Append(ms, m)) \o Uses(<<>>) = x \o z
  BY <1>2, <1>3, NothingPending
<1>5. n \in 0 .. Len(s) /\ s[n + 1] \in Items
  OBVIOUS
<1>6. y \in Seq(Entries) /\ Past(s, P, n + 1) = y \o z
  BY <1>5, PastGrows
<1>7. z \in Seq(Entries)
  BY <1>5, ItemViews
<1>8. Same(x, y, exact)
  BY <1>1
<1> HIDE DEF x, y, z
<1>9. Same(x \o z, y \o z, exact)
  BY <1>1, <1>6, <1>7, <1>8, SameConcat
<1> QED BY <1>4, <1>6, <1>9

LEMMA PlaceView ==
  ASSUME NEW N, Numbered(N), NEW a, Fits(a, N), NEW s \in Seq(Items), NEW n \in Nat,
         n + 1 \in DOMAIN s, NEW paired, KeepsView(N, a, s, paired, n), NEW keep,
         s[n + 1].kind = "call" => [of |-> s[n + 1].of, name |-> s[n + 1].tool.name] \in N
  PROVE  KeepsView(N, PlaceItem(a, s[n + 1], paired, keep), s, paired, n + 1)
<1> DEFINE item == s[n + 1]
           M == ChatMessages(N)
           f == flushPendingToolCalls(a)
           E == Spaced(s)
           past == Past(s, paired, n)
           next == Past(s, paired, n + 1)
<1>0. item \in Items /\ DOMAIN s \subseteq Nat /\ item.of \in Nat
  <2>1. item \in Items /\ DOMAIN s \subseteq Nat
    OBVIOUS
  <2> HIDE DEF item
  <2> QED BY <2>1, BlocksTyped
<1>1. Fits(f, N) /\ KeepsView(N, f, s, paired, n) /\ f.calls = <<>>
  BY FlushTyped, FlushView
<1> HIDE DEF f
<1>2. /\ a \in Placements(N) /\ f \in Placements(N) /\ f.messages \in Seq(M)
      /\ Len(f.messages) \in Nat /\ f.reasoning \in Seq(Nat) /\ a.calls \in Seq(N)
      /\ f.last \in Nat /\ f.last <= Len(f.messages)
      /\ a.messages \in Seq(M)
  BY <1>1 DEF Fits, Placements
<1>3. /\ Same(Seen(N, a.messages) \o Uses(a.calls), past, E)
      /\ E => Late(a.messages, a.calls, a.last, s, n)
  BY DEF KeepsView, Showing
<1>4. /\ Same(Seen(N, f.messages) \o Uses(<<>>), past, E)
      /\ E => Late(f.messages, <<>>, f.last, s, n)
  BY <1>1 DEF KeepsView, Showing
<1>5. /\ past \in Seq(Entries) /\ next = past \o ItemView(item, paired)
      /\ ItemView(item, paired) \in Seq(Entries)
  <2>1. n \in 0 .. Len(s)
    OBVIOUS
  <2>2. past \in Seq(Entries)
    BY <2>1, PastGrows
  <2>3. next = past \o ItemView(s[n + 1], paired)
    BY PastGrows
  <2>4. ItemView(item, paired) \in Seq(Entries)
    <3> HIDE DEF item
    <3> QED BY <1>0, ItemViews
  <2> QED BY <2>2, <2>3, <2>4
<1>6. CASE item.kind \notin {"call", "result", "assistant", "user"}
  <2> DEFINE b == PlaceItem(a, item, paired, keep)
             r == appendUniqueReasoning(a.reasoning, item.of)
  <2>1. b = a \/ b = [a EXCEPT !.reasoning = r]
    BY <1>6 DEF PlaceItem
  <2> HIDE DEF b, r
  <2>2. b.messages = a.messages /\ b.calls = a.calls /\ b.last = a.last
    BY <2>1, <1>2 DEF Placements
  <2>3. next = past
    <3>1. ItemView(item, paired) = <<>>
      BY <1>0, <1>6, ItemViews
    <3> QED BY <3>1, <1>5, ConcatEmptySeq
  <2>4. Lonely(s, n) => Lonely(s, n + 1)
    <3>1. ~Speaks(item)
      BY <1>6 DEF Speaks
    <3> QED BY <3>1, <1>0, LonelyNext
  <2>5. E => Late(a.messages, a.calls, a.last, s, n + 1)
    BY <2>4, <1>3 DEF Late
  <2> QED BY <2>2, <2>3, <2>5, <1>3 DEF KeepsView, Showing, b
<1>7. CASE item.kind = "call"
  <2> DEFINE b == PlaceItem(a, item, paired, keep)
             e == [of |-> item.of, name |-> item.tool.name]
             c == Append(a.calls, e)
             x == Seen(N, a.messages)
             y == Uses(a.calls)
             z == ItemView(item, paired)
  <2>1. b = [a EXCEPT !.calls = c]
    BY <1>7 DEF PlaceItem
  <2>2. e \in N /\ e.of = item.of
    BY <1>7
  <2> HIDE DEF b, e
  <2>3. c # <<>>
    <3>1. Len(c) = Len(a.calls) + 1 /\ Len(a.calls) \in Nat
      BY <2>2, <1>2
    <3>2. Len(<<>>) = 0
      OBVIOUS
    <3> HIDE DEF c
    <3> QED BY <3>1, <3>2
  <2>4. Uses(c) = y \o z
    <3>1. z = <<Shown("tool_use", item.of)>>
      <4> HIDE DEF item
      <4> QED BY <1>0, <1>7, ItemViews
    <3>2. \A d \in N : Uses(Append(a.calls, d)) = Uses(a.calls) \o <<Shown("tool_use", d.of)>>
      BY <1>2, UsesTyped DEF Numbered
    <3> QED BY <3>1, <3>2, <2>2
  <2> HIDE DEF c
  <2>5. b.messages = a.messages /\ b.calls = c /\ b.last = a.last
    BY <2>1, <1>2 DEF Placements
  <2>6. x \in Seq(Entries) /\ y \in Seq(Entries) /\ z \in Seq(Entries)
    BY <1>2, <1>5, SeenTyped, UsesTyped DEF Numbered
  <2>7. Same(x \o y, past, E)
    BY <1>3
  <2> HIDE DEF x, y, z, past, next, E
  <2>8. Same((x \o y) \o z, past \o z, E)
    <3> DEFINE w == x \o y
    <3>1. w \in Seq(Entries) /\ Same(w, past, E)
      BY <2>6, <2>7, ConcatProperties
    <3> HIDE DEF w
    <3>2. Same(w \o z, past \o z, E)
      BY <3>1, <2>6, <1>5, SameConcat
    <3> QED BY <3>2 DEF w
  <2>9. (x \o y) \o z = x \o Uses(c)
    BY <2>4, <2>6, ConcatAssociative
  <2>10. E => Late(a.messages, c, a.last, s, n + 1)
    BY <1>3, <2>3 DEF Late
  <2> QED BY <2>5, <2>8, <2>9, <2>10, <1>5 DEF KeepsView, Showing, b, x, z, next, E
<1>8. CASE item.kind = "result"
  <2> DEFINE b    == PlaceItem(a, item, paired, keep)
             ms   == toolOutputToChatMessages(item, paired, keep)
             last == IF HasImage(item) /\ keep THEN 0 ELSE f.last
  <2>1. b = [f EXCEPT !.messages = @ \o ms, !.last = last]
    BY <1>8 DEF PlaceItem, PlaceResult, f
  <2>2. PICK one \in M, two \in M : ResultShows(item, paired, keep, one, two)
    <3>1. \E one, two \in ChatMessages(N) : ResultShows(item, paired, keep, one, two)
      <4> HIDE DEF item
      <4> QED BY <1>0, ResultPlaced
    <3> QED BY <3>1
  <2>3. ChatView(one) = ItemView(item, paired) /\ ChatView(two) = <<>>
    <3> HIDE DEF item
    <3> QED BY <2>2, <1>0, <1>8, ResultViews
  <2>4. ms = IF HasImage(item) /\ keep THEN <<one, two>> ELSE <<one>>
    BY <2>2 DEF ResultShows
  <2> HIDE DEF b, ms
  <2>5. b.messages = f.messages \o ms /\ b.calls = <<>> /\ b.last = last
    <3> HIDE DEF M, last
    <3> QED BY <2>1, <1>1, <1>2 DEF Placements
  <2> DEFINE ps == Append(f.messages, one)
  <2>6. Same(Seen(N, ps) \o Uses(<<>>), next, E)
    BY <2>2, <2>3, <1>2, <1>4, AppendedView
  <2>7. ps \in Seq(M) /\ \A i \in 1 .. Len(f.messages) : ps[i] = f.messages[i]
    <3> HIDE DEF M
    <3> QED BY <2>2, <1>2
  <2> HIDE DEF ps
  <2>8. CASE HasImage(item) /\ keep
    <3>1. b.messages = Append(ps, two) /\ b.last = 0
      <4> HIDE DEF M
      <4>1. b.messages = f.messages \o <<one, two>> /\ last = 0
        BY <2>4, <2>5, <2>8
      <4>2. f.messages \o <<one, two>> = Append(ps, two)
        BY <2>2, <1>2 DEF ps
      <4> QED BY <4>1, <4>2, <2>5
    <3>2. Seen(N, Append(ps, two)) = Seen(N, ps) \o <<>>
      BY <2>2, <2>3, <2>7, SeenTyped
    <3>3. Seen(N, ps) \in Seq(Entries)
      BY <2>7, SeenTyped
    <3>4. Seen(N, Append(ps, two)) = Seen(N, ps)
      BY <3>2, <3>3, ConcatEmptySeq
    <3>5. Late(Append(ps, two), <<>>, 0, s, n + 1)
      BY DEF Late
    <3> QED BY <3>1, <3>4, <3>5, <2>5, <2>6 DEF KeepsView, Showing, b
  <2>9. CASE ~(HasImage(item) /\ keep)
    <3>1. b.messages = ps /\ b.last = f.last
      <4>1. f.messages \o <<one>> = ps
        BY <1>2, <2>2 DEF ps
      <4>2. ms = <<one>> /\ last = f.last
        BY <2>4, <2>9
      <4> QED BY <4>1, <4>2, <2>5
    <3>2. E => Late(ps, <<>>, f.last, s, n + 1)
      <4> SUFFICES ASSUME E, f.last # 0, ps[f.last].calls = <<>> PROVE FALSE
        BY DEF Late
      <4>1. ps[f.last] = f.messages[f.last]
        BY <2>7, <1>2
      <4>2. Lonely(s, n)
        BY <4>1, <1>4 DEF Late
      <4> QED BY <4>2, <1>0, <1>8, LonelyNext
    <3> QED BY <3>1, <3>2, <2>5, <2>6 DEF KeepsView, Showing, b
  <2> QED BY <2>8, <2>9
<1>9. CASE item.kind = "assistant"
  <2> DEFINE b    == PlaceItem(a, item, paired, keep)
             new  == ChatMessage("assistant", <<Text(item.of)>>)
             m    == attachReasoning(new, f.reasoning)
             last == Len(f.messages) + 1
  <2>1. b = [f EXCEPT !.messages = Append(@, m), !.reasoning = <<>>, !.last = last]
    BY <1>9 DEF PlaceItem, PlaceAssistant, f
  <2>2. new \in M /\ new.role = "assistant" /\ new.content = <<Text(item.of)>> /\ new.calls = <<>>
    BY <1>0, BlocksTyped, ChatMessageTyped DEF ChatMessage
  <2> HIDE DEF new
  <2>3. m \in M /\ m.role = "assistant" /\ m.content = <<Text(item.of)>> /\ m.calls = <<>>
    <3>1. m \in M
      BY <2>2, <1>2, AttachTyped
    <3>2. m.role = new.role /\ m.content = new.content /\ m.calls = new.calls
      BY <2>2, <1>2, AttachPasses
    <3> QED BY <3>1, <3>2, <2>2
  <2> HIDE DEF b, m, M
  <2>4. b.messages = Append(f.messages, m) /\ b.calls = <<>> /\ b.last = last
    <3> HIDE DEF last
    <3> QED BY <2>1, <1>1, <1>2 DEF Placements
  <2>5. ChatView(m) = ItemView(item, paired)
    <3>1. SpeechType(m) = "text"
      BY <2>3 DEF SpeechType
    <3>2. ChatView(m) = Speech("text", <<Text(item.of)>>)
      BY <2>3, <3>1, ChatViewTyped DEF M
    <3> HIDE DEF item
    <3>3. Speech("text", <<Text(item.of)>>) = <<Shown("text", item.of)>>
      BY <1>0, SpeechOfTexts
    <3>4. ItemView(item, paired) = <<Shown("text", item.of)>>
      BY <1>0, <1>9, ItemViews
    <3> QED BY <3>2, <3>3, <3>4
  <2>6. Same(Seen(N, Append(f.messages, m)) \o Uses(<<>>), next, E)
    BY <2>3, <2>5, <1>2, <1>4, AppendedView DEF M
  <2>7. Late(Append(f.messages, m), <<>>, last, s, n + 1)
    <3>1. Len(Append(f.messages, m)) = last
      BY <1>2, <2>3
    <3>2. Lonely(s, n + 1)
      <4>1. \A t \in DOMAIN s : ~(n + 1 < t /\ t <= n + 1)
        BY <1>0
      <4>2. n + 1 <= n + 1
        OBVIOUS
      <4> QED BY <4>1, <4>2, <1>9 DEF Lonely
    <3> QED BY <3>1, <3>2 DEF Late
  <2> QED BY <2>4, <2>6, <2>7 DEF KeepsView, Showing, b
<1>10. CASE item.kind = "user"
  <2> DEFINE b == PlaceItem(a, item, paired, keep)
             g == attachReasoningToPreviousAssistant(f)
             m == ChatMessage("user", convertContentBlocks(item, keep))
  <2>1. b = [g EXCEPT !.messages = Append(@, m), !.last = 0]
    BY <1>10 DEF PlaceItem, PlaceUser, f
  <2>2. Fits(g, N) /\ KeepsView(N, g, s, paired, n) /\ g.calls = <<>>
    BY <1>1, SettledTyped, SettleView
  <2>3. m \in M /\ m.role = "user" /\ m.calls = <<>> /\ m.content = convertContentBlocks(item, keep)
    BY <1>0, BlocksTyped, ChatMessageTyped DEF ChatMessage
  <2> HIDE DEF b, g, m
  <2>4. g \in Placements(N) /\ g.messages \in Seq(M)
        /\ Same(Seen(N, g.messages) \o Uses(<<>>), past, E)
    BY <2>2 DEF Fits, Placements, KeepsView, Showing
  <2> HIDE DEF M
  <2>5. b.messages = Append(g.messages, m) /\ b.calls = <<>> /\ b.last = 0
    BY <2>1, <2>2, <2>4 DEF Placements
  <2>6. ChatView(m) = ItemView(item, paired)
    <3>1. SpeechType(m) = "text"
      BY <2>3 DEF SpeechType
    <3>2. ChatView(m) = Speech("text", convertContentBlocks(item, keep))
      BY <2>3, <3>1, ChatViewTyped DEF M
    <3>3. convertContentBlocks(item, keep) \in
            {<<Text(item.of)>> \o <<>>, <<Text(item.of)>> \o <<Picture(item.of)>>,
             <<Text(item.of)>> \o <<LeftOut(item.of)>>}
      BY DEF convertContentBlocks
    <3> HIDE DEF item
    <3>4. Speech("text", convertContentBlocks(item, keep)) = <<Shown("text", item.of)>>
      BY <3>3, <1>0, SpeechOfTexts
    <3> QED BY <3>2, <3>4, <1>0, <1>10, ItemViews
  <2>7. Same(Seen(N, Append(g.messages, m)) \o Uses(<<>>), next, E)
    BY <2>3, <2>4, <2>6, AppendedView DEF M
  <2>8. Late(Append(g.messages, m), <<>>, 0, s, n + 1)
    BY DEF Late
  <2> QED BY <2>5, <2>7, <2>8 DEF KeepsView, Showing, b
<1> QED BY <1>6, <1>7, <1>8, <1>9, <1>10

LEMMA PlacedView ==
  ASSUME NEW s \in Seq(Items), NEW paired, NEW keep
  PROVE  KeepsView(CallNames(s), Placed(s, paired, keep), s, paired, Len(s))
         /\ Numbered(CallNames(s))
<1> DEFINE N == CallNames(s)
           n == Len(s)
           R == {p \in Nat \X Placements(N) : Fits(p[2], N) /\ KeepsView(N, p[2], s, paired, p[1])}
<1>1. n \in Nat /\ DOMAIN s = 1 .. n /\ \A i \in 1 .. n : s[i] \in Items
  OBVIOUS
<1>2. \A i, a : <<i, a>> \in R <=> i \in Nat /\ Fits(a, N) /\ KeepsView(N, a, s, paired, i)
  BY DEF Fits
<1>3. \A i \in 1 .. n : s[i].kind = "call" => [of |-> s[i].of, name |-> s[i].tool.name] \in N
  BY <1>1 DEF CallNames
<1>0. Numbered(N)
  <2>1. \A i \in 1 .. n : s[i].of \in Nat
    BY <1>1, BlocksTyped
  <2> QED BY <1>1, <2>1 DEF Numbered, CallNames
<1> HIDE DEF R, N, n
<1>4. <<0, Start>> \in R
  <2>1. <<>> \in Seq(ChatMessages(N)) /\ <<>> \in Seq(N) /\ <<>> \in Seq(Nat)
        /\ 0 \in Nat /\ 0 <= Len(<<>>) /\ <<>> \in Seq(Entries)
    OBVIOUS
  <2>2. /\ Start \in Placements(N) /\ Start.last = 0 /\ Start.messages = <<>>
        /\ Start.calls = <<>>
    BY <2>1 DEF Start, Placements
  <2>3. Fits(Start, N)
    BY <2>1, <2>2 DEF Fits
  <2>4. KeepsView(N, Start, s, paired, 0)
    <3>1. Seen(N, <<>>) \o Uses(<<>>) = <<>>
      BY <2>1, <1>0, SeenTyped, NothingPending
    <3>2. Past(s, paired, 0) = <<>>
      BY PastGrows
    <3> QED BY <2>2, <3>1, <3>2 DEF KeepsView, Showing, Late, Same, Alike
  <2> QED BY <2>1, <2>3, <2>4, <1>2
<1>5. ASSUME NEW i \in 1 .. n, NEW a, <<i - 1, a>> \in R
      PROVE  <<i, PlaceItem(a, s[i], paired, keep)>> \in R
  <2>1. i \in Nat /\ i - 1 \in Nat /\ (i - 1) + 1 = i /\ i \in DOMAIN s
    BY <1>1
  <2>2. Fits(a, N) /\ KeepsView(N, a, s, paired, i - 1)
    BY <1>5, <1>2
  <2>3. Fits(PlaceItem(a, s[i], paired, keep), N)
    BY <1>1, <1>3, <2>2, PlaceItemTyped
  <2> DEFINE j == i - 1
  <2>4. j \in Nat /\ j + 1 = i /\ KeepsView(N, a, s, paired, j)
    BY <2>1, <2>2
  <2>6. s[i].kind = "call" => [of |-> s[i].of, name |-> s[i].tool.name] \in N
    BY <1>3
  <2> HIDE DEF j
  <2>7. /\ j + 1 \in DOMAIN s
        /\ s[j + 1].kind = "call" => [of |-> s[j + 1].of, name |-> s[j + 1].tool.name] \in N
    BY <2>1, <2>4, <2>6
  <2>5. KeepsView(N, PlaceItem(a, s[j + 1], paired, keep), s, paired, j + 1)
    BY <2>2, <2>4, <2>7, <1>0, PlaceView
  <2> QED BY <2>1, <2>3, <2>4, <2>5, <1>2
<1>6. <<n, Placed(s, paired, keep)>> \in R
  BY <1>1, <1>4, <1>5, PlacedByInduction
<1> QED BY <1>0, <1>6, <1>2 DEF n, N

\* What inputToChatMessages makes of the input s shows what was said in it.
LEMMA ChatShows ==
  ASSUME NEW s \in Seq(Items), NEW opts
  PROVE  Same(Seen(CallNames(s), inputToChatMessages(s, opts)),
              HistoryOf(s, PairedToolCallIDs(s)), Spaced(s))
<1> DEFINE N == CallNames(s)
           paired == PairedToolCallIDs(s)
           p == Placed(s, paired, opts.images /\ ~opts.omit)
           f == flushPendingToolCalls(p)
           d == attachReasoningToPreviousAssistant(f)
           ms == d.messages
           b == backfillToolCallReasoningPlaceholders(ms)
<1>1. Fits(p, N) /\ KeepsView(N, p, s, paired, Len(s)) /\ Numbered(N)
  BY PlacedFits, PlacedView
<1> HIDE DEF p, N
<1>2. Fits(f, N) /\ KeepsView(N, f, s, paired, Len(s)) /\ f.calls = <<>>
  BY <1>1, FlushTyped, FlushView
<1> HIDE DEF f
<1>3. Fits(d, N) /\ KeepsView(N, d, s, paired, Len(s)) /\ d.calls = <<>>
  BY <1>1, <1>2, SettledTyped, SettleView
<1>4. b = inputToChatMessages(s, opts)
  BY ChatMessagesOfPlaced DEF f, p
<1> HIDE DEF d, paired
<1>5. ms \in Seq(ChatMessages(N)) /\ Same(Seen(N, ms) \o Uses(<<>>), Past(s, paired, Len(s)), Spaced(s))
  BY <1>3 DEF Fits, Placements, KeepsView, Showing
<1> HIDE DEF ms
<1>6. Same(Seen(N, ms), HistoryOf(s, paired), Spaced(s))
  BY <1>1, <1>5, NothingPending, PastGrows
<1>7. Seen(N, b) = Seen(N, ms)
  <2> DEFINE M == ChatMessages(N)
             g == ChatViews(N)
  <2>1. b \in Seq(M) /\ DOMAIN b = DOMAIN ms
    BY <1>5, BackfillTyped DEF backfillToolCallReasoningPlaceholders
  <2>2. ASSUME NEW i \in DOMAIN ms PROVE ChatView(b[i]) = ChatView(ms[i])
    <3>1. ms[i] \in M
      BY <1>5
    <3>2. \/ b[i] = ms[i]
          \/ b[i] = [ms[i] EXCEPT !.reasoning = <<Placeholder>>]
      BY DEF backfillToolCallReasoningPlaceholders
    <3> HIDE DEF b
    <3>3. b[i].content = ms[i].content /\ b[i].role = ms[i].role /\ b[i].calls = ms[i].calls
      BY <3>1, <3>2 DEF ChatMessages
    <3>4. SpeechType(b[i]) = SpeechType(ms[i])
      BY <3>3 DEF SpeechType
    <3> QED BY <3>3, <3>4, ChatViewIs
  <2> HIDE DEF b
  <2>3. \A i \in DOMAIN ms : b[i] \in M /\ ms[i] \in M
    BY <1>5, <2>1
  <2>4. \A m \in M : g[m] = ChatView(m)
    BY <1>1, ChatViewsMap
  <2> HIDE DEF M, g
  <2>5. Each(g, b) = Each(g, ms)
    <3>1. \A i \in DOMAIN ms : g[b[i]] = g[ms[i]]
      BY <2>2, <2>3, <2>4
    <3> QED BY <3>1, <2>1 DEF Each
  <2> QED BY <2>5 DEF Seen, Spread, g
<1> QED BY <1>4, <1>6, <1>7 DEF N, paired

LEMMA HistorySpaced ==
  ASSUME history \in Seq(Items), ~TextBeforeResult
  PROVE  Spaced(history)
<1> SUFFICES ASSUME NEW q \in DOMAIN history, NEW p \in DOMAIN history,
                    history[q].kind = "assistant", history[p].kind = "result", q < p,
                    \A t \in DOMAIN history : q < t /\ t < p => ~Speaks(history[t])
             PROVE  FALSE
  BY DEF Spaced
<1> DEFINE K == {"user", "assistant", "call", "result"}
           P == {i \in DOMAIN history : history[i].kind \in K}
           f == [i \in DOMAIN history |-> IF history[i].kind \in K THEN <<history[i]>> ELSE <<>>]
           items == FlattenSeq(f)
<1>1. DOMAIN history = 1 .. Len(history) /\ Len(history) \in Nat
  OBVIOUS
<1>2. items \in Seq(Items) /\ \E g : Picked(g, items, history, P)
  <2>1. f = [i \in DOMAIN history |-> f[i]] /\ P \in SUBSET DOMAIN history
    OBVIOUS
  <2>2. \A i \in DOMAIN history : f[i] = IF i \in P THEN <<history[i]>> ELSE <<>>
    OBVIOUS
  <2> HIDE DEF f, P
  <2> QED BY <2>1, <2>2, PickedInOrder
<1>3. PICK g : Picked(g, items, history, P)
  BY <1>2
<1>4. \E i \in 1 .. Len(items) - 1 : items[i].kind = "assistant" /\ items[i + 1].kind = "result"
  <2> HIDE DEF items, f
  <2>1. /\ Len(items) \in Nat
        /\ g \in [1 .. Len(items) -> P]
        /\ \A k \in 1 .. Len(items) : items[k] = history[g[k]]
        /\ \A j, k \in 1 .. Len(items) : j < k => g[j] < g[k]
        /\ \A i \in P : \E k \in 1 .. Len(items) : g[k] = i
    BY <1>2, <1>3 DEF Picked
  <2>2. q \in P /\ p \in P
    OBVIOUS
  <2>3. PICK k \in 1 .. Len(items) : g[k] = q
    BY <2>1, <2>2
  <2>4. PICK m \in 1 .. Len(items) : g[m] = p
    BY <2>1, <2>2
  <2>5. k < m
    <3>1. k \in Nat /\ m \in Nat /\ q \in Nat /\ p \in Nat /\ ~(p < q) /\ p # q
      BY <2>1, <1>1
    <3>2. m < k => g[m] < g[k]
      BY <2>1
    <3>3. m = k => g[m] = g[k]
      OBVIOUS
    <3> QED BY <3>1, <3>2, <3>3, <2>3, <2>4
  <2>6. k \in 1 .. Len(items) - 1 /\ k + 1 \in 1 .. Len(items) /\ k < k + 1 /\ (k + 1 < m \/ k + 1 = m)
    BY <2>1, <2>5
  <2> DEFINE u == g[k + 1]
  <2>7. u \in P /\ q < u /\ (u < p \/ u = p) /\ items[k + 1] = history[u]
    BY <2>1, <2>3, <2>4, <2>6
  <2> HIDE DEF u
  <2>8. u \in DOMAIN history /\ Speaks(history[u])
    BY <2>7 DEF Speaks
  <2>9. u = p
    BY <2>7, <2>8
  <2> QED BY <2>1, <2>3, <2>6, <2>7, <2>9
<1> QED BY <1>4 DEF TextBeforeResult, Only

LEMMA FollowSpaced ==
  ASSUME NEW x \in Seq(Items), NEW h \in Seq(Items), Spaced(h), NEW g, Follow(g, x, h)
  PROVE  Spaced(x)
<1>1. /\ DOMAIN x = 1 .. Len(x) /\ DOMAIN h = 1 .. Len(h)
      /\ DOMAIN x \subseteq Nat /\ DOMAIN h \subseteq Nat
  OBVIOUS
<1>2. /\ \A k \in DOMAIN x : g[k] \in DOMAIN h /\ x[k].kind = h[g[k]].kind /\ x[k].of = h[g[k]].of
      /\ \A j, k \in DOMAIN x : j < k => g[j] < g[k]
      /\ \A i \in DOMAIN h : h[i].kind # "carrier" => \E k \in DOMAIN x : g[k] = i
  BY <1>1 DEF Follow
<1>3. ASSUME NEW j \in DOMAIN x, NEW k \in DOMAIN x, g[j] < g[k] PROVE j < k
  <2>1. j < k \/ k < j \/ j = k
    BY <1>1
  <2>2. g[j] \in Nat /\ g[k] \in Nat
    BY <1>1, <1>2
  <2>3. k < j => g[k] < g[j]
    BY <1>2
  <2>4. j = k => g[j] = g[k]
    OBVIOUS
  <2> QED BY <2>1, <2>2, <2>3, <2>4, <1>3
<1> SUFFICES ASSUME NEW q \in DOMAIN x, NEW p \in DOMAIN x, x[q].kind = "assistant",
                    x[p].kind = "result", q < p
             PROVE  \E t \in DOMAIN x : q < t /\ t < p /\ Speaks(x[t])
  BY DEF Spaced
<1>4. /\ g[q] \in DOMAIN h /\ g[p] \in DOMAIN h /\ h[g[q]].kind = "assistant"
      /\ h[g[p]].kind = "result" /\ g[q] < g[p]
  BY <1>2
<1>5. PICK u \in DOMAIN h : g[q] < u /\ u < g[p] /\ Speaks(h[u])
  BY <1>4 DEF Spaced
<1>6. h[u].kind # "carrier"
  BY <1>5 DEF Speaks
<1>7. PICK t \in DOMAIN x : g[t] = u
  BY <1>2, <1>6
<1>8. q < t /\ t < p
  BY <1>3, <1>5, <1>7
<1>9. Speaks(x[t])
  BY <1>2, <1>5, <1>7 DEF Speaks
<1> QED BY <1>8, <1>9

-----------------------------------------------------------------------------
(* The pictures of a Chat request *)

PicturesOf(content) == {b.of : b \in {c \in ToSet(content) : c.type = "image"}}
PicturesIn(ms) == UNION {PicturesOf(ms[i].content) : i \in DOMAIN ms}

\* The pictures of the first n items.
Pictured(s, n, keep) == {s[q].of : q \in {i \in DOMAIN s : i <= n /\ keep /\ HasImage(s[i])}}

LEMMA PicturesOfTexts ==
  ASSUME NEW n \in Nat
  PROVE  /\ PicturesOf(<<>>) = {} /\ PicturesOf(<<Text(n)>>) = {}
         /\ PicturesOf(<<Text(n)>> \o <<>>) = {}
         /\ PicturesOf(<<Text(n)>> \o <<Picture(n)>>) = {n}
         /\ PicturesOf(<<Text(n)>> \o <<LeftOut(n)>>) = {}
         /\ PicturesOf(<<Picture(n)>>) = {n}
<1> DEFINE t == Text(n)
           p == Picture(n)
           l == LeftOut(n)
<1>1. /\ t \in Blocks /\ p \in Blocks /\ l \in Blocks
      /\ t.type # "image" /\ p.type = "image" /\ l.type # "image" /\ p.of = n
  BY DEF Text, Picture, LeftOut, Blocks
<1> HIDE DEF t, p, l
<1>2. /\ <<t>> \in Seq(Blocks) /\ <<p>> \in Seq(Blocks) /\ <<l>> \in Seq(Blocks)
  BY <1>1
<1>3. /\ ToSet(<<t>>) = {t} /\ ToSet(<<p>>) = {p} /\ ToSet(<<l>>) = {l}
  BY OneDistinct
<1>4. ToSet(<<>>) = {}
  BY DEF ToSet
<1>5. ToSet(<<t>> \o <<p>>) = {t, p} /\ ToSet(<<t>> \o <<l>>) = {t, l}
  <2> DEFINE x == <<t>>
             y == <<p>>
             z == <<l>>
  <2>1. x \in Seq(Blocks) /\ y \in Seq(Blocks) /\ z \in Seq(Blocks)
        /\ ToSet(x) = {t} /\ ToSet(y) = {p} /\ ToSet(z) = {l}
    BY <1>2, <1>3
  <2> HIDE DEF x, y, z
  <2>2. ToSet(x \o y) = ToSet(x) \cup ToSet(y) /\ ToSet(x \o z) = ToSet(x) \cup ToSet(z)
    BY <2>1, ConcatToSet
  <2>3. ToSet(x \o y) = {t, p} /\ ToSet(x \o z) = {t, l}
    BY <2>1, <2>2
  <2> QED BY <2>3 DEF x, y, z
<1>6. <<t>> \o <<>> = <<t>>
  BY <1>2, ConcatEmptySeq
<1>7. /\ PicturesOf(<<>>) = {} /\ PicturesOf(<<t>>) = {}
      /\ PicturesOf(<<t>> \o <<p>>) = {n} /\ PicturesOf(<<t>> \o <<l>>) = {}
      /\ PicturesOf(<<p>>) = {n}
  BY <1>1, <1>3, <1>4, <1>5 DEF PicturesOf
<1> QED BY <1>6, <1>7 DEF t, p, l

LEMMA PicturesAppend ==
  ASSUME NEW M, NEW ms \in Seq(M), NEW m \in M
  PROVE  PicturesIn(Append(ms, m)) = PicturesIn(ms) \cup PicturesOf(m.content)
<1> DEFINE more == Append(ms, m)
           n == Len(ms)
<1>1. /\ n \in Nat /\ DOMAIN more = 1 .. n + 1 /\ DOMAIN ms = 1 .. n
      /\ more[n + 1] = m /\ \A i \in 1 .. n : more[i] = ms[i]
  BY AppendProperties
<1> HIDE DEF more, n
<1>2. \A i \in 1 .. n + 1 : i \in 1 .. n \/ i = n + 1
  BY <1>1
<1>3. n + 1 \in 1 .. n + 1 /\ \A i \in 1 .. n : i \in 1 .. n + 1
  BY <1>1
<1>4. ASSUME NEW z \in PicturesIn(more) PROVE z \in PicturesIn(ms) \cup PicturesOf(m.content)
  <2>1. PICK i \in DOMAIN more : z \in PicturesOf(more[i].content)
    BY DEF PicturesIn
  <2>2. CASE i \in 1 .. n
    <3>1. i \in DOMAIN ms /\ z \in PicturesOf(ms[i].content)
      BY <2>1, <2>2, <1>1
    <3> QED BY <3>1 DEF PicturesIn
  <2>3. CASE i = n + 1
    BY <2>1, <2>3, <1>1
  <2> QED BY <2>2, <2>3, <1>1, <1>2
<1>5. ASSUME NEW z \in PicturesIn(ms) PROVE z \in PicturesIn(more)
  <2>1. PICK i \in DOMAIN ms : z \in PicturesOf(ms[i].content)
    BY DEF PicturesIn
  <2>2. i \in DOMAIN more /\ z \in PicturesOf(more[i].content)
    BY <2>1, <1>1, <1>3
  <2> QED BY <2>2 DEF PicturesIn
<1>6. ASSUME NEW z \in PicturesOf(m.content) PROVE z \in PicturesIn(more)
  <2>1. n + 1 \in DOMAIN more /\ z \in PicturesOf(more[n + 1].content)
    BY <1>1, <1>3
  <2> QED BY <2>1 DEF PicturesIn
<1> QED BY <1>4, <1>5, <1>6 DEF more

LEMMA PicturesKept ==
  ASSUME NEW ms, NEW more, DOMAIN more = DOMAIN ms,
         \A i \in DOMAIN ms : more[i].content = ms[i].content
  PROVE  PicturesIn(more) = PicturesIn(ms)
BY DEF PicturesIn

LEMMA FlushPictures ==
  ASSUME NEW N, NEW a, Fits(a, N)
  PROVE  PicturesIn(flushPendingToolCalls(a).messages) = PicturesIn(a.messages)
<1> DEFINE b == flushPendingToolCalls(a)
           M == ChatMessages(N)
           l == Len(a.messages)
<1>1. a \in Placements(N) /\ a.messages \in Seq(M) /\ a.calls \in Seq(N)
      /\ a.reasoning \in Seq(Nat) /\ a.last \in Nat /\ a.last <= l /\ l \in Nat
      /\ DOMAIN a.messages = 1 .. l
  BY DEF Fits, Placements
<1>2. CASE a.calls = <<>>
  BY <1>2 DEF flushPendingToolCalls
<1>3. CASE a.calls # <<>>
  <2> DEFINE joins == /\ a.last # 0
                      /\ a.messages[a.last].role = "assistant"
                      /\ ~hasToolCalls(a.messages[a.last])
             base  == IF joins THEN a.messages[a.last] ELSE ChatMessage("assistant", <<>>)
             with  == [base EXCEPT !.calls = a.calls]
             full  == attachReasoning(with, a.reasoning)
             ms    == IF joins THEN [a.messages EXCEPT ![a.last] = full]
                      ELSE Append(a.messages, full)
             last  == IF joins THEN a.last ELSE Len(a.messages) + 1
  <2>1. b = [messages |-> ms, calls |-> <<>>, reasoning |-> <<>>, last |-> last]
    BY <1>3 DEF flushPendingToolCalls
  <2>2. base \in M
    <3>1. <<>> \in Seq(Blocks)
      OBVIOUS
    <3>2. ChatMessage("assistant", <<>>) \in M
      BY <3>1, ChatMessageTyped
    <3>3. joins => a.messages[a.last] \in M
      BY <1>1
    <3> HIDE DEF M, joins
    <3> QED BY <3>2, <3>3
  <2>3. /\ joins => base = a.messages[a.last]
        /\ ~joins => base.content = <<>>
    BY DEF ChatMessage
  <2> HIDE DEF base
  <2>4. with \in M /\ with.content = base.content
    BY <2>2, <1>1 DEF ChatMessages
  <2> HIDE DEF with
  <2>5. full \in M /\ full.content = base.content
    BY <2>4, <1>1, AttachTyped, AttachPasses
  <2> HIDE DEF full
  <2>6. b.messages = ms
    BY <2>1
  <2> HIDE DEF b, M
  <2>7. CASE joins
    <3> DEFINE more == [a.messages EXCEPT ![a.last] = full]
    <3>1. a.last \in DOMAIN a.messages
      BY <2>7, <1>1
    <3>2. DOMAIN more = DOMAIN a.messages
          /\ \A i \in DOMAIN a.messages : more[i].content = a.messages[i].content
      BY <3>1, <2>3, <2>5, <2>7
    <3> HIDE DEF more
    <3>3. PicturesIn(more) = PicturesIn(a.messages)
      BY <3>2, PicturesKept
    <3> QED BY <3>3, <2>6, <2>7 DEF b, more
  <2>8. CASE ~joins
    <3>1. PicturesOf(full.content) = {}
      <4>1. 0 \in Nat
        OBVIOUS
      <4> QED BY <4>1, <2>3, <2>5, <2>8, PicturesOfTexts
    <3>2. PicturesIn(Append(a.messages, full)) = PicturesIn(a.messages) \cup PicturesOf(full.content)
      BY <1>1, <2>5, PicturesAppend
    <3> QED BY <3>1, <3>2, <2>6, <2>8 DEF b
  <2> QED BY <2>7, <2>8 DEF b
<1> QED BY <1>2, <1>3

LEMMA SettlePictures ==
  ASSUME NEW N, NEW a, Fits(a, N)
  PROVE  PicturesIn(attachReasoningToPreviousAssistant(a).messages) = PicturesIn(a.messages)
<1> DEFINE b == attachReasoningToPreviousAssistant(a)
           M == ChatMessages(N)
           l == Len(a.messages)
<1>1. a \in Placements(N) /\ a.messages \in Seq(M)
      /\ a.reasoning \in Seq(Nat) /\ a.last \in Nat /\ a.last <= l /\ l \in Nat
      /\ DOMAIN a.messages = 1 .. l
  BY DEF Fits, Placements
<1>3. CASE a.last = 0
  <2>1. b = [a EXCEPT !.reasoning = <<>>]
    BY <1>3 DEF attachReasoningToPreviousAssistant
  <2>2. b.messages = a.messages
    BY <2>1, <1>1 DEF Placements
  <2> QED BY <2>2
<1>4. CASE a.last # 0
  <2> DEFINE ms == [a.messages EXCEPT ![a.last].reasoning = @ \o a.reasoning]
  <2>1. a.last \in DOMAIN a.messages
    BY <1>1, <1>4
  <2>2. a.messages[a.last] \in M
    BY <1>1, <2>1
  <2>3. DOMAIN ms = DOMAIN a.messages
        /\ \A i \in DOMAIN a.messages : ms[i].content = a.messages[i].content
    BY <2>1, <2>2 DEF ChatMessages
  <2>4. b.messages = ms
    <3>1. b = [a EXCEPT !.messages[a.last].reasoning = @ \o a.reasoning, !.reasoning = <<>>]
      BY <1>4 DEF attachReasoningToPreviousAssistant
    <3>2. b = [a EXCEPT !.messages = ms, !.reasoning = <<>>]
      <4> HIDE DEF b
      <4> QED BY <3>1
    <3> HIDE DEF b, ms
    <3> QED BY <3>2, <1>1 DEF Placements
  <2> HIDE DEF b, ms
  <2>5. PicturesIn(ms) = PicturesIn(a.messages)
    BY <2>3, PicturesKept
  <2> QED BY <2>4, <2>5 DEF b
<1> QED BY <1>3, <1>4

LEMMA PicturedNext ==
  ASSUME NEW s, DOMAIN s \subseteq Nat, NEW n \in Nat, n + 1 \in DOMAIN s, NEW keep
  PROVE  /\ keep /\ HasImage(s[n + 1]) =>
              Pictured(s, n + 1, keep) = Pictured(s, n, keep) \cup {s[n + 1].of}
         /\ ~(keep /\ HasImage(s[n + 1])) => Pictured(s, n + 1, keep) = Pictured(s, n, keep)
<1> DEFINE Q(k) == {i \in DOMAIN s : i <= k /\ keep /\ HasImage(s[i])}
<1>1. \A i \in DOMAIN s : (i <= n + 1) <=> (i <= n \/ i = n + 1)
  OBVIOUS
<1>2. /\ keep /\ HasImage(s[n + 1]) => Q(n + 1) = Q(n) \cup {n + 1}
      /\ ~(keep /\ HasImage(s[n + 1])) => Q(n + 1) = Q(n)
  <2>1. ASSUME keep, HasImage(s[n + 1]) PROVE Q(n + 1) = Q(n) \cup {n + 1}
    <3>1. n + 1 <= n + 1
      OBVIOUS
    <3> QED BY <1>1, <2>1, <3>1
  <2>2. ASSUME ~(keep /\ HasImage(s[n + 1])) PROVE Q(n + 1) = Q(n)
    BY <1>1, <2>2
  <2> QED BY <2>1, <2>2
<1>3. \A k : Pictured(s, k, keep) = {s[q].of : q \in Q(k)}
  BY DEF Pictured
<1>4. Pictured(s, n, keep) = {s[q].of : q \in Q(n)} /\ Pictured(s, n + 1, keep) = {s[q].of : q \in Q(n + 1)}
  BY <1>3
<1> HIDE DEF Q
<1>5. ASSUME keep, HasImage(s[n + 1])
      PROVE  Pictured(s, n + 1, keep) = Pictured(s, n, keep) \cup {s[n + 1].of}
  <2>1. Pictured(s, n + 1, keep) = {s[q].of : q \in Q(n) \cup {n + 1}}
    BY <1>2, <1>4, <1>5
  <2>2. {s[q].of : q \in Q(n) \cup {n + 1}} = {s[q].of : q \in Q(n)} \cup {s[n + 1].of}
    OBVIOUS
  <2> QED BY <2>1, <2>2, <1>4
<1>6. ASSUME ~(keep /\ HasImage(s[n + 1])) PROVE Pictured(s, n + 1, keep) = Pictured(s, n, keep)
  BY <1>2, <1>4, <1>6
<1> QED BY <1>5, <1>6

LEMMA PlacePictures ==
  ASSUME NEW N, NEW a, Fits(a, N), NEW s \in Seq(Items), NEW n \in Nat, n + 1 \in DOMAIN s,
         NEW paired, NEW keep, PicturesIn(a.messages) = Pictured(s, n, keep)
  PROVE  PicturesIn(PlaceItem(a, s[n + 1], paired, keep).messages) = Pictured(s, n + 1, keep)
<1> DEFINE item == s[n + 1]
           M == ChatMessages(N)
           f == flushPendingToolCalls(a)
           was == Pictured(s, n, keep)
           new == Pictured(s, n + 1, keep)
           b == PlaceItem(a, item, paired, keep)
<1>0. item \in Items /\ DOMAIN s \subseteq Nat /\ item.of \in Nat
  <2>1. item \in Items /\ DOMAIN s \subseteq Nat
    OBVIOUS
  <2> HIDE DEF item
  <2> QED BY <2>1, BlocksTyped
<1>1. Fits(f, N) /\ PicturesIn(f.messages) = was /\ PicturesIn(a.messages) = was
  BY FlushTyped, FlushPictures
<1> HIDE DEF f
<1>2. a \in Placements(N) /\ f \in Placements(N) /\ f.messages \in Seq(M) /\ f.reasoning \in Seq(Nat)
      /\ Len(f.messages) \in Nat
  BY <1>1 DEF Fits, Placements
<1>3. /\ keep /\ HasImage(item) => new = was \cup {item.of}
      /\ ~(keep /\ HasImage(item)) => new = was
  BY <1>0, PicturedNext
<1> HIDE DEF was, new
<1>4. CASE item.kind \notin {"result", "assistant", "user"}
  <2> DEFINE r == appendUniqueReasoning(a.reasoning, item.of)
             c == Append(a.calls, [of |-> item.of, name |-> item.tool.name])
  <2>1. b = a \/ b = [a EXCEPT !.reasoning = r] \/ b = [a EXCEPT !.calls = c]
    BY <1>4 DEF PlaceItem
  <2> HIDE DEF b, r, c
  <2>2. b.messages = a.messages
    BY <2>1, <1>2 DEF Placements
  <2>3. ~HasImage(item)
    BY <1>4 DEF HasImage
  <2> QED BY <2>2, <2>3, <1>1, <1>3 DEF b, new
<1>5. CASE item.kind = "result"
  <2> DEFINE ms   == toolOutputToChatMessages(item, paired, keep)
             last == IF HasImage(item) /\ keep THEN 0 ELSE f.last
  <2>1. b = [f EXCEPT !.messages = @ \o ms, !.last = last]
    BY <1>5 DEF PlaceItem, PlaceResult, f
  <2>2. PICK one \in M, two \in M : ResultShows(item, paired, keep, one, two)
    <3>1. \E one, two \in ChatMessages(N) : ResultShows(item, paired, keep, one, two)
      <4> HIDE DEF item
      <4> QED BY <1>0, ResultPlaced
    <3> QED BY <3>1
  <2>3. PicturesOf(one.content) = {} /\ PicturesOf(two.content) = {item.of}
    BY <2>2, <1>0, PicturesOfTexts DEF ResultShows
  <2>4. ms = IF HasImage(item) /\ keep THEN <<one, two>> ELSE <<one>>
    BY <2>2 DEF ResultShows
  <2> HIDE DEF b, ms
  <2>5. b.messages = f.messages \o ms
    <3> HIDE DEF M, last
    <3> QED BY <2>1, <1>2 DEF Placements
  <2> DEFINE ps == Append(f.messages, one)
  <2> HIDE DEF M
  <2>6. ps \in Seq(M)
    BY <2>2, <1>2
  <2>7. PicturesIn(ps) = was
    <3>1. PicturesIn(Append(f.messages, one)) = PicturesIn(f.messages) \cup PicturesOf(one.content)
      BY <2>2, <1>2, PicturesAppend
    <3> QED BY <3>1, <2>3, <1>1
  <2>8. CASE HasImage(item) /\ keep
    <3>1. b.messages = Append(ps, two)
      <4>1. b.messages = f.messages \o <<one, two>>
        BY <2>4, <2>5, <2>8
      <4>2. f.messages \o <<one, two>> = Append(ps, two)
        BY <2>2, <1>2
      <4> QED BY <4>1, <4>2
    <3> HIDE DEF ps
    <3>2. PicturesIn(Append(ps, two)) = PicturesIn(ps) \cup PicturesOf(two.content)
      BY <2>2, <2>6, PicturesAppend
    <3> QED BY <3>1, <3>2, <2>3, <2>7, <2>8, <1>3 DEF b, new
  <2>9. CASE ~(HasImage(item) /\ keep)
    <3>1. b.messages = ps
      <4>1. f.messages \o <<one>> = ps
        BY <1>2, <2>2
      <4> QED BY <4>1, <2>4, <2>5, <2>9
    <3> QED BY <3>1, <2>7, <2>9, <1>3 DEF b, new
  <2> QED BY <2>8, <2>9
<1>6. CASE item.kind = "assistant"
  <2> DEFINE it == ChatMessage("assistant", <<Text(item.of)>>)
             m  == attachReasoning(it, f.reasoning)
             last == Len(f.messages) + 1
  <2>1. b = [f EXCEPT !.messages = Append(@, m), !.reasoning = <<>>, !.last = last]
    BY <1>6 DEF PlaceItem, PlaceAssistant, f
  <2>2. it \in M /\ it.content = <<Text(item.of)>>
    BY <1>0, BlocksTyped, ChatMessageTyped DEF ChatMessage
  <2> HIDE DEF it
  <2>3. m \in M /\ m.content = <<Text(item.of)>>
    <3>1. m \in M
      BY <2>2, <1>2, AttachTyped
    <3>2. m.content = it.content
      BY <2>2, <1>2, AttachPasses
    <3> QED BY <3>1, <3>2, <2>2
  <2> HIDE DEF b, m, M
  <2>4. b.messages = Append(f.messages, m)
    <3> HIDE DEF last
    <3> QED BY <2>1, <1>2 DEF Placements
  <2>5. PicturesOf(m.content) = {}
    BY <2>3, <1>0, PicturesOfTexts
  <2>6. PicturesIn(Append(f.messages, m)) = was
    <3>1. PicturesIn(Append(f.messages, m)) = PicturesIn(f.messages) \cup PicturesOf(m.content)
      BY <2>3, <1>2, PicturesAppend
    <3> QED BY <3>1, <2>5, <1>1
  <2>7. ~HasImage(item)
    BY <1>6 DEF HasImage
  <2> QED BY <2>4, <2>6, <2>7, <1>3 DEF b, new
<1>7. CASE item.kind = "user"
  <2> DEFINE g == attachReasoningToPreviousAssistant(f)
             m == ChatMessage("user", convertContentBlocks(item, keep))
  <2>1. b = [g EXCEPT !.messages = Append(@, m), !.last = 0]
    BY <1>7 DEF PlaceItem, PlaceUser, f
  <2>2. Fits(g, N) /\ PicturesIn(g.messages) = was
    BY <1>1, SettledTyped, SettlePictures
  <2>3. m \in M /\ m.content = convertContentBlocks(item, keep)
    BY <1>0, BlocksTyped, ChatMessageTyped DEF ChatMessage
  <2> HIDE DEF b, g, m
  <2>4. g \in Placements(N) /\ g.messages \in Seq(M)
    BY <2>2 DEF Fits, Placements
  <2> HIDE DEF M
  <2>5. b.messages = Append(g.messages, m)
    BY <2>1, <2>4 DEF Placements
  <2>6. /\ keep /\ HasImage(item) => PicturesOf(m.content) = {item.of}
        /\ ~(keep /\ HasImage(item)) => PicturesOf(m.content) = {}
    <3>1. /\ keep /\ HasImage(item) =>
               convertContentBlocks(item, keep) = <<Text(item.of)>> \o <<Picture(item.of)>>
          /\ ~(keep /\ HasImage(item)) =>
               convertContentBlocks(item, keep) \in
                 {<<Text(item.of)>> \o <<>>, <<Text(item.of)>> \o <<LeftOut(item.of)>>}
      BY DEF convertContentBlocks
    <3> HIDE DEF item
    <3> QED BY <3>1, <2>3, <1>0, PicturesOfTexts
  <2>7. PicturesIn(Append(g.messages, m)) = was \cup PicturesOf(m.content)
    BY <2>2, <2>3, <2>4, PicturesAppend
  <2> QED BY <2>5, <2>6, <2>7, <1>3 DEF b, new
<1> QED BY <1>4, <1>5, <1>6, <1>7

LEMMA PlacedPictures ==
  ASSUME NEW s \in Seq(Items), NEW paired, NEW keep
  PROVE  PicturesIn(Placed(s, paired, keep).messages) = Pictured(s, Len(s), keep)
<1> DEFINE N == CallNames(s)
           n == Len(s)
           R == {p \in Nat \X Placements(N) :
                   Fits(p[2], N) /\ PicturesIn(p[2].messages) = Pictured(s, p[1], keep)}
<1>1. n \in Nat /\ DOMAIN s = 1 .. n /\ \A i \in 1 .. n : s[i] \in Items
  OBVIOUS
<1>2. \A i, a : <<i, a>> \in R <=>
        i \in Nat /\ Fits(a, N) /\ PicturesIn(a.messages) = Pictured(s, i, keep)
  BY DEF Fits
<1>3. \A i \in 1 .. n : s[i].kind = "call" => [of |-> s[i].of, name |-> s[i].tool.name] \in N
  BY <1>1 DEF CallNames
<1> HIDE DEF R, N, n
<1>4. <<0, Start>> \in R
  <2>1. <<>> \in Seq(ChatMessages(N)) /\ <<>> \in Seq(N) /\ <<>> \in Seq(Nat)
        /\ 0 \in Nat /\ 0 <= Len(<<>>)
    OBVIOUS
  <2>2. /\ Start \in Placements(N) /\ Start.last = 0 /\ Start.messages = <<>>
    BY <2>1 DEF Start, Placements
  <2>3. Fits(Start, N)
    BY <2>1, <2>2 DEF Fits
  <2>4. PicturesIn(<<>>) = {}
    BY DEF PicturesIn
  <2>5. Pictured(s, 0, keep) = {}
    <3>1. \A i \in DOMAIN s : ~(i <= 0)
      BY <1>1
    <3> QED BY <3>1 DEF Pictured
  <2> QED BY <2>1, <2>2, <2>3, <2>4, <2>5, <1>2
<1>5. ASSUME NEW i \in 1 .. n, NEW a, <<i - 1, a>> \in R
      PROVE  <<i, PlaceItem(a, s[i], paired, keep)>> \in R
  <2>1. i \in Nat /\ i - 1 \in Nat /\ (i - 1) + 1 = i /\ i \in DOMAIN s
    BY <1>1
  <2>2. Fits(a, N) /\ PicturesIn(a.messages) = Pictured(s, i - 1, keep)
    BY <1>5, <1>2
  <2>3. Fits(PlaceItem(a, s[i], paired, keep), N)
    BY <1>1, <1>3, <2>2, PlaceItemTyped
  <2> DEFINE j == i - 1
  <2>4. j \in Nat /\ j + 1 = i /\ PicturesIn(a.messages) = Pictured(s, j, keep)
    BY <2>1, <2>2
  <2> HIDE DEF j
  <2>5. PicturesIn(PlaceItem(a, s[j + 1], paired, keep).messages) = Pictured(s, j + 1, keep)
    BY <2>1, <2>2, <2>4, PlacePictures
  <2> QED BY <2>1, <2>3, <2>4, <2>5, <1>2
<1>6. <<n, Placed(s, paired, keep)>> \in R
  BY <1>1, <1>4, <1>5, PlacedByInduction
<1> QED BY <1>6, <1>2 DEF n

\* The pictures in what inputToChatMessages makes of the input s are all or none.
LEMMA ChatPictures ==
  ASSUME NEW s \in Seq(Items), NEW opts
  PROVE  PicturesIn(inputToChatMessages(s, opts)) = Pictured(s, Len(s), opts.images /\ ~opts.omit)
<1> DEFINE N == CallNames(s)
           keep == opts.images /\ ~opts.omit
           p == Placed(s, PairedToolCallIDs(s), keep)
           f == flushPendingToolCalls(p)
           d == attachReasoningToPreviousAssistant(f)
           ms == d.messages
           b == backfillToolCallReasoningPlaceholders(ms)
<1>1. Fits(p, N) /\ PicturesIn(p.messages) = Pictured(s, Len(s), keep)
  BY PlacedFits, PlacedPictures
<1> HIDE DEF p, N, keep
<1>2. Fits(f, N) /\ PicturesIn(f.messages) = PicturesIn(p.messages)
  BY <1>1, FlushTyped, FlushPictures
<1> HIDE DEF f
<1>3. Fits(d, N) /\ PicturesIn(d.messages) = PicturesIn(f.messages)
  BY <1>2, SettledTyped, SettlePictures
<1>4. b = inputToChatMessages(s, opts)
  BY ChatMessagesOfPlaced DEF f, p, keep
<1> HIDE DEF d
<1>5. ms \in Seq(ChatMessages(N))
  BY <1>3 DEF Fits, Placements
<1>6. DOMAIN b = DOMAIN ms /\ \A i \in DOMAIN ms : b[i].content = ms[i].content
  <2>1. DOMAIN b = DOMAIN ms
    BY DEF backfillToolCallReasoningPlaceholders
  <2>2. ASSUME NEW i \in DOMAIN ms PROVE b[i].content = ms[i].content
    <3>1. ms[i] \in ChatMessages(N)
      BY <1>5
    <3>2. \/ b[i] = ms[i]
          \/ b[i] = [ms[i] EXCEPT !.reasoning = <<Placeholder>>]
      BY DEF backfillToolCallReasoningPlaceholders
    <3> HIDE DEF b, ms
    <3> QED BY <3>1, <3>2 DEF ChatMessages
  <2> QED BY <2>1, <2>2
<1> HIDE DEF b, ms
<1>7. PicturesIn(b) = PicturesIn(ms)
  BY <1>6, PicturesKept
<1> QED BY <1>1, <1>2, <1>3, <1>4, <1>7 DEF ms, keep

-----------------------------------------------------------------------------
(* What is picked from a sequence *)

Pick(V, T) == [v \in V |-> IF v \in T THEN <<v>> ELSE <<>>]

LEMMA PickMaps ==
  ASSUME NEW V, NEW T
  PROVE  /\ Maps(Pick(V, T), V, Seq(V))
         /\ \A v \in V : /\ v \in T => Pick(V, T)[v] = <<v>>
                         /\ v \notin T => Pick(V, T)[v] = <<>>
<1> DEFINE f == Pick(V, T)
<1>1. f = [v \in V |-> f[v]] /\ \A v \in V : f[v] = IF v \in T THEN <<v>> ELSE <<>>
  BY DEF Pick
<1> HIDE DEF f
<1>2. \A v \in V : <<v>> \in Seq(V) /\ <<>> \in Seq(V)
  OBVIOUS
<1>3. \A v \in V : f[v] \in Seq(V)
  BY <1>1, <1>2
<1>4. f \in [V -> Seq(V)]
  BY <1>1, <1>3
<1> QED BY <1>1, <1>4 DEF Maps, f

LEMMA PickIs ==
  ASSUME NEW V, NEW s \in Seq(V), NEW T, NEW q, q = [i \in DOMAIN s |-> q[i]],
         \A i \in DOMAIN s : q[i] = IF s[i] \in T THEN <<s[i]>> ELSE <<>>
  PROVE  FlattenSeq(q) = Spread(Pick(V, T), s)
<1>1. \A i \in DOMAIN s : s[i] \in V
  OBVIOUS
<1>2. \A i \in DOMAIN s : q[i] = Pick(V, T)[s[i]]
  BY <1>1, PickMaps
<1>3. Maps(Pick(V, T), V, Seq(V))
  BY PickMaps
<1> QED BY <1>2, <1>3, SpreadIs

LEMMA PickFrom ==
  ASSUME NEW V, NEW s \in Seq(V), NEW T
  PROVE  /\ Spread(Pick(V, T), s) \in Seq(V)
         /\ ToSet(Spread(Pick(V, T), s)) = ToSet(s) \cap T
         /\ Distinct(s) => Distinct(Spread(Pick(V, T), s))
<1> DEFINE f == Pick(V, T)
<1>1. /\ Maps(f, V, Seq(V))
      /\ \A v \in V : (v \in T => f[v] = <<v>>) /\ (v \notin T => f[v] = <<>>)
  BY PickMaps
<1> HIDE DEF f
<1>2. ToSet(<<>>) = {} /\ \A v : ToSet(<<v>>) = {v}
  BY OneDistinct DEF ToSet
<1>3. \A v \in V : ToSet(f[v]) = {v} \cap T /\ Distinct(f[v])
  <2> SUFFICES ASSUME NEW v \in V PROVE ToSet(f[v]) = {v} \cap T /\ Distinct(f[v])
    OBVIOUS
  <2>1. CASE v \in T
    <3>1. f[v] = <<v>>
      BY <2>1, <1>1
    <3>2. ToSet(<<v>>) = {v} /\ Distinct(<<v>>)
      BY OneDistinct
    <3> QED BY <2>1, <3>1, <3>2
  <2>2. CASE v \notin T
    <3>1. f[v] = <<>>
      BY <2>2, <1>1
    <3>2. Distinct(<<>>)
      BY OneDistinct
    <3> QED BY <2>2, <3>1, <3>2, <1>2
  <2> QED BY <2>1, <2>2
<1>4. Spread(f, s) \in Seq(V)
  BY <1>1, SpreadTyped
<1>5. ToSet(Spread(f, s)) = UNION {ToSet(f[v]) : v \in ToSet(s)}
  BY <1>1, SpreadToSet
<1>6. \A v \in ToSet(s) : v \in V
  BY DEF ToSet
<1>7. ToSet(Spread(f, s)) = ToSet(s) \cap T
  <2>1. ASSUME NEW z \in ToSet(Spread(f, s)) PROVE z \in ToSet(s) \cap T
    <3>1. PICK v \in ToSet(s) : z \in ToSet(f[v])
      BY <1>5
    <3>2. ToSet(f[v]) = {v} \cap T
      BY <1>3, <1>6
    <3> QED BY <3>1, <3>2
  <2>2. ASSUME NEW z \in ToSet(s), z \in T PROVE z \in ToSet(Spread(f, s))
    <3>1. ToSet(f[z]) = {z} \cap T
      BY <1>3, <1>6
    <3> QED BY <2>2, <3>1, <1>5
  <2> QED BY <2>1, <2>2
<1>8. ASSUME Distinct(s) PROVE Distinct(Spread(f, s))
  <2>1. \A v, w \in V : v # w => ToSet(f[v]) \cap ToSet(f[w]) = {}
    BY <1>3
  <2>2. \A v \in V : Distinct(f[v])
    BY <1>3
  <2> QED BY <2>1, <2>2, <1>1, <1>8, SpreadDistinct
<1> QED BY <1>4, <1>7, <1>8 DEF f

-----------------------------------------------------------------------------
(* Every result after its call *)

ResultsIn(V) == {m \in V : IsResult(m)}

\* A message of the request, with the results that go after it.
Gathered(V, u) ==
  [m \in V |-> IF IsResult(m) THEN <<>> ELSE <<m>> \o AnswersTo(m, ResultsOf(u))]

LEMMA ResultsPicked ==
  ASSUME NEW V, NEW u \in Seq(V)
  PROVE  /\ ResultsOf(u) \in Seq(V) /\ ToSet(ResultsOf(u)) = {m \in ToSet(u) : IsResult(m)}
         /\ Distinct(u) => Distinct(ResultsOf(u))
         /\ OthersOf(u) = Spread(Pick(V, V \ ResultsIn(V)), u)
<1> DEFINE q == [i \in DOMAIN u |-> IF IsResult(u[i]) THEN <<u[i]>> ELSE <<>>]
           r == [i \in DOMAIN u |-> IF ~IsResult(u[i]) THEN <<u[i]>> ELSE <<>>]
           T == ResultsIn(V)
           O == V \ T
<1>1. \A i \in DOMAIN u : u[i] \in V /\ (u[i] \in T <=> IsResult(u[i])) /\ (u[i] \in O <=> ~IsResult(u[i]))
  BY DEF ResultsIn
<1> HIDE DEF T, O
<1>2. q = [i \in DOMAIN u |-> q[i]] /\ \A i \in DOMAIN u : q[i] = IF u[i] \in T THEN <<u[i]>> ELSE <<>>
  BY <1>1
<1>3. r = [i \in DOMAIN u |-> r[i]] /\ \A i \in DOMAIN u : r[i] = IF u[i] \in O THEN <<u[i]>> ELSE <<>>
  BY <1>1
<1>4. ResultsOf(u) = FlattenSeq(q) /\ OthersOf(u) = FlattenSeq(r)
  BY DEF ResultsOf, OthersOf, Only
<1> HIDE DEF q, r
<1>5. ResultsOf(u) = Spread(Pick(V, T), u)
  BY <1>2, <1>4, PickIs
<1>6. OthersOf(u) = Spread(Pick(V, O), u)
  BY <1>3, <1>4, PickIs
<1>7. ToSet(u) \cap T = {m \in ToSet(u) : IsResult(m)}
  <2>1. \A m \in ToSet(u) : m \in V
    BY DEF ToSet
  <2> QED BY <2>1 DEF T, ResultsIn
<1>8. /\ Spread(Pick(V, T), u) \in Seq(V)
      /\ ToSet(Spread(Pick(V, T), u)) = ToSet(u) \cap T
      /\ Distinct(u) => Distinct(Spread(Pick(V, T), u))
  BY PickFrom
<1>9. /\ ResultsOf(u) \in Seq(V) /\ ToSet(ResultsOf(u)) = {m \in ToSet(u) : IsResult(m)}
      /\ Distinct(u) => Distinct(ResultsOf(u))
  BY <1>5, <1>7, <1>8
<1>10. OthersOf(u) = Spread(Pick(V, V \ ResultsIn(V)), u)
  BY <1>6 DEF O, T
<1> QED BY <1>9, <1>10

LEMMA AnswersPicked ==
  ASSUME NEW V, NEW rs \in Seq(V), NEW m
  PROVE  /\ AnswersTo(m, rs) \in Seq(V)
         /\ ToSet(AnswersTo(m, rs))
              = {r \in ToSet(rs) : m.content[1].type = "tool_use" /\ r.content[1].of = m.content[1].of}
         /\ Distinct(rs) => Distinct(AnswersTo(m, rs))
<1> DEFINE q == [i \in DOMAIN rs |->
                   IF m.content[1].type = "tool_use" /\ rs[i].content[1].of = m.content[1].of
                   THEN <<rs[i]>> ELSE <<>>]
           T == {r \in V : m.content[1].type = "tool_use" /\ r.content[1].of = m.content[1].of}
<1>1. \A i \in DOMAIN rs : /\ rs[i] \in V
                           /\ rs[i] \in T <=> m.content[1].type = "tool_use" /\ rs[i].content[1].of = m.content[1].of
  OBVIOUS
<1>2. AnswersTo(m, rs) = FlattenSeq(q)
  BY DEF AnswersTo, Only
<1>3. ToSet(rs) \cap T
        = {r \in ToSet(rs) : m.content[1].type = "tool_use" /\ r.content[1].of = m.content[1].of}
  <2>1. \A r \in ToSet(rs) : r \in V
    BY DEF ToSet
  <2> QED BY <2>1
<1> HIDE DEF T
<1>4. q = [i \in DOMAIN rs |-> q[i]] /\ \A i \in DOMAIN rs : q[i] = IF rs[i] \in T THEN <<rs[i]>> ELSE <<>>
  BY <1>1
<1> HIDE DEF q
<1>5. AnswersTo(m, rs) = Spread(Pick(V, T), rs)
  BY <1>2, <1>4, PickIs
<1> QED BY <1>3, <1>5, PickFrom

LEMMA NormalizedSpread ==
  ASSUME NEW V, NEW u \in Seq(V)
  PROVE  /\ Maps(Gathered(V, u), V, Seq(V))
         /\ \A m \in V : /\ IsResult(m) => Gathered(V, u)[m] = <<>>
                         /\ ~IsResult(m) => Gathered(V, u)[m] = <<m>> \o AnswersTo(m, ResultsOf(u))
         /\ normalizeToolResultOrder(u) = Spread(Gathered(V, u), u)
<1> DEFINE rs == ResultsOf(u)
           others == OthersOf(u)
           with == [m \in V |-> <<m>> \o AnswersTo(m, rs)]
           q == [i \in DOMAIN others |-> <<others[i]>> \o AnswersTo(others[i], rs)]
           G == Gathered(V, u)
           O == V \ ResultsIn(V)
           p == Pick(V, O)
<1>1. rs \in Seq(V) /\ others = Spread(p, u)
  BY ResultsPicked
<1>2. others \in Seq(V)
  BY PartsTyped
<1>3. \A m \in V : G[m] = IF IsResult(m) THEN <<>> ELSE <<m>> \o AnswersTo(m, rs)
  BY DEF Gathered
<1>4. G = [m \in V |-> G[m]]
  BY DEF Gathered
<1>5. normalizeToolResultOrder(u) = FlattenSeq(q)
  BY NormalizedIs
<1> HIDE DEF G, rs, others
<1>6. ASSUME NEW m \in V PROVE <<m>> \o AnswersTo(m, rs) \in Seq(V) /\ <<m>> \in Seq(V) /\ <<>> \in Seq(V)
  <2>1. <<m>> \in Seq(V) /\ <<>> \in Seq(V)
    OBVIOUS
  <2>2. AnswersTo(m, rs) \in Seq(V)
    BY <1>1, AnswersPicked
  <2> QED BY <2>1, <2>2, ConcatProperties
<1>7. Maps(G, V, Seq(V))
  <2>1. \A m \in V : G[m] \in Seq(V)
    BY <1>3, <1>6
  <2>2. G \in [V -> Seq(V)]
    BY <2>1, <1>4
  <2> QED BY <2>2 DEF Maps
<1>8. Maps(with, V, Seq(V)) /\ \A m \in V : with[m] = <<m>> \o AnswersTo(m, rs)
  <2>1. \A m \in V : with[m] = <<m>> \o AnswersTo(m, rs)
    OBVIOUS
  <2>2. with \in [V -> Seq(V)]
    BY <1>6
  <2> HIDE DEF with
  <2> QED BY <2>1, <2>2 DEF Maps
<1>9. FlattenSeq(q) = Spread(with, others)
  <2>1. q = [i \in DOMAIN others |-> q[i]]
        /\ \A i \in DOMAIN others : q[i] = <<others[i]>> \o AnswersTo(others[i], rs)
    OBVIOUS
  <2>2. \A i \in DOMAIN others : others[i] \in V
    BY <1>2
  <2> HIDE DEF with, q
  <2>3. \A i \in DOMAIN others : q[i] = with[others[i]]
    BY <2>1, <2>2, <1>8
  <2> QED BY <2>1, <2>3, <1>2, <1>8, SpreadIs
<1> HIDE DEF with, q
<1>10. Maps(p, V, Seq(V)) /\ \A v \in V : /\ v \in O => p[v] = <<v>>
                                          /\ v \notin O => p[v] = <<>>
  BY PickMaps
<1>11. \A v \in V : v \in O <=> ~IsResult(v)
  BY DEF ResultsIn
<1> HIDE DEF p, O
<1>12. ASSUME NEW v \in V PROVE G[v] = Spread(with, p[v])
  <2>1. CASE IsResult(v)
    <3>1. p[v] = <<>> /\ G[v] = <<>>
      BY <2>1, <1>3, <1>10, <1>11
    <3> QED BY <3>1, SpreadEmpty
  <2>2. CASE ~IsResult(v)
    <3>1. p[v] = <<v>> /\ G[v] = with[v]
      BY <2>2, <1>3, <1>8, <1>10, <1>11
    <3>2. Spread(with, <<v>>) = with[v]
      BY <1>8, SpreadOne
    <3> QED BY <3>1, <3>2
  <2> QED BY <2>1, <2>2
<1>13. Spread(with, Spread(p, u)) = Spread(G, u)
  BY <1>7, <1>8, <1>10, <1>12, SpreadTwice
<1>14. normalizeToolResultOrder(u) = Spread(G, u)
  BY <1>1, <1>5, <1>9, <1>13
<1> QED BY <1>3, <1>7, <1>14 DEF G, rs

-----------------------------------------------------------------------------
(* What a message for a Messages upstream shows *)

Kinds == {"text", "tool_use", "tool_result"}

HeadOf(m) == Shown(m.content[1].type, m.content[1].of)

\* The pictures of a message, those inside a result included.
ImagesOf(m) ==
  LET blocks == ToSet(m.content)
      inner  == UNION {ToSet(b.inner) : b \in {c \in blocks : c.type = "tool_result"}}
  IN  {b.of : b \in {c \in blocks \cup inner : c.type = "image"}}

LEMMA FirstSpoken ==
  ASSUME NEW m, NEW b, b.type \in Kinds,
         m.content = <<b>> \/ \E p : p.type \notin Kinds /\ m.content = <<b>> \o <<p>>
  PROVE  MessagesView(m) = <<Shown(b.type, b.of)>> /\ m.content[1] = b
<1> DEFINE x == m.content
           q == [i \in DOMAIN x |-> IF x[i].type \in Kinds THEN <<x[i]>> ELSE <<>>]
<1>1. MessagesView(m) = [k \in DOMAIN FlattenSeq(q) |-> Shown(FlattenSeq(q)[k].type, FlattenSeq(q)[k].of)]
  BY DEF MessagesView, Only, Kinds
<1>2. ASSUME NEW V, NEW T, x \in Seq(V), \A v \in V : v \in T <=> v.type \in Kinds
      PROVE  FlattenSeq(q) = Spread(Pick(V, T), x)
  <2>1. q = [i \in DOMAIN x |-> q[i]] /\ \A i \in DOMAIN x : q[i] = IF x[i].type \in Kinds THEN <<x[i]>> ELSE <<>>
    OBVIOUS
  <2> HIDE DEF q, x
  <2>2. \A i \in DOMAIN x : x[i] \in V
    BY <1>2
  <2>3. \A i \in DOMAIN x : q[i] = IF x[i] \in T THEN <<x[i]>> ELSE <<>>
    BY <2>1, <2>2, <1>2
  <2> QED BY <2>1, <2>3, <1>2, PickIs
<1> HIDE DEF q
<1>3. FlattenSeq(q) = <<b>> /\ x[1] = b
  <2>1. CASE x = <<b>>
    <3> DEFINE V == {b}
    <3>1. \A v \in V : v \in V <=> v.type \in Kinds
      OBVIOUS
    <3>2. <<b>> \in Seq(V) /\ b \in V /\ <<b>>[1] = b
      OBVIOUS
    <3> HIDE DEF V
    <3>3. FlattenSeq(q) = Spread(Pick(V, V), x)
      BY <3>1, <3>2, <1>2, <2>1
    <3>4. Maps(Pick(V, V), V, Seq(V)) /\ Pick(V, V)[b] = <<b>>
      BY <3>2, PickMaps
    <3>5. Spread(Pick(V, V), <<b>>) = Pick(V, V)[b]
      BY <3>2, <3>4, SpreadOne
    <3> QED BY <2>1, <3>2, <3>3, <3>4, <3>5
  <2>2. ASSUME NEW p, p.type \notin Kinds, x = <<b>> \o <<p>> PROVE FlattenSeq(q) = <<b>> /\ x[1] = b
    <3> DEFINE V == {b, p}
               T == {b}
               f == Pick(V, T)
               y == <<b>>
               z == <<p>>
    <3>1. b # p
      BY <2>2
    <3>2. \A v \in V : v \in T <=> v.type \in Kinds
      BY <2>2
    <3>3. y \in Seq(V) /\ z \in Seq(V) /\ b \in V /\ p \in V /\ b \in T /\ p \notin T
      BY <3>1
    <3>4. (y \o z)[1] = b
      OBVIOUS
    <3> HIDE DEF V, T
    <3>5. Maps(f, V, Seq(V)) /\ f[b] = <<b>> /\ f[p] = <<>>
      BY <3>3, PickMaps
    <3> HIDE DEF f
    <3>6. Spread(f, y) = <<b>> /\ Spread(f, z) = <<>>
      BY <3>3, <3>5, SpreadOne
    <3> HIDE DEF y, z
    <3>7. Spread(f, y \o z) = Spread(f, y) \o Spread(f, z)
      BY <3>3, <3>5, SpreadConcat
    <3>8. y \o z \in Seq(V) /\ x = y \o z
      BY <3>3, <2>2, ConcatProperties DEF y, z
    <3>9. FlattenSeq(q) = Spread(f, x)
      BY <3>2, <3>8, <1>2 DEF f
    <3>10. <<b>> \o <<>> = <<b>>
      <4>1. <<b>> \in Seq({b})
        OBVIOUS
      <4> QED BY <4>1, ConcatEmptySeq
    <3> QED BY <3>4, <3>6, <3>7, <3>8, <3>9, <3>10
  <2> QED BY <2>1, <2>2
<1>4. MessagesView(m) = [k \in DOMAIN <<b>> |-> Shown(<<b>>[k].type, <<b>>[k].of)]
  BY <1>1, <1>3
<1>5. DOMAIN <<b>> = {1} /\ <<b>>[1] = b
  OBVIOUS
<1>6. MessagesView(m) = [k \in {1} |-> Shown(b.type, b.of)]
  BY <1>4, <1>5
<1>7. [k \in {1} |-> Shown(b.type, b.of)] = <<Shown(b.type, b.of)>>
  OBVIOUS
<1> QED BY <1>3, <1>6, <1>7

\* The blocks of an item: a text, and its picture if that is kept.
LEMMA ContentBlocks ==
  ASSUME NEW item \in Items, NEW keep \in BOOLEAN
  PROVE  LET blocks == convertContentBlocks(item, keep) IN
         /\ blocks \in Seq(Blocks) /\ ToSet(blocks) \subseteq Blocks
         /\ blocks = <<Text(item.of)>> \/ \E p : p.type \notin Kinds /\ blocks = <<Text(item.of)>> \o <<p>>
         /\ PicturesOf(blocks) = IF keep /\ HasImage(item) THEN {item.of} ELSE {}
<1> DEFINE blocks == convertContentBlocks(item, keep)
           t == <<Text(item.of)>>
<1>1. item.of \in Nat /\ blocks \in Seq(Blocks) /\ t \in Seq(Blocks)
  BY BlocksTyped
<1>2. ToSet(blocks) \subseteq Blocks
  BY <1>1 DEF ToSet
<1>3. Picture(item.of).type \notin Kinds /\ LeftOut(item.of).type \notin Kinds
  BY DEF Picture, LeftOut, Kinds
<1>4. t \o <<>> = t
  BY <1>1, ConcatEmptySeq
<1>5. CASE ~HasImage(item)
  <2>1. blocks = t \o <<>>
    BY <1>5 DEF convertContentBlocks
  <2>2. PicturesOf(t) = {}
    BY <1>1, PicturesOfTexts
  <2> HIDE DEF blocks, t
  <2>3. blocks = t
    BY <2>1, <1>4
  <2> QED BY <2>2, <2>3, <1>1, <1>2, <1>5 DEF blocks, t
<1>6. CASE HasImage(item) /\ keep
  <2>1. blocks = t \o <<Picture(item.of)>>
    BY <1>6 DEF convertContentBlocks
  <2>2. PicturesOf(blocks) = {item.of}
    BY <2>1, <1>1, PicturesOfTexts
  <2> HIDE DEF blocks, t
  <2> QED BY <2>1, <2>2, <1>1, <1>2, <1>3, <1>6 DEF blocks, t
<1>7. CASE HasImage(item) /\ ~keep
  <2>1. blocks = t \o <<LeftOut(item.of)>>
    BY <1>7 DEF convertContentBlocks
  <2>2. PicturesOf(blocks) = {}
    BY <2>1, <1>1, PicturesOfTexts
  <2> HIDE DEF blocks, t
  <2> QED BY <2>1, <2>2, <1>1, <1>2, <1>3, <1>7 DEF blocks, t
<1> QED BY <1>5, <1>6, <1>7

\* The message m made of an item, with the calls P and its picture kept or not.
Bears(m, item, P, keep) ==
  /\ MessagesView(m) = <<HeadOf(m)>>
  /\ m.content[1].type \in Kinds /\ m.content[1].of = item.of
  /\ item.kind \notin {"carrier", "reasoning"}
  /\ m.content[1].type = "tool_use" <=> item.kind = "call"
  /\ m.content[1].type = "tool_result" <=> item.kind = "result" /\ item.of \in P
  /\ m.role = "system" <=> item.kind = "system"
  /\ m.role # "system" => ItemView(item, P) = <<HeadOf(m)>>
  /\ m.role = "system" => ItemView(item, P) = <<>>
  /\ keep /\ HasImage(item) /\ ~(item.kind = "result" /\ item.of \notin P) => ImagesOf(m) = {item.of}
  /\ ~(keep /\ HasImage(item)) => ImagesOf(m) = {}

LEMMA ImagesOfBlocks ==
  ASSUME NEW m, ToSet(m.content) \subseteq Blocks
  PROVE  ImagesOf(m) = PicturesOf(m.content)
<1>1. \A c \in ToSet(m.content) : c.type # "tool_result"
  BY DEF Blocks
<1> QED BY <1>1 DEF ImagesOf, PicturesOf

LEMMA ItemBears ==
  ASSUME NEW item \in Items, NEW P, NEW keep \in BOOLEAN
  PROVE  \/ /\ convertMessageItem(item, P, keep) = <<>>
            /\ item.kind \in {"carrier", "reasoning"} /\ ItemView(item, P) = <<>>
         \/ \E m : convertMessageItem(item, P, keep) = <<m>> /\ Bears(m, item, P, keep)
<1> DEFINE blocks == convertContentBlocks(item, keep)
           c == convertMessageItem(item, P, keep)
           shows == keep /\ HasImage(item)
           n == item.of
<1>1. /\ blocks \in Seq(Blocks) /\ ToSet(blocks) \subseteq Blocks
      /\ blocks = <<Text(n)>> \/ \E p : p.type \notin Kinds /\ blocks = <<Text(n)>> \o <<p>>
      /\ PicturesOf(blocks) = IF shows THEN {n} ELSE {}
  BY ContentBlocks
<1>2. /\ item.kind \in {"user", "assistant"} => ItemView(item, P) = <<Shown("text", n)>>
      /\ item.kind = "call" => ItemView(item, P) = <<Shown("tool_use", n)>>
      /\ item.kind = "result" =>
           ItemView(item, P) = <<Shown(IF n \in P THEN "tool_result" ELSE "text", n)>>
      /\ item.kind \in {"system", "carrier", "reasoning"} => ItemView(item, P) = <<>>
      /\ item.kind \in {"user", "assistant", "call", "result", "system", "carrier", "reasoning"}
  BY ItemViews
<1>3. n \in Nat
  BY BlocksTyped
<1>4. HasImage(item) => item.kind \in {"user", "result"}
  BY DEF HasImage
<1>5. Text(n).type = "text" /\ Text(n).of = n /\ Text(n) \in Blocks
  BY <1>3 DEF Text, Blocks
<1>6. ToSet(<<Text(n)>>) = {Text(n)} /\ PicturesOf(<<Text(n)>>) = {}
  BY <1>3, OneDistinct, PicturesOfTexts
<1> HIDE DEF blocks, n, shows
<1>7. CASE item.kind = "call"
  <2> DEFINE use == ToolUse(n, item.tool.name)
             m == Message("assistant", <<use>>)
  <2>1. c = <<m>>
    BY <1>7 DEF convertMessageItem, convertToolItem, n
  <2>2. m.content = <<use>> /\ m.role = "assistant" /\ use.type = "tool_use" /\ use.of = n
    BY DEF Message, ToolUse
  <2> HIDE DEF m, use, c
  <2>3. "tool_use" \in Kinds /\ "tool_use" # "tool_result" /\ "tool_use" # "image"
    BY DEF Kinds
  <2>4. MessagesView(m) = <<Shown(use.type, use.of)>> /\ m.content[1] = use
    BY <2>2, <2>3, FirstSpoken
  <2>5. HeadOf(m) = Shown("tool_use", n)
    BY <2>2, <2>4 DEF HeadOf
  <2>6. ImagesOf(m) = {}
    <3>1. ToSet(m.content) = {use}
      BY <2>2, OneDistinct
    <3> QED BY <3>1, <2>2, <2>3 DEF ImagesOf
  <2>7. ~shows
    BY <1>4, <1>7 DEF shows
  <2>8. Bears(m, item, P, keep)
    BY <1>2, <1>7, <2>2, <2>3, <2>4, <2>5, <2>6, <2>7 DEF Bears, n, shows
  <2> QED BY <2>1, <2>8 DEF c
<1>8. CASE item.kind = "result" /\ n \in P
  <2> DEFINE told == ToolResult(n, blocks)
             m == Message("user", <<told>>)
  <2>1. c = <<m>>
    BY <1>8 DEF convertMessageItem, convertToolItem, blocks, n
  <2>2. /\ m.content = <<told>> /\ m.role = "user" /\ told.type = "tool_result"
        /\ told.of = n /\ told.inner = blocks
    BY DEF Message, ToolResult
  <2> HIDE DEF m, told, c
  <2>3. "tool_result" \in Kinds /\ "tool_use" # "tool_result" /\ "tool_result" # "image"
    BY DEF Kinds
  <2>4. MessagesView(m) = <<Shown(told.type, told.of)>> /\ m.content[1] = told
    BY <2>2, <2>3, FirstSpoken
  <2>5. HeadOf(m) = Shown("tool_result", n)
    BY <2>2, <2>4 DEF HeadOf
  <2>6. ImagesOf(m) = PicturesOf(blocks)
    <3>1. ToSet(m.content) = {told}
      BY <2>2, OneDistinct
    <3>2. UNION {ToSet(b.inner) : b \in {x \in {told} : x.type = "tool_result"}} = ToSet(blocks)
      BY <2>2
    <3>3. {x \in {told} \cup ToSet(blocks) : x.type = "image"} = {x \in ToSet(blocks) : x.type = "image"}
      BY <2>2, <2>3
    <3> QED BY <3>1, <3>2, <3>3 DEF ImagesOf, PicturesOf
  <2>7. Bears(m, item, P, keep)
    BY <1>1, <1>2, <1>8, <2>2, <2>3, <2>4, <2>5, <2>6 DEF Bears, n, shows
  <2> QED BY <2>1, <2>7 DEF c
<1>9. CASE item.kind = "result" /\ n \notin P
  <2> DEFINE t == Text(n)
             m == Message("user", <<t>>)
  <2>1. c = <<m>>
    BY <1>9 DEF convertMessageItem, convertToolItem, n
  <2>2. m.content = <<t>> /\ m.role = "user"
    BY DEF Message
  <2> HIDE DEF m, c, t
  <2>3. "text" \in Kinds /\ t.type = "text" /\ t.of = n
    BY <1>5 DEF Kinds, t
  <2>4. MessagesView(m) = <<Shown(t.type, t.of)>> /\ m.content[1] = t
    BY <2>2, <2>3, FirstSpoken
  <2>5. HeadOf(m) = Shown("text", n)
    BY <2>3, <2>4 DEF HeadOf
  <2>6. ImagesOf(m) = {}
    <3>1. ToSet(m.content) \subseteq Blocks
      BY <1>5, <1>6, <2>2 DEF t
    <3> QED BY <3>1, <1>6, <2>2, ImagesOfBlocks DEF t
  <2>7. Bears(m, item, P, keep)
    BY <1>2, <1>9, <2>2, <2>3, <2>4, <2>5, <2>6 DEF Bears, n
  <2> QED BY <2>1, <2>7 DEF c
<1>10. CASE item.kind \in {"user", "assistant", "system"}
  <2> DEFINE m == Message(item.kind, blocks)
             t == Text(n)
  <2>1. c = <<m>>
    BY <1>10 DEF convertMessageItem, blocks
  <2>2. m.content = blocks /\ m.role = item.kind
    BY DEF Message
  <2> HIDE DEF m, c, t
  <2>3. "text" \in Kinds /\ t.type = "text" /\ t.of = n
    BY <1>5 DEF Kinds, t
  <2>4. m.content = <<t>> \/ \E p : p.type \notin Kinds /\ m.content = <<t>> \o <<p>>
    BY <1>1, <2>2 DEF t
  <2>5. MessagesView(m) = <<Shown(t.type, t.of)>> /\ m.content[1] = t
    BY <2>3, <2>4, FirstSpoken
  <2>6. HeadOf(m) = Shown("text", n)
    BY <2>3, <2>5 DEF HeadOf
  <2>7. ImagesOf(m) = PicturesOf(blocks)
    BY <1>1, <2>2, ImagesOfBlocks
  <2>8. Bears(m, item, P, keep)
    BY <1>1, <1>2, <1>10, <2>2, <2>3, <2>5, <2>6, <2>7 DEF Bears, n, shows
  <2> QED BY <2>1, <2>8 DEF c
<1>11. CASE item.kind \in {"carrier", "reasoning"}
  BY <1>2, <1>11 DEF convertMessageItem
<1> QED BY <1>2, <1>7, <1>8, <1>9, <1>10, <1>11

-----------------------------------------------------------------------------
(* The messages made of an input, before the results are moved *)

\* The messages u, all of them in V: each once, known by what it shows, and a
\* result only with its call.
WellMade(V, u) ==
  /\ u \in Seq(V) /\ ToSet(u) = V /\ Distinct(u)
  /\ \A m \in V : /\ MessagesView(m) = <<HeadOf(m)>>
                  /\ m.content[1].type \in Kinds /\ m.content[1].of \in Nat
  /\ \A m, w \in V : HeadOf(m) = HeadOf(w) => m = w
  /\ \A r \in V : IsResult(r) =>
       \E m \in V : m.content[1].type = "tool_use" /\ m.content[1].of = r.content[1].of

\* What is shown of a message: a system text goes elsewhere.
KeptView(V) == [m \in V |-> IF m.role # "system" THEN <<HeadOf(m)>> ELSE <<>>]

LEMMA HeadTyped ==
  ASSUME NEW m, m.content[1].type \in Kinds, m.content[1].of \in Nat
  PROVE  HeadOf(m) \in Entries /\ HeadOf(m).type = m.content[1].type /\ HeadOf(m).of = m.content[1].of
<1>1. m.content[1].type \in {"text", "tool_use", "tool_result"}
  BY DEF Kinds
<1> QED BY <1>1, ShownTyped DEF HeadOf

LEMMA KeptViewMaps ==
  ASSUME NEW V, \A m \in V : m.content[1].type \in Kinds /\ m.content[1].of \in Nat
  PROVE  /\ Maps(KeptView(V), V, Seq(Entries))
         /\ \A m \in V : /\ m.role # "system" => KeptView(V)[m] = <<HeadOf(m)>>
                         /\ m.role = "system" => KeptView(V)[m] = <<>>
<1> DEFINE f == KeptView(V)
<1>1. f = [m \in V |-> f[m]] /\ \A m \in V : f[m] = IF m.role # "system" THEN <<HeadOf(m)>> ELSE <<>>
  BY DEF KeptView
<1> HIDE DEF f
<1>2. \A m \in V : HeadOf(m) \in Entries
  BY HeadTyped
<1>3. \A e \in Entries : <<e>> \in Seq(Entries)
  OBVIOUS
<1>4. <<>> \in Seq(Entries)
  OBVIOUS
<1>5. \A m \in V : f[m] \in Seq(Entries)
  BY <1>1, <1>2, <1>3, <1>4
<1>6. f \in [V -> Seq(Entries)]
  BY <1>1, <1>5
<1> QED BY <1>1, <1>6 DEF Maps, f

\* Two items of an input do not show the same.
LEMMA BearsOne ==
  ASSUME NEW s \in Seq(Items), Unique(s), NEW P, NEW K,
         NEW j \in DOMAIN s, NEW k \in DOMAIN s, NEW m, NEW w,
         Bears(m, s[j], P, K[j]), Bears(w, s[k], P, K[k]), HeadOf(m) = HeadOf(w)
  PROVE  j = k
<1> DEFINE x == s[j]
           y == s[k]
<1>1. x \in Items /\ y \in Items
  OBVIOUS
<1>2. x.of \in Nat /\ y.of \in Nat
  BY <1>1, BlocksTyped
<1>3. /\ m.content[1].type \in Kinds /\ m.content[1].of = x.of /\ x.kind # "carrier"
      /\ m.content[1].type = "tool_use" <=> x.kind = "call"
  BY DEF Bears
<1>4. /\ w.content[1].type \in Kinds /\ w.content[1].of = y.of
      /\ w.content[1].type = "tool_use" <=> y.kind = "call"
  BY DEF Bears
<1>5. m.content[1].type = w.content[1].type /\ m.content[1].of = w.content[1].of
  BY <1>2, <1>3, <1>4, HeadTyped
<1> SUFFICES ASSUME j # k PROVE FALSE
  OBVIOUS
<1>6. {x.kind, y.kind} = {"call", "result"}
  BY <1>3, <1>4, <1>5 DEF Unique
<1>7. "call" \in {x.kind, y.kind} /\ "result" \in {x.kind, y.kind}
  BY <1>6
<1>8. x.kind = "call" <=> y.kind = "call"
  BY <1>3, <1>4, <1>5
<1> QED BY <1>7, <1>8

LEMMA ConvertedWell ==
  ASSUME NEW s \in Seq(Items), Unique(s), NEW K, NEW conv, conv = [j \in DOMAIN s |-> conv[j]],
         \A j \in DOMAIN s :
           \/ /\ conv[j] = <<>> /\ s[j].kind \in {"carrier", "reasoning"}
              /\ ItemView(s[j], PairedToolCallIDs(s)) = <<>>
           \/ \E m : conv[j] = <<m>> /\ Bears(m, s[j], PairedToolCallIDs(s), K[j])
  PROVE  \E V : /\ WellMade(V, FlattenSeq(conv))
                /\ HistoryOf(s, PairedToolCallIDs(s)) = Spread(KeptView(V), FlattenSeq(conv))
                /\ \A m \in V : \E j \in DOMAIN s : Bears(m, s[j], PairedToolCallIDs(s), K[j])
                /\ \A j \in DOMAIN s : s[j].kind \notin {"carrier", "reasoning"} =>
                     \E m \in V : Bears(m, s[j], PairedToolCallIDs(s), K[j])
<1> DEFINE P == PairedToolCallIDs(s)
           V == UNION {ToSet(conv[j]) : j \in DOMAIN s}
           u == FlattenSeq(conv)
           f == KeptView(V)
<1>1. DOMAIN s = 1 .. Len(s) /\ Len(s) \in Nat /\ DOMAIN conv = DOMAIN s
      /\ \A j \in DOMAIN s : s[j] \in Items
  <2>1. DOMAIN conv = DOMAIN s
    OBVIOUS
  <2> QED BY <2>1
<1>2. ASSUME NEW j \in DOMAIN s, s[j].kind \notin {"carrier", "reasoning"}
      PROVE  \E m \in V : conv[j] = <<m>> /\ Bears(m, s[j], P, K[j])
  <2>1. PICK m : conv[j] = <<m>> /\ Bears(m, s[j], P, K[j])
    BY <1>2
  <2>2. ToSet(conv[j]) = {m}
    BY <2>1, OneDistinct
  <2> QED BY <2>1, <2>2
<1>3. ASSUME NEW m \in V
      PROVE  \E j \in DOMAIN s : conv[j] = <<m>> /\ Bears(m, s[j], P, K[j])
  <2>1. PICK j \in DOMAIN s : m \in ToSet(conv[j])
    OBVIOUS
  <2>2. conv[j] # <<>>
    BY <2>1 DEF ToSet
  <2>3. PICK w : conv[j] = <<w>> /\ Bears(w, s[j], P, K[j])
    BY <2>2
  <2>4. ToSet(conv[j]) = {w}
    BY <2>3, OneDistinct
  <2> QED BY <2>1, <2>3, <2>4
<1>4. \A j \in DOMAIN s : \/ conv[j] = <<>> /\ ItemView(s[j], P) = <<>>
                          \/ \E m \in V : conv[j] = <<m>> /\ Bears(m, s[j], P, K[j])
  <2> SUFFICES ASSUME NEW j \in DOMAIN s, NEW m, conv[j] = <<m>>, Bears(m, s[j], P, K[j])
               PROVE  \E w \in V : conv[j] = <<w>> /\ Bears(w, s[j], P, K[j])
    OBVIOUS
  <2>1. s[j].kind \notin {"carrier", "reasoning"}
    BY DEF Bears
  <2> QED BY <2>1, <1>2
<1> HIDE DEF V, P
<1>5. \A v \in V : <<v>> \in Seq(V)
  OBVIOUS
<1>6. <<>> \in Seq(V)
  OBVIOUS
<1>7. conv \in Seq(Seq(V)) /\ Len(conv) = Len(s)
  <2>1. \A j \in DOMAIN s : conv[j] \in Seq(V)
    BY <1>4, <1>5, <1>6
  <2>2. conv \in [1 .. Len(s) -> Seq(V)]
    BY <1>1, <2>1
  <2>3. conv \in Seq(Seq(V))
    BY <1>1, <2>2, SeqDef
  <2> QED BY <2>3, <1>1
<1>8. u \in Seq(V)
  BY <1>7, FlattenTyped
<1>9. ToSet(u) = V
  <2>1. ToSet(u) \subseteq V
    BY <1>8 DEF ToSet
  <2>2. ASSUME NEW m \in V PROVE m \in ToSet(u)
    <3>1. PICK j \in DOMAIN s : conv[j] = <<m>>
      BY <1>3
    <3>2. 1 \in DOMAIN conv[j] /\ conv[j][1] = m
      BY <3>1
    <3>3. conv[j][1] \in ToSet(u)
      BY <3>2, <1>1, <1>7, FlattenKeeps
    <3> QED BY <3>2, <3>3
  <2> QED BY <2>1, <2>2
<1>10. ASSUME NEW j \in DOMAIN s, NEW k \in DOMAIN s, NEW m \in V, NEW w \in V,
              conv[j] = <<m>>, Bears(m, s[j], P, K[j]),
              conv[k] = <<w>>, Bears(w, s[k], P, K[k]), HeadOf(m) = HeadOf(w)
       PROVE  j = k /\ m = w
  <2>1. j = k
    BY <1>10, BearsOne
  <2>2. <<m>>[1] = m /\ <<w>>[1] = w
    OBVIOUS
  <2> QED BY <2>1, <2>2, <1>10
<1>11. \A m, w \in V : HeadOf(m) = HeadOf(w) => m = w
  <2> SUFFICES ASSUME NEW m \in V, NEW w \in V, HeadOf(m) = HeadOf(w) PROVE m = w
    OBVIOUS
  <2>1. PICK j \in DOMAIN s : conv[j] = <<m>> /\ Bears(m, s[j], P, K[j])
    BY <1>3
  <2>2. PICK k \in DOMAIN s : conv[k] = <<w>> /\ Bears(w, s[k], P, K[k])
    BY <1>3
  <2> QED BY <2>1, <2>2, <1>10
<1>12. Distinct(u)
  <2>1. \A j \in DOMAIN conv : Distinct(conv[j])
    BY <1>1, <1>4, OneDistinct
  <2>2. ASSUME NEW i \in DOMAIN conv, NEW j \in DOMAIN conv, i # j
        PROVE  ToSet(conv[i]) \cap ToSet(conv[j]) = {}
    <3> SUFFICES ASSUME NEW m \in ToSet(conv[i]), m \in ToSet(conv[j]) PROVE FALSE
      OBVIOUS
    <3>1. conv[i] # <<>> /\ conv[j] # <<>>
      BY DEF ToSet
    <3>2. PICK a \in V : conv[i] = <<a>> /\ Bears(a, s[i], P, K[i])
      BY <1>1, <1>4, <3>1
    <3>3. PICK b \in V : conv[j] = <<b>> /\ Bears(b, s[j], P, K[j])
      BY <1>1, <1>4, <3>1
    <3>4. a = m /\ b = m
      BY <3>2, <3>3, OneDistinct
    <3> QED BY <3>2, <3>3, <3>4, <1>1, <1>10, <2>2
  <2> QED BY <2>1, <2>2, <1>7, FlattenDistinct
<1>13. \A m \in V : /\ MessagesView(m) = <<HeadOf(m)>>
                    /\ m.content[1].type \in Kinds /\ m.content[1].of \in Nat
  <2> SUFFICES ASSUME NEW m \in V
               PROVE  /\ MessagesView(m) = <<HeadOf(m)>>
                      /\ m.content[1].type \in Kinds /\ m.content[1].of \in Nat
    OBVIOUS
  <2>1. PICK j \in DOMAIN s : Bears(m, s[j], P, K[j])
    BY <1>3
  <2>2. s[j] \in Items
    BY <1>1
  <2>3. s[j].of \in Nat
    BY <2>2, BlocksTyped
  <2> QED BY <2>1, <2>3 DEF Bears
<1>14. ASSUME NEW r \in V, IsResult(r)
       PROVE  \E m \in V : m.content[1].type = "tool_use" /\ m.content[1].of = r.content[1].of
  <2>1. PICK j \in DOMAIN s : Bears(r, s[j], P, K[j])
    BY <1>3
  <2>2. s[j].of \in P /\ r.content[1].of = s[j].of
    BY <2>1, <1>14 DEF Bears, IsResult
  <2>3. PICK k \in DOMAIN s : s[k].kind = "call" /\ s[k].of = s[j].of
    BY <2>2 DEF P, PairedToolCallIDs
  <2>4. PICK m \in V : Bears(m, s[k], P, K[k])
    BY <2>3, <1>2
  <2>5. m.content[1].type = "tool_use" /\ m.content[1].of = s[k].of
    BY <2>3, <2>4 DEF Bears
  <2> QED BY <2>2, <2>3, <2>5
<1>15. WellMade(V, u)
  BY <1>8, <1>9, <1>11, <1>12, <1>13, <1>14 DEF WellMade
<1>16. Maps(f, V, Seq(Entries)) /\ \A m \in V : /\ m.role # "system" => f[m] = <<HeadOf(m)>>
                                                /\ m.role = "system" => f[m] = <<>>
  BY <1>13, KeptViewMaps
<1> HIDE DEF f
<1>17. HistoryOf(s, P) = Spread(f, u)
  <2> DEFINE q == Each(ViewOf(P), s)
  <2>1. q = [j \in DOMAIN conv |-> q[j]] /\ \A j \in DOMAIN s : q[j] = ItemView(s[j], P)
    BY <1>1, ViewMaps DEF Each
  <2> HIDE DEF q
  <2>2. ASSUME NEW j \in DOMAIN conv PROVE q[j] = Spread(f, conv[j])
    <3>1. CASE conv[j] = <<>> /\ ItemView(s[j], P) = <<>>
      BY <3>1, <2>1, <1>1, SpreadEmpty
    <3>2. ASSUME NEW m \in V, conv[j] = <<m>>, Bears(m, s[j], P, K[j])
          PROVE  q[j] = Spread(f, conv[j])
      <4>1. Spread(f, <<m>>) = f[m]
        BY <1>16, SpreadOne
      <4>2. ItemView(s[j], P) = f[m]
        BY <1>16, <3>2 DEF Bears
      <4> QED BY <4>1, <4>2, <3>2, <2>1, <1>1
    <3> QED BY <3>1, <3>2, <1>1, <1>4
  <2>3. Spread(f, FlattenSeq(conv)) = FlattenSeq(q)
    <3>1. Maps(f, V, Seq(Entries))
      BY <1>16
    <3>2. \A j \in DOMAIN conv : q[j] = Spread(f, conv[j])
      BY <2>2
    <3>3. q = [j \in DOMAIN conv |-> q[j]]
      BY <2>1
    <3>4. conv \in Seq(Seq(V))
      BY <1>7
    <3> HIDE DEF u
    <3> QED BY <3>1, <3>2, <3>3, <3>4, SpreadFlatten
  <2> QED BY <2>3 DEF HistoryOf, Spread, q
<1>18. \A m \in V : \E j \in DOMAIN s : Bears(m, s[j], P, K[j])
  BY <1>3
<1>19. \A j \in DOMAIN s : s[j].kind \notin {"carrier", "reasoning"} => \E m \in V : Bears(m, s[j], P, K[j])
  BY <1>2
<1> QED BY <1>15, <1>17, <1>18, <1>19 DEF P, f

-----------------------------------------------------------------------------
(* The messages with every result after its call *)

\* All entries but the results.
RestEntries == Pick(Entries, {e \in Entries : e.type # "tool_result"})

RestView(V) == [m \in V |-> Spread(RestEntries, KeptView(V)[m])]

LEMMA RestMaps ==
  /\ Maps(RestEntries, Entries, Seq(Entries))
  /\ \A e \in Entries : /\ e.type # "tool_result" => RestEntries[e] = <<e>>
                        /\ e.type = "tool_result" => RestEntries[e] = <<>>
<1> DEFINE T == {e \in Entries : e.type # "tool_result"}
<1>1. \A e \in Entries : e \in T <=> e.type # "tool_result"
  OBVIOUS
<1> HIDE DEF T
<1>2. /\ Maps(Pick(Entries, T), Entries, Seq(Entries))
      /\ \A v \in Entries : /\ v \in T => Pick(Entries, T)[v] = <<v>>
                            /\ v \notin T => Pick(Entries, T)[v] = <<>>
  BY PickMaps
<1>3. RestEntries = Pick(Entries, T)
  BY DEF RestEntries, T
<1> QED BY <1>1, <1>2, <1>3

LEMMA RestViewMaps ==
  ASSUME NEW V, \A m \in V : m.content[1].type \in Kinds /\ m.content[1].of \in Nat
  PROVE  /\ Maps(RestView(V), V, Seq(Entries))
         /\ \A m \in V : /\ RestView(V)[m] = Spread(RestEntries, KeptView(V)[m])
                         /\ IsResult(m) => RestView(V)[m] = <<>>
<1> DEFINE f == RestView(V)
<1>1. f = [m \in V |-> f[m]] /\ \A m \in V : f[m] = Spread(RestEntries, KeptView(V)[m])
  BY DEF RestView
<1> HIDE DEF f
<1>2. /\ Maps(KeptView(V), V, Seq(Entries))
      /\ \A m \in V : /\ m.role # "system" => KeptView(V)[m] = <<HeadOf(m)>>
                      /\ m.role = "system" => KeptView(V)[m] = <<>>
  BY KeptViewMaps
<1>3. \A m \in V : KeptView(V)[m] \in Seq(Entries)
  BY <1>2 DEF Maps
<1>4. \A m \in V : f[m] \in Seq(Entries)
  BY <1>1, <1>3, RestMaps, SpreadTyped
<1>5. f \in [V -> Seq(Entries)]
  BY <1>1, <1>4
<1>6. ASSUME NEW m \in V, IsResult(m) PROVE f[m] = <<>>
  <2>1. HeadOf(m) \in Entries /\ HeadOf(m).type = "tool_result"
    BY <1>6, HeadTyped DEF IsResult
  <2>2. Spread(RestEntries, <<HeadOf(m)>>) = RestEntries[HeadOf(m)]
    BY <2>1, RestMaps, SpreadOne
  <2>3. RestEntries[HeadOf(m)] = <<>>
    BY <2>1, RestMaps
  <2>4. Spread(RestEntries, <<>>) = <<>>
    BY SpreadEmpty
  <2> QED BY <2>2, <2>3, <2>4, <1>1, <1>2
<1> QED BY <1>1, <1>5, <1>6 DEF Maps, f

\* A message with its results: nothing but itself and those, each once.
LEMMA GatheredElements ==
  ASSUME NEW V, NEW u, WellMade(V, u), NEW m \in V
  PROVE  /\ IsResult(m) => Gathered(V, u)[m] = <<>>
         /\ ~IsResult(m) =>
              /\ Gathered(V, u)[m] = <<m>> \o AnswersTo(m, ResultsOf(u))
              /\ AnswersTo(m, ResultsOf(u)) \in Seq(V)
              /\ ToSet(AnswersTo(m, ResultsOf(u)))
                   = {r \in V : /\ IsResult(r) /\ m.content[1].type = "tool_use"
                                /\ r.content[1].of = m.content[1].of}
              /\ ToSet(Gathered(V, u)[m]) = {m} \cup ToSet(AnswersTo(m, ResultsOf(u)))
              /\ Distinct(Gathered(V, u)[m])
<1> DEFINE rs == ResultsOf(u)
           x == AnswersTo(m, rs)
           g == Gathered(V, u)[m]
           y == <<m>>
<1>1. u \in Seq(V) /\ ToSet(u) = V /\ Distinct(u)
  BY DEF WellMade
<1>2. rs \in Seq(V) /\ ToSet(rs) = {r \in V : IsResult(r)} /\ Distinct(rs)
  BY <1>1, ResultsPicked
<1>3. (IsResult(m) => g = <<>>) /\ (~IsResult(m) => g = y \o x)
  BY <1>1, NormalizedSpread
<1> HIDE DEF rs, g
<1>4. x \in Seq(V) /\ Distinct(x)
      /\ ToSet(x) = {r \in ToSet(rs) : m.content[1].type = "tool_use" /\ r.content[1].of = m.content[1].of}
  BY <1>2, AnswersPicked
<1>5. ToSet(x) = {r \in V : /\ IsResult(r) /\ m.content[1].type = "tool_use"
                            /\ r.content[1].of = m.content[1].of}
  BY <1>2, <1>4
<1>6. y \in Seq(V) /\ ToSet(y) = {m} /\ Distinct(y)
  BY OneDistinct
<1> HIDE DEF x, y
<1>7. ToSet(y \o x) = ToSet(y) \cup ToSet(x)
  BY <1>4, <1>6, ConcatToSet
<1>8. ASSUME ~IsResult(m) PROVE Distinct(y \o x)
  <2>1. ToSet(y) \cap ToSet(x) = {}
    BY <1>5, <1>6, <1>8
  <2> QED BY <2>1, <1>4, <1>6, DistinctConcat
<1> QED BY <1>3, <1>4, <1>5, <1>6, <1>7, <1>8 DEF g, rs, x, y

LEMMA NormalizedWell ==
  ASSUME NEW V, NEW u, WellMade(V, u)
  PROVE  /\ normalizeToolResultOrder(u) \in Seq(V)
         /\ ToSet(normalizeToolResultOrder(u)) = V
         /\ Distinct(normalizeToolResultOrder(u))
         /\ Spread(RestView(V), normalizeToolResultOrder(u)) = Spread(RestView(V), u)
<1> DEFINE all == normalizeToolResultOrder(u)
           G == Gathered(V, u)
           f == RestView(V)
           Of(m) == m.content[1].of
           Type(m) == m.content[1].type
           A(m) == AnswersTo(m, ResultsOf(u))
<1>1. /\ u \in Seq(V) /\ ToSet(u) = V /\ Distinct(u)
      /\ \A m \in V : Type(m) \in Kinds /\ Of(m) \in Nat
      /\ \A m, w \in V : HeadOf(m) = HeadOf(w) => m = w
      /\ \A r \in V : IsResult(r) => \E m \in V : Type(m) = "tool_use" /\ Of(m) = Of(r)
  BY DEF WellMade
<1>2. all = Spread(G, u) /\ Maps(G, V, Seq(V))
  BY <1>1, NormalizedSpread
<1>3. \A m \in V : IsResult(m) <=> Type(m) = "tool_result"
  BY DEF IsResult
<1>4. \A m \in V :
        /\ IsResult(m) => G[m] = <<>>
        /\ ~IsResult(m) => /\ G[m] = <<m>> \o A(m) /\ A(m) \in Seq(V)
                           /\ ToSet(A(m)) = {r \in V : IsResult(r) /\ Type(m) = "tool_use" /\ Of(r) = Of(m)}
                           /\ ToSet(G[m]) = {m} \cup ToSet(A(m)) /\ Distinct(G[m])
  BY GatheredElements
<1>5. Maps(f, V, Seq(Entries)) /\ \A m \in V : IsResult(m) => f[m] = <<>>
  BY <1>1, RestViewMaps
<1>6. \A m, w \in V : Type(m) = Type(w) /\ Of(m) = Of(w) => m = w
  BY <1>1 DEF HeadOf
<1> HIDE DEF all, G, f, Of, Type, A
<1>7. all \in Seq(V)
  BY <1>1, <1>2, SpreadTyped
<1>8. ToSet(all) = V
  <2>1. ToSet(all) = UNION {ToSet(G[m]) : m \in V}
    BY <1>1, <1>2, SpreadToSet
  <2>2. ToSet(all) \subseteq V
    BY <1>7 DEF ToSet
  <2>3. ASSUME NEW r \in V PROVE r \in ToSet(all)
    <3>1. CASE ~IsResult(r)
      <4>1. r \in ToSet(G[r])
        BY <3>1, <1>4
      <4> QED BY <4>1, <2>1
    <3>2. CASE IsResult(r)
      <4>1. PICK m \in V : Type(m) = "tool_use" /\ Of(m) = Of(r)
        BY <3>2, <1>1
      <4>2. ~IsResult(m)
        BY <4>1, <1>3
      <4>3. r \in ToSet(G[m])
        BY <3>2, <4>1, <4>2, <1>4
      <4> QED BY <4>3, <2>1
    <3> QED BY <3>1, <3>2
  <2> QED BY <2>2, <2>3
<1>9. Distinct(all)
  <2>1. \A m \in V : Distinct(G[m])
    BY <1>4, OneDistinct
  <2>2. ASSUME NEW m \in V, NEW w \in V, m # w PROVE ToSet(G[m]) \cap ToSet(G[w]) = {}
    <3> SUFFICES ASSUME NEW r \in ToSet(G[m]), r \in ToSet(G[w]) PROVE FALSE
      OBVIOUS
    <3>1. ~IsResult(m) /\ ~IsResult(w)
      <4>1. G[m] # <<>> /\ G[w] # <<>>
        BY DEF ToSet
      <4> QED BY <4>1, <1>4
    <3>2. r = m \/ (IsResult(r) /\ Type(m) = "tool_use" /\ Of(r) = Of(m))
      BY <3>1, <1>4
    <3>3. r = w \/ (IsResult(r) /\ Type(w) = "tool_use" /\ Of(r) = Of(w))
      BY <3>1, <1>4
    <3>4. CASE IsResult(r)
      BY <3>1, <3>2, <3>3, <3>4, <1>6, <2>2
    <3>5. CASE ~IsResult(r)
      BY <3>2, <3>3, <3>5, <2>2
    <3> QED BY <3>4, <3>5
  <2>3. \A m, w \in V : m # w => ToSet(G[m]) \cap ToSet(G[w]) = {}
    BY <2>2
  <2> QED BY <2>1, <2>3, <1>1, <1>2, SpreadDistinct
<1>10. ASSUME NEW m \in V PROVE f[m] = Spread(f, G[m])
  <2>1. CASE IsResult(m)
    BY <2>1, <1>4, <1>5, SpreadEmpty
  <2>2. CASE ~IsResult(m)
    <3> DEFINE x == A(m)
               y == <<m>>
    <3>1. G[m] = y \o x /\ x \in Seq(V) /\ \A r \in ToSet(x) : r \in V /\ IsResult(r)
      BY <2>2, <1>4
    <3>2. y \in Seq(V) /\ Spread(f, y) = f[m]
      BY <1>5, SpreadOne
    <3> HIDE DEF x, y
    <3>3. Spread(f, y \o x) = Spread(f, y) \o Spread(f, x)
      <4>1. x \in Seq(V) /\ y \in Seq(V) /\ Maps(f, V, Seq(Entries))
        BY <3>1, <3>2, <1>5
      <4> QED BY <4>1, SpreadConcat
    <3>4. Spread(f, x) = <<>>
      <4>1. \A r \in ToSet(x) : f[r] = <<>>
        BY <3>1, <1>5
      <4> QED BY <4>1, <3>1, <1>5, SpreadNothing
    <3>5. f[m] \o <<>> = f[m]
      <4>1. f[m] \in Seq(Entries)
        BY <1>5 DEF Maps
      <4> QED BY <4>1, ConcatEmptySeq
    <3> QED BY <3>1, <3>2, <3>3, <3>4, <3>5
  <2> QED BY <2>1, <2>2
<1>11. Spread(f, Spread(G, u)) = Spread(f, u)
  BY <1>1, <1>2, <1>5, <1>10, SpreadTwice
<1> QED BY <1>2, <1>7, <1>8, <1>9, <1>11 DEF all, f

-----------------------------------------------------------------------------
(* The messages without the system texts *)

SpokenOf(x) == Only(x, LAMBDA m : m.role # "system")

MessagesSeen(x) == FlattenSeq([i \in DOMAIN x |-> MessagesView(x[i])])

LEMMA SpokenPicked ==
  ASSUME NEW V, NEW x \in Seq(V)
  PROVE  SpokenOf(x) = Spread(Pick(V, {m \in V : m.role # "system"}), x)
<1> DEFINE q == [i \in DOMAIN x |-> IF x[i].role # "system" THEN <<x[i]>> ELSE <<>>]
           T == {m \in V : m.role # "system"}
<1>1. \A i \in DOMAIN x : x[i] \in V /\ (x[i] \in T <=> x[i].role # "system")
  OBVIOUS
<1>2. SpokenOf(x) = FlattenSeq(q)
  BY DEF SpokenOf, Only
<1> HIDE DEF T
<1>3. q = [i \in DOMAIN x |-> q[i]] /\ \A i \in DOMAIN x : q[i] = IF x[i] \in T THEN <<x[i]>> ELSE <<>>
  BY <1>1
<1> HIDE DEF q
<1>4. FlattenSeq(q) = Spread(Pick(V, T), x)
  BY <1>3, PickIs
<1> QED BY <1>2, <1>4 DEF T

LEMMA SpokenSeen ==
  ASSUME NEW V, NEW u, WellMade(V, u), NEW x \in Seq(V)
  PROVE  /\ MessagesSeen(SpokenOf(x)) = Spread(KeptView(V), x)
         /\ ToSet(SpokenOf(x)) = {m \in ToSet(x) : m.role # "system"}
<1> DEFINE T == {m \in V : m.role # "system"}
           p == Pick(V, T)
           y == SpokenOf(x)
           h == [m \in V |-> MessagesView(m)]
           f == KeptView(V)
           q == [i \in DOMAIN y |-> MessagesView(y[i])]
<1>1. \A m \in V : /\ MessagesView(m) = <<HeadOf(m)>>
                   /\ m.content[1].type \in Kinds /\ m.content[1].of \in Nat
  BY DEF WellMade
<1>2. y = Spread(p, x)
  BY SpokenPicked
<1>3. Maps(f, V, Seq(Entries)) /\ \A m \in V : /\ m.role # "system" => f[m] = <<HeadOf(m)>>
                                               /\ m.role = "system" => f[m] = <<>>
  BY <1>1, KeptViewMaps
<1>4. Maps(h, V, Seq(Entries)) /\ \A m \in V : h[m] = MessagesView(m)
  <2>1. \A m \in V : HeadOf(m) \in Entries
    BY <1>1, HeadTyped
  <2>2. \A e \in Entries : <<e>> \in Seq(Entries)
    OBVIOUS
  <2>3. \A m \in V : MessagesView(m) \in Seq(Entries)
    BY <1>1, <2>1, <2>2
  <2> QED BY <2>3 DEF Maps
<1>5. \A m \in V : m \in T <=> m.role # "system"
  OBVIOUS
<1> HIDE DEF T, h, f
<1>6. Maps(p, V, Seq(V)) /\ \A m \in V : (m \in T => p[m] = <<m>>) /\ (m \notin T => p[m] = <<>>)
  BY PickMaps
<1>7. y \in Seq(V) /\ ToSet(y) = ToSet(x) \cap T
  BY <1>2, PickFrom
<1> HIDE DEF y
<1>8. FlattenSeq(q) = Spread(h, y)
  <2>1. q = [i \in DOMAIN y |-> q[i]] /\ \A i \in DOMAIN y : q[i] = MessagesView(y[i])
    OBVIOUS
  <2>2. \A i \in DOMAIN y : y[i] \in V
    BY <1>7
  <2> HIDE DEF q
  <2>3. \A i \in DOMAIN y : q[i] = h[y[i]]
    BY <2>1, <2>2, <1>4
  <2>4. Maps(h, V, Seq(Entries))
    BY <1>4
  <2> QED BY <2>1, <2>3, <2>4, <1>7, SpreadIs
<1> HIDE DEF p
<1>9. ASSUME NEW m \in V PROVE f[m] = Spread(h, p[m])
  <2>1. CASE m.role # "system"
    <3>1. p[m] = <<m>> /\ f[m] = h[m]
      BY <2>1, <1>1, <1>3, <1>4, <1>5, <1>6
    <3>2. Spread(h, <<m>>) = h[m]
      BY <1>4, SpreadOne
    <3> QED BY <3>1, <3>2
  <2>2. CASE m.role = "system"
    BY <2>2, <1>3, <1>5, <1>6, SpreadEmpty
  <2> QED BY <2>1, <2>2
<1>10. Spread(h, Spread(p, x)) = Spread(f, x)
  <2>1. Maps(h, V, Seq(Entries)) /\ Maps(f, V, Seq(Entries)) /\ Maps(p, V, Seq(V))
    BY <1>3, <1>4, <1>6
  <2> QED BY <2>1, <1>9, SpreadTwice
<1>11. ToSet(x) \cap T = {m \in ToSet(x) : m.role # "system"}
  <2>1. \A m \in ToSet(x) : m \in V
    BY DEF ToSet
  <2> QED BY <2>1, <1>5
<1>12. MessagesSeen(y) = Spread(f, x)
  BY <1>2, <1>8, <1>10 DEF MessagesSeen
<1> QED BY <1>7, <1>11, <1>12 DEF y, f

\* What is shown of messages without repetition, whatever their order.
LEMMA SeenOnce ==
  ASSUME NEW V, NEW u, WellMade(V, u), NEW x \in Seq(V), Distinct(x), ToSet(x) = V
  PROVE  /\ Distinct(Spread(KeptView(V), x)) /\ Spread(KeptView(V), x) \in Seq(Entries)
         /\ ToSet(Spread(KeptView(V), x)) = {HeadOf(m) : m \in {w \in V : w.role # "system"}}
         /\ Spread(RestEntries, Spread(KeptView(V), x)) = Spread(RestView(V), x)
<1> DEFINE f == KeptView(V)
<1>1. /\ \A m \in V : m.content[1].type \in Kinds /\ m.content[1].of \in Nat
      /\ \A m, w \in V : HeadOf(m) = HeadOf(w) => m = w
  BY DEF WellMade
<1>2. Maps(f, V, Seq(Entries)) /\ \A m \in V : /\ m.role # "system" => f[m] = <<HeadOf(m)>>
                                               /\ m.role = "system" => f[m] = <<>>
  BY <1>1, KeptViewMaps
<1>3. Maps(RestView(V), V, Seq(Entries)) /\ \A m \in V : RestView(V)[m] = Spread(RestEntries, f[m])
  BY <1>1, RestViewMaps
<1>4. Maps(RestEntries, Entries, Seq(Entries))
  BY RestMaps
<1> HIDE DEF f
<1>5. ASSUME NEW m \in V
      PROVE  /\ m.role # "system" => ToSet(f[m]) = {HeadOf(m)}
             /\ m.role = "system" => ToSet(f[m]) = {}
             /\ Distinct(f[m])
  <2>1. ToSet(<<>>) = {}
    BY DEF ToSet
  <2> QED BY <2>1, <1>2, OneDistinct
<1>6. \A m, w \in V : m # w => ToSet(f[m]) \cap ToSet(f[w]) = {}
  <2> SUFFICES ASSUME NEW m \in V, NEW w \in V, m # w, NEW e \in ToSet(f[m]), e \in ToSet(f[w])
               PROVE  FALSE
    OBVIOUS
  <2>1. e = HeadOf(m) /\ e = HeadOf(w)
    BY <1>5
  <2> QED BY <2>1, <1>1
<1>7. Distinct(Spread(f, x))
  <2>1. \A m \in V : Distinct(f[m])
    BY <1>5
  <2>2. Maps(f, V, Seq(Entries))
    BY <1>2
  <2> QED BY <2>1, <2>2, <1>6, SpreadDistinct
<1>8. Spread(f, x) \in Seq(Entries)
  BY <1>2, SpreadTyped
<1>9. ToSet(Spread(f, x)) = {HeadOf(m) : m \in {w \in V : w.role # "system"}}
  <2>1. ToSet(Spread(f, x)) = UNION {ToSet(f[m]) : m \in V}
    <3>1. Maps(f, V, Seq(Entries))
      BY <1>2
    <3>2. ToSet(Spread(f, x)) = UNION {ToSet(f[m]) : m \in ToSet(x)}
      BY <3>1, SpreadToSet
    <3> QED BY <3>2
  <2>2. ASSUME NEW e \in ToSet(Spread(f, x)) PROVE e \in {HeadOf(m) : m \in {w \in V : w.role # "system"}}
    <3>1. PICK m \in V : e \in ToSet(f[m])
      BY <2>1
    <3>2. m.role # "system" /\ e = HeadOf(m)
      BY <3>1, <1>5
    <3> QED BY <3>2
  <2>3. ASSUME NEW m \in V, m.role # "system" PROVE HeadOf(m) \in ToSet(Spread(f, x))
    <3>1. HeadOf(m) \in ToSet(f[m])
      BY <2>3, <1>5
    <3> QED BY <3>1, <2>1
  <2> QED BY <2>2, <2>3
<1>10. Spread(RestEntries, Spread(f, x)) = Spread(RestView(V), x)
  <2>1. Maps(f, V, Seq(Entries)) /\ Maps(RestView(V), V, Seq(Entries))
    BY <1>2, <1>3
  <2>2. \A m \in V : RestView(V)[m] = Spread(RestEntries, f[m])
    BY <1>3
  <2> QED BY <2>1, <2>2, <1>4, SpreadTwice
<1> QED BY <1>7, <1>8, <1>9, <1>10 DEF f

-----------------------------------------------------------------------------
(* What a Messages request shows of its input *)

\* The picture of the last item is the one that may be kept.
LEMMA LastIsCurrent ==
  ASSUME NEW s \in Seq(Items), s # <<>>, s[Len(s)].kind \in {"user", "result"}
  PROVE  CurrentInput(s) = Len(s)
<1> DEFINE C == {i \in DOMAIN s : ~isStateOnlyItem(s[i]) /\ s[i].kind # "system"}
           n == Len(s)
<1>1. n \in Nat /\ DOMAIN s = 1 .. n /\ n \in DOMAIN s
  OBVIOUS
<1>2. n \in C /\ \A i \in C : i \in Nat /\ i <= n
  <2>1. s[n].kind # "reasoning" /\ s[n].kind # "system"
    OBVIOUS
  <2>2. n \in C
    BY <1>1, <2>1 DEF isStateOnlyItem
  <2> QED BY <1>1, <2>2
<1>3. C # {}
  BY <1>2
<1>4. CurrentInput(s) = Max(C)
  BY <1>3 DEF CurrentInput
<1> HIDE DEF C, n
<1>5. Max(C) = n
  <2>1. n \in C /\ \A y \in C : n >= y
    BY <1>1, <1>2
  <2>2. \A x \in C : (\A y \in C : x >= y) => x = n
    BY <1>1, <1>2
  <2> QED BY <2>1, <2>2 DEF Max
<1> QED BY <1>4, <1>5 DEF n

KeepsPicture(s, opts) ==
  [j \in DOMAIN s |-> opts.images /\ ~opts.omit /\ j = CurrentInput(s)]

LEMMA MessagesMade ==
  ASSUME NEW s \in Seq(Items), Unique(s), NEW opts, opts.images \in BOOLEAN, opts.omit \in BOOLEAN
  PROVE  \E u : \E V :
           /\ WellMade(V, u)
           /\ MessagesOf(s, opts) = SpokenOf(normalizeToolResultOrder(u))
           /\ HistoryOf(s, PairedToolCallIDs(s)) = Spread(KeptView(V), u)
           /\ \A m \in V : \E j \in DOMAIN s :
                Bears(m, s[j], PairedToolCallIDs(s), KeepsPicture(s, opts)[j])
           /\ \A j \in DOMAIN s : s[j].kind \notin {"carrier", "reasoning"} =>
                \E m \in V : Bears(m, s[j], PairedToolCallIDs(s), KeepsPicture(s, opts)[j])
<1> DEFINE P == PairedToolCallIDs(s)
           K == KeepsPicture(s, opts)
           Keep(j) == opts.images /\ ~opts.omit /\ j = CurrentInput(s)
           conv == [j \in DOMAIN s |-> convertMessageItem(s[j], P, Keep(j))]
           u == FlattenSeq(conv)
<1>1. MessagesOf(s, opts) = SpokenOf(normalizeToolResultOrder(u))
  BY DEF MessagesOf, responsesToMessagesRequest, inputToMessages, SpokenOf
<1>2. \A j \in DOMAIN s : K[j] \in BOOLEAN /\ K[j] = Keep(j)
  BY DEF KeepsPicture
<1>3. conv = [j \in DOMAIN s |-> conv[j]] /\ \A j \in DOMAIN s : conv[j] = convertMessageItem(s[j], P, K[j])
  BY <1>2
<1> HIDE DEF conv, K, P
<1>4. ASSUME NEW j \in DOMAIN s
      PROVE  \/ conv[j] = <<>> /\ s[j].kind \in {"carrier", "reasoning"} /\ ItemView(s[j], P) = <<>>
             \/ \E m : conv[j] = <<m>> /\ Bears(m, s[j], P, K[j])
  <2>1. s[j] \in Items /\ K[j] \in BOOLEAN
    BY <1>2
  <2>2. \/ /\ convertMessageItem(s[j], P, K[j]) = <<>>
           /\ s[j].kind \in {"carrier", "reasoning"} /\ ItemView(s[j], P) = <<>>
        \/ \E m : convertMessageItem(s[j], P, K[j]) = <<m>> /\ Bears(m, s[j], P, K[j])
    BY <2>1, ItemBears
  <2> QED BY <2>2, <1>3
<1>5. \E V : /\ WellMade(V, FlattenSeq(conv)) /\ HistoryOf(s, P) = Spread(KeptView(V), FlattenSeq(conv))
             /\ \A m \in V : \E j \in DOMAIN s : Bears(m, s[j], P, K[j])
             /\ \A j \in DOMAIN s : s[j].kind \notin {"carrier", "reasoning"} =>
                  \E m \in V : Bears(m, s[j], P, K[j])
  BY <1>3, <1>4, ConvertedWell DEF P
<1> QED BY <1>1, <1>5 DEF P, K

LEMMA MessagesShow ==
  ASSUME NEW s \in Seq(Items), Unique(s), NEW opts, opts.images \in BOOLEAN, opts.omit \in BOOLEAN
  PROVE  LET ms == MessagesOf(s, opts)
             P  == PairedToolCallIDs(s)
             shown == UNION {ImagesOf(m) : m \in ToSet(ms)}
             last == s[Len(s)]
         IN  /\ MessagesSeen(ms) \in Seq(Entries)
             /\ Alike(MessagesSeen(ms), HistoryOf(s, P))
             /\ Spread(RestEntries, MessagesSeen(ms)) = Spread(RestEntries, HistoryOf(s, P))
             /\ ~(opts.images /\ ~opts.omit) => shown = {}
             /\ /\ opts.images /\ ~opts.omit /\ s # <<>> /\ last.kind \in {"user", "result"}
                /\ last.image # "none" /\ ~(last.kind = "result" /\ last.of \notin P)
                => last.of \in shown
<1> DEFINE ms == MessagesOf(s, opts)
           P  == PairedToolCallIDs(s)
           K  == KeepsPicture(s, opts)
           shown == UNION {ImagesOf(m) : m \in ToSet(ms)}
           last == s[Len(s)]
<1>1. PICK u : \E V :
           /\ WellMade(V, u)
           /\ ms = SpokenOf(normalizeToolResultOrder(u))
           /\ HistoryOf(s, P) = Spread(KeptView(V), u)
           /\ \A m \in V : \E j \in DOMAIN s : Bears(m, s[j], P, K[j])
           /\ \A j \in DOMAIN s : s[j].kind \notin {"carrier", "reasoning"} =>
                \E m \in V : Bears(m, s[j], P, K[j])
  BY MessagesMade
<1>2. PICK V :
           /\ WellMade(V, u)
           /\ ms = SpokenOf(normalizeToolResultOrder(u))
           /\ HistoryOf(s, P) = Spread(KeptView(V), u)
           /\ \A m \in V : \E j \in DOMAIN s : Bears(m, s[j], P, K[j])
           /\ \A j \in DOMAIN s : s[j].kind \notin {"carrier", "reasoning"} =>
                \E m \in V : Bears(m, s[j], P, K[j])
  BY <1>1
<1> DEFINE all == normalizeToolResultOrder(u)
           f == KeptView(V)
<1>3. /\ all \in Seq(V) /\ ToSet(all) = V /\ Distinct(all)
      /\ Spread(RestView(V), all) = Spread(RestView(V), u)
  BY <1>2, NormalizedWell
<1>4. \A j \in DOMAIN s : K[j] = (opts.images /\ ~opts.omit /\ j = CurrentInput(s))
  BY DEF KeepsPicture
<1> HIDE DEF ms, P, K, all
<1>5. /\ MessagesSeen(ms) = Spread(f, all)
      /\ ToSet(ms) = {m \in V : m.role # "system"}
  <2>1. /\ MessagesSeen(SpokenOf(all)) = Spread(KeptView(V), all)
        /\ ToSet(SpokenOf(all)) = {m \in ToSet(all) : m.role # "system"}
    BY <1>2, <1>3, SpokenSeen
  <2> QED BY <2>1, <1>2, <1>3 DEF all
<1>6. /\ Distinct(Spread(f, all)) /\ Spread(f, all) \in Seq(Entries)
      /\ ToSet(Spread(f, all)) = {HeadOf(m) : m \in {w \in V : w.role # "system"}}
      /\ Spread(RestEntries, Spread(f, all)) = Spread(RestView(V), all)
  BY <1>2, <1>3, SeenOnce
<1>7. /\ Distinct(Spread(f, u)) /\ Spread(f, u) \in Seq(Entries)
      /\ ToSet(Spread(f, u)) = {HeadOf(m) : m \in {w \in V : w.role # "system"}}
      /\ Spread(RestEntries, Spread(f, u)) = Spread(RestView(V), u)
  <2>1. u \in Seq(V) /\ Distinct(u) /\ ToSet(u) = V
    BY <1>2 DEF WellMade
  <2> QED BY <2>1, <1>2, SeenOnce
<1> HIDE DEF f
<1>8. Alike(MessagesSeen(ms), HistoryOf(s, P))
  <2>1. ToSet(Spread(f, all)) = ToSet(Spread(f, u))
    BY <1>6, <1>7
  <2>2. Alike(Spread(f, all), Spread(f, u))
    BY <2>1, <1>6, <1>7, DistinctAlike
  <2> QED BY <2>2, <1>2, <1>5 DEF f
<1>9. Spread(RestEntries, MessagesSeen(ms)) = Spread(RestEntries, HistoryOf(s, P))
  BY <1>2, <1>3, <1>5, <1>6, <1>7 DEF f
<1>10. ASSUME ~(opts.images /\ ~opts.omit) PROVE shown = {}
  <2> SUFFICES ASSUME NEW m \in ToSet(ms) PROVE ImagesOf(m) = {}
    OBVIOUS
  <2>1. m \in V
    BY <1>5
  <2>2. PICK j \in DOMAIN s : Bears(m, s[j], P, K[j])
    BY <2>1, <1>2
  <2>3. ~K[j]
    BY <1>4, <1>10
  <2> QED BY <2>2, <2>3 DEF Bears
<1>11. ASSUME opts.images /\ ~opts.omit, s # <<>>, last.kind \in {"user", "result"},
              last.image # "none", ~(last.kind = "result" /\ last.of \notin P)
       PROVE  last.of \in shown
  <2>1. CurrentInput(s) = Len(s) /\ Len(s) \in DOMAIN s
    BY <1>11, LastIsCurrent
  <2>2. K[Len(s)]
    BY <2>1, <1>4, <1>11
  <2>3. last.kind \notin {"carrier", "reasoning"} /\ last.kind # "system" /\ HasImage(last)
    BY <1>11 DEF HasImage
  <2>4. PICK m \in V : Bears(m, last, P, K[Len(s)])
    BY <2>1, <2>3, <1>2
  <2>5. m.role # "system" /\ ImagesOf(m) = {last.of}
    BY <2>2, <2>3, <2>4, <1>11 DEF Bears
  <2>6. m \in ToSet(ms)
    BY <2>4, <2>5, <1>5
  <2> QED BY <2>5, <2>6
<1> QED BY <1>5, <1>6, <1>8, <1>9, <1>10, <1>11 DEF ms, P

-----------------------------------------------------------------------------
(* A request shows its history *)

RestOf(x) == Only(x, LAMBDA e : e.type # "tool_result")

LEMMA RestIs ==
  ASSUME NEW x \in Seq(Entries)
  PROVE  RestOf(x) = Spread(RestEntries, x)
<1> DEFINE q == [i \in DOMAIN x |-> IF x[i].type # "tool_result" THEN <<x[i]>> ELSE <<>>]
           T == {e \in Entries : e.type # "tool_result"}
<1>1. \A i \in DOMAIN x : x[i] \in Entries /\ (x[i] \in T <=> x[i].type # "tool_result")
  OBVIOUS
<1>2. RestOf(x) = FlattenSeq(q)
  BY DEF RestOf, Only
<1> HIDE DEF T
<1>3. q = [i \in DOMAIN x |-> q[i]] /\ \A i \in DOMAIN x : q[i] = IF x[i] \in T THEN <<x[i]>> ELSE <<>>
  BY <1>1
<1> HIDE DEF q
<1>4. FlattenSeq(q) = Spread(Pick(Entries, T), x)
  BY <1>3, PickIs
<1> QED BY <1>2, <1>4 DEF T, RestEntries

LEMMA PicturesShown ==
  ShownPictures = UNION {ImagesOf(m) : m \in ToSet(body.messages)}
<1> DEFINE ms == body.messages
           blocks == UNION {ToSet(ms[i].content) : i \in DOMAIN ms}
           inner  == UNION {ToSet(b.inner) : b \in {c \in blocks : c.type = "tool_result"}}
           Inner(m) == UNION {ToSet(b.inner) : b \in {c \in ToSet(m.content) : c.type = "tool_result"}}
<1>1. ShownPictures = {b.of : b \in {c \in blocks \cup inner : c.type = "image"}}
  BY DEF ShownPictures
<1>2. \A m : ImagesOf(m) = {b.of : b \in {c \in ToSet(m.content) \cup Inner(m) : c.type = "image"}}
  BY DEF ImagesOf
<1>3. ToSet(ms) = {ms[i] : i \in DOMAIN ms}
  BY DEF ToSet
<1>4. \A c : c \in blocks <=> \E m \in ToSet(ms) : c \in ToSet(m.content)
  BY <1>3
<1>5. \A c : c \in inner <=> \E m \in ToSet(ms) : c \in Inner(m)
  <2>1. ASSUME NEW c \in inner PROVE \E m \in ToSet(ms) : c \in Inner(m)
    <3>1. PICK b \in blocks : b.type = "tool_result" /\ c \in ToSet(b.inner)
      OBVIOUS
    <3>2. PICK m \in ToSet(ms) : b \in ToSet(m.content)
      BY <3>1, <1>4
    <3> QED BY <3>1, <3>2
  <2>2. ASSUME NEW m \in ToSet(ms), NEW c \in Inner(m) PROVE c \in inner
    <3>1. PICK b \in ToSet(m.content) : b.type = "tool_result" /\ c \in ToSet(b.inner)
      OBVIOUS
    <3>2. b \in blocks
      BY <1>4
    <3> QED BY <3>1, <3>2
  <2> QED BY <2>1, <2>2
<1> HIDE DEF blocks, inner, Inner, ms
<1>6. ASSUME NEW n \in ShownPictures PROVE n \in UNION {ImagesOf(m) : m \in ToSet(ms)}
  <2>1. PICK c \in blocks \cup inner : c.type = "image" /\ c.of = n
    BY <1>1, <1>6
  <2>2. PICK m \in ToSet(ms) : c \in ToSet(m.content) \cup Inner(m)
    BY <2>1, <1>4, <1>5
  <2>3. n \in ImagesOf(m)
    BY <2>1, <2>2, <1>2
  <2> QED BY <2>3
<1>7. ASSUME NEW m \in ToSet(ms), NEW n \in ImagesOf(m) PROVE n \in ShownPictures
  <2>1. PICK c \in ToSet(m.content) \cup Inner(m) : c.type = "image" /\ c.of = n
    BY <1>2, <1>7
  <2>2. c \in blocks \cup inner
    BY <2>1, <1>4, <1>5
  <2> QED BY <2>1, <2>2, <1>1
<1> QED BY <1>6, <1>7 DEF ms

LEMMA ChatImages ==
  ASSUME NEW N, NEW ms \in Seq(ChatMessages(N))
  PROVE  UNION {ImagesOf(m) : m \in ToSet(ms)} = PicturesIn(ms)
<1>1. ASSUME NEW i \in DOMAIN ms PROVE ImagesOf(ms[i]) = PicturesOf(ms[i].content)
  <2>1. ms[i] \in ChatMessages(N)
    OBVIOUS
  <2>2. ms[i].content \in Seq(Blocks)
    BY <2>1 DEF ChatMessages
  <2>3. ToSet(ms[i].content) \subseteq Blocks
    BY <2>2 DEF ToSet
  <2> QED BY <2>3, ImagesOfBlocks
<1>2. ToSet(ms) = {ms[i] : i \in DOMAIN ms}
  BY DEF ToSet
<1> QED BY <1>1, <1>2 DEF PicturesIn

LEMMA RequestIs ==
  /\ model.route = "messages" => Request = MessagesSeen(body.messages)
  /\ model.route # "messages" =>
       \A N : Numbered(N) /\ body.messages \in Seq(ChatMessages(N)) => Request = Seen(N, body.messages)
<1>1. CASE model.route = "messages"
  BY <1>1 DEF Request, MessagesSeen
<1>2. CASE model.route # "messages"
  <2> SUFFICES ASSUME NEW N, Numbered(N), body.messages \in Seq(ChatMessages(N))
               PROVE  Request = Seen(N, body.messages)
    BY <1>2
  <2> DEFINE ms == body.messages
             M == ChatMessages(N)
             f == ChatViews(N)
             q == [i \in DOMAIN ms |-> ChatView(ms[i])]
  <2>1. Request = FlattenSeq(q)
    BY <1>2 DEF Request
  <2>2. q = [i \in DOMAIN ms |-> q[i]] /\ \A i \in DOMAIN ms : q[i] = ChatView(ms[i])
    OBVIOUS
  <2>3. Maps(f, M, Seq(Entries)) /\ \A m \in M : f[m] = ChatView(m)
    BY ChatViewsMap
  <2>4. ms \in Seq(M)
    OBVIOUS
  <2> HIDE DEF q, f, M, ms
  <2>5. \A i \in DOMAIN ms : ms[i] \in M
    BY <2>4
  <2>6. \A i \in DOMAIN ms : q[i] = f[ms[i]]
    BY <2>2, <2>3, <2>5
  <2>7. FlattenSeq(q) = Spread(f, ms)
    BY <2>2, <2>3, <2>4, <2>6, SpreadIs
  <2> QED BY <2>1, <2>7 DEF Seen, f, ms
<1> QED BY <1>1, <1>2

LEMMA TriesAre ==
  ASSUME NEW m, m.images \in BOOLEAN, NEW opts \in TriesOf(m)
  PROVE  /\ opts.images \in BOOLEAN /\ opts.omit \in BOOLEAN
         /\ (opts.images /\ ~opts.omit) <=> (m.images /\ ~opts.omit)
<1>1. CASE opts = [images |-> m.images, omit |-> FALSE]
  <2>1. opts.images = m.images
    BY <1>1
  <2>2. opts.omit = FALSE
    BY <1>1
  <2> QED BY <2>1, <2>2
<1>2. CASE opts = [images |-> FALSE, omit |-> TRUE]
  <2>1. opts.images = FALSE
    BY <1>2
  <2>2. opts.omit = TRUE
    BY <1>2
  <2> QED BY <2>1, <2>2
<1> QED BY <1>1, <1>2 DEF TriesOf

\* What a request made of the history shows, for an input that follows it.
LEMMA ShowsTheSame ==
  ASSUME history \in Seq(Items), NEW input \in Seq(Items), Unique(input),
         NEW opts \in TriesOf(model), model.images \in BOOLEAN,
         body.messages = ConvertedOf(model, input, opts).messages,
         HistoryOf(input, PairedToolCallIDs(input)) = History, ~TextBeforeResult => Spaced(input)
  PROVE  Alike(Request, History) /\ (Ordered => RestOf(Request) = RestOf(History))
<1> DEFINE ms == body.messages
           P == PairedToolCallIDs(input)
<1>1. opts.images \in BOOLEAN /\ opts.omit \in BOOLEAN
  BY TriesAre
<1>2. History \in Seq(Entries)
  BY HistoryIs, ViewMaps, SpreadTyped DEF HistoryOf
<1>3. CASE model.route = "messages"
  <2>1. ms = MessagesOf(input, opts)
    BY <1>3 DEF ConvertedOf, MessagesOf
  <2>2. Request = MessagesSeen(ms)
    BY <1>3, RequestIs
  <2>3. /\ MessagesSeen(MessagesOf(input, opts)) \in Seq(Entries)
        /\ Alike(MessagesSeen(MessagesOf(input, opts)), HistoryOf(input, P))
        /\ Spread(RestEntries, MessagesSeen(MessagesOf(input, opts))) = Spread(RestEntries, HistoryOf(input, P))
    BY <1>1, MessagesShow
  <2> HIDE DEF ms, P
  <2>4. Request \in Seq(Entries) /\ Alike(Request, History)
        /\ Spread(RestEntries, Request) = Spread(RestEntries, History)
    BY <2>1, <2>2, <2>3 DEF P
  <2> QED BY <2>4, <1>2, RestIs
<1>4. CASE model.route # "messages"
  <2> DEFINE N == CallNames(input)
  <2>1. ms = inputToChatMessages(input, opts)
    BY <1>4 DEF ConvertedOf, responsesToChatRequest
  <2>2. Numbered(N)
    BY PlacedView
  <2>3. inputToChatMessages(input, opts) \in Seq(ChatMessages(N))
    BY ChatTyped
  <2>4. Request = Seen(N, ms)
    BY <1>4, <2>1, <2>2, <2>3, RequestIs
  <2>5. Same(Seen(N, inputToChatMessages(input, opts)), HistoryOf(input, P), Spaced(input))
    BY ChatShows
  <2>6. Alike(Request, History) /\ (Spaced(input) => Request = History)
    BY <2>1, <2>4, <2>5 DEF Same
  <2>7. Ordered => ~TextBeforeResult
    BY <1>4 DEF Ordered
  <2> QED BY <2>6, <2>7
<1> QED BY <1>3, <1>4

LEMMA ShowsPictures ==
  ASSUME history \in Seq(Items), history # <<>>, NEW input \in Seq(Items), Unique(input),
         NEW opts \in TriesOf(model), model.images \in BOOLEAN, body.omit = opts.omit,
         body.messages = ConvertedOf(model, input, opts).messages,
         PairedToolCallIDs(input) = PairedToolCallIDs(history),
         history[Len(history)].kind \in {"user", "result"},
         input # <<>>, input[Len(input)] = history[Len(history)]
  PROVE  PicturesFit
<1> DEFINE ms == body.messages
           P == PairedToolCallIDs(input)
           last == history[Len(history)]
           keep == opts.images /\ ~opts.omit
           shown == UNION {ImagesOf(m) : m \in ToSet(ms)}
           stray == last.kind = "result" /\ last.of \notin P
<1>1. opts.images \in BOOLEAN /\ opts.omit \in BOOLEAN /\ (keep <=> model.images /\ ~body.omit)
  BY TriesAre
<1>2. ShownPictures = shown
  BY PicturesShown
<1> HIDE DEF shown, P
<1>3. (~keep => shown = {})
      /\ (keep /\ last.image # "none" /\ ~(model.route = "messages" /\ stray) => last.of \in shown)
  <2>1. CASE model.route = "messages"
    <3>1. ms = MessagesOf(input, opts)
      BY <2>1 DEF ConvertedOf, MessagesOf
    <3>2. LET x == MessagesOf(input, opts)
              seen == UNION {ImagesOf(m) : m \in ToSet(x)}
              end == input[Len(input)]
          IN  /\ ~keep => seen = {}
              /\ keep /\ input # <<>> /\ end.kind \in {"user", "result"}
                 /\ end.image # "none" /\ ~(end.kind = "result" /\ end.of \notin P) => end.of \in seen
      BY <1>1, MessagesShow DEF P
    <3> QED BY <2>1, <3>1, <3>2 DEF shown
  <2>2. CASE model.route # "messages"
    <3>1. ms = inputToChatMessages(input, opts)
      BY <2>2 DEF ConvertedOf, responsesToChatRequest
    <3>2. ms \in Seq(ChatMessages(CallNames(input)))
      BY <3>1, ChatTyped
    <3>3. shown = PicturesIn(ms)
      BY <3>2, ChatImages DEF shown
    <3>4. PicturesIn(inputToChatMessages(input, opts)) = Pictured(input, Len(input), keep)
      BY ChatPictures
    <3>5. shown = {input[q].of : q \in {i \in DOMAIN input : i <= Len(input) /\ keep /\ HasImage(input[i])}}
      BY <3>1, <3>3, <3>4 DEF Pictured
    <3>6. Len(input) \in DOMAIN input /\ Len(input) <= Len(input)
      OBVIOUS
    <3>7. last.image # "none" => HasImage(input[Len(input)])
      BY DEF HasImage
    <3>8. ASSUME keep, last.image # "none" PROVE last.of \in shown
      <4>1. input[Len(input)].of \in shown
        BY <3>5, <3>6, <3>7, <3>8
      <4> QED BY <4>1
    <3>9. ASSUME ~keep PROVE shown = {}
      BY <3>5, <3>9
    <3> QED BY <3>8, <3>9
  <2> QED BY <2>1, <2>2
<1>4. P = PairedToolCallIDs(history)
  BY DEF P
<1> HIDE DEF keep, shown
<1> QED BY <1>1, <1>2, <1>3, <1>4 DEF PicturesFit

\* Whatever was said, called and answered reaches the model once, on the first try
\* and on every retry, all but the results in the order of the history, and with the
\* pictures that fit, for a history of any length (inputToMessages in adapter.go,
\* inputToChatMessages in adapter_chat.go, rewriteBodyOmitImages in upstream.go).
THEOREM TranscriptIsFaithful == Spec => []FaithfulTranscript
<1>1. Polite /\ Asked => FaithfulTranscript
  <2> SUFFICES ASSUME Polite, Asked, Sent PROVE FaithfulTranscript
    BY DEF FaithfulTranscript
  <2> DEFINE input == applyCodexToolContext(ctx, history)
             last == history[Len(history)]
  <2>1. history \in Seq(Items) /\ Unique(history) /\ MadeOf(model, top, history, ctx, body)
        /\ model \in Models
    BY DEF Polite, Intact
  <2>2. PICK choice \in ChoicesOf(top, history), opts \in TriesOf(model) :
          MadeFor(model, top, history, ctx, body, choice, opts)
    BY <2>1 DEF MadeOf
  <2>3. body.messages = ConvertedOf(model, input, opts).messages /\ body.omit = opts.omit
    BY <2>2, MadeFields
  <2>4. model.images \in BOOLEAN
    BY <2>1, ConversationAssumption
  <2>5. input \in Seq(Items) /\ \E g : Follow(g, input, history)
    BY <2>1, AppliedFollows
  <2>6. PICK g : Follow(g, input, history)
    BY <2>5
  <2>7. history # <<>> /\ last.kind \in {"user", "result"}
    BY DEF Asked
  <2>8. HistoryOf(input, PairedToolCallIDs(history)) = HistoryOf(history, PairedToolCallIDs(history))
    BY <2>1, AppliedHistory
  <2>9. last \in ToSet(input)
    <3>1. Len(history) \in DOMAIN history
      BY <2>1, <2>7
    <3> DEFINE n == Len(history)
    <3>2. n \in DOMAIN history /\ history[n].kind \in {"user", "result"}
      BY <3>1, <2>7
    <3> HIDE DEF n
    <3>3. history[n] \in ToSet(applyCodexToolContext(ctx, history))
      BY <3>2, <2>1, AppliedItems
    <3> QED BY <3>3 DEF n
  <2> HIDE DEF input
  <2>10. Unique(input)
    BY <2>1, <2>5, <2>6, FollowKeepsTurns
  <2>11. /\ PairedToolCallIDs(input) = PairedToolCallIDs(history)
         /\ input # <<>> /\ input[Len(input)] = last
    BY <2>1, <2>5, <2>6, <2>7, <2>9, <2>10, FollowEnds
  <2>12. HistoryOf(input, PairedToolCallIDs(input)) = History
    BY <2>1, <2>8, <2>11, HistoryIs
  <2>13. ~TextBeforeResult => Spaced(input)
    BY <2>1, <2>5, <2>6, HistorySpaced, FollowSpaced
  <2>14. Alike(Request, History) /\ (Ordered => RestOf(Request) = RestOf(History))
    BY <2>1, <2>2, <2>3, <2>4, <2>5, <2>10, <2>12, <2>13, ShowsTheSame
  <2>15. PicturesFit
    BY <2>1, <2>2, <2>3, <2>4, <2>5, <2>7, <2>10, <2>11, ShowsPictures
  <2> QED BY <2>14, <2>15 DEF FaithfulTranscript, Alike, RestOf, Only
<1> QED BY <1>1, StaysPolite, StaysAsked, PTL
=============================================================================
