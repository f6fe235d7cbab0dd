----------------------------- MODULE Induction -----------------------------
(***************************************************************************)
(* Induction over the natural numbers in a form that takes a set instead   *)
(* of a predicate: what fails somewhere fails somewhere first.  And, by    *)
(* such an induction, what FlattenSeq computes for every sequence.         *)
(***************************************************************************)
EXTENDS SequencesExt, SequenceTheorems, WellFoundedInduction, TLAPS

\* Every set of numbers that is not empty has a least one.
LEMMA LeastNumber ==
  ASSUME NEW T, T \subseteq Nat, T # {}
  PROVE  \E n \in T : \A m \in T : n <= m
<1> DEFINE R == {ss \in Nat \X Nat : ss[1] < ss[2]}
<1>1. IsWellFoundedOn(R, Nat)
  BY NatLessThanWellFounded DEF OpToRel
<1>2. \A p, q \in Nat : p < q => <<p, q>> \in R
  OBVIOUS
<1> HIDE DEF R
<1>3. PICK n \in T : \A m \in T : ~(<<m, n>> \in R)
  BY <1>1, WFMin
<1>4. \A m \in T : ~(m < n)
  BY <1>2, <1>3
<1> QED BY <1>3, <1>4

\* A set of numbers that has 0, and n + 1 whenever it has n, has them all.
LEMMA AllNumbers ==
  ASSUME NEW S, 0 \in S, \A n \in Nat : n \in S => n + 1 \in S
  PROVE  Nat \subseteq S
<1> SUFFICES ASSUME Nat \ S # {} PROVE FALSE
  OBVIOUS
<1>1. PICK n \in Nat \ S : \A m \in Nat \ S : n <= m
  BY LeastNumber
<1>2. n # 0 /\ n - 1 \in Nat /\ n - 1 \notin Nat \ S
  BY <1>1
<1>3. n - 1 + 1 \in S
  BY <1>2
<1> QED BY <1>1, <1>3

-----------------------------------------------------------------------------
(* FlattenSeq.                                                             *)

\* g[i] joins the first i of the sequences in seqs, for i up to n.
Joins(g, seqs, n) ==
  g = [i \in 1..n |-> IF i = 1 THEN seqs[i] ELSE g[i - 1] \o seqs[i]]

LEMMA JoinsStep ==
  ASSUME NEW n \in Nat, NEW seqs, NEW g, Joins(g, seqs, n), NEW i \in 1..n
  PROVE  g[i] = IF i = 1 THEN seqs[i] ELSE g[i - 1] \o seqs[i]
BY DEF Joins

LEMMA JoinsExists ==
  ASSUME NEW seqs, NEW n \in Nat
  PROVE  \E g : Joins(g, seqs, n)
<1> DEFINE S == {k \in Nat : \E g : Joins(g, seqs, k)}
<1>1. 0 \in S
  <2>1. Joins([i \in 1..0 |-> 0], seqs, 0)
    BY DEF Joins
  <2> QED BY <2>1
<1>2. ASSUME NEW k \in Nat, k \in S PROVE k + 1 \in S
  <2>1. PICK g : Joins(g, seqs, k)
    BY <1>2
  <2> DEFINE last == IF k = 0 THEN seqs[1] ELSE g[k] \o seqs[k + 1]
             h == [i \in 1..(k + 1) |-> IF i = k + 1 THEN last ELSE g[i]]
  <2>2. \A i \in 1..k : g[i] = IF i = 1 THEN seqs[i] ELSE g[i - 1] \o seqs[i]
    BY <2>1, JoinsStep
  <2>3. \A i \in 1..k : h[i] = g[i]
    OBVIOUS
  <2>4. h[k + 1] = last
    OBVIOUS
  <2>5. h = [i \in 1..(k + 1) |-> h[i]]
    OBVIOUS
  <2> HIDE DEF h
  <2>6. ASSUME NEW i \in 1..(k + 1)
        PROVE  h[i] = IF i = 1 THEN seqs[i] ELSE h[i - 1] \o seqs[i]
    <3>1. CASE i = k + 1 /\ k = 0
      BY <3>1, <2>4
    <3>2. CASE i = k + 1 /\ k # 0
      <4>1. i - 1 = k /\ i # 1 /\ k \in 1..k
        BY <3>2
      <4>2. h[i - 1] = g[k] /\ h[i] = g[k] \o seqs[i]
        BY <3>2, <4>1, <2>3, <2>4
      <4> QED BY <4>1, <4>2
    <3>3. CASE i \in 1..k
      <4>1. i # 1 => i - 1 \in 1..k
        BY <3>3
      <4>2. h[i] = g[i] /\ (i # 1 => h[i - 1] = g[i - 1])
        BY <3>3, <4>1, <2>3
      <4> QED BY <3>3, <4>2, <2>2
    <3> QED BY <3>1, <3>2, <3>3
  <2>7. Joins(h, seqs, k + 1)
    BY <2>5, <2>6 DEF Joins
  <2> QED BY <2>7
<1> HIDE DEF S
<1>3. n \in S
  BY <1>1, <1>2, AllNumbers
<1> QED BY <1>3 DEF S

\* Two lists that begin with the same n sequences are joined alike so far.
LEMMA JoinsUnique ==
  ASSUME NEW a, NEW b, NEW m \in Nat, NEW n \in Nat, NEW g, NEW h,
         Joins(g, a, m), Joins(h, b, n), NEW k \in Nat, k <= m, k <= n,
         \A i \in 1..k : a[i] = b[i], k > 0
  PROVE  g[k] = h[k]
<1> DEFINE S == {j \in Nat : j \in 1..k => g[j] = h[j]}
<1>1. 0 \in S
  OBVIOUS
<1>2. ASSUME NEW j \in Nat, j \in S PROVE j + 1 \in S
  <2> SUFFICES ASSUME j + 1 \in 1..k PROVE g[j + 1] = h[j + 1]
    OBVIOUS
  <2>1. j + 1 \in 1..m /\ j + 1 \in 1..n /\ a[j + 1] = b[j + 1]
    OBVIOUS
  <2>2. /\ g[j + 1] = IF j + 1 = 1 THEN a[j + 1] ELSE g[j + 1 - 1] \o a[j + 1]
        /\ h[j + 1] = IF j + 1 = 1 THEN b[j + 1] ELSE h[j + 1 - 1] \o b[j + 1]
    BY <2>1, JoinsStep
  <2>3. j + 1 - 1 = j /\ (j + 1 # 1 => g[j] = h[j])
    BY <1>2
  <2> QED BY <2>1, <2>2, <2>3
<1> HIDE DEF S
<1>3. k \in S
  BY <1>1, <1>2, AllNumbers
<1> QED BY <1>3 DEF S

LEMMA JoinsIsSeq ==
  ASSUME NEW S, NEW seqs \in Seq(Seq(S)), NEW n \in Nat, n <= Len(seqs), n > 0,
         NEW g, Joins(g, seqs, n)
  PROVE  g[n] \in Seq(S)
<1> DEFINE K == {j \in Nat : j \in 1..n => g[j] \in Seq(S)}
<1>1. 0 \in K
  OBVIOUS
<1>2. ASSUME NEW j \in Nat, j \in K PROVE j + 1 \in K
  <2> SUFFICES ASSUME j + 1 \in 1..n PROVE g[j + 1] \in Seq(S)
    OBVIOUS
  <2>1. j + 1 \in 1..Len(seqs)
    BY LenProperties
  <2>2. seqs[j + 1] \in Seq(S)
    BY <2>1, ElementOfSeq
  <2>3. g[j + 1] = IF j + 1 = 1 THEN seqs[j + 1] ELSE g[j + 1 - 1] \o seqs[j + 1]
    BY JoinsStep
  <2>4. CASE j = 0
    BY <2>2, <2>3, <2>4
  <2>5. CASE j # 0
    <3>1. j + 1 - 1 = j /\ j + 1 # 1 /\ j \in 1..n
      BY <2>5
    <3>2. g[j] \in Seq(S) /\ g[j + 1] = g[j] \o seqs[j + 1]
      BY <1>2, <2>3, <3>1
    <3> QED BY <2>2, <3>2, ConcatProperties
  <2> QED BY <2>4, <2>5
<1> HIDE DEF K
<1>3. n \in K
  BY <1>1, <1>2, AllNumbers
<1> QED BY <1>3 DEF K

LEMMA FlattenJoins ==
  ASSUME NEW T, NEW seqs \in Seq(T), seqs # <<>>
  PROVE  \E g : Joins(g, seqs, Len(seqs)) /\ FlattenSeq(seqs) = g[Len(seqs)]
<1> DEFINE g == CHOOSE g : Joins(g, seqs, Len(seqs))
<1>1. Len(seqs) \in Nat /\ Len(seqs) # 0
  BY EmptySeq, LenProperties
<1>2. Joins(g, seqs, Len(seqs))
  BY <1>1, JoinsExists
<1>3. FlattenSeq(seqs) = g[Len(seqs)]
  BY <1>1 DEF FlattenSeq, Joins
<1> QED BY <1>2, <1>3

LEMMA FlattenEmpty == FlattenSeq(<<>>) = <<>>
BY DEF FlattenSeq

LEMMA FlattenIsSeq ==
  ASSUME NEW S, NEW seqs \in Seq(Seq(S))
  PROVE  FlattenSeq(seqs) \in Seq(S)
<1>1. CASE seqs = <<>>
  BY <1>1, FlattenEmpty, EmptySeq
<1>2. CASE seqs # <<>>
  <2>1. PICK g : Joins(g, seqs, Len(seqs)) /\ FlattenSeq(seqs) = g[Len(seqs)]
    BY <1>2, FlattenJoins
  <2>2. Len(seqs) \in Nat /\ Len(seqs) > 0
    BY <1>2, EmptySeq, LenProperties
  <2> QED BY <2>1, <2>2, JoinsIsSeq
<1> QED BY <1>1, <1>2

LEMMA FlattenAppend ==
  ASSUME NEW S, NEW seqs \in Seq(Seq(S)), NEW s \in Seq(S)
  PROVE  FlattenSeq(Append(seqs, s)) = FlattenSeq(seqs) \o s
<1> DEFINE n == Len(seqs)
<1>1. PICK more : more = Append(seqs, s)
  OBVIOUS
<1>2. n \in Nat
  BY LenProperties
<1>3. /\ more \in Seq(Seq(S)) /\ Len(more) = n + 1 /\ more[n + 1] = s
      /\ \A i \in 1..n : more[i] = seqs[i]
  BY <1>1, AppendProperties
<1>4. more # <<>>
  BY <1>2, <1>3, EmptySeq
<1>5. PICK h : Joins(h, more, n + 1) /\ FlattenSeq(more) = h[n + 1]
  BY <1>3, <1>4, FlattenJoins
<1>6. h[n + 1] = IF n + 1 = 1 THEN s ELSE h[n + 1 - 1] \o s
  BY <1>2, <1>3, <1>5, JoinsStep
<1>7. CASE seqs = <<>>
  <2>1. n = 0 /\ FlattenSeq(seqs) = <<>>
    BY <1>7, FlattenEmpty, EmptySeq
  <2>2. FlattenSeq(more) = s
    BY <1>5, <1>6, <2>1
  <2>3. <<>> \o s = s
    BY ConcatEmptySeq
  <2> QED BY <1>1, <2>1, <2>2, <2>3
<1>8. CASE seqs # <<>>
  <2>1. n > 0
    BY <1>2, <1>8, EmptySeq
  <2>2. PICK g : Joins(g, seqs, n) /\ FlattenSeq(seqs) = g[n]
    BY <1>8, FlattenJoins
  <2>3. g[n] = h[n]
    <3>1. n + 1 \in Nat /\ n <= n /\ n <= n + 1
      BY <1>2
    <3>2. \A i \in 1..n : seqs[i] = more[i]
      BY <1>3
    <3> HIDE DEF n
    <3> QED BY <1>2, <1>5, <2>1, <2>2, <3>1, <3>2, JoinsUnique
  <2>4. FlattenSeq(more) = h[n] \o s
    BY <1>2, <1>5, <1>6, <2>1
  <2> QED BY <1>1, <2>2, <2>3, <2>4
<1> QED BY <1>7, <1>8

-----------------------------------------------------------------------------
(* A sequence whose elements are replaced by sequences, and these joined.  *)

\* f gives a sequence over S for each element of C.
Replaces(f, C, S) == f \in [C -> Seq(S)]

ImageList(f, s) == [i \in DOMAIN s |-> f[s[i]]]

Images(f, s) == FlattenSeq(ImageList(f, s))

LEMMA ImageSeq ==
  ASSUME NEW C, NEW S, NEW f, Replaces(f, C, S), NEW s \in Seq(C)
  PROVE  /\ ImageList(f, s) \in Seq(Seq(S)) /\ Len(ImageList(f, s)) = Len(s)
         /\ \A i \in 1..Len(s) : ImageList(f, s)[i] = f[s[i]]
<1>1. Len(s) \in Nat /\ DOMAIN s = 1..Len(s) /\ \A i \in 1..Len(s) : s[i] \in C
  BY LenProperties, ElementOfSeq
<1>2. \A i \in 1..Len(s) : f[s[i]] \in Seq(S)
  BY <1>1 DEF Replaces
<1> QED BY <1>1, <1>2 DEF ImageList

LEMMA ImagesEmpty == ASSUME NEW f PROVE Images(f, <<>>) = <<>>
<1>1. ImageList(f, <<>>) = <<>>
  BY DEF ImageList
<1> QED BY <1>1, FlattenEmpty DEF Images

LEMMA ImagesIsSeq ==
  ASSUME NEW C, NEW S, NEW f, Replaces(f, C, S), NEW s \in Seq(C)
  PROVE  Images(f, s) \in Seq(S)
BY ImageSeq, FlattenIsSeq DEF Images

LEMMA ImagesAppend ==
  ASSUME NEW C, NEW S, NEW f, Replaces(f, C, S), NEW s \in Seq(C), NEW c \in C
  PROVE  Images(f, Append(s, c)) = Images(f, s) \o f[c]
<1>1. PICK t : t = Append(s, c)
  OBVIOUS
<1>2. /\ t \in Seq(C) /\ Len(t) = Len(s) + 1 /\ t[Len(s) + 1] = c
      /\ \A i \in 1..Len(s) : t[i] = s[i]
  BY <1>1, AppendProperties
<1>3. PICK a : a = ImageList(f, s)
  OBVIOUS
<1>4. PICK b : b = ImageList(f, t)
  OBVIOUS
<1>5. /\ a \in Seq(Seq(S)) /\ Len(a) = Len(s)
      /\ \A i \in 1..Len(s) : a[i] = f[s[i]]
  <2>1. /\ ImageList(f, s) \in Seq(Seq(S)) /\ Len(ImageList(f, s)) = Len(s)
        /\ \A i \in 1..Len(s) : ImageList(f, s)[i] = f[s[i]]
    BY ImageSeq
  <2> QED BY <1>3, <2>1
<1>6. /\ b \in Seq(Seq(S)) /\ Len(b) = Len(s) + 1 /\ Len(s) \in Nat
      /\ \A i \in 1..(Len(s) + 1) : b[i] = f[t[i]]
  <2>1. t \in Seq(C)
    BY <1>2
  <2>2. /\ ImageList(f, t) \in Seq(Seq(S)) /\ Len(ImageList(f, t)) = Len(t)
        /\ \A i \in 1..Len(t) : ImageList(f, t)[i] = f[t[i]]
    BY <2>1, ImageSeq
  <2>3. Len(s) \in Nat
    BY LenProperties
  <2> QED BY <1>2, <1>4, <2>2, <2>3
<1>7. ASSUME NEW i \in 1..Len(s) PROVE b[i] = a[i]
  <2>1. i \in 1..(Len(s) + 1)
    BY <1>6
  <2>2. b[i] = f[t[i]] /\ t[i] = s[i] /\ a[i] = f[s[i]]
    BY <1>2, <1>5, <1>6, <2>1
  <2> QED BY <2>2
<1>8. b[Len(s) + 1] = f[c] /\ f[c] \in Seq(S)
  BY <1>2, <1>6 DEF Replaces
<1>9. b = Append(a, f[c])
  <2>1. PICK d : d = Append(a, f[c])
    OBVIOUS
  <2>2. /\ d \in Seq(Seq(S)) /\ Len(d) = Len(s) + 1 /\ d[Len(s) + 1] = f[c]
        /\ \A i \in 1..Len(s) : d[i] = a[i]
    BY <2>1, <1>5, <1>8, AppendProperties
  <2>3. \A i \in 1..(Len(s) + 1) : i \in 1..Len(s) \/ i = Len(s) + 1
    BY <1>6
  <2>4. ASSUME NEW i \in 1..Len(b) PROVE b[i] = d[i]
    BY <1>6, <1>7, <1>8, <2>2, <2>3
  <2> QED BY <1>6, <2>1, <2>2, <2>4, SeqEqual
<1>10. FlattenSeq(b) = FlattenSeq(a) \o f[c]
  BY <1>5, <1>8, <1>9, FlattenAppend
<1> QED BY <1>1, <1>3, <1>4, <1>10 DEF Images

LEMMA ImagesOne ==
  ASSUME NEW C, NEW S, NEW f, Replaces(f, C, S), NEW c \in C
  PROVE  Images(f, <<c>>) = f[c]
<1>1. <<>> \in Seq(C) /\ Append(<<>>, c) = <<c>> /\ f[c] \in Seq(S)
  BY EmptySeq DEF Replaces
<1>2. Images(f, <<c>>) = Images(f, <<>>) \o f[c]
  BY <1>1, ImagesAppend
<1> QED BY <1>1, <1>2, ImagesEmpty, ConcatEmptySeq

LEMMA ImagesConcat ==
  ASSUME NEW C, NEW S, NEW f, Replaces(f, C, S), NEW s \in Seq(C),
         NEW t \in Seq(C)
  PROVE  Images(f, s \o t) = Images(f, s) \o Images(f, t)
<1> DEFINE K == {n \in Nat : \A u \in Seq(C) :
                   Len(u) = n => Images(f, s \o u) = Images(f, s) \o Images(f, u)}
<1>0. Images(f, s) \in Seq(S)
  BY ImagesIsSeq
<1>1. 0 \in K
  <2>1. ASSUME NEW u \in Seq(C), Len(u) = 0
        PROVE  Images(f, s \o u) = Images(f, s) \o Images(f, u)
    <3>1. u = <<>> /\ s \o u = s
      BY <2>1, EmptySeq, ConcatEmptySeq
    <3> QED BY <1>0, <3>1, ImagesEmpty, ConcatEmptySeq
  <2> QED BY <2>1
<1>2. ASSUME NEW n \in Nat, n \in K PROVE n + 1 \in K
  <2>1. ASSUME NEW u \in Seq(C), Len(u) = n + 1
        PROVE  Images(f, s \o u) = Images(f, s) \o Images(f, u)
    <3>1. PICK v : v = SubSeq(u, 1, n)
      OBVIOUS
    <3>2. PICK c : c = u[n + 1]
      OBVIOUS
    <3>3. \A i \in 1..n : u[i] \in C
      BY <2>1, ElementOfSeq
    <3>4. /\ v \in Seq(C) /\ Len(v) = n /\ \A i \in 1..n : v[i] = u[i]
          /\ c \in C
      BY <2>1, <3>1, <3>2, <3>3, ElementOfSeq, SubSeqProperties
    <3>5. u = Append(v, c)
      <4>1. PICK w : w = Append(v, c)
        OBVIOUS
      <4>2. /\ w \in Seq(C) /\ Len(w) = n + 1 /\ w[n + 1] = c
            /\ \A i \in 1..n : w[i] = v[i]
        BY <4>1, <3>4, AppendProperties
      <4>3. \A i \in 1..Len(u) : i \in 1..n \/ i = n + 1
        BY <2>1
      <4>4. \A i \in 1..Len(u) : u[i] = w[i]
        BY <3>2, <3>4, <4>2, <4>3
      <4> QED BY <2>1, <4>1, <4>2, <4>4, SeqEqual
    <3>6. Images(f, s \o v) = Images(f, s) \o Images(f, v)
      BY <1>2, <3>4
    <3>7. Images(f, u) = Images(f, v) \o f[c]
      BY <3>4, <3>5, ImagesAppend
    <3>8. s \o u = Append(s \o v, c) /\ s \o v \in Seq(C)
      BY <3>4, <3>5, ConcatProperties
    <3>9. Images(f, s \o u) = Images(f, s \o v) \o f[c]
      <4>1. PICK x : x = s \o v
        OBVIOUS
      <4>2. x \in Seq(C) /\ c \in C
        BY <3>4, <3>8, <4>1
      <4>3. Images(f, Append(x, c)) = Images(f, x) \o f[c]
        BY <4>2, ImagesAppend
      <4> QED BY <3>8, <4>1, <4>3
    <3>10. Images(f, v) \in Seq(S) /\ f[c] \in Seq(S)
      <4>1. f[c] \in Seq(S)
        BY <3>4 DEF Replaces
      <4> QED BY <3>4, <4>1, ImagesIsSeq
    <3>11. \A p, q, r \in Seq(S) : (p \o q) \o r = p \o (q \o r)
      BY ConcatAssociative
    <3>12. Images(f, s \o u) = Images(f, s) \o (Images(f, v) \o f[c])
      <4>1. (Images(f, s) \o Images(f, v)) \o f[c]
              = Images(f, s) \o (Images(f, v) \o f[c])
        BY <1>0, <3>10, <3>11
      <4> QED BY <3>6, <3>9, <4>1
    <3> QED BY <3>7, <3>12
  <2> QED BY <2>1
<1> HIDE DEF K
<1>3. Len(t) \in K
  BY <1>1, <1>2, AllNumbers, LenProperties
<1> QED BY <1>3 DEF K
=============================================================================
