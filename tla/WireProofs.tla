----------------------------- MODULE WireProofs -----------------------------
(***************************************************************************)
(* Lemmas about the bytes of Wire, for the proofs of the two message       *)
(* readers.  What a reader has not yet read of a connection is a string of *)
(* bytes that runs through the frames of `sizes`, the sizes of the         *)
(* messages sent, without a gap and up to the last one.  The lemmas say    *)
(* what such a string begins with when a reader has taken a header, a      *)
(* piece of a payload or a whole frame off its front.                      *)
(*                                                                         *)
(* "Without a gap" relates any two bytes of a frame by their distance, and *)
(* not only neighbours: that bytes far apart belong together would follow  *)
(* from the neighbours by an induction.                                    *)
(***************************************************************************)
EXTENDS Wire, SequenceTheorems, TLAPS

\* The place of the last byte of a message.
EndOf(i, sizes) == HeaderSize + sizes[i]

\* b was sent before c.
Before(b, c) == b[1] < c[1] \/ (b[1] = c[1] /\ b[2] < c[2])

\* b is byte p of message i.
At(b, i, p) == b[1] = i /\ b[2] = p

InFrame(b, sizes) ==
  b[1] \in 1..Len(sizes) /\ b[2] \in 1..EndOf(b[1], sizes)

InFrames(s, sizes) == \A k \in 1..Len(s) : InFrame(s[k], sizes)

Ordered(s) == \A j, k \in 1..Len(s) : j < k => Before(s[j], s[k])

\* Byte c stands d places behind byte b: they are as far apart in the frame,
\* and behind a frame comes the next one.
Distance(b, c, d, sizes) ==
  /\ b[2] + d <= EndOf(b[1], sizes) => At(c, b[1], b[2] + d)
  /\ d = 1 /\ b[2] = EndOf(b[1], sizes) => At(c, b[1] + 1, 1)

Contiguous(s, sizes) ==
  \A j, k \in 1..Len(s) : j < k => Distance(s[j], s[k], k - j, sizes)

\* The string ends where the last message ends.
UpToDate(s, sizes) ==
  s # <<>> => At(s[Len(s)], Len(sizes), EndOf(Len(sizes), sizes))

\* The next byte of the string: the first one, or the first one that will be
\* sent.
NextIs(s, sizes, i, p) ==
  IF s = <<>> THEN i = Len(sizes) + 1 /\ p = 1 ELSE At(s[1], i, p)

\* All that is left to read of a connection.
Stream(s, sizes) ==
  InFrames(s, sizes) /\ Contiguous(s, sizes) /\ UpToDate(s, sizes)

-----------------------------------------------------------------------------
(* Byte strings                                                            *)

LEMMA FunctionIsSeq ==
  ASSUME NEW S, NEW n \in Nat, NEW f \in [1..n -> S]
  PROVE  f \in Seq(S) /\ Len(f) = n
BY SeqDef

LEMMA FrameIsBytes ==
  ASSUME NEW i \in Nat, NEW size \in Nat
  PROVE  /\ Frame(i, size) \in Seq(Byte)
         /\ Len(Frame(i, size)) = HeaderSize + size
         /\ \A k \in 1..(HeaderSize + size) : Frame(i, size)[k] = <<i, k>>
<1>1. HeaderSize + size \in Nat
  BY DEF HeaderSize
<1>2. Frame(i, size) \in [1..(HeaderSize + size) -> Byte]
  BY <1>1 DEF Frame, Byte
<1> QED BY <1>1, <1>2, FunctionIsSeq DEF Frame

LEMMA PrefixIsSeq ==
  ASSUME NEW S, NEW s \in Seq(S), NEW n \in 0..Len(s)
  PROVE  /\ Prefix(s, n) \in Seq(S) /\ Len(Prefix(s, n)) = n
         /\ \A k \in 1..n : Prefix(s, n)[k] = s[k]
<1>1. \A i \in 1..n : s[i] \in S
  OBVIOUS
<1>2. Len(s) \in Nat /\ n \in Int /\ 1 \in Int
  OBVIOUS
<1>3. /\ SubSeq(s, 1, n) \in Seq(S)
      /\ Len(SubSeq(s, 1, n)) = IF 1 <= n THEN n - 1 + 1 ELSE 0
      /\ \A i \in 1..(n - 1 + 1) : SubSeq(s, 1, n)[i] = s[1 + i - 1]
  BY <1>1, <1>2, SubSeqProperties
<1> QED BY <1>2, <1>3 DEF Prefix

LEMMA SuffixIsSeq ==
  ASSUME NEW S, NEW s \in Seq(S), NEW n \in 0..Len(s)
  PROVE  /\ Suffix(s, n) \in Seq(S) /\ Len(Suffix(s, n)) = Len(s) - n
         /\ \A k \in 1..(Len(s) - n) : Suffix(s, n)[k] = s[n + k]
<1>1. Len(s) \in Nat /\ n + 1 \in Int
  OBVIOUS
<1>2. \A i \in (n + 1)..Len(s) : s[i] \in S
  BY <1>1
<1>3. /\ SubSeq(s, n + 1, Len(s)) \in Seq(S)
      /\ Len(SubSeq(s, n + 1, Len(s)))
           = IF n + 1 <= Len(s) THEN Len(s) - (n + 1) + 1 ELSE 0
      /\ \A i \in 1..(Len(s) - (n + 1) + 1) :
           SubSeq(s, n + 1, Len(s))[i] = s[n + 1 + i - 1]
  BY <1>1, <1>2, SubSeqProperties
<1> QED BY <1>1, <1>3 DEF Suffix

\* What arrives goes from the second string to the first.
LEMMA MovedBetween ==
  ASSUME NEW S, NEW a \in Seq(S), NEW w \in Seq(S), NEW n \in 0..Len(w)
  PROVE  (a \o Prefix(w, n)) \o Suffix(w, n) = a \o w
<1> DEFINE p == Prefix(w, n)
           q == Suffix(w, n)
<1>1. /\ p \in Seq(S) /\ Len(p) = n /\ \A k \in 1..n : p[k] = w[k]
      /\ q \in Seq(S) /\ Len(q) = Len(w) - n
      /\ \A k \in 1..(Len(w) - n) : q[k] = w[n + k]
  BY PrefixIsSeq, SuffixIsSeq
<1> HIDE DEF p, q
<1>2. /\ a \o p \in Seq(S) /\ Len(a \o p) = Len(a) + Len(p)
      /\ \A i \in 1..(Len(a) + Len(p)) :
           (a \o p)[i] = IF i <= Len(a) THEN a[i] ELSE p[i - Len(a)]
  BY <1>1, ConcatProperties
<1> DEFINE ap == a \o p
<1> HIDE DEF ap
<1>3. ap \in Seq(S) /\ Len(ap) = Len(a) + Len(p)
      /\ \A i \in 1..(Len(a) + Len(p)) :
           ap[i] = IF i <= Len(a) THEN a[i] ELSE p[i - Len(a)]
  BY <1>2 DEF ap
<1>4. /\ ap \o q \in Seq(S) /\ Len(ap \o q) = Len(ap) + Len(q)
      /\ \A i \in 1..(Len(ap) + Len(q)) :
           (ap \o q)[i] = IF i <= Len(ap) THEN ap[i] ELSE q[i - Len(ap)]
  <2>1. ap \in Seq(S) /\ q \in Seq(S)
    BY <1>1, <1>3
  <2> QED BY <2>1, ConcatProperties
<1>5. /\ a \o w \in Seq(S) /\ Len(a \o w) = Len(a) + Len(w)
      /\ \A i \in 1..(Len(a) + Len(w)) :
           (a \o w)[i] = IF i <= Len(a) THEN a[i] ELSE w[i - Len(a)]
  BY ConcatProperties
<1>6. Len(a) \in Nat /\ Len(w) \in Nat
  OBVIOUS
<1>7. Len(ap \o q) = Len(a \o w)
  BY <1>1, <1>3, <1>4, <1>5, <1>6
<1>8. ASSUME NEW i \in 1..Len(a \o w)
      PROVE  (ap \o q)[i] = (a \o w)[i]
  <2>1. CASE i <= Len(a)
    BY <1>1, <1>3, <1>4, <1>5, <1>6, <1>7, <1>8, <2>1
  <2>2. CASE i > Len(a) /\ i <= Len(a) + n
    <3>1. (ap \o q)[i] = p[i - Len(a)] /\ i - Len(a) \in 1..n
      BY <1>1, <1>3, <1>4, <1>5, <1>6, <1>7, <1>8, <2>2
    <3>2. (a \o w)[i] = w[i - Len(a)]
      BY <1>5, <1>6, <1>8, <2>2
    <3> QED BY <1>1, <3>1, <3>2
  <2>3. CASE i > Len(a) + n
    <3>1. (ap \o q)[i] = q[i - (Len(a) + n)] /\ i - (Len(a) + n) \in 1..(Len(w) - n)
      BY <1>1, <1>3, <1>4, <1>5, <1>6, <1>7, <1>8, <2>3
    <3>2. (a \o w)[i] = w[i - Len(a)] /\ n + (i - (Len(a) + n)) = i - Len(a)
      BY <1>5, <1>6, <1>8, <2>3
    <3> QED BY <1>1, <3>1, <3>2
  <2>4. i <= Len(a) \/ (i > Len(a) /\ i <= Len(a) + n) \/ i > Len(a) + n
    BY <1>5, <1>6
  <2> QED BY <2>1, <2>2, <2>3, <2>4
<1>9. ap \o q = a \o w
  BY <1>4, <1>5, <1>7, <1>8, SeqEqual
<1> QED BY <1>9 DEF ap, p, q

\* What is taken from the first string is taken from the front of both.
LEMMA TakenFromFront ==
  ASSUME NEW S, NEW a \in Seq(S), NEW w \in Seq(S), NEW n \in 0..Len(a)
  PROVE  /\ Suffix(a, n) \o w = Suffix(a \o w, n)
         /\ Prefix(a, n) = Prefix(a \o w, n)
         /\ \A k \in 1..Len(a) : a[k] = (a \o w)[k]
         /\ n \in 0..Len(a \o w)
<1> DEFINE q == Suffix(a, n)
           s == a \o w
           r == Suffix(s, n)
           p == Prefix(a, n)
           t == Prefix(s, n)
<1>1. /\ s \in Seq(S) /\ Len(s) = Len(a) + Len(w)
      /\ \A i \in 1..(Len(a) + Len(w)) :
           s[i] = IF i <= Len(a) THEN a[i] ELSE w[i - Len(a)]
  BY ConcatProperties
<1>2. Len(a) \in Nat /\ Len(w) \in Nat /\ n \in Nat
  OBVIOUS
<1> HIDE DEF s
<1>3. n \in 0..Len(s)
  BY <1>1, <1>2
<1>4. /\ q \in Seq(S) /\ Len(q) = Len(a) - n
      /\ \A k \in 1..(Len(a) - n) : q[k] = a[n + k]
  BY SuffixIsSeq
<1>5. /\ r \in Seq(S) /\ Len(r) = Len(s) - n
      /\ \A k \in 1..(Len(s) - n) : r[k] = s[n + k]
  BY <1>1, <1>3, SuffixIsSeq
<1>6. /\ p \in Seq(S) /\ Len(p) = n /\ \A k \in 1..n : p[k] = a[k]
      /\ t \in Seq(S) /\ Len(t) = n /\ \A k \in 1..n : t[k] = s[k]
  BY <1>1, <1>3, PrefixIsSeq
<1> HIDE DEF q, r, p, t
<1>7. /\ q \o w \in Seq(S) /\ Len(q \o w) = Len(q) + Len(w)
      /\ \A i \in 1..(Len(q) + Len(w)) :
           (q \o w)[i] = IF i <= Len(q) THEN q[i] ELSE w[i - Len(q)]
  BY <1>4, ConcatProperties
<1>8. \A k \in 1..Len(a) : a[k] = s[k]
  BY <1>1, <1>2
<1>9. p = t
  <2>1. \A k \in 1..n : p[k] = t[k]
    BY <1>2, <1>6, <1>8
  <2> QED BY <1>6, <2>1, SeqEqual
<1>10. q \o w = r
  <2>1. Len(q \o w) = Len(r)
    BY <1>1, <1>2, <1>4, <1>5, <1>7
  <2>2. ASSUME NEW i \in 1..Len(r) PROVE (q \o w)[i] = r[i]
    <3>1. r[i] = s[n + i] /\ n + i \in 1..Len(s)
      BY <1>1, <1>2, <1>5, <2>2
    <3>2. CASE i <= Len(a) - n
      BY <1>1, <1>2, <1>4, <1>5, <1>7, <2>1, <2>2, <3>1, <3>2
    <3>3. CASE i > Len(a) - n
      <4>1. (q \o w)[i] = w[i - (Len(a) - n)]
        BY <1>1, <1>2, <1>4, <1>5, <1>7, <2>1, <2>2, <3>3
      <4>2. s[n + i] = w[(n + i) - Len(a)]
        BY <1>1, <1>2, <1>5, <2>2, <3>1, <3>3
      <4>3. (n + i) - Len(a) = i - (Len(a) - n)
        BY <1>2, <1>5, <2>2
      <4> QED BY <3>1, <4>1, <4>2, <4>3
    <3>4. i <= Len(a) - n \/ i > Len(a) - n
      BY <1>1, <1>2, <1>5
    <3> QED BY <3>2, <3>3, <3>4
  <2> QED BY <1>5, <1>7, <2>1, <2>2, SeqEqual
<1> QED BY <1>3, <1>8, <1>9, <1>10 DEF q, s, r, p, t

-----------------------------------------------------------------------------
(* A part of a string in order is in order, and what is left of a stream   *)
(* is a stream                                                             *)

LEMMA ByteIsPair ==
  ASSUME NEW s \in Seq(Byte), NEW k \in 1..Len(s)
  PROVE  s[k][1] \in Nat /\ s[k][2] \in Nat /\ s[k] = <<s[k][1], s[k][2]>>
<1>1. s[k] \in Byte
  OBVIOUS
<1> QED BY <1>1 DEF Byte

\* t is a part of s, that begins behind n bytes of it.
PartOf(t, s, n) ==
  \A k \in 1..Len(t) : n + k \in 1..Len(s) /\ t[k] = s[n + k]

LEMMA PartOrdered ==
  ASSUME NEW sizes, NEW s, NEW t \in Seq(Byte), NEW n \in Nat, PartOf(t, s, n)
  PROVE  /\ InFrames(s, sizes) => InFrames(t, sizes)
         /\ Ordered(s) => Ordered(t)
<1>1. InFrames(s, sizes) => InFrames(t, sizes)
  BY DEF InFrames, PartOf
<1>2. Ordered(s) => Ordered(t)
  <2> SUFFICES ASSUME Ordered(s), NEW j \in 1..Len(t), NEW k \in 1..Len(t), j < k
               PROVE  Before(t[j], t[k])
    BY DEF Ordered
  <2>1. n + j < n + k
    OBVIOUS
  <2> QED BY <2>1 DEF Ordered, PartOf
<1> QED BY <1>1, <1>2

LEMMA SuffixIsPart ==
  ASSUME NEW S, NEW s \in Seq(S), NEW n \in 0..Len(s)
  PROVE  PartOf(Suffix(s, n), s, n)
<1> DEFINE t == Suffix(s, n)
<1>1. /\ Len(t) = Len(s) - n
      /\ \A k \in 1..(Len(s) - n) : t[k] = s[n + k]
  BY SuffixIsSeq
<1>2. Len(s) \in Nat /\ n \in Nat
  OBVIOUS
<1> HIDE DEF t
<1>3. \A k \in 1..Len(t) : n + k \in 1..Len(s) /\ t[k] = s[n + k]
  BY <1>1, <1>2
<1> QED BY <1>3 DEF t, PartOf

LEMMA SuffixIsStream ==
  ASSUME NEW sizes \in Seq(Nat), NEW s \in Seq(Byte), NEW n \in 0..Len(s),
         Stream(s, sizes)
  PROVE  Stream(Suffix(s, n), sizes)
<1> DEFINE t == Suffix(s, n)
<1>1. /\ t \in Seq(Byte) /\ Len(t) = Len(s) - n
      /\ \A k \in 1..(Len(s) - n) : t[k] = s[n + k]
  BY SuffixIsSeq
<1>2. Len(s) \in Nat /\ n \in Nat
  OBVIOUS
<1>3. InFrames(t, sizes)
  BY <1>1, <1>2, SuffixIsPart, PartOrdered DEF Stream
<1> HIDE DEF t
<1>4. \A k \in 1..Len(t) : n + k \in 1..Len(s) /\ t[k] = s[n + k]
  BY <1>1, <1>2
<1>5. Contiguous(t, sizes)
  <2> SUFFICES ASSUME NEW j \in 1..Len(t), NEW k \in 1..Len(t), j < k
               PROVE  Distance(t[j], t[k], k - j, sizes)
    BY DEF Contiguous
  <2>1. (n + k) - (n + j) = k - j /\ n + j < n + k
    BY <1>1, <1>2
  <2>2. Distance(s[n + j], s[n + k], (n + k) - (n + j), sizes)
    BY <1>4, <2>1 DEF Stream, Contiguous
  <2> QED BY <1>4, <2>1, <2>2
<1>6. UpToDate(t, sizes)
  <2> SUFFICES ASSUME t # <<>> PROVE At(t[Len(t)], Len(sizes), EndOf(Len(sizes), sizes))
    BY DEF UpToDate
  <2>1. Len(t) \in 1..Len(t) /\ n + Len(t) = Len(s) /\ s # <<>>
    BY <1>1, <1>2
  <2> QED BY <1>4, <2>1 DEF Stream, UpToDate
<1> QED BY <1>3, <1>5, <1>6 DEF Stream, t

\* t is s with the frame of message m behind it, which is `size` bytes long.
Extends(t, s, m, size) ==
  /\ t \in Seq(Byte) /\ Len(t) = Len(s) + HeaderSize + size
  /\ \A k \in 1..Len(s) : t[k] = s[k]
  /\ \A k \in 1..(HeaderSize + size) : At(t[Len(s) + k], m, k)

LEMMA FrameExtends ==
  ASSUME NEW s \in Seq(Byte), NEW m \in Nat, NEW size \in Nat
  PROVE  Extends(s \o Frame(m, size), s, m, size)
<1> DEFINE f == Frame(m, size)
           t == s \o f
<1>1. /\ f \in Seq(Byte) /\ Len(f) = HeaderSize + size
      /\ \A k \in 1..(HeaderSize + size) : f[k] = <<m, k>>
  BY FrameIsBytes
<1> HIDE DEF f
<1>2. /\ t \in Seq(Byte) /\ Len(t) = Len(s) + Len(f)
      /\ \A i \in 1..(Len(s) + Len(f)) :
           t[i] = IF i <= Len(s) THEN s[i] ELSE f[i - Len(s)]
  BY <1>1, ConcatProperties
<1> HIDE DEF t
<1>3. Len(s) \in Nat /\ HeaderSize + size \in Nat
  BY DEF HeaderSize
<1>4. Len(t) = Len(s) + HeaderSize + size
  BY <1>1, <1>2, <1>3 DEF HeaderSize
<1>5. \A k \in 1..Len(s) : t[k] = s[k]
  BY <1>1, <1>2, <1>3
<1>6. ASSUME NEW k \in 1..(HeaderSize + size) PROVE At(t[Len(s) + k], m, k)
  <2>1. t[Len(s) + k] = f[k]
    BY <1>1, <1>2, <1>3
  <2>2. f[k] = <<m, k>>
    BY <1>1
  <2> QED BY <2>1, <2>2 DEF At
<1>7. Extends(t, s, m, size)
  BY <1>2, <1>4, <1>5, <1>6 DEF Extends
<1> QED BY <1>7 DEF t, f

\* What t has in the frame: byte k of it is byte k - Len(s) of message m.
LEMMA BehindFrame ==
  ASSUME NEW s \in Seq(Byte), NEW m, NEW size \in Nat, NEW t,
         Extends(t, s, m, size),
         NEW k \in 1..Len(t), k > Len(s)
  PROVE  k - Len(s) \in 1..(HeaderSize + size) /\ At(t[k], m, k - Len(s))
<1> DEFINE l == Len(s)
           h == k - l
<1>1. l \in Nat /\ Len(t) = l + HeaderSize + size
  BY DEF Extends
<1>2. h \in 1..(HeaderSize + size) /\ l + h = k
  BY <1>1 DEF HeaderSize
<1>3. At(t[l + h], m, h)
  BY <1>2 DEF Extends
<1> QED BY <1>2, <1>3

\* Another message is sent: its frame goes to the end of the string.
LEMMA FrameAppended ==
  ASSUME NEW sizes \in Seq(Nat), NEW size \in Nat, NEW s \in Seq(Byte),
         NEW m \in Nat, m = Len(sizes) + 1,
         NEW more \in Seq(Nat), Len(more) = m, more[m] = size,
         \A i \in 1..Len(sizes) : more[i] = sizes[i],
         NEW t, Extends(t, s, m, size), InFrames(s, sizes)
  PROVE  /\ InFrames(t, more)
         /\ Ordered(s) => Ordered(t)
         /\ Stream(s, sizes) => Stream(t, more)
         /\ \A i, p : NextIs(s, sizes, i, p) => NextIs(t, more, i, p)
<1>1. Len(sizes) \in Nat /\ Len(s) \in Nat
  OBVIOUS
<1>2. /\ t \in Seq(Byte) /\ Len(t) = Len(s) + HeaderSize + size /\ Len(t) \in Nat
      /\ EndOf(m, more) = HeaderSize + size /\ EndOf(m, more) \in Nat
  BY <1>1 DEF EndOf, HeaderSize, Extends
<1>3. \A k \in 1..Len(s) : k \in 1..Len(t) /\ t[k] = s[k]
  BY <1>1, <1>2 DEF HeaderSize, Extends
<1>4. \A k \in 1..Len(t) : k > Len(s) =>
        /\ k - Len(s) \in 1..EndOf(m, more)
        /\ t[k][1] = m /\ t[k][2] = k - Len(s)
  <2> SUFFICES ASSUME NEW k \in 1..Len(t), k > Len(s)
               PROVE  /\ k - Len(s) \in 1..EndOf(m, more)
                      /\ t[k][1] = m /\ t[k][2] = k - Len(s)
    OBVIOUS
  <2>1. k - Len(s) \in 1..(HeaderSize + size) /\ At(t[k], m, k - Len(s))
    BY BehindFrame
  <2> QED BY <1>2, <2>1 DEF At
<1>5. ASSUME NEW k \in 1..Len(s)
      PROVE  /\ s[k][1] \in 1..Len(sizes) /\ s[k][1] < m /\ s[k][1] \in Nat
             /\ s[k][2] \in Nat /\ s[k][2] \in 1..EndOf(s[k][1], sizes)
             /\ EndOf(s[k][1], more) = EndOf(s[k][1], sizes)
             /\ EndOf(s[k][1], sizes) \in Nat
  <2>1. s[k][1] \in 1..Len(sizes) /\ s[k][2] \in 1..EndOf(s[k][1], sizes)
    BY DEF InFrames, InFrame
  <2>2. sizes[s[k][1]] \in Nat /\ more[s[k][1]] = sizes[s[k][1]]
    <3>1. \A i \in 1..Len(sizes) : sizes[i] \in Nat /\ more[i] = sizes[i]
      OBVIOUS
    <3> QED BY <2>1, <3>1
  <2>3. EndOf(s[k][1], more) = EndOf(s[k][1], sizes) /\ EndOf(s[k][1], sizes) \in Nat
    BY <2>2 DEF EndOf, HeaderSize
  <2>4. s[k][1] < m /\ s[k][1] \in Nat
    BY <1>1, <2>1
  <2> QED BY <2>1, <2>3, <2>4
<1>6. InFrames(t, more)
  <2> SUFFICES ASSUME NEW k \in 1..Len(t) PROVE InFrame(t[k], more)
    BY DEF InFrames
  <2>1. CASE k <= Len(s)
    <3>1. k \in 1..Len(s)
      BY <1>1, <2>1
    <3>2. s[k][1] \in 1..m /\ s[k][2] \in 1..EndOf(s[k][1], more)
      BY <1>1, <1>5, <3>1
    <3> QED BY <1>3, <3>1, <3>2 DEF InFrame
  <2>2. CASE k > Len(s)
    BY <1>1, <1>4, <2>2 DEF InFrame
  <2> QED BY <1>1, <2>1, <2>2
<1>7. ASSUME Ordered(s) PROVE Ordered(t)
  <2> SUFFICES ASSUME NEW j \in 1..Len(t), NEW k \in 1..Len(t), j < k
               PROVE  Before(t[j], t[k])
    BY DEF Ordered
  <2>1. CASE k <= Len(s)
    <3>1. j \in 1..Len(s) /\ k \in 1..Len(s)
      BY <1>1, <2>1
    <3> QED BY <1>3, <1>7, <3>1 DEF Ordered
  <2>2. CASE j <= Len(s) /\ k > Len(s)
    <3>1. j \in 1..Len(s)
      BY <1>1, <2>2
    <3>2. t[j][1] < m /\ t[k][1] = m
      BY <1>3, <1>4, <1>5, <2>2, <3>1
    <3> QED BY <3>2 DEF Before
  <2>3. CASE j > Len(s) /\ k > Len(s)
    <3>1. j - Len(s) < k - Len(s)
      BY <1>1, <2>3
    <3> QED BY <1>4, <2>3, <3>1 DEF Before
  <2>4. k <= Len(s) \/ (j <= Len(s) /\ k > Len(s)) \/ (j > Len(s) /\ k > Len(s))
    BY <1>1
  <2> QED BY <2>1, <2>2, <2>3, <2>4
<1>8. ASSUME Stream(s, sizes) PROVE Stream(t, more)
  <2>1. Contiguous(t, more)
    <3> SUFFICES ASSUME NEW j \in 1..Len(t), NEW k \in 1..Len(t), j < k
                 PROVE  Distance(t[j], t[k], k - j, more)
      BY DEF Contiguous
    <3>1. CASE k <= Len(s)
      <4>1. j \in 1..Len(s) /\ k \in 1..Len(s)
        BY <1>1, <3>1
      <4>2. Distance(s[j], s[k], k - j, sizes)
        BY <1>8, <4>1 DEF Stream, Contiguous
      <4>3. t[j] = s[j] /\ t[k] = s[k] /\ EndOf(s[j][1], more) = EndOf(s[j][1], sizes)
        BY <1>3, <1>5, <4>1
      <4> QED BY <4>2, <4>3 DEF Distance
    <3>2. CASE j <= Len(s) /\ k > Len(s)
      <4> DEFINE l == Len(s)
                 e == EndOf(s[j][1], sizes)
                 x == s[j][2]
      <4>1. j \in 1..l /\ l \in 1..l /\ s # <<>> /\ l \in Nat
        BY <1>1, <3>2
      <4>2. s[l][1] = Len(sizes) /\ s[l][2] = EndOf(Len(sizes), sizes)
        BY <1>8, <4>1 DEF Stream, UpToDate, At
      <4>3. x \in Nat /\ e \in Nat /\ t[j] = s[j] /\ EndOf(t[j][1], more) = e
        BY <1>3, <1>5, <4>1
      \* The last byte of s ends its message, so the message of byte j does
      \* not go on behind s.
      <4>4. j = l => s[j][1] = Len(sizes) /\ x = e
        BY <4>2
      <4>5. ASSUME j < l, x + (l - j) <= e
            PROVE  x + (l - j) = e
        <5>1. Distance(s[j], s[l], l - j, sizes)
          BY <1>8, <4>1, <4>5 DEF Stream, Contiguous
        <5>2. s[l][1] = s[j][1] /\ s[l][2] = x + (l - j)
          BY <4>5, <5>1 DEF Distance, At
        <5> QED BY <4>2, <5>2
      <4> HIDE DEF x, e, l
      <4>6. j < k /\ j <= l /\ k > l /\ j \in Nat /\ k \in Nat
        BY <1>2, <3>2, <4>1 DEF l
      <4>7. ~(x + (k - j) <= e)
        BY <4>1, <4>3, <4>4, <4>5, <4>6
      <4>8. k - j = 1 => j = l /\ k - l = 1
        BY <4>1, <4>6
      <4>9. k - j = 1 => At(t[k], s[j][1] + 1, 1)
        BY <1>4, <3>2, <4>4, <4>8 DEF At, l
      <4> QED BY <4>3, <4>7, <4>9 DEF Distance, x
    <3>3. CASE j > Len(s)
      <4>1. k > Len(s) /\ k \in Nat /\ j \in Nat /\ Len(s) \in Nat
        BY <1>1, <1>2, <3>3
      <4>2. /\ t[j][1] = m /\ t[j][2] = j - Len(s)
            /\ t[k][1] = m /\ t[k][2] = k - Len(s)
            /\ k - Len(s) <= EndOf(m, more)
        BY <1>4, <3>3, <4>1
      <4>3. k - Len(s) = (j - Len(s)) + (k - j) /\ j - Len(s) < k - Len(s)
        BY <4>1
      <4>4. At(t[k], t[j][1], t[j][2] + (k - j))
        BY <4>2, <4>3 DEF At
      <4>5. t[j][2] # EndOf(t[j][1], more)
        BY <1>2, <4>1, <4>2, <4>3
      <4> QED BY <4>4, <4>5 DEF Distance
    <3> QED BY <1>1, <3>1, <3>2, <3>3
  <2>2. UpToDate(t, more)
    <3>1. Len(t) \in 1..Len(t) /\ Len(t) > Len(s) /\ Len(t) - Len(s) = EndOf(m, more)
      BY <1>1, <1>2 DEF HeaderSize
    <3>2. t[Len(t)][1] = m /\ t[Len(t)][2] = EndOf(m, more)
      BY <1>4, <3>1
    <3> QED BY <3>2 DEF UpToDate, At
  <2> QED BY <1>6, <2>1, <2>2 DEF Stream
<1>9. ASSUME NEW i, NEW p, NextIs(s, sizes, i, p) PROVE NextIs(t, more, i, p)
  <2>1. 1 \in 1..Len(t) /\ t # <<>>
    BY <1>1, <1>2 DEF HeaderSize
  <2>2. CASE s = <<>>
    <3>1. Len(s) = 0
      BY <2>2
    <3>2. t[1][1] = m /\ t[1][2] = 1
      BY <1>4, <2>1, <3>1
    <3>3. i = m /\ p = 1
      BY <1>9, <2>2 DEF NextIs
    <3> QED BY <2>1, <3>2, <3>3 DEF NextIs, At
  <2>3. CASE s # <<>>
    <3>1. 1 \in 1..Len(s)
      BY <2>3
    <3> QED BY <1>3, <1>9, <2>1, <2>3, <3>1 DEF NextIs
  <2> QED BY <2>2, <2>3
<1> QED BY <1>6, <1>7, <1>8, <1>9

-----------------------------------------------------------------------------
(* What a reader finds                                                     *)

\* The next n bytes, when they belong to one message, are the ones the reader
\* awaits; behind them the message goes on, or the next one begins.
LEMMA ReadOn ==
  ASSUME NEW sizes \in Seq(Nat), NEW s \in Seq(Byte), Stream(s, sizes),
         NEW i \in 1..Len(sizes), NEW p \in Nat \ {0}, NextIs(s, sizes, i, p),
         NEW n \in 1..Len(s), p + (n - 1) <= EndOf(i, sizes)
  PROVE  /\ \A k \in 1..n : s[k] = <<i, p + (k - 1)>>
         /\ p + (n - 1) < EndOf(i, sizes)
              => NextIs(Suffix(s, n), sizes, i, p + n) /\ Suffix(s, n) # <<>>
         /\ p + (n - 1) = EndOf(i, sizes) => NextIs(Suffix(s, n), sizes, i + 1, 1)
<1> DEFINE t == Suffix(s, n)
           e == EndOf(i, sizes)
<1>1. /\ t \in Seq(Byte) /\ Len(t) = Len(s) - n
      /\ \A k \in 1..(Len(s) - n) : t[k] = s[n + k]
  <2>1. n \in 0..Len(s)
    OBVIOUS
  <2> QED BY <2>1, SuffixIsSeq
<1>2. Len(s) \in Nat /\ n \in Nat /\ i \in Nat /\ p \in Nat /\ Len(sizes) \in Nat
  OBVIOUS
<1>3. e \in Nat
  BY DEF EndOf, HeaderSize
<1>4. s # <<>> /\ 1 \in 1..Len(s) /\ n \in 1..Len(s)
  BY <1>2
<1>5. s[1][1] = i /\ s[1][2] = p
  BY <1>4 DEF NextIs, At
<1> HIDE DEF t
<1>6. ASSUME NEW k \in 1..Len(s), p + (k - 1) <= e
      PROVE  s[k][1] = i /\ s[k][2] = p + (k - 1)
  <2>1. CASE k = 1
    BY <1>2, <1>5, <2>1
  <2>2. CASE k > 1
    <3>1. Distance(s[1], s[k], k - 1, sizes)
      BY <1>4, <2>2 DEF Stream, Contiguous
    <3>2. s[1][2] + (k - 1) <= EndOf(s[1][1], sizes)
      BY <1>5, <1>6
    <3> QED BY <1>5, <3>1, <3>2 DEF Distance, At
  <2> QED BY <1>2, <2>1, <2>2
<1>7. ASSUME NEW k \in 1..n PROVE s[k] = <<i, p + (k - 1)>>
  <2>1. k \in 1..Len(s) /\ p + (k - 1) <= e
    BY <1>2, <1>3
  <2>2. s[k][1] = i /\ s[k][2] = p + (k - 1)
    BY <1>6, <2>1
  <2>3. s[k] = <<s[k][1], s[k][2]>>
    BY <2>1, ByteIsPair
  <2> QED BY <2>2, <2>3
<1>8. Len(s) > n => 1 \in 1..Len(t) /\ t # <<>> /\ t[1] = s[n + 1] /\ n + 1 \in 1..Len(s)
  BY <1>1, <1>2
<1>9. Len(s) = n => t = <<>>
  BY <1>1, <1>2
<1>10. s[n][1] = i /\ s[n][2] = p + (n - 1)
  BY <1>4, <1>6
<1>11. Len(s) = n => i = Len(sizes) /\ p + (n - 1) = e
  <2> SUFFICES ASSUME Len(s) = n PROVE i = Len(sizes) /\ p + (n - 1) = e
    OBVIOUS
  <2>1. s[n][1] = Len(sizes) /\ s[n][2] = EndOf(Len(sizes), sizes)
    BY <1>4 DEF Stream, UpToDate, At
  <2> QED BY <1>10, <2>1
<1>12. ASSUME p + (n - 1) < e PROVE NextIs(t, sizes, i, p + n) /\ t # <<>>
  <2>1. Len(s) > n
    BY <1>2, <1>3, <1>11, <1>12
  <2>2. p + ((n + 1) - 1) <= e /\ p + ((n + 1) - 1) = p + n
    BY <1>2, <1>3, <1>12
  <2>3. s[n + 1][1] = i /\ s[n + 1][2] = p + n
    BY <1>6, <1>8, <2>1, <2>2
  <2> QED BY <1>8, <2>1, <2>3 DEF NextIs, At
<1>13. ASSUME p + (n - 1) = e PROVE NextIs(t, sizes, i + 1, 1)
  <2>1. CASE Len(s) = n
    BY <1>9, <1>11, <2>1 DEF NextIs
  <2>2. CASE Len(s) > n
    <3>1. n < n + 1 /\ (n + 1) - n = 1
      BY <1>2
    <3>2. Distance(s[n], s[n + 1], 1, sizes)
      BY <1>4, <1>8, <2>2, <3>1 DEF Stream, Contiguous
    <3>3. s[n][2] = EndOf(s[n][1], sizes)
      BY <1>10, <1>13
    <3>4. At(s[n + 1], i + 1, 1)
      BY <1>10, <3>2, <3>3 DEF Distance
    <3> QED BY <1>8, <2>2, <3>4 DEF NextIs
  <2> QED BY <1>2, <2>1, <2>2
<1> QED BY <1>7, <1>12, <1>13 DEF t

\* Its first four bytes are the header.
LEMMA ReadHeaderOf ==
  ASSUME NEW sizes \in Seq(Nat), NEW s \in Seq(Byte), Stream(s, sizes),
         NEW i \in 1..Len(sizes), NextIs(s, sizes, i, 1), Len(s) >= HeaderSize
  PROVE  Prefix(s, HeaderSize) = Header(i)
<1>1. HeaderSize \in 1..Len(s) /\ 1 + (HeaderSize - 1) <= EndOf(i, sizes)
  BY DEF HeaderSize, EndOf
<1>2. \A k \in 1..HeaderSize : s[k] = <<i, 1 + (k - 1)>>
  BY <1>1, ReadOn
<1>3. /\ Prefix(s, HeaderSize) \in Seq(Byte) /\ Len(Prefix(s, HeaderSize)) = HeaderSize
      /\ \A k \in 1..HeaderSize : Prefix(s, HeaderSize)[k] = s[k]
  BY <1>1, PrefixIsSeq
<1>4. Header(i) \in Seq(Byte) /\ Len(Header(i)) = HeaderSize
  <2>1. Header(i) \in [1..HeaderSize -> Byte] /\ HeaderSize \in Nat
    BY DEF Header, Byte, HeaderSize
  <2> QED BY <2>1, FunctionIsSeq
<1>5. \A k \in 1..HeaderSize : Header(i)[k] = <<i, k>> /\ 1 + (k - 1) = k
  BY DEF Header, HeaderSize
<1>6. \A k \in 1..HeaderSize : Prefix(s, HeaderSize)[k] = Header(i)[k]
  BY <1>2, <1>3, <1>5
<1> QED BY <1>3, <1>4, <1>6, SeqEqual

\* A header belongs to one message.
LEMMA HeaderTells ==
  ASSUME NEW i, NEW j, Header(i) = Header(j)
  PROVE  i = j
<1>1. 1 \in 1..HeaderSize
  BY DEF HeaderSize
<1>2. Header(i)[1] = <<i, 1>> /\ Header(j)[1] = <<j, 1>>
  BY <1>1 DEF Header
<1> QED BY <1>2

\* What arrives as a payload is the message it was sent as, or none.
LEMMA MessageOfPayload ==
  ASSUME sent \in Seq(Nat), NEW payload
  PROVE  /\ Message(payload) \in 0..Len(sent)
         /\ Message(payload) # 0 => payload = Payload(Message(payload))
<1>1. CASE \E i \in 1..Len(sent) : payload = Payload(i)
  <2>1. Message(payload) \in 1..Len(sent) /\ payload = Payload(Message(payload))
    BY <1>1 DEF Message
  <2> QED BY <2>1
<1>2. CASE ~\E i \in 1..Len(sent) : payload = Payload(i)
  <2>1. Message(payload) = 0
    BY <1>2 DEF Message
  <2> QED BY <2>1
<1> QED BY <1>1, <1>2

LEMMA PayloadIsBytes ==
  ASSUME sent \in Seq(Nat), NEW i \in 1..Len(sent)
  PROVE  /\ sent[i] \in Nat
         /\ Payload(i) \in Seq(Byte) /\ Len(Payload(i)) = sent[i]
         /\ \A k \in 1..sent[i] : Payload(i)[k] = <<i, HeaderSize + k>>
<1>1. sent[i] \in Nat /\ i \in Nat
  OBVIOUS
<1>2. Payload(i) \in [1..sent[i] -> Byte]
  BY <1>1 DEF Payload, Byte, HeaderSize
<1> QED BY <1>1, <1>2, FunctionIsSeq DEF Payload

\* A message with data is told from every other by its payload.
LEMMA PayloadTells ==
  ASSUME sent \in Seq(Nat), NEW i \in 1..Len(sent), sent[i] > 0
  PROVE  Message(Payload(i)) = i
<1> DEFINE m == Message(Payload(i))
<1>1. m \in 1..Len(sent) /\ Payload(i) = Payload(m)
  BY DEF Message
<1> HIDE DEF m
<1>2. /\ sent[i] \in Nat /\ Len(Payload(i)) = sent[i]
      /\ \A k \in 1..sent[i] : Payload(i)[k] = <<i, HeaderSize + k>>
  BY PayloadIsBytes
<1>3. /\ sent[m] \in Nat /\ Len(Payload(m)) = sent[m]
      /\ \A k \in 1..sent[m] : Payload(m)[k] = <<m, HeaderSize + k>>
  BY <1>1, PayloadIsBytes
<1>4. sent[i] = sent[m] /\ 1 \in 1..sent[i] /\ 1 \in 1..sent[m]
  BY <1>1, <1>2, <1>3
<1>5. Payload(i)[1] = <<i, HeaderSize + 1>> /\ Payload(m)[1] = <<m, HeaderSize + 1>>
  BY <1>2, <1>3, <1>4
<1>6. m = i
  BY <1>1, <1>5
<1> QED BY <1>6 DEF m

\* What was sent behind the last byte of a message belongs to a later one.
LEMMA BehindTheEnd ==
  ASSUME NEW sizes \in Seq(Nat), NEW b, NEW i \in 1..Len(sizes),
         At(b, i, EndOf(i, sizes)),
         NEW c, InFrame(c, sizes), Before(b, c)
  PROVE  i < c[1]
<1>1. c[1] \in Nat /\ i \in Nat /\ EndOf(i, sizes) \in Nat
  BY DEF InFrame, EndOf, HeaderSize
<1>2. ASSUME c[1] = i PROVE FALSE
  <2>1. c[2] \in 1..EndOf(i, sizes)
    BY <1>2 DEF InFrame
  <2> QED BY <1>1, <1>2, <2>1 DEF Before, At
<1> QED BY <1>1, <1>2 DEF Before, At

=============================================================================
