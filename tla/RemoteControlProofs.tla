------------------------- MODULE RemoteControlProofs -------------------------
(***************************************************************************)
(* Theorems about RemoteControl: what get_motor_speed() returns for every  *)
(* position of the pad, that it passes through an archive, that a drag     *)
(* ends with the button, and that the commands executed are those that     *)
(* were sent; for any positions of the mouse, any commands, any cuts of    *)
(* the stream and any bounds.                                              *)
(***************************************************************************)
EXTENDS RemoteControl, SequenceTheorems, Induction, TLAPS

(***************************************************************************)
(* The archive                                                             *)
(***************************************************************************)

LEMMA ModByte == ASSUME NEW v \in Int PROVE v % 256 \in 0..255
OBVIOUS

LEMMA ModInt16 == ASSUME NEW v \in Int PROVE v % 65536 \in Int /\ 0 <= v % 65536 /\ v % 65536 < 65536
OBVIOUS

LEMMA HighByte ==
  ASSUME NEW u \in Int, 0 <= u, u < 65536
  PROVE  u \div 256 \in Int /\ u \div 256 >= 0 /\ u \div 256 <= 255
OBVIOUS

LEMMA Halves ==
  ASSUME NEW u \in Int, 0 <= u, u < 65536
  PROVE  (u % 256) + 256 * (u \div 256) = u
OBVIOUS

LEMMA NonNegative ==
  ASSUME NEW v \in Int, 0 <= v, v < 65536 PROVE v % 65536 = v
OBVIOUS

LEMMA TwosComplement ==
  ASSUME NEW v \in Int, -32768 <= v, v < 0
  PROVE  v % 65536 = v + 65536 /\ v % 256 = (v + 65536) % 256
OBVIOUS

LEMMA ToBytesIsBytes ==
  ASSUME NEW v \in Int
  PROVE  ToBytes(v) \in Seq(Byte) /\ Len(ToBytes(v)) = 2
<1> DEFINE u == v % 65536
<1>1. v % 256 \in Byte
  BY ModByte DEF Byte
<1>2. u \in Int /\ 0 <= u /\ u < 65536
  BY ModInt16
<1> HIDE DEF u
<1>3. u \div 256 \in Int /\ u \div 256 >= 0 /\ u \div 256 <= 255
  BY <1>2, HighByte
<1>4. u \div 256 \in Byte
  BY <1>3 DEF Byte
<1>5. ToBytes(v) = <<v % 256, u \div 256>>
  BY DEF ToBytes, u
<1> QED BY <1>1, <1>4, <1>5

\* What is left behind the first of two strings is the second.
LEMMA BehindFirst ==
  ASSUME NEW S, NEW s \in Seq(S), NEW t \in Seq(S)
  PROVE  Behind(s \o t, Len(s)) = t
<1> DEFINE m == Len(s) + 1  n == Len(s) + Len(t)
<1>1. s \o t \in Seq(S) /\ Len(s \o t) = n /\ m \in Int /\ n \in Int
  BY ConcatProperties
<1>2. \A i \in m..n : (s \o t)[i] \in S
  BY <1>1, ElementOfSeq
<1>3. /\ SubSeq(s \o t, m, n) \in Seq(S)
      /\ Len(SubSeq(s \o t, m, n)) = IF m <= n THEN n - m + 1 ELSE 0
      /\ \A i \in 1..(n - m + 1) : SubSeq(s \o t, m, n)[i] = (s \o t)[m + i - 1]
  BY <1>1, <1>2, SubSeqProperties
<1>4. Len(SubSeq(s \o t, m, n)) = Len(t)
  BY <1>3
<1>5. \A i \in 1..Len(t) : (s \o t)[m + i - 1] = t[i]
  BY ConcatProperties
<1>6. \A i \in 1..Len(t) : SubSeq(s \o t, m, n)[i] = t[i]
  BY <1>3, <1>5
<1>7. SubSeq(s \o t, m, n) = t
  BY <1>3, <1>4, <1>6, SeqEqual
<1> QED BY <1>1, <1>7 DEF Behind

\* What it is to lie in an interval.
LEMMA BoundsOf ==
  ASSUME NEW lo \in Int, NEW hi \in Int, NEW v \in lo..hi
  PROVE  v \in Int /\ lo <= v /\ v <= hi
OBVIOUS

LEMMA Int16IsInt ==
  ASSUME NEW v \in Int16
  PROVE  v \in Int /\ -32768 <= v /\ v <= 32767
<1> DEFINE lo == -32768  hi == 32767
<1>1. lo \in Int /\ hi \in Int
  OBVIOUS
<1>2. Int16 = lo..hi
  BY DEF Int16
<1> HIDE DEF lo, hi
<1>3. v \in Int /\ lo <= v /\ v <= hi
  BY <1>1, <1>2, BoundsOf
<1> QED BY <1>3 DEF lo, hi

\* An int16_t is read as it was written (kart_archive.h:93-110, 177-187).
THEOREM RoundTrip ==
  ASSUME NEW v \in Int16
  PROVE  FromBytes(ToBytes(v)) = v
<1>1. v \in Int /\ -32768 <= v /\ v <= 32767
  BY Int16IsInt
<1>2. CASE 0 <= v
  <2>1. v < 65536
    BY <1>1
  <2>2. v % 65536 = v /\ (v % 256) + 256 * (v \div 256) = v
    BY <1>1, <1>2, <2>1, NonNegative, Halves
  <2>3. ToBytes(v) = <<v % 256, v \div 256>>
    BY <2>2 DEF ToBytes
  <2>4. ToBytes(v)[1] + 256 * ToBytes(v)[2] = v
    BY <2>2, <2>3
  <2> QED BY <1>1, <2>4 DEF FromBytes
<1>3. CASE v < 0
  <2> DEFINE u == v + 65536
  <2>1. u \in Int /\ 32767 < u /\ u < 65536 /\ 0 <= u /\ u - 65536 = v
    BY <1>1, <1>3
  <2>2. v % 65536 = u /\ v % 256 = u % 256
    BY <1>1, <1>3, TwosComplement
  <2> HIDE DEF u
  <2>3. (u % 256) + 256 * (u \div 256) = u
    BY <2>1, Halves
  <2>4. ToBytes(v) = <<u % 256, u \div 256>>
    BY <2>2 DEF ToBytes
  <2>5. ToBytes(v)[1] + 256 * ToBytes(v)[2] = u
    BY <2>3, <2>4
  <2> QED BY <2>1, <2>5 DEF FromBytes
<1> QED BY <1>1, <1>2, <1>3

\* A command with two speeds is unpacked as it was packed.
THEOREM CommandRoundTrip ==
  ASSUME NEW l \in Int16, NEW r \in Int16
  PROVE  LET cmd == CmdMotorSetSpeed(l, r)
         IN  Unpack(cmd.id, Behind(Packet(cmd), 2)) = cmd
<1> DEFINE cmd == CmdMotorSetSpeed(l, r)
<1>1. l \in Int /\ r \in Int
  BY Int16IsInt
<1>2. cmd.id = 1 /\ cmd # CmdNone /\ cmd.l_speed = l /\ cmd.r_speed = r
  BY DEF CmdMotorSetSpeed, CmdNone
<1> HIDE DEF cmd
<1>3. pack(cmd) = ToBytes(l) \o ToBytes(r)
  BY <1>2 DEF pack
<1>4. /\ ToBytes(l) \in Seq(Byte) /\ Len(ToBytes(l)) = 2
      /\ ToBytes(r) \in Seq(Byte) /\ Len(ToBytes(r)) = 2
  BY <1>1, ToBytesIsBytes
<1>5. pack(cmd) \in Seq(Byte) /\ Len(pack(cmd)) = 4
  BY <1>3, <1>4, ConcatProperties
<1>6. Behind(Packet(cmd), 2) = pack(cmd)
  <2> DEFINE head == <<SizeByte(cmd), 1>>
  <2>1. Packet(cmd) = head \o pack(cmd)
    BY <1>2 DEF Packet
  <2>2. head \in Seq(Nat) /\ Len(head) = 2
    <3>1. SizeByte(cmd) \in Nat
      BY <1>5 DEF SizeByte
    <3> QED BY <3>1
  <2>3. pack(cmd) \in Seq(Nat)
    <3>1. Byte \subseteq Nat
      BY DEF Byte
    <3> QED BY <1>5, <3>1, SeqMonotonic
  <2> QED BY <2>1, <2>2, <2>3, BehindFirst
<1>7. Behind(pack(cmd), 2) = ToBytes(r)
  BY <1>3, <1>4, BehindFirst
<1>8. AfterRead(pack(cmd)) = ToBytes(r)
  BY <1>5, <1>7 DEF AfterRead, Fits
<1>9. Value(pack(cmd)) = l
  <2>1. pack(cmd)[1] = ToBytes(l)[1] /\ pack(cmd)[2] = ToBytes(l)[2]
    BY <1>3, <1>4, ConcatProperties
  <2>2. FromBytes(pack(cmd)) = FromBytes(ToBytes(l))
    BY <2>1 DEF FromBytes
  <2> QED BY <1>5, <2>2, RoundTrip DEF Value, Fits
<1>10. Value(ToBytes(r)) = r
  BY <1>4, RoundTrip DEF Value, Fits
<1>11. Unpack(cmd.id, Behind(Packet(cmd), 2)) = CmdMotorSetSpeed(l, r)
  BY <1>2, <1>6, <1>8, <1>9, <1>10 DEF Unpack
<1> QED BY <1>11 DEF cmd

(***************************************************************************)
(* The pad                                                                 *)
(***************************************************************************)

\* How far the speed points, a corner in quarters, and the speed of a wheel.
Part(n) == n \in Int /\ 0 <= n /\ n <= 16
Quarter(n) == n \in Int /\ -4 <= n /\ n <= 4
Speed(n) == n \in Int /\ -1024 <= n /\ n <= 1024

LEMMA ClampedIsPart ==
  ASSUME NEW x \in Int
  PROVE  /\ Clamp(x) \in Int /\ Part(Abs(Clamp(x)))
         /\ Clamp(-x) = -Clamp(x) /\ Abs(Clamp(-x)) = Abs(Clamp(x))
BY DEF Clamp, Abs, Full, Part

LEMMA Weighted ==
  ASSUME NEW w \in Int, w >= 0, NEW d \in Int, -4 <= d, d <= 4
  PROVE  w * d \in Int /\ -4 * w <= w * d /\ w * d <= 4 * w /\ (d >= 0 => w * d >= 0)
<1>1. d = -4 \/ d = -3 \/ d = -2 \/ d = -1 \/ d = 0 \/ d = 1 \/ d = 2 \/ d = 3 \/ d = 4
  OBVIOUS
<1> QED BY <1>1

LEMMA ProductNonNegative ==
  ASSUME NEW a \in Int, NEW b \in Int, a >= 0, b >= 0
  PROVE  a * b \in Int /\ a * b >= 0
OBVIOUS

\* A mix of corners that keep to full speed does, and one of corners that are
\* not negative is not.
LEMMA MixStaysBetween ==
  ASSUME NEW s, NEW t, NEW d1, NEW d2, NEW d3,
         Part(s), Part(t), Quarter(d1), Quarter(d2), Quarter(d3)
  PROVE  /\ Speed(Mix(s, t, d1, d2, d3))
         /\ d1 >= 0 /\ d2 >= 0 /\ d3 >= 0 => Mix(s, t, d1, d2, d3) >= 0
<1> DEFINE w1 == (16 - t) * s
           w2 == t * (16 - s)
           w3 == t * s
<1>1. s \in Int /\ t \in Int /\ 0 <= s /\ s <= 16 /\ 0 <= t /\ t <= 16
  BY DEF Part
<1>2. w1 \in Int /\ w2 \in Int /\ w3 \in Int /\ w1 >= 0 /\ w2 >= 0 /\ w3 >= 0
  BY <1>1, ProductNonNegative
<1>3. w1 + w2 + w3 <= 256
  <2>1. (16 - t) * (16 - s) >= 0
    BY <1>1, ProductNonNegative
  <2>2. (16 - t) * (16 - s) = 256 - (w1 + w2 + w3)
    BY <1>1
  <2> QED BY <1>2, <2>1, <2>2
<1>4. /\ d1 \in Int /\ -4 <= d1 /\ d1 <= 4 /\ d2 \in Int /\ -4 <= d2 /\ d2 <= 4
      /\ d3 \in Int /\ -4 <= d3 /\ d3 <= 4
  BY DEF Quarter
<1>5. Mix(s, t, d1, d2, d3) = w1 * d1 + (w2 * d2 + w3 * d3)
  BY <1>1, <1>4 DEF Mix, Full
<1> HIDE DEF w1, w2, w3
<1>6. /\ w1 * d1 \in Int /\ -4 * w1 <= w1 * d1 /\ w1 * d1 <= 4 * w1
      /\ w2 * d2 \in Int /\ -4 * w2 <= w2 * d2 /\ w2 * d2 <= 4 * w2
      /\ w3 * d3 \in Int /\ -4 * w3 <= w3 * d3 /\ w3 * d3 <= 4 * w3
      /\ (d1 >= 0 => w1 * d1 >= 0) /\ (d2 >= 0 => w2 * d2 >= 0)
      /\ (d3 >= 0 => w3 * d3 >= 0)
  BY <1>2, <1>4, Weighted
<1> QED BY <1>2, <1>3, <1>5, <1>6 DEF Speed

LEMMA CornersAreQuarters ==
  ASSUME NEW right \in BOOLEAN, NEW down \in BOOLEAN, NEW i \in 1..3, NEW k \in 1..2
  PROVE  Quarter(Corners(right, down)[i][k])
<1>1. (i = 1 \/ i = 2 \/ i = 3) /\ (k = 1 \/ k = 2)
  OBVIOUS
<1>2. CASE right /\ down
  BY <1>1, <1>2 DEF Corners, Quarter
<1>3. CASE right /\ ~down
  BY <1>1, <1>3 DEF Corners, Quarter
<1>4. CASE ~right /\ down
  BY <1>1, <1>4 DEF Corners, Quarter
<1>5. CASE ~right /\ ~down
  BY <1>1, <1>5 DEF Corners, Quarter
<1> QED BY <1>2, <1>3, <1>4, <1>5

\* Both wheels keep to 1024, wherever the speed points (control_view.h:108-189).
THEOREM SpeedsKeepToFull ==
  ASSUME NEW m \in Int \X Int
  PROVE  Speed(get_motor_speed(m)[1]) /\ Speed(get_motor_speed(m)[2])
<1> DEFINE x == Clamp(m[1])  y == Clamp(m[2])
           right == x > 0    down == y > 0
           c == Corners(right, down)
           s == Abs(x)       t == Abs(y)
           d1 == Mix(s, t, c[1][1], c[2][1], c[3][1])
           d2 == Mix(s, t, c[1][2], c[2][2], c[3][2])
<1>1. Part(s) /\ Part(t)
  BY ClampedIsPart
<1>2. get_motor_speed(m) = IF down THEN <<d1, d2>> ELSE <<d2, d1>>
  BY DEF get_motor_speed
<1>3. right \in BOOLEAN /\ down \in BOOLEAN
  OBVIOUS
<1> HIDE DEF right, down, s, t
<1>4. /\ Quarter(c[1][1]) /\ Quarter(c[2][1]) /\ Quarter(c[3][1])
      /\ Quarter(c[1][2]) /\ Quarter(c[2][2]) /\ Quarter(c[3][2])
  BY <1>3, CornersAreQuarters
<1> HIDE DEF c
<1>5. Speed(d1) /\ Speed(d2)
  BY <1>1, <1>4, MixStaysBetween
<1> HIDE DEF d1, d2
<1> QED BY <1>2, <1>5

\* Ahead, no wheel turns backwards and the two sides exchange the wheels
\* (control_view.h:135-167, 183-188).
THEOREM AheadIsSymmetric ==
  ASSUME NEW x \in Int, NEW y \in Int, y <= 0
  PROVE  LET speeds == get_motor_speed(<<x, y>>)
         IN  /\ speeds[1] >= 0 /\ speeds[2] >= 0
             /\ get_motor_speed(<<-x, y>>) = <<speeds[2], speeds[1]>>
<1> DEFINE p == Clamp(x)  s == Abs(p)  t == Abs(Clamp(y))
           outer == Mix(s, t, 4, 4, 4)
           inner == Mix(s, t, 0, 4, 1)
<1>1. /\ Part(s) /\ Part(t) /\ p \in Int
      /\ Clamp(-x) = -p /\ Abs(Clamp(-x)) = s
  BY ClampedIsPart
<1>2. ~(Clamp(y) > 0)
  BY DEF Clamp, Full
<1>3. outer >= 0 /\ inner >= 0
  <2>1. Quarter(0) /\ Quarter(1) /\ Quarter(4)
    BY DEF Quarter
  <2> QED BY <1>1, <2>1, MixStaysBetween
<1>4. \A right, down \in BOOLEAN :
        ~down =>
          Corners(right, down) = IF right THEN <<<<0, 4>>, <<4, 4>>, <<1, 4>>>>
                                          ELSE <<<<4, 0>>, <<4, 4>>, <<4, 1>>>>
  BY DEF Corners
<1>5. \A z \in Int :
        Abs(Clamp(z)) = s =>
          get_motor_speed(<<z, y>>) = IF Clamp(z) > 0 THEN <<outer, inner>>
                                                     ELSE <<inner, outer>>
  <2> SUFFICES ASSUME NEW z \in Int, Abs(Clamp(z)) = s
               PROVE  get_motor_speed(<<z, y>>)
                        = IF Clamp(z) > 0 THEN <<outer, inner>> ELSE <<inner, outer>>
    OBVIOUS
  <2> DEFINE right == Clamp(z) > 0  down == Clamp(y) > 0
             c == Corners(right, down)
             d1 == Mix(s, t, c[1][1], c[2][1], c[3][1])
             d2 == Mix(s, t, c[1][2], c[2][2], c[3][2])
  <2>1. get_motor_speed(<<z, y>>) = IF down THEN <<d1, d2>> ELSE <<d2, d1>>
    BY DEF get_motor_speed
  <2>2. right \in BOOLEAN /\ down \in BOOLEAN /\ ~down
    BY <1>2
  <2> HIDE DEF right, down, outer, inner, s, t
  <2>3. c = IF right THEN <<<<0, 4>>, <<4, 4>>, <<1, 4>>>>
                     ELSE <<<<4, 0>>, <<4, 4>>, <<4, 1>>>>
    BY <1>4, <2>2
  <2> HIDE DEF c
  <2>4. IF right THEN d1 = inner /\ d2 = outer ELSE d1 = outer /\ d2 = inner
    BY <2>3 DEF inner, outer
  <2> HIDE DEF d1, d2
  <2>5. get_motor_speed(<<z, y>>) = IF right THEN <<outer, inner>> ELSE <<inner, outer>>
    BY <2>1, <2>2, <2>4
  <2> QED BY <2>5 DEF right
<1>6. CASE p = 0
  <2>1. s = 0
    BY <1>6 DEF Abs
  <2>2. t \in Int
    BY <1>1 DEF Part
  <2>3. outer = inner
    BY <2>1, <2>2 DEF Mix, Full
  <2> QED BY <1>1, <1>3, <1>5, <2>3
<1>7. CASE p # 0
  <2>1. (p > 0) = ~(-p > 0)
    BY <1>1, <1>7
  <2> QED BY <1>1, <1>3, <1>5, <2>1
<1> QED BY <1>6, <1>7

(***************************************************************************)
(* Types                                                                   *)
(***************************************************************************)

\* What is left of a string of bytes is one, and so is its beginning.
LEMMA BehindIsBytes ==
  ASSUME NEW bytes \in Seq(Byte), NEW n \in Nat
  PROVE  Behind(bytes, n) \in Seq(Byte)
<1>1. \A i \in (n + 1)..Len(bytes) : bytes[i] \in Byte
  BY ElementOfSeq
<1>2. n + 1 \in Int /\ Len(bytes) \in Int
  OBVIOUS
<1> QED BY <1>1, <1>2, SubSeqProperties DEF Behind

LEMMA BeginIsBytes ==
  ASSUME NEW bytes \in Seq(Byte), NEW n \in 1..Len(bytes)
  PROVE  SubSeq(bytes, 1, n) \in Seq(Byte)
<1>1. \A i \in 1..n : bytes[i] \in Byte
  BY ElementOfSeq
<1> QED BY <1>1, SubSeqProperties

LEMMA AfterReadIsBytes ==
  ASSUME NEW bytes \in Seq(Byte)
  PROVE  AfterRead(bytes) \in Seq(Byte)
BY BehindIsBytes DEF AfterRead

\* What makes a number a byte, and one of 16 bits.
LEMMA ByteBounds ==
  ASSUME NEW b \in Byte
  PROVE  b \in Int /\ 0 <= b /\ b <= 255
BY DEF Byte

LEMMA WithinBounds ==
  ASSUME NEW lo \in Int, NEW hi \in Int, NEW v \in Int, lo <= v, v <= hi
  PROVE  v \in lo..hi
OBVIOUS

LEMMA WithinInt16 ==
  ASSUME NEW v \in Int, -32768 <= v, v <= 32767
  PROVE  v \in Int16
<1> DEFINE lo == -32768  hi == 32767
<1>1. lo \in Int /\ hi \in Int /\ lo <= v /\ v <= hi
  OBVIOUS
<1>2. Int16 = lo..hi
  BY DEF Int16
<1> HIDE DEF lo, hi
<1> QED BY <1>1, <1>2, WithinBounds

\* The number two bytes stand for, before it gets its sign.
LEMMA UnsignedValue ==
  ASSUME NEW b1 \in Int, NEW b2 \in Int,
         0 <= b1, b1 <= 255, 0 <= b2, b2 <= 255
  PROVE  b1 + 256 * b2 \in Int /\ 0 <= b1 + 256 * b2 /\ b1 + 256 * b2 <= 65535
OBVIOUS

LEMMA ValueIsSpeed ==
  ASSUME NEW bytes \in Seq(Byte)
  PROVE  Value(bytes) \in Int16 \cup {Unwritten}
<1>1. CASE Fits(bytes)
  <2>1. bytes[1] \in Byte /\ bytes[2] \in Byte
    BY <1>1, ElementOfSeq DEF Fits
  <2> DEFINE b1 == bytes[1]  b2 == bytes[2]
  <2>2. b1 \in Int /\ b2 \in Int /\ 0 <= b1 /\ b1 <= 255 /\ 0 <= b2 /\ b2 <= 255
    BY <2>1, ByteBounds
  <2> DEFINE u == b1 + 256 * b2
             v == IF u > 32767 THEN u - 65536 ELSE u
  <2>3. FromBytes(bytes) = v
    BY DEF FromBytes
  <2> HIDE DEF b1, b2
  <2>4. u \in Int /\ 0 <= u /\ u <= 65535
    BY <2>2, UnsignedValue
  <2> HIDE DEF u
  <2>5. v \in Int /\ -32768 <= v /\ v <= 32767
    BY <2>4
  <2> HIDE DEF v
  <2>6. FromBytes(bytes) \in Int16
    BY <2>3, <2>5, WithinInt16
  <2> QED BY <1>1, <2>6 DEF Value
<1>2. CASE ~Fits(bytes)
  BY <1>2 DEF Value
<1> QED BY <1>1, <1>2

LEMMA UnpackIsCmd ==
  ASSUME NEW id \in Ids, NEW bytes \in Seq(Byte)
  PROVE  /\ Unpack(id, bytes) \in CmdsWith(Int16 \cup {Unwritten})
         /\ AfterUnpack(id, bytes) \in Seq(Byte)
<1>1. Unpack(id, bytes) \in CmdsWith(Int16 \cup {Unwritten})
  <2>1. Value(bytes) \in Int16 \cup {Unwritten}
    BY ValueIsSpeed
  <2>2. Value(AfterRead(bytes)) \in Int16 \cup {Unwritten}
    BY AfterReadIsBytes, ValueIsSpeed
  <2> QED BY <2>1, <2>2 DEF Unpack, CmdsWith, CmdMotorSetSpeed
<1>2. AfterUnpack(id, bytes) \in Seq(Byte)
  BY AfterReadIsBytes DEF AfterUnpack
<1> QED BY <1>1, <1>2

LEMMA PacketIsBytes ==
  ASSUME NEW cmd \in Cmds
  PROVE  Packet(cmd) \in Seq(Byte)
<1>1. cmd = CmdNone \/ cmd \in [id : {1}, l_speed : Int16, r_speed : Int16]
  BY CmdsAssumption DEF AnyCmd, CmdsWith
<1>2. /\ cmd.id \in Byte /\ pack(cmd) \in Seq(Byte)
      /\ Len(pack(cmd)) = 0 \/ Len(pack(cmd)) = 4
  <2>1. CASE cmd = CmdNone
    BY <2>1 DEF pack, CmdNone, Byte
  <2>2. CASE cmd # CmdNone
    <3>1. cmd.id = 1 /\ cmd.l_speed \in Int /\ cmd.r_speed \in Int
      BY <1>1, <2>2, Int16IsInt
    <3>2. pack(cmd) = ToBytes(cmd.l_speed) \o ToBytes(cmd.r_speed)
      BY <2>2 DEF pack
    <3>3. pack(cmd) \in Seq(Byte) /\ Len(pack(cmd)) = 4
      <4>1. ToBytes(cmd.l_speed) \in Seq(Byte) /\ Len(ToBytes(cmd.l_speed)) = 2
        BY <3>1, ToBytesIsBytes
      <4>2. ToBytes(cmd.r_speed) \in Seq(Byte) /\ Len(ToBytes(cmd.r_speed)) = 2
        BY <3>1, ToBytesIsBytes
      <4> QED BY <3>2, <4>1, <4>2, ConcatProperties
    <3> QED BY <3>1, <3>3 DEF Byte
  <2> QED BY <2>1, <2>2
<1>3. SizeByte(cmd) \in Byte
  <2>1. 2 + Len(pack(cmd)) \in Int
    BY <1>2
  <2> QED BY <2>1, ModByte DEF SizeByte, Byte
<1>4. <<SizeByte(cmd), cmd.id>> \in Seq(Byte)
  BY <1>2, <1>3
<1> QED BY <1>2, <1>4, ConcatProperties DEF Packet

\* The commands and the receiver keep to their types.
LEMMA CommandsKeepTypes ==
  ASSUME CommandsTypeOK, Commands
  PROVE  CommandsTypeOK'
<1>1. ASSUME NEW cmd \in Cmds, send_cmd(cmd) PROVE CommandsTypeOK'
  <2>1. stream' \in Seq(Byte)
    BY <1>1, PacketIsBytes, ConcatProperties DEF send_cmd, CommandsTypeOK
  <2>2. sent' \in Seq(Cmds) /\ Len(sent') <= MaxCmds
    BY <1>1, CmdsAssumption DEF send_cmd, CommandsTypeOK
  <2> QED BY <1>1, <2>1, <2>2 DEF send_cmd, CommandsTypeOK
<1>2. ASSUME NEW id \in Ids, register_command(id) PROVE CommandsTypeOK'
  BY <1>2 DEF register_command, CommandsTypeOK
<1>3. ASSUME NEW n \in 1..Len(stream), Receive(n), astray' \in BOOLEAN
      PROVE  CommandsTypeOK'
  <2>1. archive' \in Seq(Byte) /\ stream' \in Seq(Byte)
    BY <1>3, BeginIsBytes, BehindIsBytes DEF Receive, CommandsTypeOK
  <2> QED BY <1>3, <2>1 DEF Receive, CommandsTypeOK
<1>4. CASE ReceiveBySize
  <2>1. stream[1] \in 1..Len(stream) /\ Receive(stream[1])
    BY <1>4 DEF ReceiveBySize, Receive
  <2>2. astray' \in BOOLEAN
    BY <1>4 DEF ReceiveBySize, CommandsTypeOK
  <2> QED BY <1>3, <2>1, <2>2
<1>5. CASE ReceiveRaw
  <2>1. PICK n \in Cuts : Receive(n) /\ astray' = (astray \/ ~Between(n))
    BY <1>5 DEF ReceiveRaw
  <2>2. n \in 1..Len(stream)
    BY <2>1 DEF Receive
  <2>3. Between(n) \in BOOLEAN
    BY DEF Between
  <2>4. astray' \in BOOLEAN
    BY <2>1, <2>3 DEF CommandsTypeOK
  <2> QED BY <1>3, <2>1, <2>2, <2>4
<1>6. CASE dispatch_from_archive
  <2>1. Behind(archive, 2) \in Seq(Byte)
    BY BehindIsBytes DEF CommandsTypeOK
  <2>2. dispatched' \in Nat
    BY <1>6 DEF dispatch_from_archive, CommandsTypeOK
  <2>3. CASE Len(archive) > 1 /\ archive[2] \in entries
    <3>1. archive[2] \in Ids
      BY <2>3 DEF CommandsTypeOK
    <3> DEFINE cmd == Unpack(archive[2], Behind(archive, 2))
               rest == AfterUnpack(archive[2], Behind(archive, 2))
    <3>2. cmd \in CmdsWith(Int16 \cup {Unwritten}) /\ rest \in Seq(Byte)
      BY <2>1, <3>1, UnpackIsCmd
    <3>3. executed' = Append(executed, cmd) /\ archive' = rest /\ astray' = astray
      BY <1>6, <2>3 DEF dispatch_from_archive
    <3> HIDE DEF cmd, rest
    <3>4. executed' \in Seq(CmdsWith(Int16 \cup {Unwritten}))
      BY <3>2, <3>3, AppendProperties DEF CommandsTypeOK
    <3> QED BY <1>6, <2>2, <3>2, <3>3, <3>4 DEF dispatch_from_archive, CommandsTypeOK
  <2>4. CASE ~(Len(archive) > 1 /\ archive[2] \in entries)
    <3>1. /\ archive' = Behind(archive, 2) /\ executed' = executed
          /\ astray' = (astray \/ Len(archive) < 2 \/ archive[2] # 0)
      BY <1>6, <2>4 DEF dispatch_from_archive
    <3>2. astray' \in BOOLEAN
      BY <3>1 DEF CommandsTypeOK
    <3> QED BY <1>6, <2>1, <2>2, <3>1, <3>2 DEF dispatch_from_archive, CommandsTypeOK
  <2> QED BY <2>3, <2>4
<1> QED BY <1>1, <1>2, <1>4, <1>5, <1>6 DEF Commands

\* A frame leaves a speed within the bound.
LEMMA FrameKeepsTypes ==
  ASSUME ViewTypeOK, NEW frame \in {"short", "long", "slow"}, Frame(frame)
  PROVE  ViewTypeOK'
<1>1. PICK pos \in Positions, hovered \in BOOLEAN :
        LET draging == m_mouse_draging \/ (hovered /\ Clicked) IN
        /\ m_motor_speed' = IF draging THEN pos ELSE Decayed(frame)
        /\ \A i \in 1..2 : Abs(m_motor_speed'[i]) <= MaxSpeed
        /\ m_mouse_draging' = (draging /\ ~Released)
        /\ MouseDown' = MousePressed
        /\ UNCHANGED MousePressed
  BY DEF Frame
<1> DEFINE draging == m_mouse_draging \/ (hovered /\ Clicked)
<1>2. draging \in BOOLEAN /\ Released \in BOOLEAN
  BY DEF ViewTypeOK, Clicked, Released
<1>3. MaxSpeed \in Nat /\ pos \in (-MaxSpeed..MaxSpeed) \X (-MaxSpeed..MaxSpeed)
  BY ViewAssumption
<1>4. Decayed(frame) \in Int \X Int
  <2>1. m_motor_speed[1] \in Int /\ m_motor_speed[2] \in Int
    BY <1>3 DEF ViewTypeOK
  <2>2. \A n \in Int : Scaled(n, frame) \in Int
    BY DEF Scaled, Abs
  <2> QED BY <2>1, <2>2 DEF Decayed
<1>5. m_motor_speed' \in (-MaxSpeed..MaxSpeed) \X (-MaxSpeed..MaxSpeed)
  <2>1. CASE draging
    BY <1>1, <1>3, <2>1
  <2>2. CASE ~draging
    <3> DEFINE m == Decayed(frame)
    <3>1. m_motor_speed' = m
      BY <1>1, <2>2
    <3>2. Abs(m[1]) <= MaxSpeed /\ Abs(m[2]) <= MaxSpeed
      BY <1>1, <3>1
    <3> HIDE DEF m
    <3>3. m[1] \in Int /\ m[2] \in Int /\ m = <<m[1], m[2]>>
      BY <1>4 DEF m
    <3>4. m[1] \in -MaxSpeed..MaxSpeed /\ m[2] \in -MaxSpeed..MaxSpeed
      BY <1>3, <3>2, <3>3 DEF Abs
    <3> QED BY <3>1, <3>3, <3>4
  <2> QED BY <1>2, <2>1, <2>2
<1>6. m_mouse_draging' \in BOOLEAN /\ MouseDown' \in BOOLEAN /\ MousePressed' \in BOOLEAN
  BY <1>1, <1>2 DEF ViewTypeOK
<1> QED BY <1>5, <1>6 DEF ViewTypeOK

\* Every variable keeps to its type (TypeOK).
THEOREM TypeCorrect == Spec => []TypeOK
<1>1. Init => TypeOK
  <2> SUFFICES ASSUME Init PROVE TypeOK
    OBVIOUS
  <2>1. CommandsTypeOK
    <3>1. sent \in Seq(Cmds) /\ Len(sent) <= MaxCmds
      BY CmdsAssumption DEF Init, InitCommands
    <3>2. stream \in Seq(Byte) /\ archive \in Seq(Byte)
      BY DEF Init, InitCommands
    <3>3. executed \in Seq(CmdsWith(Int16 \cup {Unwritten}))
      BY DEF Init, InitCommands
    <3>4. entries \subseteq Ids /\ dispatched \in Nat /\ astray \in BOOLEAN
      BY DEF Init, InitCommands
    <3> QED BY <3>1, <3>2, <3>3, <3>4 DEF CommandsTypeOK
  <2>2. ViewTypeOK
    <3>1. 0 \in -MaxSpeed..MaxSpeed
      BY ViewAssumption
    <3>2. m_motor_speed \in (-MaxSpeed..MaxSpeed) \X (-MaxSpeed..MaxSpeed)
      BY <3>1 DEF Init, InitView
    <3> QED BY <3>2 DEF Init, InitView, ViewTypeOK
  <2> QED BY <2>1, <2>2 DEF TypeOK
<1>2. TypeOK /\ [Next]_vars => TypeOK'
  <2> SUFFICES ASSUME TypeOK, [Next]_vars PROVE TypeOK'
    OBVIOUS
  <2> USE DEF TypeOK
  <2>1. CASE Commands
    <3>1. CommandsTypeOK'
      BY <2>1, CommandsKeepTypes
    <3>2. ViewTypeOK'
      BY <2>1 DEF Commands, viewVars, ViewTypeOK
    <3> QED BY <3>1, <3>2
  <2>2. CASE MouseEvent
    <3>1. CommandsTypeOK'
      BY <2>2 DEF MouseEvent, commandVars, CommandsTypeOK
    <3>2. ViewTypeOK'
      BY <2>2 DEF MouseEvent, onMousePressedChange, ViewTypeOK
    <3> QED BY <3>1, <3>2
  <2>3. ASSUME NEW frame \in {"short", "long", "slow"}, Redraw(frame) PROVE TypeOK'
    <3>1. CommandsTypeOK'
      BY <2>3 DEF Redraw, commandVars, CommandsTypeOK
    <3>2. ViewTypeOK'
      BY <2>3, FrameKeepsTypes DEF Redraw
    <3> QED BY <3>1, <3>2
  <2>4. CASE UNCHANGED vars
    BY <2>4 DEF vars, commandVars, viewVars, CommandsTypeOK, ViewTypeOK
  <2> QED BY <2>1, <2>2, <2>3, <2>4 DEF Next, FastFrame, SlowFrame
<1> QED BY <1>1, <1>2, PTL DEF Spec

(***************************************************************************)
(* The stream of commands                                                  *)
(***************************************************************************)

\* The bytes of the commands of s from the one after i up to j.
Bytes(s, i, j) == Packets(SubSeq(s, i + 1, j))

PacketOf == [cmd \in Cmds |-> Packet(cmd)]
KnownOf == [cmd \in Cmds |-> IF cmd.id \in entries THEN <<cmd>> ELSE <<>>]

LEMMA PacketsAreImages ==
  ASSUME NEW s \in Seq(Cmds)
  PROVE  Packets(s) = Images(PacketOf, s) /\ Replaces(PacketOf, Cmds, Byte)
<1>1. Replaces(PacketOf, Cmds, Byte)
  BY PacketIsBytes DEF Replaces, PacketOf
<1>2. \A i \in DOMAIN s : s[i] \in Cmds
  BY LenProperties, ElementOfSeq
<1>3. [i \in DOMAIN s |-> Packet(s[i])] = ImageList(PacketOf, s)
  BY <1>2 DEF ImageList, PacketOf
<1> QED BY <1>1, <1>3 DEF Packets, Images

LEMMA KnownAreImages ==
  ASSUME NEW s \in Seq(Cmds)
  PROVE  Known(s) = Images(KnownOf, s) /\ Replaces(KnownOf, Cmds, Cmds)
<1>1. Replaces(KnownOf, Cmds, Cmds)
  BY EmptySeq DEF Replaces, KnownOf
<1>2. \A i \in DOMAIN s : s[i] \in Cmds
  BY LenProperties, ElementOfSeq
<1>3. [i \in DOMAIN s |-> IF s[i].id \in entries THEN <<s[i]>> ELSE <<>>]
        = ImageList(KnownOf, s)
  BY <1>2 DEF ImageList, KnownOf
<1> QED BY <1>1, <1>3 DEF Known, Images

\* A part of a sequence, cut in two, beginning at its own end, or with one
\* element.
LEMMA Segment ==
  ASSUME NEW S, NEW s \in Seq(S), NEW i \in 0..Len(s), NEW j \in i..Len(s)
  PROVE  /\ SubSeq(s, i + 1, j) \in Seq(S)
         /\ Len(SubSeq(s, i + 1, j)) = j - i
         /\ \A k \in 1..(j - i) : SubSeq(s, i + 1, j)[k] = s[i + k]
<1>1. \A k \in (i + 1)..j : s[k] \in S
  BY ElementOfSeq
<1>2. i + 1 \in Int /\ j \in Int /\ Len(s) \in Nat
  BY LenProperties
<1>3. /\ SubSeq(s, i + 1, j) \in Seq(S)
      /\ Len(SubSeq(s, i + 1, j)) = IF i + 1 <= j THEN j - (i + 1) + 1 ELSE 0
      /\ \A k \in 1..(j - (i + 1) + 1) : SubSeq(s, i + 1, j)[k] = s[i + 1 + k - 1]
  BY <1>1, <1>2, SubSeqProperties
<1>4. j - (i + 1) + 1 = j - i /\ \A k \in Int : i + 1 + k - 1 = i + k
  BY <1>2
<1> QED BY <1>2, <1>3, <1>4

LEMMA SegmentsJoin ==
  ASSUME NEW S, NEW s \in Seq(S), NEW i \in 0..Len(s), NEW j \in i..Len(s),
         NEW k \in j..Len(s)
  PROVE  SubSeq(s, i + 1, k) = SubSeq(s, i + 1, j) \o SubSeq(s, j + 1, k)
<1>1. PICK a : a = SubSeq(s, i + 1, j)
  OBVIOUS
<1>2. PICK b : b = SubSeq(s, j + 1, k)
  OBVIOUS
<1>3. PICK c : c = SubSeq(s, i + 1, k)
  OBVIOUS
<1>4. /\ i \in Nat /\ j \in Nat /\ k \in Nat /\ Len(s) \in Nat
      /\ j \in 0..Len(s) /\ k \in i..Len(s)
  BY LenProperties
<1>5. /\ a \in Seq(S) /\ Len(a) = j - i
      /\ \A m \in 1..(j - i) : a[m] = s[i + m]
  BY <1>1, Segment
<1>6. /\ b \in Seq(S) /\ Len(b) = k - j
      /\ \A m \in 1..(k - j) : b[m] = s[j + m]
  BY <1>2, <1>4, Segment
<1>7. /\ c \in Seq(S) /\ Len(c) = k - i
      /\ \A m \in 1..(k - i) : c[m] = s[i + m]
  BY <1>3, <1>4, Segment
<1>8. PICK d : d = a \o b
  OBVIOUS
<1>9. /\ d \in Seq(S) /\ Len(d) = Len(a) + Len(b)
      /\ \A m \in 1..(Len(a) + Len(b)) :
           d[m] = IF m <= Len(a) THEN a[m] ELSE b[m - Len(a)]
  BY <1>5, <1>6, <1>8, ConcatProperties
<1>10. Len(d) = Len(c)
  BY <1>4, <1>5, <1>6, <1>7, <1>9
<1>11. ASSUME NEW m \in 1..Len(c) PROVE c[m] = d[m]
  <2>1. m \in 1..(k - i) /\ m \in 1..(Len(a) + Len(b)) /\ c[m] = s[i + m]
    BY <1>4, <1>5, <1>6, <1>7
  <2>2. CASE m <= j - i
    <3>1. m \in 1..(j - i)
      BY <1>4, <2>1, <2>2
    <3>2. d[m] = a[m]
      BY <1>5, <1>9, <2>1, <2>2
    <3> QED BY <1>5, <2>1, <3>1, <3>2
  <2>3. CASE ~(m <= j - i)
    <3>1. m - (j - i) \in 1..(k - j) /\ j + (m - (j - i)) = i + m
      BY <1>4, <2>1, <2>3
    <3>2. d[m] = b[m - (j - i)]
      BY <1>5, <1>9, <2>1, <2>3
    <3>3. b[m - (j - i)] = s[j + (m - (j - i))]
      BY <1>6, <3>1
    <3> QED BY <2>1, <3>1, <3>2, <3>3
  <2> QED BY <2>2, <2>3
<1> QED BY <1>1, <1>2, <1>3, <1>7, <1>8, <1>9, <1>10, <1>11, SeqEqual

\* A first part of a longer sequence.
LEMMA SegmentOfAppend ==
  ASSUME NEW S, NEW s \in Seq(S), NEW e \in S, NEW i \in 0..Len(s),
         NEW j \in i..Len(s)
  PROVE  SubSeq(Append(s, e), i + 1, j) = SubSeq(s, i + 1, j)
<1>1. PICK t : t = Append(s, e)
  OBVIOUS
<1>2. /\ t \in Seq(S) /\ Len(t) = Len(s) + 1
      /\ \A m \in 1..Len(s) : t[m] = s[m]
  BY <1>1, AppendProperties
<1>3. /\ i \in Nat /\ j \in Nat /\ Len(s) \in Nat
      /\ i \in 0..Len(t) /\ j \in i..Len(t)
  BY <1>2, LenProperties
<1>4. PICK a : a = SubSeq(s, i + 1, j)
  OBVIOUS
<1>5. PICK b : b = SubSeq(t, i + 1, j)
  OBVIOUS
<1>6. /\ a \in Seq(S) /\ Len(a) = j - i
      /\ \A m \in 1..(j - i) : a[m] = s[i + m]
  BY <1>4, Segment
<1>7. /\ b \in Seq(S) /\ Len(b) = j - i
      /\ \A m \in 1..(j - i) : b[m] = t[i + m]
  BY <1>2, <1>3, <1>5, Segment
<1>8. ASSUME NEW m \in 1..Len(a) PROVE a[m] = b[m]
  <2>1. m \in 1..(j - i) /\ i + m \in 1..Len(s)
    BY <1>3, <1>6
  <2> QED BY <1>2, <1>6, <1>7, <2>1
<1> QED BY <1>1, <1>4, <1>5, <1>6, <1>7, <1>8, SeqEqual

LEMMA BytesIsBytes ==
  ASSUME NEW s \in Seq(Cmds), NEW i \in 0..Len(s), NEW j \in i..Len(s)
  PROVE  Bytes(s, i, j) \in Seq(Byte)
<1>1. PICK a : a = SubSeq(s, i + 1, j)
  OBVIOUS
<1>2. a \in Seq(Cmds)
  BY <1>1, Segment
<1>3. Packets(a) \in Seq(Byte)
  BY <1>2, PacketsAreImages, ImagesIsSeq
<1> QED BY <1>1, <1>3 DEF Bytes

LEMMA BytesNone ==
  ASSUME NEW s \in Seq(Cmds), NEW i \in 0..Len(s)
  PROVE  Bytes(s, i, i) = <<>>
<1>1. PICK a : a = SubSeq(s, i + 1, i)
  OBVIOUS
<1>2. i \in i..Len(s) /\ i - i = 0
  BY LenProperties
<1>3. a \in Seq(Cmds) /\ Len(a) = 0
  BY <1>1, <1>2, Segment
<1>4. a = <<>>
  BY <1>3, EmptySeq
<1>5. Packets(a) = <<>>
  BY <1>3, <1>4, PacketsAreImages, ImagesEmpty
<1> QED BY <1>1, <1>5 DEF Bytes

LEMMA BytesOne ==
  ASSUME NEW s \in Seq(Cmds), NEW i \in 0..(Len(s) - 1)
  PROVE  Bytes(s, i, i + 1) = Packet(s[i + 1]) /\ s[i + 1] \in Cmds
<1>1. PICK a : a = SubSeq(s, i + 1, i + 1)
  OBVIOUS
<1>2. /\ i \in 0..Len(s) /\ i + 1 \in i..Len(s) /\ i + 1 \in 1..Len(s)
      /\ i + 1 - i = 1
  BY LenProperties
<1>3. s[i + 1] \in Cmds
  BY <1>2, ElementOfSeq
<1>4. a \in Seq(Cmds) /\ Len(a) = 1 /\ \A k \in 1..1 : a[k] = s[i + k]
  BY <1>1, <1>2, Segment
<1>5. a = <<s[i + 1]>>
  <2>1. a[1] = s[i + 1]
    BY <1>4
  <2> QED BY <1>3, <1>4, <2>1, SeqEqual
<1>6. Packets(a) = Images(PacketOf, a) /\ Replaces(PacketOf, Cmds, Byte)
  BY <1>4, PacketsAreImages
<1>7. Images(PacketOf, <<s[i + 1]>>) = PacketOf[s[i + 1]]
  BY <1>3, <1>6, ImagesOne
<1>8. PacketOf[s[i + 1]] = Packet(s[i + 1])
  BY <1>3 DEF PacketOf
<1> QED BY <1>1, <1>3, <1>5, <1>6, <1>7, <1>8 DEF Bytes

LEMMA BytesJoin ==
  ASSUME NEW s \in Seq(Cmds), NEW i \in 0..Len(s), NEW j \in i..Len(s),
         NEW k \in j..Len(s)
  PROVE  Bytes(s, i, k) = Bytes(s, i, j) \o Bytes(s, j, k)
<1>1. PICK a : a = SubSeq(s, i + 1, j)
  OBVIOUS
<1>2. PICK b : b = SubSeq(s, j + 1, k)
  OBVIOUS
<1>3. PICK c : c = SubSeq(s, i + 1, k)
  OBVIOUS
<1>4. j \in 0..Len(s) /\ k \in i..Len(s)
  BY LenProperties
<1>5. a \in Seq(Cmds) /\ b \in Seq(Cmds) /\ c \in Seq(Cmds)
  BY <1>1, <1>2, <1>3, <1>4, Segment
<1>6. c = a \o b
  BY <1>1, <1>2, <1>3, SegmentsJoin
<1>7. /\ Packets(a) = Images(PacketOf, a) /\ Packets(b) = Images(PacketOf, b)
      /\ Packets(c) = Images(PacketOf, c) /\ Replaces(PacketOf, Cmds, Byte)
  BY <1>5, PacketsAreImages
<1>8. Images(PacketOf, a \o b) = Images(PacketOf, a) \o Images(PacketOf, b)
  BY <1>5, <1>7, ImagesConcat
<1> QED BY <1>1, <1>2, <1>3, <1>6, <1>7, <1>8 DEF Bytes

LEMMA BytesOfAppend ==
  ASSUME NEW s \in Seq(Cmds), NEW e \in Cmds, NEW i \in 0..Len(s),
         NEW j \in i..Len(s)
  PROVE  Bytes(Append(s, e), i, j) = Bytes(s, i, j)
BY SegmentOfAppend DEF Bytes

LEMMA KnownEmpty == Known(<<>>) = <<>>
<1>1. <<>> \in Seq(Cmds)
  BY EmptySeq
<1> QED BY <1>1, KnownAreImages, ImagesEmpty

LEMMA KnownNext ==
  ASSUME NEW s \in Seq(Cmds), NEW i \in 0..(Len(s) - 1)
  PROVE  Known(SubSeq(s, 1, i + 1)) =
           IF s[i + 1].id \in entries THEN Append(Known(SubSeq(s, 1, i)), s[i + 1])
                                      ELSE Known(SubSeq(s, 1, i))
<1>1. PICK a : a = SubSeq(s, 1, i)
  OBVIOUS
<1>2. PICK b : b = SubSeq(s, 1, i + 1)
  OBVIOUS
<1>3. PICK c : c = s[i + 1]
  OBVIOUS
<1>4. /\ i \in Nat /\ Len(s) \in Nat /\ 0 \in 0..Len(s) /\ i \in 0..Len(s)
      /\ i + 1 \in 0..Len(s) /\ i + 1 \in 1..Len(s) /\ 0 + 1 = 1
  BY LenProperties
<1>5. c \in Cmds
  BY <1>3, <1>4, ElementOfSeq
<1>6. a \in Seq(Cmds) /\ Len(a) = i /\ \A m \in 1..i : a[m] = s[m]
  <2>1. /\ SubSeq(s, 0 + 1, i) \in Seq(Cmds) /\ Len(SubSeq(s, 0 + 1, i)) = i - 0
        /\ \A m \in 1..(i - 0) : SubSeq(s, 0 + 1, i)[m] = s[0 + m]
    BY <1>4, Segment
  <2> QED BY <1>1, <1>4, <2>1
<1>7. b \in Seq(Cmds) /\ Len(b) = i + 1 /\ \A m \in 1..(i + 1) : b[m] = s[m]
  <2>1. /\ SubSeq(s, 0 + 1, i + 1) \in Seq(Cmds)
        /\ Len(SubSeq(s, 0 + 1, i + 1)) = i + 1 - 0
        /\ \A m \in 1..(i + 1 - 0) : SubSeq(s, 0 + 1, i + 1)[m] = s[0 + m]
    BY <1>4, Segment
  <2> QED BY <1>2, <1>4, <2>1
<1>8. b = Append(a, c)
  <2>1. PICK d : d = Append(a, c)
    OBVIOUS
  <2>2. /\ d \in Seq(Cmds) /\ Len(d) = i + 1 /\ d[i + 1] = c
        /\ \A m \in 1..i : d[m] = a[m]
    BY <2>1, <1>5, <1>6, AppendProperties
  <2>3. ASSUME NEW m \in 1..Len(b) PROVE b[m] = d[m]
    <3>1. m \in 1..(i + 1) /\ (m \in 1..i \/ m = i + 1)
      BY <1>4, <1>7
    <3> QED BY <1>3, <1>6, <1>7, <2>2, <3>1
  <2> QED BY <1>7, <2>1, <2>2, <2>3, SeqEqual
<1>9. /\ Known(a) = Images(KnownOf, a) /\ Known(b) = Images(KnownOf, b)
      /\ Replaces(KnownOf, Cmds, Cmds)
  BY <1>6, <1>7, KnownAreImages
<1>10. Images(KnownOf, Append(a, c)) = Images(KnownOf, a) \o KnownOf[c]
  BY <1>5, <1>6, <1>9, ImagesAppend
<1>11. Known(a) \in Seq(Cmds)
  BY <1>6, <1>9, ImagesIsSeq
<1>12. Known(b) = Known(a) \o KnownOf[c]
  BY <1>8, <1>9, <1>10
<1>13. CASE c.id \in entries
  <2>1. KnownOf[c] = <<c>>
    BY <1>5, <1>13 DEF KnownOf
  <2>2. Known(a) \o <<c>> = Append(Known(a), c)
    BY <1>5, <1>11
  <2> QED BY <1>1, <1>2, <1>3, <1>12, <1>13, <2>1, <2>2
<1>14. CASE c.id \notin entries
  <2>1. KnownOf[c] = <<>>
    BY <1>5, <1>14 DEF KnownOf
  <2>2. Known(a) \o <<>> = Known(a)
    BY <1>11, ConcatEmptySeq
  <2> QED BY <1>1, <1>2, <1>3, <1>12, <1>14, <2>1, <2>2
<1> QED BY <1>13, <1>14

LEMMA TwoStrings ==
  ASSUME NEW s \in Seq(Byte), NEW t \in Seq(Byte)
  PROVE  /\ s \o t \in Seq(Byte) /\ Len(s \o t) = Len(s) + Len(t)
         /\ \A i \in 1..Len(s) : (s \o t)[i] = s[i]
BY ConcatProperties

\* What the dispatcher finds at the beginning of a string of commands: the
\* size and the id of the first, and that command; and what it leaves.
LEMMA FirstCommand ==
  ASSUME NEW cmd \in Cmds, NEW rest \in Seq(Byte), NEW bytes
  PROVE  bytes = Packet(cmd) \o rest =>
         /\ bytes \in Seq(Byte) /\ Len(bytes) >= 2
         /\ bytes[1] = Len(Packet(cmd)) /\ Len(Packet(cmd)) \in Nat
         /\ Len(Packet(cmd)) >= 2
         /\ bytes[2] = cmd.id /\ cmd.id \in Ids
         /\ Unpack(cmd.id, Behind(bytes, 2)) = cmd
         /\ AfterUnpack(cmd.id, Behind(bytes, 2)) = rest
         /\ cmd.id = 0 => Behind(bytes, 2) = rest
<1>0. SUFFICES ASSUME bytes = Packet(cmd) \o rest
      PROVE  /\ bytes \in Seq(Byte) /\ Len(bytes) >= 2
             /\ bytes[1] = Len(Packet(cmd)) /\ Len(Packet(cmd)) \in Nat
             /\ Len(Packet(cmd)) >= 2
             /\ bytes[2] = cmd.id /\ cmd.id \in Ids
             /\ Unpack(cmd.id, Behind(bytes, 2)) = cmd
             /\ AfterUnpack(cmd.id, Behind(bytes, 2)) = rest
             /\ cmd.id = 0 => Behind(bytes, 2) = rest
  BY <1>0
<1> DEFINE head == <<SizeByte(cmd), cmd.id>>
<1>1. cmd = CmdNone \/ cmd \in [id : {1}, l_speed : Int16, r_speed : Int16]
  BY CmdsAssumption DEF AnyCmd, CmdsWith
<1>2. Packet(cmd) \in Seq(Byte)
  BY PacketIsBytes
<1>3. PICK p : p = pack(cmd)
  OBVIOUS
<1>4. \/ cmd = CmdNone /\ cmd.id = 0 /\ p = <<>>
      \/ /\ cmd # CmdNone /\ cmd.id = 1
         /\ cmd.l_speed \in Int16 /\ cmd.r_speed \in Int16
         /\ cmd = CmdMotorSetSpeed(cmd.l_speed, cmd.r_speed)
         /\ p = ToBytes(cmd.l_speed) \o ToBytes(cmd.r_speed)
  <2>1. CASE cmd = CmdNone
    BY <1>3, <2>1 DEF pack, CmdNone
  <2>2. CASE cmd # CmdNone
    BY <1>1, <1>3, <2>2 DEF pack, CmdMotorSetSpeed
  <2> QED BY <2>1, <2>2
<1>5. /\ p \in Seq(Byte) /\ Len(p) = IF cmd.id = 0 THEN 0 ELSE 4
      /\ cmd.id \in Ids /\ cmd.id \in Byte
  <2>1. CASE cmd.id = 0
    BY <1>4, <2>1, EmptySeq DEF Ids, Byte
  <2>2. CASE cmd.id # 0
    <3>1. cmd.l_speed \in Int /\ cmd.r_speed \in Int /\ cmd.id = 1
      BY <1>4, <2>2, Int16IsInt
    <3>2. /\ ToBytes(cmd.l_speed) \in Seq(Byte) /\ Len(ToBytes(cmd.l_speed)) = 2
          /\ ToBytes(cmd.r_speed) \in Seq(Byte) /\ Len(ToBytes(cmd.r_speed)) = 2
      BY <3>1, ToBytesIsBytes
    <3>3. p = ToBytes(cmd.l_speed) \o ToBytes(cmd.r_speed)
      BY <1>4, <2>2
    <3>4. p \in Seq(Byte) /\ Len(p) = 4
      <4>1. /\ ToBytes(cmd.l_speed) \o ToBytes(cmd.r_speed) \in Seq(Byte)
            /\ Len(ToBytes(cmd.l_speed) \o ToBytes(cmd.r_speed))
                 = Len(ToBytes(cmd.l_speed)) + Len(ToBytes(cmd.r_speed))
        BY <3>2, TwoStrings
      <4> QED BY <3>2, <3>3, <4>1
    <3> QED BY <3>1, <3>4 DEF Ids, Byte
  <2> QED BY <2>1, <2>2
<1>6. SizeByte(cmd) = 2 + Len(p) /\ SizeByte(cmd) \in Byte
  <2>1. 2 + Len(p) \in {2, 6}
    BY <1>5
  <2>2. (2 + Len(p)) % 256 = 2 + Len(p)
    BY <2>1
  <2> QED BY <1>3, <2>1, <2>2 DEF SizeByte, Byte
<1>7. /\ head \in Seq(Byte) /\ Len(head) = 2
      /\ head[1] = SizeByte(cmd) /\ head[2] = cmd.id
  BY <1>5, <1>6
<1>8. Packet(cmd) = head \o p
  BY <1>3 DEF Packet
<1> HIDE DEF head
<1>9. Len(Packet(cmd)) = 2 + Len(p)
  <2>1. Len(head \o p) = Len(head) + Len(p)
    BY <1>5, <1>7, TwoStrings
  <2> QED BY <1>7, <1>8, <2>1
<1>10. PICK tail : tail = p \o rest
  OBVIOUS
<1>11. tail \in Seq(Byte) /\ Len(tail) = Len(p) + Len(rest)
  BY <1>5, <1>10, ConcatProperties
<1>12. bytes = head \o tail
  <2>1. (head \o p) \o rest = head \o (p \o rest)
    BY <1>5, <1>7, ConcatAssociative
  <2> QED BY <1>0, <1>8, <1>10, <2>1
<1>13. /\ bytes \in Seq(Byte) /\ Len(bytes) = 2 + Len(tail)
       /\ bytes[1] = SizeByte(cmd) /\ bytes[2] = cmd.id
  <2>1. /\ head \o tail \in Seq(Byte) /\ Len(head \o tail) = Len(head) + Len(tail)
        /\ \A i \in 1..Len(head) : (head \o tail)[i] = head[i]
    BY <1>7, <1>11, TwoStrings
  <2> QED BY <1>7, <1>12, <2>1
<1>14. Behind(bytes, 2) = tail
  BY <1>7, <1>11, <1>12, BehindFirst
<1>15. CASE cmd.id = 0
  <2>1. cmd = CmdNone /\ p = <<>>
    BY <1>4, <1>15
  <2>2. tail = rest
    BY <1>10, <2>1, ConcatEmptySeq
  <2>3. Unpack(cmd.id, tail) = cmd /\ AfterUnpack(cmd.id, tail) = rest
    BY <1>15, <2>1, <2>2 DEF Unpack, AfterUnpack
  <2> QED BY <1>5, <1>6, <1>9, <1>11, <1>13, <1>14, <2>2, <2>3
<1>16. CASE cmd.id # 0
  <2>1. PICK l : l = ToBytes(cmd.l_speed)
    OBVIOUS
  <2>2. PICK r : r = ToBytes(cmd.r_speed)
    OBVIOUS
  <2>3. /\ cmd.l_speed \in Int16 /\ cmd.r_speed \in Int16
        /\ cmd = CmdMotorSetSpeed(cmd.l_speed, cmd.r_speed) /\ p = l \o r
    BY <1>4, <1>16, <2>1, <2>2
  <2>4. l \in Seq(Byte) /\ Len(l) = 2 /\ r \in Seq(Byte) /\ Len(r) = 2
    BY <2>1, <2>2, <2>3, Int16IsInt, ToBytesIsBytes
  <2>5. PICK after : after = r \o rest
    OBVIOUS
  <2>6. after \in Seq(Byte) /\ Len(after) = 2 + Len(rest) /\ tail = l \o after
    <3>1. after \in Seq(Byte) /\ Len(after) = 2 + Len(rest)
      <4>1. r \o rest \in Seq(Byte) /\ Len(r \o rest) = Len(r) + Len(rest)
        BY <2>4, TwoStrings
      <4> QED BY <2>4, <2>5, <4>1
    <3>2. (l \o r) \o rest = l \o (r \o rest)
      BY <2>4, ConcatAssociative
    <3> QED BY <1>10, <2>3, <2>5, <3>1, <3>2
  <2>7. AfterRead(tail) = after
    <3>1. Behind(tail, 2) = after
      BY <2>4, <2>6, BehindFirst
    <3>2. Len(tail) >= 2
      BY <2>4, <2>6, ConcatProperties
    <3> QED BY <3>1, <3>2 DEF AfterRead, Fits
  <2>8. AfterRead(after) = rest
    <3>1. Behind(after, 2) = rest
      BY <2>4, <2>5, BehindFirst
    <3> QED BY <2>6, <3>1, LenProperties DEF AfterRead, Fits
  <2>9. Value(tail) = cmd.l_speed
    <3>1. tail[1] = l[1] /\ tail[2] = l[2] /\ Len(tail) >= 2
      BY <2>4, <2>6, ConcatProperties
    <3>2. FromBytes(tail) = FromBytes(l)
      BY <3>1 DEF FromBytes
    <3>3. FromBytes(l) = cmd.l_speed
      BY <2>1, <2>3, RoundTrip
    <3> QED BY <3>1, <3>2, <3>3 DEF Value, Fits
  <2>10. Value(after) = cmd.r_speed
    <3>1. after[1] = r[1] /\ after[2] = r[2] /\ Len(after) >= 2
      BY <2>4, <2>5, <2>6, ConcatProperties
    <3>2. FromBytes(after) = FromBytes(r)
      BY <3>1 DEF FromBytes
    <3>3. FromBytes(r) = cmd.r_speed
      BY <2>2, <2>3, RoundTrip
    <3> QED BY <3>1, <3>2, <3>3 DEF Value, Fits
  <2>11. Unpack(cmd.id, tail) = cmd
    BY <1>16, <2>3, <2>7, <2>9, <2>10 DEF Unpack
  <2>12. AfterUnpack(cmd.id, tail) = rest
    BY <1>16, <2>7, <2>8 DEF AfterUnpack
  <2> QED BY <1>5, <1>6, <1>9, <1>11, <1>13, <1>14, <1>16, <2>11, <2>12
<1> QED BY <1>15, <1>16

\* As long as nothing went astray, what is in the archive and what is in the
\* stream are commands that were sent and not dispatched, up to e and from
\* there on, and the others were executed.
ReceivedInv ==
  \E e \in dispatched..Len(sent) :
    /\ archive = Bytes(sent, dispatched, e)
    /\ stream = Bytes(sent, e, Len(sent))

ExecutedInv == executed = Known(SubSeq(sent, 1, dispatched))

CommandInv == ~astray => ReceivedInv /\ ExecutedInv

LEMMA BeginOfFirst ==
  ASSUME NEW s \in Seq(Byte), NEW t \in Seq(Byte)
  PROVE  SubSeq(s \o t, 1, Len(s)) = s
<1>1. PICK u : u = s \o t
  OBVIOUS
<1>2. /\ u \in Seq(Byte) /\ Len(u) = Len(s) + Len(t)
      /\ \A i \in 1..Len(s) : u[i] = s[i]
  <2>1. /\ s \o t \in Seq(Byte) /\ Len(s \o t) = Len(s) + Len(t)
        /\ \A i \in 1..Len(s) : (s \o t)[i] = s[i]
    BY TwoStrings
  <2> QED BY <1>1, <2>1
<1>3. /\ Len(s) \in Nat /\ 0 \in 0..Len(u) /\ Len(s) \in 0..Len(u) /\ 0 + 1 = 1
      /\ Len(s) - 0 = Len(s) /\ \A i \in 1..Len(s) : 0 + i = i
  BY <1>2, LenProperties
<1>4. PICK v : v = SubSeq(u, 0 + 1, Len(s))
  OBVIOUS
<1>5. /\ v \in Seq(Byte) /\ Len(v) = Len(s) - 0
      /\ \A i \in 1..(Len(s) - 0) : v[i] = u[0 + i]
  BY <1>2, <1>3, <1>4, Segment
<1>6. \A i \in 1..Len(v) : v[i] = s[i]
  BY <1>2, <1>3, <1>5
<1>7. v = s
  BY <1>3, <1>5, <1>6, SeqEqual
<1> QED BY <1>1, <1>3, <1>4, <1>7

\* A command has two bytes at least.
LEMMA BytesGrow ==
  ASSUME NEW s \in Seq(Cmds), NEW i \in 0..Len(s), NEW j \in i..Len(s), i < j
  PROVE  /\ Bytes(s, i, j) = Packet(s[i + 1]) \o Bytes(s, i + 1, j)
         /\ Bytes(s, i + 1, j) \in Seq(Byte) /\ s[i + 1] \in Cmds
         /\ Len(Bytes(s, i, j)) >= 2 /\ Bytes(s, i, j) # <<>>
<1>1. /\ i \in 0..(Len(s) - 1) /\ i + 1 \in i..Len(s) /\ i + 1 \in 0..Len(s)
      /\ j \in (i + 1)..Len(s)
  BY LenProperties
<1>2. Bytes(s, i, i + 1) = Packet(s[i + 1]) /\ s[i + 1] \in Cmds
  BY <1>1, BytesOne
<1>3. Bytes(s, i, j) = Bytes(s, i, i + 1) \o Bytes(s, i + 1, j)
  BY <1>1, BytesJoin
<1>4. PICK rest : rest = Bytes(s, i + 1, j)
  OBVIOUS
<1>5. rest \in Seq(Byte)
  BY <1>1, <1>4, BytesIsBytes
<1>6. PICK b : b = Bytes(s, i, j)
  OBVIOUS
<1>7. b = Packet(s[i + 1]) \o rest
  BY <1>2, <1>3, <1>4, <1>6
<1>8. b \in Seq(Byte) /\ Len(b) >= 2
  BY <1>2, <1>5, <1>7, FirstCommand
<1>9. b # <<>>
  BY <1>8, EmptySeq
<1> QED BY <1>2, <1>4, <1>5, <1>6, <1>7, <1>8, <1>9

LEMMA ReceivedPlace ==
  ASSUME CommandsTypeOK, ReceivedInv
  PROVE  \E e \in dispatched..Len(sent) :
           /\ archive = Bytes(sent, dispatched, e)
           /\ stream = Bytes(sent, e, Len(sent))
           /\ sent \in Seq(Cmds) /\ Len(sent) \in Nat
           /\ dispatched \in 0..Len(sent) /\ e \in 0..Len(sent)
           /\ Len(sent) \in e..Len(sent)
<1>1. sent \in Seq(Cmds) /\ dispatched \in Nat
  BY DEF CommandsTypeOK
<1>2. Len(sent) \in Nat
  BY <1>1, LenProperties
<1>3. PICK e \in dispatched..Len(sent) :
        /\ archive = Bytes(sent, dispatched, e)
        /\ stream = Bytes(sent, e, Len(sent))
  BY DEF ReceivedInv
<1>4. /\ dispatched \in 0..Len(sent) /\ e \in 0..Len(sent)
      /\ Len(sent) \in e..Len(sent)
  BY <1>1, <1>2, <1>3
<1> QED BY <1>1, <1>2, <1>3, <1>4

\* The send adds its command to the stream.
LEMMA SendKeepsCommands ==
  ASSUME CommandsTypeOK, ReceivedInv, ExecutedInv, NEW cmd \in Cmds,
         send_cmd(cmd)
  PROVE  ReceivedInv' /\ ExecutedInv'
<1>1. PICK e \in dispatched..Len(sent) :
        /\ archive = Bytes(sent, dispatched, e)
        /\ stream = Bytes(sent, e, Len(sent))
        /\ sent \in Seq(Cmds) /\ Len(sent) \in Nat
        /\ dispatched \in 0..Len(sent) /\ e \in 0..Len(sent)
        /\ Len(sent) \in e..Len(sent)
  BY ReceivedPlace
<1>2. /\ sent' = Append(sent, cmd) /\ stream' = stream \o Packet(cmd)
      /\ archive' = archive /\ dispatched' = dispatched /\ executed' = executed
      /\ entries' = entries
  BY DEF send_cmd
<1>3. PICK n : n = Len(sent)
  OBVIOUS
<1>4. PICK s : s = Append(sent, cmd)
  OBVIOUS
<1>5. s \in Seq(Cmds) /\ Len(s) = n + 1 /\ s[n + 1] = cmd
  BY <1>1, <1>3, <1>4, AppendProperties
<1>6. Bytes(s, dispatched, e) = Bytes(sent, dispatched, e)
  BY <1>1, <1>4, BytesOfAppend
<1>7. Bytes(s, e, n) = Bytes(sent, e, n)
  BY <1>1, <1>3, <1>4, BytesOfAppend
<1>8. /\ n \in 0..(Len(s) - 1) /\ e \in 0..Len(s) /\ n \in e..Len(s)
      /\ n + 1 \in n..Len(s) /\ e \in dispatched..Len(s)
  BY <1>1, <1>3, <1>5
<1>9. Bytes(s, n, n + 1) = Packet(cmd)
  BY <1>5, <1>8, BytesOne
<1>10. Bytes(s, e, n + 1) = Bytes(s, e, n) \o Bytes(s, n, n + 1)
  BY <1>5, <1>8, BytesJoin
<1>11. stream' = Bytes(s, e, Len(s))
  BY <1>1, <1>2, <1>3, <1>5, <1>7, <1>9, <1>10
<1>12. ReceivedInv'
  BY <1>1, <1>2, <1>4, <1>6, <1>8, <1>11 DEF ReceivedInv
<1>13. SubSeq(s, 1, dispatched) = SubSeq(sent, 1, dispatched)
  <2>1. 0 \in 0..Len(sent) /\ dispatched \in 0..Len(sent) /\ 0 + 1 = 1
    BY <1>1
  <2>2. SubSeq(s, 0 + 1, dispatched) = SubSeq(sent, 0 + 1, dispatched)
    BY <1>1, <1>4, <2>1, SegmentOfAppend
  <2> QED BY <2>1, <2>2
<1>14. ExecutedInv'
  BY <1>2, <1>4, <1>13 DEF ExecutedInv, Known
<1> QED BY <1>12, <1>14

\* Functions are registered before anything is dispatched.
LEMMA RegisterKeepsCommands ==
  ASSUME CommandsTypeOK, ReceivedInv, ExecutedInv, NEW id \in Ids,
         register_command(id)
  PROVE  ReceivedInv' /\ ExecutedInv'
<1>1. /\ sent' = sent /\ stream' = stream /\ archive' = archive
      /\ dispatched' = dispatched /\ executed' = executed /\ dispatched = 0
  BY DEF register_command
<1>2. ReceivedInv'
  BY <1>1 DEF ReceivedInv, Bytes
<1>3. SubSeq(sent, 1, 0) = <<>>
  <2>1. sent \in Seq(Cmds)
    BY DEF CommandsTypeOK
  <2>2. /\ Len(sent) \in Nat /\ 0 \in 0..Len(sent) /\ 0 + 1 = 1 /\ 0 - 0 = 0
    BY <2>1, LenProperties
  <2>3. SubSeq(sent, 0 + 1, 0) \in Seq(Cmds) /\ Len(SubSeq(sent, 0 + 1, 0)) = 0 - 0
    BY <2>1, <2>2, Segment
  <2> QED BY <2>2, <2>3, EmptySeq
<1>4. Known(<<>>) = <<>>
  BY KnownEmpty
<1>5. Known(<<>>)' = <<>>
  <2>1. [i \in DOMAIN <<>> |-> IF <<>>[i].id \in entries' THEN <<<<>>[i]>> ELSE <<>>] = <<>>
    OBVIOUS
  <2> QED BY <2>1, FlattenEmpty DEF Known
<1>6. ExecutedInv'
  BY <1>1, <1>3, <1>4, <1>5 DEF ExecutedInv
<1> QED BY <1>2, <1>6

\* An archive that ends where a command ends leaves a command at the beginning
\* of the stream.
LEMMA ReceiveKeepsCommands ==
  ASSUME CommandsTypeOK, ReceivedInv, ExecutedInv, archive = <<>>,
         NEW i \in dispatched..Len(sent),
         archive' = Bytes(sent, dispatched, i),
         stream' = Bytes(sent, i, Len(sent)),
         UNCHANGED <<sent, entries, dispatched, executed>>
  PROVE  ReceivedInv' /\ ExecutedInv'
<1>1. ReceivedInv'
  BY DEF ReceivedInv, Bytes
<1>2. ExecutedInv'
  BY DEF ExecutedInv, Known
<1> QED BY <1>1, <1>2

\* With an empty archive everything not dispatched is in the stream.
LEMMA EmptyArchive ==
  ASSUME CommandsTypeOK, ReceivedInv, archive = <<>>
  PROVE  /\ stream = Bytes(sent, dispatched, Len(sent)) /\ sent \in Seq(Cmds)
         /\ dispatched \in 0..Len(sent) /\ Len(sent) \in dispatched..Len(sent)
         /\ Len(sent) \in Nat /\ stream \in Seq(Byte)
<1>1. PICK e \in dispatched..Len(sent) :
        /\ archive = Bytes(sent, dispatched, e)
        /\ stream = Bytes(sent, e, Len(sent))
        /\ sent \in Seq(Cmds) /\ Len(sent) \in Nat
        /\ dispatched \in 0..Len(sent) /\ e \in 0..Len(sent)
        /\ Len(sent) \in e..Len(sent)
  BY ReceivedPlace
<1>2. dispatched \in Nat /\ e \in Nat /\ dispatched <= e
  BY <1>1
<1>3. ~(dispatched < e)
  <2> SUFFICES ASSUME dispatched < e PROVE FALSE
    OBVIOUS
  <2>1. Bytes(sent, dispatched, e) # <<>>
    BY <1>1, BytesGrow
  <2> QED BY <1>1, <2>1
<1>4. e = dispatched
  BY <1>2, <1>3
<1> QED BY <1>1, <1>4 DEF CommandsTypeOK

LEMMA ReceiveBySizeKeepsCommands ==
  ASSUME CommandsTypeOK, ReceivedInv, ExecutedInv, ReceiveBySize
  PROVE  ReceivedInv' /\ ExecutedInv'
<1>1. /\ archive = <<>> /\ stream # <<>>
      /\ archive' = SubSeq(stream, 1, stream[1])
      /\ stream' = Behind(stream, stream[1])
      /\ UNCHANGED <<sent, entries, dispatched, executed>>
  BY DEF ReceiveBySize, Receive
<1>2. PICK d : d = dispatched
  OBVIOUS
<1>3. PICK n : n = Len(sent)
  OBVIOUS
<1>4. /\ stream = Bytes(sent, d, n) /\ sent \in Seq(Cmds) /\ n \in Nat
      /\ d \in 0..n /\ n \in d..n /\ stream \in Seq(Byte)
  BY <1>1, <1>2, <1>3, EmptyArchive
<1>5. d < n
  <2>1. d # n
    <3> SUFFICES ASSUME d = n PROVE FALSE
      OBVIOUS
    <3>1. Bytes(sent, d, d) = <<>>
      BY <1>3, <1>4, BytesNone
    <3> QED BY <1>1, <1>4, <3>1
  <2> QED BY <1>4, <2>1
<1>6. /\ stream = Packet(sent[d + 1]) \o Bytes(sent, d + 1, n)
      /\ Bytes(sent, d + 1, n) \in Seq(Byte) /\ sent[d + 1] \in Cmds
  BY <1>3, <1>4, <1>5, BytesGrow
<1>7. PICK rest : rest = Bytes(sent, d + 1, n)
  OBVIOUS
<1>8. PICK first : first = Packet(sent[d + 1])
  OBVIOUS
<1>9. first \in Seq(Byte) /\ rest \in Seq(Byte) /\ stream = first \o rest
  BY <1>6, <1>7, <1>8, PacketIsBytes
<1>10. stream[1] = Len(first)
  <2>1. stream = Packet(sent[d + 1]) \o rest
    BY <1>8, <1>9
  <2> QED BY <1>6, <1>8, <1>9, <2>1, FirstCommand
<1>11. SubSeq(first \o rest, 1, Len(first)) = first
  BY <1>9, BeginOfFirst
<1>12. Behind(first \o rest, Len(first)) = rest
  BY <1>9, BehindFirst
<1>13. archive' = first /\ stream' = rest
  BY <1>1, <1>9, <1>10, <1>11, <1>12
<1>14. d \in 0..(n - 1) /\ d + 1 \in d..n
  BY <1>4, <1>5
<1>15. Bytes(sent, d, d + 1) = first
  BY <1>3, <1>4, <1>8, <1>14, BytesOne
<1> QED
  BY <1>1, <1>2, <1>3, <1>7, <1>13, <1>14, <1>15, ReceiveKeepsCommands

\* The rest of a stream that is a number of whole commands begins where one of
\* those sent begins, and so the archive ends there.
LEMMA ReceiveRawKeepsCommands ==
  ASSUME CommandsTypeOK, ReceivedInv, ExecutedInv, NEW m \in Int, Receive(m),
         Between(m)
  PROVE  ReceivedInv' /\ ExecutedInv'
<1>1. /\ archive = <<>> /\ m \in 1..Len(stream)
      /\ archive' = SubSeq(stream, 1, m) /\ stream' = Behind(stream, m)
      /\ UNCHANGED <<sent, entries, dispatched, executed>>
  BY DEF Receive
<1>2. PICK d : d = dispatched
  OBVIOUS
<1>3. PICK n : n = Len(sent)
  OBVIOUS
<1>4. /\ stream = Bytes(sent, d, n) /\ sent \in Seq(Cmds) /\ n \in Nat
      /\ d \in 0..n /\ n \in d..n /\ stream \in Seq(Byte)
  BY <1>1, <1>2, <1>3, EmptyArchive
<1>5. PICK i \in 0..n : Behind(stream, m) = Bytes(sent, i, n)
  BY <1>3 DEF Between, Bytes
<1>6. PICK l : l = Len(stream)
  OBVIOUS
<1>7. l \in Nat /\ m \in 1..l /\ 1 <= m /\ m <= l
  BY <1>1, <1>4, <1>6, LenProperties
<1>8. Len(Behind(stream, m)) = l - m
  <2>1. m \in 0..Len(stream) /\ Len(stream) \in m..Len(stream)
    BY <1>6, <1>7
  <2>2. Len(SubSeq(stream, m + 1, Len(stream))) = Len(stream) - m
    BY <1>4, <2>1, Segment
  <2> QED BY <1>6, <2>2 DEF Behind
<1>9. n \in i..n /\ Bytes(sent, i, n) \in Seq(Byte)
  <2>1. n \in i..n
    BY <1>4
  <2> QED BY <1>3, <1>4, <2>1, BytesIsBytes
<1>10. d <= i
  <2> SUFFICES ASSUME i < d PROVE FALSE
    BY <1>4
  <2>1. d \in i..n
    BY <1>4
  <2>2. Bytes(sent, i, n) = Bytes(sent, i, d) \o Bytes(sent, d, n)
    BY <1>3, <1>4, <2>1, BytesJoin
  <2>3. PICK a : a = Bytes(sent, i, d)
    OBVIOUS
  <2>4. a \in Seq(Byte)
    BY <1>3, <1>4, <2>1, <2>3, BytesIsBytes
  <2>5. Len(a \o stream) = Len(a) + Len(stream)
    BY <1>4, <2>4, TwoStrings
  <2>6. Len(a) \in Nat
    BY <2>4, LenProperties
  <2>7. l - m = Len(a) + l
    BY <1>4, <1>5, <1>6, <1>8, <2>2, <2>3, <2>5
  <2> QED BY <1>7, <2>6, <2>7
<1>11. i \in d..n
  BY <1>4, <1>10
<1>12. PICK a : a = Bytes(sent, d, i)
  OBVIOUS
<1>13. PICK rest : rest = Bytes(sent, i, n)
  OBVIOUS
<1>14. a \in Seq(Byte) /\ rest \in Seq(Byte)
  BY <1>3, <1>4, <1>9, <1>11, <1>12, <1>13, BytesIsBytes
<1>15. Bytes(sent, d, n) = Bytes(sent, d, i) \o Bytes(sent, i, n)
  BY <1>3, <1>4, <1>9, <1>11, BytesJoin
<1>16. stream = a \o rest
  BY <1>4, <1>12, <1>13, <1>15
<1>17. m = Len(a)
  <2>1. Len(a \o rest) = Len(a) + Len(rest)
    BY <1>14, TwoStrings
  <2>2. Len(rest) = l - m
    BY <1>5, <1>8, <1>13
  <2>3. Len(a) \in Nat
    BY <1>14, LenProperties
  <2>4. l = Len(a) + (l - m)
    BY <1>6, <1>16, <2>1, <2>2
  <2> QED BY <1>7, <2>3, <2>4
<1>18. SubSeq(a \o rest, 1, Len(a)) = a
  BY <1>14, BeginOfFirst
<1>19. archive' = Bytes(sent, d, i) /\ stream' = Bytes(sent, i, n)
  BY <1>1, <1>5, <1>12, <1>16, <1>17, <1>18
<1> QED
  BY <1>1, <1>2, <1>3, <1>11, <1>19, ReceiveKeepsCommands

\* The dispatcher takes the first command and leaves the others.
LEMMA DispatchKeepsCommands ==
  ASSUME CommandsTypeOK, ReceivedInv, ExecutedInv, dispatch_from_archive,
         ~astray'
  PROVE  ReceivedInv' /\ ExecutedInv'
<1>1. PICK e \in dispatched..Len(sent) :
        /\ archive = Bytes(sent, dispatched, e)
        /\ stream = Bytes(sent, e, Len(sent))
        /\ sent \in Seq(Cmds) /\ Len(sent) \in Nat
        /\ dispatched \in 0..Len(sent) /\ e \in 0..Len(sent)
        /\ Len(sent) \in e..Len(sent)
  BY ReceivedPlace
<1>2. PICK d : d = dispatched
  OBVIOUS
<1>3. PICK n : n = Len(sent)
  OBVIOUS
<1>4. /\ archive # <<>> /\ dispatched' = d + 1
      /\ UNCHANGED <<sent, stream, entries>>
  BY <1>2 DEF dispatch_from_archive
<1>5. d \in Nat /\ e \in Nat /\ n \in Nat /\ d < e /\ e <= n /\ d \in 0..n
  <2>1. d # e
    <3> SUFFICES ASSUME d = e PROVE FALSE
      OBVIOUS
    <3>1. Bytes(sent, d, d) = <<>>
      BY <1>1, <1>2, BytesNone
    <3> QED BY <1>1, <1>2, <1>4, <3>1
  <2> QED BY <1>1, <1>2, <1>3, <2>1
<1>6. PICK cmd : cmd = sent[d + 1]
  OBVIOUS
<1>7. PICK rest : rest = Bytes(sent, d + 1, e)
  OBVIOUS
<1>8. archive = Packet(cmd) \o rest /\ rest \in Seq(Byte) /\ cmd \in Cmds
  BY <1>1, <1>2, <1>5, <1>6, <1>7, BytesGrow
<1>9. /\ archive \in Seq(Byte) /\ Len(archive) >= 2
      /\ archive[2] = cmd.id
      /\ Unpack(cmd.id, Behind(archive, 2)) = cmd
      /\ AfterUnpack(cmd.id, Behind(archive, 2)) = rest
      /\ cmd.id = 0 => Behind(archive, 2) = rest
  BY <1>8, FirstCommand
<1>10. Len(archive) > 1
  BY <1>9, LenProperties
<1>11. /\ archive' = rest
       /\ executed' = IF cmd.id \in entries THEN Append(executed, cmd) ELSE executed
  <2>1. CASE cmd.id \in entries
    BY <1>9, <1>10, <2>1 DEF dispatch_from_archive
  <2>2. CASE cmd.id \notin entries
    <3>1. /\ archive' = Behind(archive, 2) /\ executed' = executed
          /\ astray' = (astray \/ Len(archive) < 2 \/ archive[2] # 0)
      BY <1>9, <1>10, <2>2 DEF dispatch_from_archive
    <3>2. cmd.id = 0
      BY <1>9, <3>1
    <3> QED BY <1>9, <2>2, <3>1, <3>2
  <2> QED BY <2>1, <2>2
<1>12. e \in (d + 1)..n
  BY <1>1, <1>3, <1>5
<1>13. ReceivedInv'
  <2>1. archive' = Bytes(sent, d + 1, e) /\ stream' = Bytes(sent, e, n)
    BY <1>1, <1>3, <1>4, <1>7, <1>11
  <2> QED BY <1>3, <1>4, <1>12, <2>1 DEF ReceivedInv, Bytes
<1>14. d \in 0..(Len(sent) - 1)
  BY <1>3, <1>5
<1>15. Known(SubSeq(sent, 1, d + 1)) =
         IF cmd.id \in entries THEN Append(Known(SubSeq(sent, 1, d)), cmd)
                               ELSE Known(SubSeq(sent, 1, d))
  BY <1>1, <1>6, <1>14, KnownNext
<1>16. executed' = Known(SubSeq(sent, 1, d + 1))
  BY <1>2, <1>11, <1>15 DEF ExecutedInv
<1>17. ExecutedInv'
  BY <1>4, <1>16 DEF ExecutedInv, Known
<1> QED BY <1>13, <1>17

LEMMA CommandInit == Init => CommandInv
<1> SUFFICES ASSUME Init PROVE CommandInv
  OBVIOUS
<1>1. /\ sent = <<>> /\ stream = <<>> /\ archive = <<>> /\ dispatched = 0
      /\ executed = <<>>
  BY DEF Init, InitCommands
<1>2. <<>> \in Seq(Cmds) /\ Len(<<>>) = 0 /\ 0 \in 0..Len(<<>>)
  OBVIOUS
<1>3. Bytes(<<>>, 0, 0) = <<>>
  BY <1>2, BytesNone
<1>4. ReceivedInv
  BY <1>1, <1>2, <1>3 DEF ReceivedInv
<1>5. SubSeq(<<>>, 1, 0) = <<>>
  <2>1. 0 + 1 = 1 /\ 0 - 0 = 0 /\ 0 \in 0..Len(<<>>)
    OBVIOUS
  <2>2. SubSeq(<<>>, 0 + 1, 0) \in Seq(Cmds) /\ Len(SubSeq(<<>>, 0 + 1, 0)) = 0 - 0
    BY <1>2, <2>1, Segment
  <2> QED BY <2>1, <2>2, EmptySeq
<1>6. ExecutedInv
  BY <1>1, <1>5, KnownEmpty DEF ExecutedInv
<1> QED BY <1>4, <1>6 DEF CommandInv

LEMMA CommandNext == TypeOK /\ CommandInv /\ [Next]_vars => CommandInv'
<1> SUFFICES ASSUME TypeOK, CommandInv, [Next]_vars, ~astray'
             PROVE  ReceivedInv' /\ ExecutedInv'
  BY DEF CommandInv
<1>1. CommandsTypeOK
  BY DEF TypeOK
<1>2. CASE UNCHANGED commandVars
  <2>1. ReceivedInv /\ ExecutedInv
    BY <1>2 DEF CommandInv, commandVars
  <2> QED
    BY <1>2, <2>1 DEF commandVars, ReceivedInv, ExecutedInv, Bytes, Known
<1>3. CASE Commands
  <2>1. ASSUME NEW cmd \in Cmds, send_cmd(cmd) PROVE ReceivedInv' /\ ExecutedInv'
    <3>1. ReceivedInv /\ ExecutedInv
      BY <2>1 DEF CommandInv, send_cmd
    <3> QED BY <1>1, <2>1, <3>1, SendKeepsCommands
  <2>2. ASSUME NEW id \in Ids, register_command(id)
        PROVE  ReceivedInv' /\ ExecutedInv'
    <3>1. ReceivedInv /\ ExecutedInv
      BY <2>2 DEF CommandInv, register_command
    <3> QED BY <1>1, <2>2, <3>1, RegisterKeepsCommands
  <2>3. CASE ReceiveBySize
    <3>1. ReceivedInv /\ ExecutedInv
      BY <2>3 DEF CommandInv, ReceiveBySize
    <3> QED BY <1>1, <2>3, <3>1, ReceiveBySizeKeepsCommands
  <2>4. CASE ReceiveRaw
    <3>1. PICK m \in Cuts : Receive(m) /\ astray' = (astray \/ ~Between(m))
      BY <2>4 DEF ReceiveRaw
    <3>2. ReceivedInv /\ ExecutedInv
      BY <3>1 DEF CommandInv
    <3>3. Between(m)
      BY <3>1 DEF Between
    <3>4. m \in Int
      BY CmdsAssumption
    <3>5. Receive(m)
      BY <3>1
    <3> QED BY <1>1, <3>2, <3>3, <3>4, <3>5, ReceiveRawKeepsCommands
  <2>5. CASE dispatch_from_archive
    <3>1. ~astray
      BY <2>5 DEF dispatch_from_archive
    <3>2. ReceivedInv /\ ExecutedInv
      BY <3>1 DEF CommandInv
    <3> QED BY <1>1, <2>5, <3>2, DispatchKeepsCommands
  <2> QED BY <1>3, <2>1, <2>2, <2>3, <2>4, <2>5 DEF Commands
<1>4. Commands \/ UNCHANGED commandVars
  BY DEF Next, MouseEvent, FastFrame, SlowFrame, Redraw, vars
<1> QED BY <1>2, <1>3, <1>4

(***************************************************************************)
(* The properties                                                          *)
(***************************************************************************)

LEMMA SpeedIsPair ==
  ASSUME TypeOK
  PROVE  /\ m_motor_speed \in Int \X Int
         /\ m_motor_speed[1] \in Int /\ m_motor_speed[2] \in Int
<1>1. MaxSpeed \in Nat
  BY ViewAssumption
<1> QED BY <1>1 DEF TypeOK, ViewTypeOK

\* Whatever the mouse and the frames do, a command takes the speeds of the
\* wheels unchanged (SpeedsFitCommand).
THEOREM SpeedsFit == Spec => []SpeedsFitCommand
<1>1. TypeOK => SpeedsFitCommand
  <2> SUFFICES ASSUME TypeOK PROVE SpeedsFitCommand
    OBVIOUS
  <2> DEFINE l == get_motor_speed(m_motor_speed)[1]
             r == get_motor_speed(m_motor_speed)[2]
             cmd == CmdMotorSetSpeed(l, r)
  <2>1. Speed(l) /\ Speed(r)
    BY SpeedIsPair, SpeedsKeepToFull
  <2>2. SpeedsFitCommand <=> /\ Abs(l) <= 1024 /\ Abs(r) <= 1024
                             /\ Unpack(cmd.id, Behind(Packet(cmd), 2)) = cmd
    BY DEF SpeedsFitCommand
  <2> HIDE DEF l, r
  <2>3. \A n : Speed(n) => Abs(n) <= 1024 /\ n \in Int /\ -32768 <= n /\ n <= 32767
    BY DEF Speed, Abs
  <2>4. l \in Int16 /\ r \in Int16
    BY <2>1, <2>3, WithinInt16
  <2>5. Unpack(cmd.id, Behind(Packet(cmd), 2)) = cmd
    BY <2>4, CommandRoundTrip
  <2> QED BY <2>1, <2>2, <2>3, <2>5
<1> QED BY <1>1, TypeCorrect, PTL

\* The pad is symmetric ahead, at every position (ForwardSymmetric).
THEOREM ForwardIsSymmetric == Spec => []ForwardSymmetric
<1>1. TypeOK => ForwardSymmetric
  <2> SUFFICES ASSUME TypeOK PROVE ForwardSymmetric
    OBVIOUS
  <2> DEFINE x == m_motor_speed[1]  y == -Abs(m_motor_speed[2])
  <2>1. x \in Int /\ y \in Int /\ y <= 0
    BY SpeedIsPair DEF Abs
  <2> HIDE DEF x, y
  <2>2. LET speeds == get_motor_speed(<<x, y>>)
        IN  /\ speeds[1] >= 0 /\ speeds[2] >= 0
            /\ get_motor_speed(<<-x, y>>) = <<speeds[2], speeds[1]>>
    BY <2>1, AheadIsSymmetric
  <2> QED BY <2>2 DEF ForwardSymmetric, x, y
<1> QED BY <1>1, TypeCorrect, PTL

\* A drag outlives no frame that is drawn with the button up.
DragInv == m_mouse_draging => MouseDown

LEMMA DragInvHolds == Spec => []DragInv
<1>1. Init => DragInv
  BY DEF Init, InitView, DragInv
<1>2. TypeOK /\ DragInv /\ [Next]_vars => DragInv'
  <2> SUFFICES ASSUME TypeOK, DragInv, [Next]_vars
               PROVE  DragInv'
    OBVIOUS
  <2>1. ASSUME NEW frame, Frame(frame) PROVE DragInv'
    <3>1. PICK hovered \in BOOLEAN :
            /\ m_mouse_draging' = ((m_mouse_draging \/ (hovered /\ Clicked)) /\ ~Released)
            /\ MouseDown' = MousePressed
      BY <2>1 DEF Frame
    <3>2. /\ m_mouse_draging \in BOOLEAN
          /\ MousePressed \in BOOLEAN /\ MouseDown \in BOOLEAN
      BY DEF TypeOK, ViewTypeOK
    <3>3. (m_mouse_draging \/ (hovered /\ Clicked)) /\ ~Released => MousePressed
      BY DEF Clicked, Released, DragInv
    <3>4. m_mouse_draging' => MousePressed
      BY <3>1, <3>3
    <3> QED BY <3>1, <3>4 DEF DragInv
  <2>2. CASE MouseEvent
    BY <2>2 DEF MouseEvent, onMousePressedChange, DragInv
  <2>3. CASE UNCHANGED viewVars
    BY <2>3 DEF viewVars, DragInv
  <2> QED BY <2>1, <2>2, <2>3 DEF Next, Commands, FastFrame, SlowFrame, Redraw, vars
<1> QED BY <1>1, <1>2, TypeCorrect, PTL DEF Spec

\* Once a frame was drawn with the button up, the speed follows the mouse no
\* more before one is drawn with it down (SteersOnlyWithButton).
THEOREM SteersWithButton == Spec => SteersOnlyWithButton
<1> DEFINE Decays == \/ m_motor_speed' = m_motor_speed
                     \/ \E frame \in {"short", "long", "slow"} :
                          m_motor_speed' = Decayed(frame)
<1>1. ASSUME TypeOK, DragInv, [Next]_vars, ~MouseDown, ~MousePressed
      PROVE  Decays
  <2>1. ~m_mouse_draging /\ ~Clicked
    BY <1>1 DEF DragInv, Clicked
  <2>2. ASSUME NEW frame \in {"short", "long", "slow"}, Frame(frame)
        PROVE  m_motor_speed' = Decayed(frame)
    BY <2>1, <2>2 DEF Frame
  <2>3. CASE MouseEvent
    BY <2>3 DEF MouseEvent, onMousePressedChange
  <2>4. CASE UNCHANGED viewVars
    BY <2>4 DEF viewVars
  <2> QED
    BY <1>1, <2>2, <2>3, <2>4
    DEF Next, Commands, FastFrame, SlowFrame, Redraw, vars
<1>2. TypeOK /\ DragInv /\ [Next]_vars
        => [~MouseDown /\ ~MousePressed => Decays]_vars
  BY <1>1
<1> QED
  BY <1>2, TypeCorrect, DragInvHolds, PTL DEF Spec, SteersOnlyWithButton

\* However TCP cuts the stream, the commands executed are those that were sent,
\* in their order and with their speeds, as long as no archive ended inside a
\* command and no unknown one had fields (kart_commands.cpp:40-67); and what
\* was not dispatched is all still there (ExecutesWhatWasSent).
THEOREM ExecutesInOrder == Spec => []ExecutesWhatWasSent
<1>1. TypeOK /\ CommandInv => ExecutesWhatWasSent
  <2> SUFFICES ASSUME TypeOK, CommandInv, ~astray
               PROVE  /\ dispatched <= Len(sent)
                      /\ executed = Known(SubSeq(sent, 1, dispatched))
                      /\ archive \o stream
                           = Packets(SubSeq(sent, dispatched + 1, Len(sent)))
    BY DEF ExecutesWhatWasSent
  <2>1. CommandsTypeOK /\ ReceivedInv /\ ExecutedInv
    BY DEF TypeOK, CommandInv
  <2>2. PICK e \in dispatched..Len(sent) :
          /\ archive = Bytes(sent, dispatched, e)
          /\ stream = Bytes(sent, e, Len(sent))
          /\ sent \in Seq(Cmds) /\ Len(sent) \in Nat
          /\ dispatched \in 0..Len(sent) /\ e \in 0..Len(sent)
          /\ Len(sent) \in e..Len(sent)
    BY <2>1, ReceivedPlace
  <2>3. Bytes(sent, dispatched, Len(sent)) = archive \o stream
    BY <2>2, BytesJoin
  <2>4. dispatched <= Len(sent)
    BY <2>2
  <2> QED BY <2>1, <2>3, <2>4 DEF ExecutedInv, Bytes
<1> QED BY <1>1, CommandInit, CommandNext, TypeCorrect, PTL DEF Spec

=============================================================================
