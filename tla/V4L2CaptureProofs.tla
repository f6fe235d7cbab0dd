------------------------ MODULE V4L2CaptureProofs ------------------------
(***************************************************************************)
(* Theorems about V4L2Capture, for any number of buffers and any camera:   *)
(* whose buffers are read and when, and which format startup() chooses.    *)
(***************************************************************************)
EXTENDS V4L2Capture, SequenceTheorems, Induction, TLAPS

\* A streaming device is one whose startup mapped every buffer, and only such
\* a device gives a buffer back.
MappedInv ==
  /\ streaming => mapped = Buffers
  /\ pc \in {"check", "send"} => streaming

\* How many buffers the driver has at each place in capture().
QueueInv ==
  /\ pc \in {"startup", "idle", "check", "send"} => Len(queue) = lost
  /\ pc = "dequeue" => Len(queue) = lost + 1

\* Without a loss the only buffer of the driver is the one queued last, and holds
\* what the driver filled it with.
FrontInv ==
  pc = "dequeue" /\ lost = 0 =>
    /\ queue[1] = m_dev_buf_idx
    /\ filled # <<>> => filled[1] = memory[m_dev_buf_idx]

Inv == TypeOK /\ MappedInv /\ QueueInv /\ FrontInv /\ FramesMatchUntilLoss

-----------------------------------------------------------------------------
LEMMA BuffersWrap ==
  ASSUME m_dev_buf_idx \in Buffers
  PROVE  NextBuffer \in Buffers
<1>1. DEV_BUFFER_CNT \in Nat /\ DEV_BUFFER_CNT > 0 /\ m_dev_buf_idx + 1 \in Nat
  BY V4L2Assumption DEF Buffers
<1>2. (m_dev_buf_idx + 1) % DEV_BUFFER_CNT \in 0..(DEV_BUFFER_CNT - 1)
  BY <1>1
<1> QED BY <1>2 DEF NextBuffer, Buffers

LEMMA InitInv == Init => Inv
<1> SUFFICES ASSUME Init PROVE Inv
  OBVIOUS
<1>1. 0 \in Buffers
  BY V4L2Assumption DEF Buffers
<1>2. memory \in [Buffers -> Nat]
  BY DEF Init, NoJpeg
<1>3. <<>> \in Seq(Buffers) /\ <<>> \in Seq(Nat) /\ Len(<<>>) = 0
  OBVIOUS
<1>4. TypeOK
  BY <1>1, <1>2, <1>3 DEF Init, TypeOK, NoJpeg
<1> QED
  BY <1>3, <1>4 DEF Inv, Init, MappedInv, QueueInv, FrontInv,
     FramesMatchUntilLoss

LEMMA StartupInv == Inv /\ startup => Inv'
<1> SUFFICES ASSUME Inv, startup PROVE Inv'
  OBVIOUS
<1>1. /\ opened' \in BOOLEAN /\ mapped' \subseteq Buffers
      /\ requested' \in Nat /\ streaming' \in BOOLEAN
      /\ streaming' => mapped' = Buffers
  <2>1. CASE NoDevice
    BY <2>1 DEF NoDevice, Inv, TypeOK, MappedInv
  <2>2. CASE Device
    <3>1. PICK n \in 0..DEV_BUFFER_CNT :
            /\ mapped' = {b \in Buffers : b < n}
            /\ streaming' \in {FALSE, Streams(n)}
      BY <2>2 DEF Device
    <3>2. n = DEV_BUFFER_CNT => {b \in Buffers : b < n} = Buffers
      BY V4L2Assumption DEF Buffers
    <3>3. streaming' => n = DEV_BUFFER_CNT
      BY <3>1 DEF Streams
    <3>4. streaming' \in BOOLEAN
      BY <3>1 DEF Streams
    <3>5. requested' \in Nat /\ opened' \in BOOLEAN
      BY <2>2, V4L2Assumption DEF Device
    <3> QED BY <3>1, <3>2, <3>3, <3>4, <3>5
  <2> QED BY <2>1, <2>2 DEF startup
<1>2. TypeOK'
  BY <1>1 DEF startup, driver, Inv, TypeOK
<1> QED
  BY <1>1, <1>2 DEF startup, driver, Inv, TypeOK, MappedInv, QueueInv,
     FrontInv, FramesMatchUntilLoss, Queued

LEMMA QueueBufferInv == Inv /\ QueueBuffer => Inv'
<1> SUFFICES ASSUME Inv, QueueBuffer PROVE Inv'
  OBVIOUS
<1> DEFINE b == NextBuffer
<1>1. b \in Buffers
  BY BuffersWrap DEF Inv, TypeOK
<1>2. memory' \in [Buffers -> Nat]
  BY <1>1 DEF QueueBuffer, Cleared, NoJpeg, Inv, TypeOK
<1>3. m_dev_buf_idx' = b /\ m_dev_buf_idx' \in Buffers
  BY <1>1 DEF QueueBuffer
<1>4. CASE queue' = Enqueued(b) /\ pc' = "dequeue" /\ UNCHANGED m_capture
  <2>1. /\ queue' = Append(queue, b) /\ queue \in Seq(Buffers)
        /\ Len(queue) = lost /\ lost \in Nat /\ lost' = lost
        /\ filled' = filled /\ filled \in Seq(Nat) /\ Len(filled) <= Len(queue)
    BY <1>4 DEF Enqueued, QueueBuffer, Inv, TypeOK, QueueInv
  <2>2. queue' \in Seq(Buffers) /\ Len(queue') = Len(queue) + 1
    BY <1>1, <2>1
  <2>3. lost = 0 => queue'[1] = b /\ filled' = <<>>
    <3>1. lost = 0 => queue'[1] = b
      BY <1>1, <2>1
    <3>2. lost = 0 => Len(filled) = 0
      BY <2>1
    <3> QED BY <2>1, <3>1, <3>2, EmptySeq
  <2>4. filled' \in Seq(Nat) /\ Len(filled') <= Len(queue')
    BY <2>1, <2>2
  <2>5. TypeOK'
    BY <1>2, <1>3, <1>4, <2>2, <2>4 DEF QueueBuffer, device, Inv, TypeOK
  <2> QED
    BY <1>3, <1>4, <2>1, <2>2, <2>3, <2>5
    DEF QueueBuffer, device, Inv, MappedInv, QueueInv, FrontInv,
        FramesMatchUntilLoss
<1>5. CASE UNCHANGED queue /\ Fail
  <2>1. TypeOK'
    BY <1>2, <1>3, <1>5 DEF QueueBuffer, Fail, device, Inv, TypeOK
  <2> QED
    BY <1>5, <2>1 DEF QueueBuffer, Fail, device, Inv, MappedInv, QueueInv,
       FrontInv, FramesMatchUntilLoss
<1> QED BY <1>4, <1>5 DEF QueueBuffer

LEMMA DequeueBufferInv == Inv /\ DequeueBuffer => Inv'
<1> SUFFICES ASSUME Inv, DequeueBuffer PROVE Inv'
  OBVIOUS
<1>1. /\ queue \in Seq(Buffers) /\ Len(queue) = lost + 1 /\ lost \in Nat
      /\ filled \in Seq(Nat) /\ Len(filled) <= Len(queue) /\ filled # <<>>
  BY DEF DequeueBuffer, Inv, TypeOK, QueueInv
<1>2. /\ Head(queue) = queue[1] /\ queue[1] \in Buffers
      /\ Tail(queue) \in Seq(Buffers) /\ Len(Tail(queue)) = lost
  BY <1>1
<1>3. /\ Head(filled) = filled[1] /\ filled[1] \in Nat
      /\ Tail(filled) \in Seq(Nat) /\ Len(Tail(filled)) = Len(filled) - 1
  BY <1>1
<1>4. filled' \in Seq(Nat) /\ Len(filled') <= Len(queue')
  BY <1>1, <1>2, <1>3 DEF DequeueBuffer
<1>5. bufferinfo' = <<queue[1], filled[1]>>
  BY <1>2, <1>3 DEF DequeueBuffer
<1>6. TypeOK'
  BY <1>2, <1>3, <1>4, <1>5 DEF DequeueBuffer, device, Inv, TypeOK
<1>7. lost = 0 => /\ queue[1] = m_dev_buf_idx /\ queue' = Tail(queue)
                  /\ Len(queue') = 0 /\ filled[1] = memory[m_dev_buf_idx]
  BY <1>2 DEF DequeueBuffer, Inv, FrontInv
<1>8. FramesMatchUntilLoss'
  BY <1>5, <1>7 DEF DequeueBuffer, FramesMatchUntilLoss, Queued
<1> QED
  BY <1>2, <1>6, <1>8 DEF DequeueBuffer, device, Inv, MappedInv, QueueInv,
     FrontInv

LEMMA DequeueFailsInv == Inv /\ DequeueFails => Inv'
<1> SUFFICES ASSUME Inv, DequeueFails PROVE Inv'
  OBVIOUS
<1>1. /\ queue \in Seq(Buffers) /\ Len(queue) = lost + 1 /\ lost \in Nat
      /\ filled \in Seq(Nat) /\ Len(filled) <= Len(queue)
  BY DEF DequeueFails, Inv, TypeOK, QueueInv
<1>2. Tail(queue) \in Seq(Buffers) /\ Len(Tail(queue)) = lost
  BY <1>1
<1>3. /\ queue' \in Seq(Buffers) /\ Len(queue') = lost' /\ lost' \in Nat
      /\ filled' \in Seq(Nat) /\ Len(filled') <= Len(queue')
  <2>1. CASE lost' = lost + 1 /\ UNCHANGED <<queue, filled>>
    BY <1>1, <2>1
  <2>2. CASE /\ queue' = Tail(queue) /\ UNCHANGED lost
             /\ filled' = IF filled # <<>> THEN Tail(filled) ELSE filled
    <3>1. CASE filled # <<>>
      <4>1. Tail(filled) \in Seq(Nat) /\ Len(Tail(filled)) = Len(filled) - 1
        BY <1>1, <3>1
      <4> QED BY <1>1, <1>2, <2>2, <3>1, <4>1
    <3>2. CASE filled = <<>>
      BY <1>1, <1>2, <2>2, <3>2
    <3> QED BY <3>1, <3>2
  <2> QED BY <2>1, <2>2 DEF DequeueFails
<1>4. TypeOK'
  BY <1>3 DEF DequeueFails, Fail, device, Inv, TypeOK
<1> QED
  BY <1>3, <1>4 DEF DequeueFails, Fail, device, Inv, MappedInv, QueueInv,
     FrontInv, FramesMatchUntilLoss

\* The driver writes only into buffers it owns, and without a loss that is
\* none of those the thread reads.
LEMMA FillBufferInv == Inv /\ FillBuffer => Inv'
<1> SUFFICES ASSUME Inv, FillBuffer PROVE Inv'
  OBVIOUS
<1>1. PICK frame \in {NoJpeg, frames + 1} :
        /\ memory' = [memory EXCEPT ![queue[Len(filled) + 1]] = frame]
        /\ filled' = Append(filled, frame)
        /\ frames' = IF frame = NoJpeg THEN frames ELSE frame
  BY DEF FillBuffer
<1>2. /\ queue \in Seq(Buffers) /\ filled \in Seq(Nat)
      /\ Len(filled) < Len(queue) /\ queue' = queue /\ frame \in Nat
  BY DEF FillBuffer, Inv, TypeOK, NoJpeg
<1>3. PICK b : b = queue[Len(filled) + 1]
  OBVIOUS
<1>4. b \in Buffers
  BY <1>2, <1>3
<1>5. filled' \in Seq(Nat) /\ Len(filled') <= Len(queue')
  BY <1>1, <1>2
<1>6. memory' \in [Buffers -> Nat] /\ frames' \in Nat
  BY <1>1, <1>2, <1>3, <1>4 DEF Inv, TypeOK
<1>7. TypeOK'
  BY <1>5, <1>6 DEF FillBuffer, device, Inv, TypeOK
<1>8. ~(pc \in {"check", "send"} /\ lost = 0)
  BY <1>2 DEF Inv, QueueInv
<1>9. UNCHANGED <<pc, device, m_dev_buf_idx, queue, lost>>
  BY DEF FillBuffer
<1>10. ASSUME pc = "dequeue", lost = 0
       PROVE  filled'[1] = memory'[m_dev_buf_idx]
  <2>1. Len(filled) = 0
    BY <1>2, <1>10 DEF Inv, QueueInv
  <2>2. filled = <<>> /\ b = m_dev_buf_idx
    BY <1>2, <1>3, <1>10, <2>1, EmptySeq DEF Inv, FrontInv
  <2>3. filled' = <<frame>>
    BY <1>1, <2>2
  <2>4. memory'[b] = frame
    BY <1>1, <1>3, <1>4 DEF Inv, TypeOK
  <2> QED BY <2>2, <2>3, <2>4
<1>11. FrontInv'
  BY <1>9, <1>10 DEF FrontInv, Inv
<1> QED
  BY <1>7, <1>8, <1>9, <1>11 DEF device, Inv, MappedInv, QueueInv,
     FramesMatchUntilLoss

LEMMA NextInv == Inv /\ [Next]_vars => Inv'
<1> SUFFICES ASSUME Inv, [Next]_vars PROVE Inv'
  OBVIOUS
<1> USE DEF Inv, TypeOK, MappedInv, QueueInv, FrontInv, FramesMatchUntilLoss,
           Queued
<1>1. CASE set_capturing
  BY <1>1 DEF set_capturing, device, driver
<1>2. CASE NotConnected
  BY <1>2 DEF NotConnected, Fail, device, driver
<1>3. CASE CheckFrame
  BY <1>3 DEF CheckFrame, Fail, device, driver
<1>4. CASE SendFrame
  BY <1>4 DEF SendFrame, device, driver
<1>5. CASE shutdown
  <2>1. /\ queue' = <<>> /\ filled' = <<>> /\ Len(<<>>) = 0
        /\ <<>> \in Seq(Buffers) /\ <<>> \in Seq(Nat)
    BY <1>5 DEF shutdown
  <2>2. pc' = "stopped" /\ streaming' = FALSE /\ Len(filled') <= Len(queue')
    BY <1>5, <2>1 DEF shutdown
  <2>3. TypeOK'
    BY <1>5, <2>1, <2>2 DEF shutdown
  <2> QED BY <2>2, <2>3
<1>6. CASE UNCHANGED vars
  BY <1>6 DEF vars, device, driver
<1> QED
  BY <1>1, <1>2, <1>3, <1>4, <1>5, <1>6, StartupInv, QueueBufferInv,
     DequeueBufferInv, DequeueFailsInv, FillBufferInv
  DEF Next, capture, Waiting

LEMMA InvHolds == Spec => []Inv
BY InitInv, NextInv, PTL DEF Spec

-----------------------------------------------------------------------------
\* Every variable of the camera keeps to its type.
THEOREM TypeCorrect == Spec => []TypeOK
BY InvHolds, PTL DEF Inv

\* is_jpeg() and memcpy() never touch a buffer that startup() did not map,
\* although it may have failed at any step and capturing be switched on.
THEOREM ReadsOnlyMappedBuffers == Spec => []ReadsMappedOnly
<1>1. Inv => ReadsMappedOnly
  BY DEF Inv, TypeOK, MappedInv, ReadsMappedOnly
<1> QED BY <1>1, InvHolds, PTL

\* Between two captures the driver has one buffer for each failed
\* VIDIOC_DQBUF that left one, and no other.
THEOREM DriverHasLostBuffersOnly == Spec => []DriverKeepsLostOnly
<1>1. Inv => DriverKeepsLostOnly
  BY DEF Inv, QueueInv, DriverKeepsLostOnly
<1> QED BY <1>1, InvHolds, PTL

\* Until then, the buffer capture() copies is the one it dequeued, and the
\* driver does not own it.
THEOREM FramesMatch == Spec => []FramesMatchUntilLoss
BY InvHolds, PTL DEF Inv

-----------------------------------------------------------------------------
(* The loop of startup() over the formats.                                 *)

\* g[i] is the format chosen when i of the n have been looked at.
Chosen(g, n) ==
  g = [i \in 0..n |->
         IF i = 0 THEN 0
         ELSE IF g[i - 1] = 0 \/ Closer(i, g[i - 1]) THEN i
         ELSE g[i - 1]]

\* The recursion defines a function, for a list of any length.
LEMMA ChosenExists ==
  ASSUME NEW n \in Nat
  PROVE  \E g : Chosen(g, n)
<1> DEFINE S == {k \in Nat : \E g : Chosen(g, k)}
<1>1. 0 \in S
  <2>1. Chosen([i \in 0..0 |-> 0], 0)
    BY DEF Chosen
  <2> QED BY <2>1
<1>2. ASSUME NEW k \in Nat, k \in S PROVE k + 1 \in S
  <2>1. PICK g : Chosen(g, k)
    BY <1>2
  <2> DEFINE next(j) == IF j = 0 \/ Closer(k + 1, j) THEN k + 1 ELSE j
             h == [i \in 0..(k + 1) |-> IF i = k + 1 THEN next(g[k]) ELSE g[i]]
  <2>2. \A i \in 0..k :
          g[i] = IF i = 0 THEN 0
                 ELSE IF g[i - 1] = 0 \/ Closer(i, g[i - 1]) THEN i
                 ELSE g[i - 1]
    BY <2>1 DEF Chosen
  <2>3. \A i \in 0..k : h[i] = g[i]
    OBVIOUS
  <2>4. h[k + 1] = next(g[k]) /\ k + 1 # 0
    OBVIOUS
  <2>5. h = [i \in 0..(k + 1) |-> h[i]]
    OBVIOUS
  <2> HIDE DEF h
  <2>6. ASSUME NEW i \in 0..(k + 1)
        PROVE  h[i] = IF i = 0 THEN 0
                      ELSE IF h[i - 1] = 0 \/ Closer(i, h[i - 1]) THEN i
                      ELSE h[i - 1]
    <3>1. CASE i = k + 1
      <4>1. i - 1 = k /\ i # 0 /\ h[i - 1] = g[k] /\ h[i] = next(g[k])
        BY <3>1, <2>3, <2>4
      <4> QED BY <3>1, <4>1
    <3>2. CASE i \in 0..k /\ i # 0
      <4>1. i - 1 \in 0..k
        BY <3>2
      <4>2. h[i] = g[i] /\ h[i - 1] = g[i - 1]
        BY <3>2, <4>1, <2>3
      <4> QED BY <3>2, <4>2, <2>2
    <3>3. CASE i = 0
      BY <3>3, <2>2, <2>3
    <3> QED BY <3>1, <3>2, <3>3
  <2>7. Chosen(h, k + 1)
    BY <2>5, <2>6 DEF Chosen
  <2> QED BY <2>7
<1> HIDE DEF S
<1>3. n \in S
  BY <1>1, <1>2, AllNumbers
<1> QED BY <1>3 DEF S

\* How far the width of a format is from the one wished for.
Distance(i) == IF formats[i] > TARGET_WIDTH THEN formats[i] - TARGET_WIDTH
                                            ELSE TARGET_WIDTH - formats[i]

\* The squares of the code compare as the distances do.
LEMMA SquaresCompare ==
  ASSUME NEW p \in Nat, NEW q \in Nat
  PROVE  p * p < q * q <=> p < q
<1>1. ASSUME p < q PROVE p * p < q * q
  <2>1. p * p <= p * q /\ p * q < q * q
    BY <1>1
  <2> QED BY <2>1
<1>2. ASSUME q <= p PROVE q * q <= p * p
  <2>1. q * q <= p * q /\ p * q <= p * p
    BY <1>2
  <2> QED BY <2>1
<1> QED BY <1>1, <1>2

LEMMA CloserIsDistance ==
  ASSUME formats \in Seq(Nat), NEW i \in 1..Len(formats),
         NEW j \in 1..Len(formats)
  PROVE  /\ Distance(i) \in Nat /\ Distance(j) \in Nat
         /\ Closer(i, j) <=> Distance(i) < Distance(j)
<1>1. /\ formats[i] \in Nat /\ formats[j] \in Nat /\ TARGET_WIDTH \in Nat
  BY ElementOfSeq, V4L2Assumption
<1>2. Distance(i) \in Nat /\ Distance(j) \in Nat
  <2>1. \A a \in Nat, b \in Nat : (IF a > b THEN a - b ELSE b - a) \in Nat
    OBVIOUS
  <2> QED BY <1>1, <2>1 DEF Distance
<1>3. \A a \in Int : (-a) * (-a) = a * a
  OBVIOUS
<1>4. (formats[i] - TARGET_WIDTH) * (formats[i] - TARGET_WIDTH)
        = Distance(i) * Distance(i)
  BY <1>1, <1>3 DEF Distance
<1>5. (formats[j] - TARGET_WIDTH) * (formats[j] - TARGET_WIDTH)
        = Distance(j) * Distance(j)
  BY <1>1, <1>3 DEF Distance
<1>6. Closer(i, j) <=> Distance(i) * Distance(i) < Distance(j) * Distance(j)
  BY <1>4, <1>5 DEF Closer
<1> QED BY <1>2, <1>6, SquaresCompare

\* Format t is the first of the closest among the first k.
FirstClosest(t, k) ==
  /\ t \in 1..k
  /\ \A i \in 1..k : /\ Distance(t) <= Distance(i)
                     /\ i < t => Distance(t) < Distance(i)

\* What the loop has chosen after i formats is the first of the closest.
LEMMA ChosenIsClosest ==
  ASSUME NEW n \in Nat, formats \in Seq(Nat), n <= Len(formats), NEW g,
         Chosen(g, n)
  PROVE  n > 0 => FirstClosest(g[n], n)
<1> DEFINE S == {k \in Nat : k \in 1..n => FirstClosest(g[k], k)}
<1>0. \A i \in 0..n :
        g[i] = IF i = 0 THEN 0
               ELSE IF g[i - 1] = 0 \/ Closer(i, g[i - 1]) THEN i
               ELSE g[i - 1]
  BY DEF Chosen
<1>1. 0 \in S
  OBVIOUS
<1>2. ASSUME NEW k \in Nat, k \in S PROVE k + 1 \in S
  <2> SUFFICES ASSUME k + 1 \in 1..n PROVE FirstClosest(g[k + 1], k + 1)
    OBVIOUS
  <2> DEFINE c == k + 1
  <2>1. /\ c \in 0..n /\ c - 1 = k /\ c # 0 /\ c \in 1..Len(formats)
        /\ Len(formats) \in Nat
    OBVIOUS
  <2>2. g[c] = IF g[k] = 0 \/ Closer(c, g[k]) THEN c ELSE g[k]
    BY <1>0, <2>1
  <2>3. \A i \in 1..c : Distance(i) \in Nat
    BY <2>1, CloserIsDistance
  <2>4. CASE k = 0
    <3>1. g[k] = 0
      BY <1>0, <2>4
    <3>2. g[c] = c /\ c = 1
      BY <2>2, <2>4, <3>1
    <3> QED BY <2>3, <3>2 DEF FirstClosest
  <2>5. CASE k > 0
    <3>1. FirstClosest(g[k], k)
      BY <1>2, <2>5
    <3>2. /\ g[k] \in 1..k /\ g[k] \in 1..Len(formats) /\ g[k] # 0
          /\ \A i \in 1..k : /\ Distance(g[k]) <= Distance(i)
                             /\ i < g[k] => Distance(g[k]) < Distance(i)
      BY <3>1, <2>1 DEF FirstClosest
    <3>3. Closer(c, g[k]) <=> Distance(c) < Distance(g[k])
      BY <2>1, <3>2, CloserIsDistance
    <3>4. \A i \in 1..c : i \in 1..k \/ i = c
      OBVIOUS
    <3>5. CASE Closer(c, g[k])
      <4>1. g[c] = c /\ Distance(c) < Distance(g[k])
        BY <2>2, <3>3, <3>5
      <4>2. \A i \in 1..k : Distance(c) < Distance(i)
        BY <4>1, <3>2, <2>3
      <4>3. \A i \in 1..c : /\ Distance(c) <= Distance(i)
                            /\ i < c => Distance(c) < Distance(i)
        BY <4>2, <3>4, <2>3
      <4> QED BY <4>1, <4>3 DEF FirstClosest
    <3>6. CASE ~Closer(c, g[k])
      <4>1. g[c] = g[k] /\ Distance(g[k]) <= Distance(c)
        BY <2>2, <3>2, <3>3, <3>6, <2>3
      <4>2. \A i \in 1..c : /\ Distance(g[k]) <= Distance(i)
                            /\ i < g[k] => Distance(g[k]) < Distance(i)
        BY <4>1, <3>2, <3>4
      <4> QED BY <4>1, <4>2, <3>2 DEF FirstClosest
    <3> QED BY <3>5, <3>6
  <2> QED BY <2>4, <2>5
<1> HIDE DEF S
<1>3. n \in S
  BY <1>1, <1>2, AllNumbers
<1> QED BY <1>3 DEF S

LEMMA TargetIsClosest ==
  ASSUME formats \in Seq(Nat), formats # <<>>
  PROVE  FirstClosest(TargetIndex, Len(formats))
<1> DEFINE g == CHOOSE g : Chosen(g, Len(formats))
<1>1. Len(formats) \in Nat /\ Len(formats) > 0
  BY EmptySeq
<1>2. Chosen(g, Len(formats))
  BY <1>1, ChosenExists
<1>3. TargetIndex = g[Len(formats)]
  BY DEF TargetIndex, Chosen
<1> HIDE DEF g
<1> QED BY <1>1, <1>2, <1>3, ChosenIsClosest

\* The formats are a list of widths, and a target is the closest of them.
FormatInv ==
  /\ formats \in Seq(Nat)
  /\ target_index # 0 => FirstClosest(target_index, Len(formats))

LEMMA FormatInit == Init => FormatInv
<1> SUFFICES ASSUME Init PROVE FormatInv
  OBVIOUS
<1>1. PICK n \in 0..MaxFormats : formats \in [1..n -> Widths]
  BY DEF Init
<1>2. Widths \subseteq Nat /\ MaxFormats \in Nat
  BY V4L2Assumption
<1>3. n \in Nat
  BY <1>1, <1>2
<1>4. formats \in [1..n -> Nat]
  BY <1>1, <1>2
<1>5. formats \in Seq(Nat)
  BY <1>3, <1>4
<1> QED BY <1>5 DEF Init, FormatInv

LEMMA FormatNext == FormatInv /\ [Next]_vars => FormatInv'
<1> SUFFICES ASSUME FormatInv, [Next]_vars PROVE FormatInv'
  OBVIOUS
<1>1. CASE UNCHANGED <<formats, target_index>>
  BY <1>1 DEF FormatInv, FirstClosest, Distance
<1>2. CASE startup /\ Device
  <2>1. formats' = formats /\ formats # <<>> /\ target_index' = TargetIndex
    BY <1>2 DEF startup, Device
  <2>2. FirstClosest(TargetIndex, Len(formats))
    BY <2>1, TargetIsClosest DEF FormatInv
  <2> QED BY <2>1, <2>2 DEF FormatInv, FirstClosest, Distance
<1>3. CASE startup /\ NoDevice
  BY <1>1, <1>3 DEF startup, NoDevice
<1>4. CASE ~startup
  <2>1. UNCHANGED device \/ shutdown
    BY <1>4 DEF Next, capture, Waiting, vars, set_capturing, NotConnected,
       QueueBuffer, DequeueBuffer, DequeueFails, CheckFrame, SendFrame,
       FillBuffer
  <2> QED BY <1>1, <2>1 DEF device, shutdown
<1>5. CASE startup
  BY <1>2, <1>3, <1>5 DEF startup
<1> QED BY <1>4, <1>5

\* The format startup() asks for is the first of those closest to the width
\* wished for, for a list of any length and any widths (v4l2.cpp:146-163).
THEOREM ClosestIsChosen == Spec => []ChoosesClosest
<1>1. FormatInv => ChoosesClosest
  BY DEF FormatInv, FirstClosest, Distance, ChoosesClosest
<1> QED BY <1>1, FormatInit, FormatNext, PTL DEF Spec

=============================================================================
