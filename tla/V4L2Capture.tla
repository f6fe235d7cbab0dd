---------------------------- MODULE V4L2Capture ----------------------------
(***************************************************************************)
(* The camera of the server (server/src/v4l2.cpp): startup(), capture() as *)
(* update() calls it, and shutdown(), together with the driver, which owns *)
(* the queued buffers and fills them while the thread goes on.             *)
(*                                                                         *)
(* capture() takes the buffers in turn.  It queues the next one and        *)
(* dequeues "the" buffer; but the driver returns the oldest one, and after *)
(* a VIDIOC_DQBUF that failed the two need not be the same.                *)
(*                                                                         *)
(* An operator Op_Mistake, written before Op, is Op with a mistake in it   *)
(* that the code does not make.                                            *)
(***************************************************************************)
EXTENDS Integers, Sequences

CONSTANTS
  DEV_BUFFER_CNT,   \* the buffers of the server, 2 in the code
  TARGET_WIDTH,     \* the width wished for, 640 in the code
  Widths,           \* widths a camera may offer
  MaxFormats,       \* bound: formats offered
  MaxFrames,        \* bound: frames of the camera
  DriverErrors      \* may QBUF and DQBUF fail although the call is legal?

ASSUME V4L2Assumption ==
  /\ DEV_BUFFER_CNT \in Nat \ {0}
  /\ TARGET_WIDTH \in Nat /\ Widths \subseteq Nat
  /\ MaxFormats \in Nat /\ MaxFrames \in Nat
  /\ DriverErrors \in BOOLEAN

Buffers == 0..(DEV_BUFFER_CNT - 1)

NoJpeg == 0      \* what a buffer holds that holds no JPEG; frames count from 1

VARIABLES
  pc,              \* "startup", "idle", a place in capture(), or "stopped"
  opened,          \* m_fd is a device
  mapped,          \* the buffers whose m_dev_buf entry is set
  m_dev_buf_idx,
  m_capture,
  formats,         \* the widths the camera offers, in its order
  target_index,    \* the one chosen, 0 for none
  requested,       \* driver: its number of buffers
  streaming,       \* driver: is it streaming?
  queue,           \* driver: the buffers it owns, oldest first
  filled,          \* driver: the frames it filled the first of those with,
                   \* whose lengths it will report
  memory,          \* what each buffer holds: a frame, or NoJpeg
  frames,          \* frames the camera has made
  bufferinfo,      \* what VIDIOC_DQBUF returned: a buffer, and the frame
                   \* (of `filled`) whose length bytesused is
  lost,            \* history: failed DQBUFs that left their buffer queued
  sent             \* history: last message, the frame of its bytes and the
                   \* frame of its length; <<0, 0>> before the first

device == <<opened, mapped, formats, target_index, requested, streaming>>
driver == <<queue, filled, memory, frames>>

vars == <<pc, device, m_dev_buf_idx, m_capture, driver, bufferinfo, lost, sent>>

-----------------------------------------------------------------------------
(* startup()                                                               *)

\* Is format i closer to the width wished for than format j?
Closer_OrEqual(i, j) ==
  LET diff(k) == formats[k] - TARGET_WIDTH
  IN  diff(i) * diff(i) <= diff(j) * diff(j)
Closer(i, j) ==
  LET diff(k) == formats[k] - TARGET_WIDTH
  IN  diff(i) * diff(i) < diff(j) * diff(j)

\* The loop over the formats: the best of the first i.
TargetIndex ==
  LET best[i \in 0..Len(formats)] ==
        IF i = 0 THEN 0
        ELSE IF best[i - 1] = 0 \/ Closer(i, best[i - 1]) THEN i
        ELSE best[i - 1]
  IN  best[Len(formats)]

\* The device cannot be opened, or cannot capture, or offers no format.
NoDevice ==
  /\ formats = <<>>
  /\ opened' \in BOOLEAN
  /\ UNCHANGED <<mapped, target_index, requested, streaming>>

\* A format is chosen; VIDIOC_S_FMT or VIDIOC_REQBUFS fails, or n buffers are
\* mapped and then VIDIOC_QUERYBUF (the driver may have granted fewer), mmap
\* or VIDIOC_STREAMON fails, or nothing does.
Streams_Always(n) == TRUE
Streams(n) == n = DEV_BUFFER_CNT

Device ==
  /\ formats # <<>>
  /\ opened' = TRUE /\ target_index' = TargetIndex
  /\ requested' \in 0..(DEV_BUFFER_CNT + 1)
  /\ \E n \in 0..DEV_BUFFER_CNT :
       /\ n <= requested'
       /\ mapped' = {b \in Buffers : b < n}
       /\ streaming' \in {FALSE, Streams(n)}

startup ==
  /\ pc = "startup" /\ pc' = "idle"
  /\ NoDevice \/ Device
  /\ UNCHANGED <<formats, m_dev_buf_idx, m_capture, driver, bufferinfo, lost,
                 sent>>

-----------------------------------------------------------------------------
(* update() and capture()                                                  *)

set_capturing ==
  /\ pc = "idle"
  /\ m_capture' \in BOOLEAN \ {m_capture}
  /\ UNCHANGED <<pc, device, m_dev_buf_idx, driver, bufferinfo, lost, sent>>

\* capture() returns false.
Fail == pc' = "idle" /\ m_capture' = FALSE

NotConnected ==
  /\ pc = "idle" /\ m_capture
  /\ Fail
  /\ UNCHANGED <<device, m_dev_buf_idx, driver, bufferinfo, lost, sent>>

\* The buffer after this one, which is cleared: also if the driver owns it.
NextBuffer_NoWrap == m_dev_buf_idx + 1
NextBuffer == (m_dev_buf_idx + 1) % DEV_BUFFER_CNT

Cleared(b) == IF b \in mapped THEN [memory EXCEPT ![b] = NoJpeg] ELSE memory

Queued(b) == \E i \in 1..Len(queue) : queue[i] = b

\* The driver's queue after VIDIOC_QBUF.
Enqueued_Missing(b) == queue
Enqueued_Previous(b) == Append(queue, m_dev_buf_idx)
Enqueued(b) == Append(queue, b)

\* VIDIOC_QBUF, which the driver refuses for a buffer it has or does not know.
QueueBuffer ==
  /\ pc = "idle" /\ m_capture
  /\ m_dev_buf_idx' = NextBuffer
  /\ memory' = Cleared(NextBuffer)
  /\ \/ /\ opened /\ NextBuffer < requested /\ ~Queued(NextBuffer)
        /\ queue' = Enqueued(NextBuffer)
        /\ pc' = "dequeue" /\ UNCHANGED m_capture
     \/ /\ DriverErrors \/ ~opened \/ NextBuffer >= requested
          \/ Queued(NextBuffer)
        /\ UNCHANGED queue /\ Fail
  /\ UNCHANGED <<device, filled, frames, bufferinfo, lost, sent>>

\* VIDIOC_DQBUF returns the oldest buffer, once it is filled.
DequeueBuffer ==
  /\ pc = "dequeue" /\ streaming /\ filled # <<>>
  /\ bufferinfo' = <<Head(queue), Head(filled)>>
  /\ queue' = Tail(queue) /\ filled' = Tail(filled)
  /\ pc' = "check"
  /\ UNCHANGED <<device, m_dev_buf_idx, m_capture, memory, frames, lost, sent>>

\* VIDIOC_DQBUF fails: without streaming always, and then the buffer stays
\* with the driver; else a buffer may be given back in spite of the error.
DequeueFails ==
  /\ pc = "dequeue" /\ (DriverErrors \/ ~streaming)
  /\ \/ lost' = lost + 1 /\ UNCHANGED <<queue, filled>>
     \/ /\ streaming /\ queue # <<>> /\ queue' = Tail(queue)
        /\ filled' = IF filled # <<>> THEN Tail(filled) ELSE filled
        /\ UNCHANGED lost
  /\ Fail
  /\ UNCHANGED <<device, m_dev_buf_idx, memory, frames, bufferinfo, sent>>

\* is_jpeg() looks at the buffer queued last.
is_jpeg == memory[m_dev_buf_idx] # NoJpeg

CheckFrame ==
  /\ pc = "check"
  /\ \/ is_jpeg /\ pc' = "send" /\ UNCHANGED m_capture
     \/ ~is_jpeg /\ Fail
  /\ UNCHANGED <<device, m_dev_buf_idx, driver, bufferinfo, lost, sent>>

\* The message: bytesused bytes of the buffer queued last.
SendFrame ==
  /\ pc = "send"
  /\ sent' = <<memory[m_dev_buf_idx], bufferinfo[2]>>
  /\ pc' = "idle"
  /\ UNCHANGED <<device, m_dev_buf_idx, m_capture, driver, bufferinfo, lost>>

shutdown ==
  /\ pc = "idle" /\ pc' = "stopped"
  /\ streaming' = FALSE /\ queue' = <<>> /\ filled' = <<>>
  /\ mapped' = {} /\ opened' = FALSE
  /\ UNCHANGED <<formats, target_index, requested, m_dev_buf_idx, m_capture,
                 memory, frames, bufferinfo, lost, sent>>

\* The server has stopped, or waits for the camera.
Waiting == pc \in {"stopped", "dequeue"} /\ UNCHANGED vars

-----------------------------------------------------------------------------
\* The driver fills the oldest empty buffer: with a frame, or with something
\* that does not begin like a JPEG.
FillBuffer ==
  /\ streaming /\ Len(filled) < Len(queue)
  /\ \E frame \in {NoJpeg, frames + 1} :
       /\ frame <= MaxFrames
       /\ memory' = [memory EXCEPT ![queue[Len(filled) + 1]] = frame]
       /\ filled' = Append(filled, frame)
       /\ frames' = IF frame = NoJpeg THEN frames ELSE frame
  /\ UNCHANGED <<pc, device, m_dev_buf_idx, m_capture, queue, bufferinfo, lost,
                 sent>>

Init ==
  /\ pc = "startup"
  /\ formats \in UNION {[1..n -> Widths] : n \in 0..MaxFormats}
  /\ opened = FALSE /\ mapped = {} /\ target_index = 0
  /\ requested = 0 /\ streaming = FALSE
  /\ m_dev_buf_idx = 0 /\ m_capture = FALSE
  /\ queue = <<>> /\ filled = <<>> /\ frames = 0
  /\ memory = [b \in Buffers |-> NoJpeg]
  /\ bufferinfo = <<0, NoJpeg>> /\ lost = 0 /\ sent = <<NoJpeg, NoJpeg>>

capture == \/ QueueBuffer \/ DequeueBuffer \/ DequeueFails
           \/ CheckFrame \/ SendFrame

Next == \/ startup \/ set_capturing \/ NotConnected \/ capture
        \/ shutdown \/ Waiting \/ FillBuffer

Spec == Init /\ [][Next]_vars

\* The thread runs, and a streaming camera fills what it is given.  A call
\* that need not fail is not relied upon to fail.
FairSpec ==
  /\ Spec
  /\ WF_vars(DequeueBuffer \/ CheckFrame \/ SendFrame)
  /\ WF_vars(~streaming /\ DequeueFails)
  /\ WF_vars(FillBuffer)

-----------------------------------------------------------------------------
\* The values every variable keeps to.
TypeOK ==
  /\ pc \in {"startup", "idle", "dequeue", "check", "send", "stopped"}
  /\ opened \in BOOLEAN /\ mapped \subseteq Buffers
  /\ m_dev_buf_idx \in Buffers /\ m_capture \in BOOLEAN
  /\ requested \in Nat /\ streaming \in BOOLEAN
  /\ queue \in Seq(Buffers) /\ filled \in Seq(Nat) /\ Len(filled) <= Len(queue)
  /\ memory \in [Buffers -> Nat] /\ frames \in Nat
  /\ bufferinfo \in Buffers \X Nat /\ lost \in Nat /\ sent \in Nat \X Nat

\* The loop of startup() chooses the first of the formats whose width is
\* closest to TARGET_WIDTH.
ChoosesClosest ==
  LET distance(i) == IF formats[i] > TARGET_WIDTH THEN formats[i] - TARGET_WIDTH
                                                  ELSE TARGET_WIDTH - formats[i]
  IN  target_index > 0 =>
        \A i \in 1..Len(formats) :
          /\ distance(target_index) <= distance(i)
          /\ i < target_index => distance(target_index) < distance(i)

\* capture() reads a buffer only if it is mapped, wherever startup() failed
\* and although capturing can be switched on all the same: a device that
\* gives a buffer back is one whose startup mapped them all.
ReadsMappedOnly == pc \in {"check", "send"} => m_dev_buf_idx \in mapped

\* What capture() copies belongs to the thread, and is the frame whose length
\* it has, as long as no failed VIDIOC_DQBUF left a buffer with the driver.
FramesMatchUntilLoss ==
  pc \in {"check", "send"} /\ lost = 0 =>
    /\ bufferinfo = <<m_dev_buf_idx, memory[m_dev_buf_idx]>>
    /\ ~Queued(m_dev_buf_idx)

\* Between two captures the driver has exactly the buffers that failures left
\* with it: no other call loses one, and nothing takes a lost one back.
DriverKeepsLostOnly == pc = "idle" => Len(queue) = lost

\* "Dequeue the buffer" (v4l2.cpp:311): the message holds one captured frame,
\* and the length it announces is that of the frame.
MessageIsOneFrame == sent[1] = sent[2]

\* A capture() that began ends: VIDIOC_DQBUF is never called when there is no
\* buffer to wait for.
CaptureReturns == pc \in {"dequeue", "check", "send"} ~> pc = "idle"

=============================================================================
