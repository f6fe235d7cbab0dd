# mkart in TLA+

TLA+ models, model-checking runs and machine-checked proofs about mkart: a Raspberry Pi that drives a
kart and streams its camera (`server/`), and two clients, one in Qt (`client-qt/`), one in
Unity (`client-unity/`). `PROJECT.json` holds the same information as tables: components, runs, mutants,
the lines each definition models, findings, hazards and theorems.

## The system

```
   Qt FpvService --+                    +-- V4L2 camera (frames)
                   |  JavaScript text   |
   Unity client ---+------> RpiServer --+-- GPIO pins
                   |  <---------------- |
                   |   framed messages  +-- duktape (evaluates the text)
   Qt RemoteService ---- binary commands, to a server that is not in this repository
```

A client connects to port 8080 and sends JavaScript; no framing, the server evaluates whatever is
available at once. The server answers with messages of the "generic format" of `server/README.md`: a
size of four bytes and as many bytes of data. Size 0 is the keep-alive, the others begin with `JPEG` or
`GPIO`. The server has a single slot for a client.

| component | state it keeps | operations | what is hard | what makes it correct |
|---|---|---|---|---|
| RpiServer (`rpi_server.cpp`, `main.cpp`) | `m_state`, `m_sock_peer`, the pending accept, the io_service, `m_last_time` | startup, update, wait_for_connection, receive_commands, send_keepalive, send, handle_accept, handle_error, exit, shutdown | every call can fail and replace the connection under its caller; peers vanish; TCP cuts the text anywhere | it always listens when it has no peer, has one session, deletes no socket in use, honours exit, does not hang, frees the slot of a dead peer |
| V4L2 (`v4l2.cpp`) | `m_capture`, two device buffers, `m_dev_buf_idx`, `m_last_time` | startup, update, set_capturing, capture, shutdown | capture blocks the only thread; failures leave buffers queued | no capture without a peer; a buffer is queued once |
| GPIO (`gpio.cpp`) | the registered commands | startup, shutdown, ten commands | commands exist only if pigpio started; a read sends from inside a script | a reply per read; messages as documented |
| memory archives (`archive.h`, `kart_archive.h`) | bytes, a read position | write, read, reset | reads past the end | what was written is read back |
| Qt Tcp (`tcp.cpp`) | `m_state`, `m_message_buffer`, `m_message_remain`, `m_message_ready` | update, read_message, connect, disconnect, send_raw | partial headers and payloads, errors and reconnects in the middle of a message | messages whole, once, in order; writes inside the buffer |
| Qt FpvService (`fpv_service.cpp`) | `m_capture`, the texture | update, connect, disconnect, set_capturing, remote_exit | commands are dropped silently unless connected; a reconnect waits behind its own dead connections | the camera does what the client last wrote; a reconnect is served |
| Qt RemoteService, KartCommands | an output archive; the dispatch table | send_cmd; register, dispatch | a size byte that must fit, short reads | dispatch gives back the command sent |
| ControlView | `m_motor_speed`, `m_mouse_draging` | on_imgui, get_motor_speed | hand-written corner values; clicks and releases between frames; frames of any length | speeds that fit a command, symmetric ahead, at rest when nobody drags |
| Unity V4L2Client (`V4L2Client.cs`) | `m_TcpClient`, `m_Received` | Connect, Disconnect, RemoteCommand, RecieveMessage | the same stream, another reader; exceptions | as for Qt Tcp |
| views, windows, sensors, build files | - | user interface | - | not modelled |
| duktape, jpge, jpgd | - | third party | - | not modelled; what the server relies on in duktape is in RpiServer |

RemoteService and KartCommands are compiled, but nothing in the Qt application calls `RemoteService::connect` or the
dispatcher. ConnectionView and ControlView are headers that `mkart.pro` lists and no file includes (the application draws
FpvView only), and ControlView shows its speeds without sending them. So the receiver of the commands is an external
program here, and the pad and the commands meet only in the 16 bits of a speed. The
libraries asio, dukglue, pigpio, loguru, glm and imgui are git submodules that are not in the tree; they
are modelled from how the code uses them.

How they interact: the server's accept handler is a callback run by `io_service::poll()` in the server's
only thread; commands are callbacks of the interpreter in the same thread, inside `receive_commands()`;
client and server share nothing but the TCP connection. In the Qt client everything runs in the handler
of a 16 ms timer, in Unity in `Update()`. So what interleaves is one pass of a loop, step by step, with peers, network,
camera and clock.

## Modules

| module | models |
|---|---|
| `RpiServer` | the server's loop with its peers |
| `MC_RpiServer` | its command sets for TLC |
| `RpiServerProofs` | theorems about `RpiServer` |
| `MessageChannel` | abstract: what the message stream promises a client |
| `Wire` | the bytes between the server and a client, and how messages are framed |
| `QtTcp` | the reader of the Qt client |
| `WireProofs` | lemmas about the bytes and frames of `Wire`, for both readers |
| `QtTcpProofs` | theorems about `QtTcp` |
| `UnityClient` | the reader of the Unity client |
| `UnityClientProofs` | theorems about `UnityClient` |
| `FpvSession` | the Qt client with its buttons, composed with `RpiServer` through a listen queue |
| `FpvSessionProofs` | `FpvSession` refines `RpiServer`, and what follows from it |
| `V4L2Capture` | the camera: startup, capture with the device buffers and the driver, shutdown |
| `V4L2CaptureProofs` | theorems about `V4L2Capture` |
| `KartArchive` | the bytes of 16-bit integers, and reads that do not fit |
| `KartCommands` | commands: send_cmd, registration and dispatch, over a stream |
| `ControlView` | the pad: mouse events, frames, the wheel speeds |
| `RemoteControl`, `MC_RemoteControl` | the pad and the commands together, and their values for TLC |
| `RemoteControlProofs` | theorems about `RemoteControl` |
| `Induction` | lemmas: induction over numbers, and what `FlattenSeq` computes |

`QtTcp` and `UnityClient` EXTEND `Wire` and instantiate `MessageChannel`: the refinement mapping hides the bytes, and
maps `broken` to `out_of_step`, the reader's loss of the message boundaries. `FpvSession` instantiates `RpiServer` with `backlog`
as the length of its queue: each of its actions is an action of the server, of a peer, or of nobody the server sees.
An operator `Op_Mistake` is `Op` with one mistake; no action uses it. Each is there to show that
a property depends on the code it is about (`mutants` in `PROJECT.json`).

### RpiServer

`pc` is the place in `RpiServer::update()`: `poll`, `receive`, `script`, `keepalive`, `video`, `dqbuf` (in
the blocking ioctl), `sleep`; then `exiting` and `stopped` for the atexit handler, `hung` for the endless
loop of duktape, `crashed` for one outcome of undefined behaviour. Between two steps peers connect, send, leave, and time passes.

- `m_sock_peer` merges the socket object with what its peer does: `unopened` (new, nothing accepted),
  `alive`, `closed` (the peer closed or vanished, the kernel still takes bytes), `probed` (bytes went to a
  closed peer), `reset` (the kernel knows; sends and receives fail), `deleted`.
- `accept_live` is an accept on the current object; `accept_freed` counts accepts on deleted objects. The
  io_service keeps `async_accept(*m_sock_peer)`'s reference, so `AcceptIntoFreed` is undefined behaviour: a
  nondeterministic choice over the memory having become the new socket, something else, or unusable.
- `keepalive_due`, `frame_due` are "more than 5000 ms" and "more than 100 ms" ago.
- `rx` is what can be read; each element one command, or a `fragment`. All of it becomes one script. A
  fragment is free to be harmless, a reference error, or to stop the whole script from compiling.
- One operator `wait_for_connection` is used by every failing path, as in the code; `send` chooses between
  success and `handle_error`.
- `gpio_ok` and `video_ok` are drawn at the start: `startup()` ignores what the two report.

### Wire, QtTcp, UnityClient

A byte is the pair (message, place in it). A header's bytes give the size of its message; four bytes
that are not one header give any size of `GarbageSizes`. So corruption is visible without coding text.
The network delivers any prefix (`Arrive(n)`, or `RecieveMessage(n)` in Unity); `SplitHeaders` says whether a cut may fall into a header.

`QtTcp` has one action per half of `FpvContext::update()`: `TcpUpdate` (state mirror and at most one read)
and `TcpReadMessage`. `inbuf` is what QTcpSocket has buffered.
`UnityClient` has one action per frame, `RecieveMessage(n)`, with a disjunct per path: incomplete,
keep-alive, a message, an exception. A garbage size that is negative as an `int` behaves like `Throws`
and is not enumerated.

`first` is the first message of the connection, and `out_of_step` becomes true where the code loses the boundaries (a
header taken in part, a payload given up, a connection begun with bytes of the last one); a new connection begins in
step if the reader is between two messages. `ImplementsChannel` says that nothing else breaks the stream.

### FpvSession

A command is written to the place the connection is at: kept by the socket while it connects (`pending`), in the listen queue
(`queue`, one sequence of commands for each connection), in the slot (`unread`, then `rx` of the server), or nowhere when the
network cut it. `tcp_connected` is what `Tcp::update()` last saw, which is what `send_raw()` asks; the socket itself is `qsock`. The
user's buttons are `SetCapturing`, `remote_exit`, `connect`, `disconnect`; `connect` includes the request that `FpvService::connect()` sends
at once. Connections that the client gave up stay in the queue or in the slot until the server finds out. `asked` is history:
the last request of the camera was written to the connection the client has now.

### KartCommands, ControlView, RemoteControl

`stream` is what was sent; the receiver takes the number of bytes the first one says (`ReceiveBySize`) or what TCP delivered
(`ReceiveRaw`), and dispatches until its archive is empty. `Unwritten` is a field no read reached. `astray` is history: an archive
ended inside a command, or an unknown command had fields, which the dispatcher does not skip.
`ControlView` counts in units in which every operation of the floats is exact: the pad in quarters of `pad_size`,
full speed 16, the mix of the corners in 1/1024. A frame is short (the speed is halved), long (it passes zero) or slow (it doubles):
`1 - 2 * delta_t` for 1/4, 3/4 and 3/2 of a second. The halving truncates: the speed of the model reaches 0 where that of the code becomes
so small that the wheel speeds, which are integers, do. `SlowsDown` says "exactly zero" in this sense.

### V4L2Capture

Startup is one action with an outcome for each step it can give up at, since nothing interleaves with it and it undoes nothing:
`NoDevice` up to the search for a format, then `Device` with n buffers mapped of those the driver granted. `queue`, `filled` and `memory` are the
driver's: it owns the buffers of `queue` and fills them oldest first while `capture()` is between
two of its calls. `filled` has the frames it filled them with, whose lengths it reports even if `memory` was cleared since. A frame is a number, `NoJpeg` anything that does not begin like a JPEG; `bufferinfo` is what VIDIOC_DQBUF wrote
over the local variable of that name. `memset` of the buffer is part of `QueueBuffer` and happens also when
the driver owns it. VIDIOC_DQBUF that fails leaves its buffer queued (always when not streaming), or
gives one back in spite of the error, as V4L2 allows. Whether a peer is connected is free here; `RpiServer` has
the same capture as `UpdateVideo`, `FrameCaptured` and `FrameLost`, and the time between frames.

## Runs

Every passing run is exhaustive for its bounds; the longest, `session`, takes three and a half minutes on two cores.

| run | config | shows |
|---|---|---|
| `server_gpio` | `RpiServer_gpio` | `TypeOK`, `NeverDeaf`, `OneSession`, `CleanStreamNeverHangs`, `DanglesOnlyInScript`, `ExitOnlyLostToFailedSend`, with commands that answer from a script |
| `server_qt` | `RpiServer_qt` | `NoDanglingAccept` and the liveness properties `DeadPeerReplaced`, `CaptureStops`, `ExitStops`, `WaitingPeerAccepted`: commands of the Qt client, whole or in pieces. A server asked to exit stops, but for two exceptions that `ExitStops` names: a failed send makes it forget (`ExitOnlyLostToFailedSend`), and what follows the `exit()` in the same script hangs the interpreter (finding 1) |
| `server_split` | `RpiServer_split` | violation: the fatal handler returns and the server hangs |
| `qt_reader` | `QtTcp_reader` | under every fault: the reader implements `MessageChannel`; `EveryMessageDelivered`; `WritesInsideBuffer`, `ReadyIsComplete`, `FourCCInMessage`, `InOrder` |
| `qt_stale`, `qt_split` | `QtTcp_stale`, `QtTcp_split` | violations: a message nobody sent is handed out |
| `unity_reader` | `UnityClient_reader` | over two connections, with or without Disconnect(): the reader implements `MessageChannel`; `EveryMessageDelivered`, `BeginsWithMessage`, `InOrder` |
| `unity_stale` | `UnityClient_stale` | violation: Connect() without Disconnect() joins two streams |
| `session` | `FpvSession_buttons` | `FilmsOnlyOnRequest`, `CameraStops`: the camera against what the client wrote last; `ReconnectServed`: a client behind its own dead connections, one in the slot and one before it in the queue |
| `remote` | `RemoteControl_pad` | `ExecutesWhatWasSent`, `EveryCommandDispatched`; `SpeedsFitCommand`, `ForwardSymmetric`, `SteersOnlyWithButton`, `SlowsDown` |
| `camera` | `V4L2Capture_all` | `TypeOK`, `ChoosesClosest`, `ReadsMappedOnly`, `FramesMatchUntilLoss`, `DriverKeepsLostOnly`, `CaptureReturns`, over every startup and with a driver that may refuse any call |
| `camera_loss` | `V4L2Capture_loss` | violation: bytes of one frame are sent with the length of another |

### Bounds

- `MaxBacklog` 1: a peer waits while another has the slot. `MaxRx` 2 unread commands: the smallest script in
  which one command fails and another follows, or an exit is followed by something that cannot be evaluated.
- `MaxFreed` saturates the count of orphaned accepts, at 1 or 2; from there another is like the last.
- `MessageSizes` {0, 5} or {0, 5, 6}: the keep-alive, and messages longer than a header so that a stray header
  can lie inside a payload. `MaxMessages` 2 or 3: one being read, one behind it, one more to be displaced.
  `MaxConnections` 2 is one reconnect. `ReadBufferSize` 12 makes Unity need two reads for some streams; the
  real 1 MB buffer only matters in that a read can be shorter than what is available.
- `FpvSession`: one connection in the slot and two in the queue (`MaxBacklog` 2), so that a dead connection can stand before the live one in
  the slot and another in the queue. One command not read from the connection in the slot, and one on all the connections that wait
  (`MaxUnread` 1, see `Room`): a request crosses every place while the slot still holds an older one.
- `RemoteControl`: two commands, one with fields and one without, so that each can follow the other; `Cuts` 1 ends inside of every
  command, 8 is both together. One position of the mouse in each half of the pad and one beyond full speed;
  `MaxSpeed` 32 is twice full speed, so a slow frame can drive the speed past the clamp.
- `DEV_BUFFER_CNT` 2 is the code's; the theorems hold for any number. `Widths` lie on both sides of `TARGET_WIDTH`, two at the same distance. `MaxFrames` 3 or 4: enough
  for one in each buffer and one sent before.
- `GarbageSizes`: smaller, equal or larger than what is there.

### Fairness

`RpiServer!FairSpec`: weak fairness of the thread's steps (`main()` loops for ever), of a possible accept and of the end of a poll (`poll()` runs ready
handlers and returns), of `ResetArrives` (TCP reports what it learnt), strong fairness of the two timers,
which are enabled only while the loop sleeps or waits. `WF(Pass)` includes the camera answering `VIDIOC_DQBUF`: with a camera that blocks for ever
nothing about liveness holds. It includes the blocking `send()` too (`rpi_server.cpp:166`): a peer that stays connected and does not read what it is
sent can hold the only thread there, and everything said of liveness is about peers that read, or are gone. `QtTcp!FairSpec`: the timer fires (`WF(Update)`), TCP delivers (`SF(Delivery)`, since it is
disabled between the two halves of an update). `V4L2Capture!FairSpec`: the thread runs, a streaming camera fills a queued buffer,
and `VIDIOC_DQBUF` fails for certain only where it must (without streaming): no property relies on the failure of a legal call. `UnityClient!FairSpec`: frames are drawn, and some of them find bytes. `FpvSession!FairSpec`: the server's loop runs (`WF(Serve)`),
the network delivers what was written and tells of connections that are gone (`WF(Network)`; it is never required to cut the connection the
client uses), the timers elapse (`SF(Clock)`); nothing is assumed of the client and the user. `RemoteControl!FairSpec`: the receiver reads what a size byte
says and dispatches, and the 16 ms timer of KartApplication redraws (`WF(FastFrame)`); slow frames and cuts anywhere happen but need not.

### Findings

1. `server_split`: a command that fails to evaluate ends in duktape's endless loop, not in an exit
   (`rpi_server.cpp:136`, `duktape.c:23214-23228`). Exactly when a clean stream is safe is
   `CleanStreamNeverHangs`, which is proved.
2. `qt_stale`: `Tcp::connect()` keeps the reader's state of the previous connection.
3. `qt_split`: fewer than four bytes of a header are consumed and lost.
4. `unity_stale`: `Connect()` keeps `m_Received`. `ImplementsChannel` shows that this is the only way to lose the boundaries.
5. `camera_loss`: after a failed VIDIOC_DQBUF the server looks at the buffer it queued, not at the one it dequeued (`v4l2.cpp:312-346`);
   `DriverKeepsLostOnly` says that nothing ever takes the lost buffer back: with two failures every later VIDIOC_QBUF fails.

Observations that no run of their own shows:

- `FpvService::connect()` restores nothing: it sends the capture request before the socket is connected, and `send_raw()` refuses it
  (`fpv_service.cpp:176`, `tcp.cpp:195`). The camera of a server that still films for the last connection goes on filming when the user pressed Stop
  in between. `FilmsOnlyOnRequest` and `CameraStops` hold only with `asked`, that is, when the last request was written to this connection.
- Backwards the pad is not what the comment above `get_motor_speed()` draws (`control_view.h:110-116`): at the lower right, (-0.5, -1) there, the
  wheel for -1 turns at +1 and the one for -0.5 at -0.25; at the lower left, (-1, -0.5) there, the one for -0.5 turns at -0.25. So the two sides are not
  symmetric. Ahead the inner wheel has 0.25 where the comment has 0.5.
- A release of the mouse button with a new press before the next frame is missed (`control_view.h:82`): the drag goes on, and the kart
  follows a mouse that may have been pressed elsewhere. `SteersOnlyWithButton` is what holds: no steering from one frame with the button up to the next.
- A frame longer than a second makes the speed of the pad grow instead of fall (`control_view.h:79`); `SlowsDown` needs that there are finally none.
- The GPIO message announces 12 bytes (`gpio.cpp:89`); `server/README.md:65` says 0x10. What is sent is 16 bytes with the size.
- `dispatch_from_archive()` returns false on success too (`kart_commands.cpp:66`), and does not skip the fields of an unknown command.

What the passing runs say about the limits of the code is as important: `DanglesOnlyInScript` and
`ExitOnlyLostToFailedSend` are the strongest statements that hold; that no socket dangles and no exit is lost do not hold in
general. `NoDanglingAccept` holds for peers that never call `gpio_get_*`, as the Qt client never does.

## Proofs

TLC checks the bounds above; the theorems hold for every value of the constants, under the named
assumptions on them (`CommandsAssumption`, `SplitAssumption`, `BoundsAssumption`, `WireAssumption`,
`QtTcpAssumption`, `UnityAssumption`, `V4L2Assumption`, `FpvAssumption`, `CmdsAssumption`, `ViewAssumption`). They give the constants their
kinds, and one says more: in `WireAssumption` a message is empty or has four bytes at least, because the
keep-alive has none (`rpi_server.cpp:149`), the camera sends `bytesused + 4` (`v4l2.cpp:335-350`) and GPIO 12 (`gpio.cpp:89`). Every invariant a
passing run checks is a theorem here, and the inductive invariants behind them were checked by TLC on small bounds before they were proved.

`RpiServerProofs`
- `TypeCorrect`: `TypeOK` is inductive.
- `ListensWhenDisconnected`, `OneSessionAtATime`: neither property is inductive. `SessionInv` adds `PassInv`
  (in the steps that use the connection there is one) and `FreshAcceptInv` (which socket states can have an accept
  pending). The argument: `wait_for_connection` establishes every part whatever it starts from, and it is the only way to lose a peer.
- `DanglesInScript`: with `SessionInv`, a step that calls `wait_for_connection` outside a script starts without
  an outstanding accept.
- `NoDanglingWithoutReads`: assuming `"gpio_get" \notin Commands`, no script sends, so nothing is orphaned.
- `ExitLostOnlyToFailedSend`: an action property, by the cases of `Next`.
- `CleanStreamIsSafe`: without split commands `rx` and `script` hold whole commands (`WholeCommands`), so
  only an unregistered gpio command can fail.

`WireProofs`: a stream of bytes as a sequence of pairs. `InFrames` says that every byte is one of a message that was sent, `Ordered` that they come in
the order they were sent in, `Stream` that nothing is missing between two of them, `NextIs` which byte is the first. The lemmas say how these survive
a byte string that is cut, joined or sent.

`QtTcpProofs`
- `TypeCorrect`, `PayloadStaysInBuffer`, `ReadyMessagesAreComplete`: `Inv` is the three properties together, and inductive only so: that a read
  stays in the buffer needs `remain <= size`, that a ready buffer is not empty needs that a payload was awaited.
- `HandedOutInOrder`: also out of step, and over all connections. `OrderInv` says of what was not read that it is in order and behind everything
  handed out, and the same of the filled part of the buffer while it is in use: a message made of displaced bytes still consists of bytes
  later than those of the last one.
- `FourCCAlwaysThere`, `QtTcpImplementsChannel`: in step, the reader is before a header, in the middle of a payload or has a whole one
  (`StepInv`: `Between`, `Midway`, `Complete`), and all messages of the connection before that one were handed out. For every action, in step, this place
  says what the abstract channel does: it stutters, or hands out the next message; the other steps set `out_of_step`.

`UnityClientProofs`: the same argument with less state. `TypeCorrect`, `HandedOutInOrder`, `BeginsWithHeader`, `UnityImplementsChannel` follow from `ReceiveInv`: what was
received and what is in flight are one stream. `Connect()` keeps `m_Received`, so its order must hold across connections (`OrderInv`), and a client that
has no connection holds no bytes or is out of step (`NullInv`).

`V4L2CaptureProofs`: `FramesMatchUntilLoss` needs to know that without a loss the driver's queue is empty, but between QBUF and DQBUF, when it holds the
buffer queued last, and what it filled it with is still there (`QueueInv`, `FrontInv`); `ReadsMappedOnly` needs that only a device whose startup mapped everything streams (`MappedInv`).
`ClosestIsChosen` is an induction over the loop of `startup()`: after i formats the choice is the first of the closest of them (`ChosenIsClosest`). The squares the code compares
order as the distances do (`SquaresCompare`).

`FpvSessionProofs`
- `SessionImplementsServer`: every step of the session is a step of `RpiServer` or changes nothing of it. The invariant it needs, `ClientInv`, is that the sequences hold
  commands and that a connection said to be in the queue is there (`PlaceInv`): only then does writing on it leave the length of the queue.
- `TypeCorrect` and `NoDanglingInSession` are inherited: `RpiServerProofs` is instantiated with the same substitution, its assumptions
  are discharged (`ServerAssumptions`), and the two instances are the same formula (`SameServer`).
- `FilmsForTheClient`: `FilmInv` follows the client's last request to wherever it stands. If it was written to the connection the client has (`asked`), it is the last
  camera command of `pending`, of the last connection in the queue, or of the slot; in the slot of `unread`, or else of `rx`, or else of `script`; and where none is left,
  the camera is as it says (`AskedInv`). The requests of earlier connections do not come between, because the slot is the client's only while its connection
  is alive in it, and a client without a connection has no place at all (`PlacesInv`).

`RemoteControlProofs`
- `RoundTrip`, `CommandRoundTrip`: every 16-bit speed comes back from its bytes. The nonlinear part, `%` and `\div`, is in small lemmas about integers.
- `SpeedsFit`: the mix of three corners weighted by s, t and 1 - s stays between the corners (`MixStaysBetween`), so a wheel keeps to 1024; with
  `CommandRoundTrip` and `TypeCorrect` the rest follows. `ForwardIsSymmetric` compares the two upper quadrants. `SteersWithButton` rests on `DragInv`, that a drag
  outlives no frame with the button up, which is inductive with `TypeOK`.

- `ExecutesInOrder`: `CommandInv` says that the archive and the stream are the bytes of commands sent, up to some command e and from there on, and that those before were executed.
  The bytes of several commands are a fold, so this needs that they join (`BytesJoin`), that a command has two bytes at least (`BytesGrow`), and that a rest of whole commands
  begins where one of those sent begins, which is shown by the lengths (`ReceiveRawKeepsCommands`).

`Induction`: the library's induction theorems take an operator, which the backends cannot instantiate. `LeastNumber` takes a set: not empty, it has a least element (`WFMin` with the
library's well-founded order of the numbers). From it come induction (`AllNumbers`), that a recursive function exists and is unique (`JoinsExists`,
`JoinsUnique`), and what `FlattenSeq` computes for every sequence (`FlattenAppend`, `ImagesConcat`).

Only model-checked: the liveness properties, because fairness and ENABLED are beyond the prover: `DeadPeerReplaced`, `CaptureStops`, `ExitStops`, `WaitingPeerAccepted`,
`EveryMessageDelivered` (of both readers), `CaptureReturns`, `CameraStops`, `ReconnectServed`, `EveryCommandDispatched`, `SlowsDown`. The safety they rest on is proved.
There are no RECURSIVE operators.

## Not modelled

- duktape, jpge, jpgd: third party, and most of the lines of the repository. What the server relies on in duktape is in
  `RpiServer`; the codecs are compiled but not called.
- Short sends (asio's blocking send gives the kernel everything, or fails), sends that block for ever, clocks that step back, the
  contents of frames, the pins, JPEG decoding and rendering.
- Views but for their buttons and the pad's mouse, SensorService, the Unity scene and its editor, build files.
- Archives of other integers than the 16 bits commands have; no code uses them.
- The Tcp of RemoteService: it is the same class as the one of FpvService.

## Plan

Done, in this order: RpiServer, its proofs; MessageChannel, Wire, QtTcp, its memory safety; UnityClient; V4L2Capture, its proofs;
FpvSession, its refinement; KartArchive, KartCommands, ControlView, RemoteControl, its proofs; then the order and refinement of both
readers, FilmsOnlyOnRequest, and the inductions over data (ChoosesClosest, ExecutesWhatWasSent).

Every safety property of a passing run is proved. What is left:

1. The safety halves of the liveness properties: that a step towards the goal is never undone (a variant that only falls), as action
   properties with the invariants there are.
2. `FpvSession` also as a client of `QtTcp`: the two share `Tcp::update()`, and are composed by hand through `tcp_connected` only.
