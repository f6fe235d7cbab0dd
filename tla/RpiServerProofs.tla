-------------------------- MODULE RpiServerProofs --------------------------
(***************************************************************************)
(* Theorems about RpiServer, for every set of commands and every bound.    *)
(***************************************************************************)
EXTENDS RpiServer, SequenceTheorems, TLAPS

(***************************************************************************)
(* Type correctness                                                        *)
(***************************************************************************)

LEMMA InitTypeOK == Init => TypeOK
<1> SUFFICES ASSUME Init PROVE TypeOK
  OBVIOUS
<1>1. frame_due \in BOOLEAN
  BY DEF Init
<1>2. <<>> \in Seq(Pieces) /\ 0 \in 0..MaxFreed /\ 0 \in Nat
  BY BoundsAssumption
<1> QED BY <1>1, <1>2 DEF Init, TypeOK, PeerStates

\* What the server's variables become when it replaces a connection.
Listening ==
  /\ m_state' = "disconnected" /\ m_sock_peer' = "unopened"
  /\ accept_live' = TRUE /\ accept_freed' \in 0..MaxFreed
  /\ io_stopped' = FALSE /\ keepalive_due' = FALSE
  /\ rx' = <<>> /\ rx' \in Seq(Pieces) /\ tail' = "none"

\* wait_for_connection() leaves the server listening, and orphans an accept
\* only if one was outstanding.
LEMMA WaitTypes ==
  ASSUME TypeOK, NEW live \in BOOLEAN, NEW freed \in 0..MaxFreed,
         wait_for_connection(live, freed)
  PROVE  Listening /\ (~live => accept_freed' = freed)
BY BoundsAssumption
   DEF Listening, wait_for_connection, store_disconnected, reset, Orphaned

\* A send leaves everything it may change within the types.
LEMMA SendTypes ==
  ASSUME TypeOK, send
  PROVE  /\ m_state' \in {"disconnected", m_state}
         /\ m_sock_peer' \in PeerStates
         /\ accept_live' \in BOOLEAN /\ accept_freed' \in 0..MaxFreed
         /\ io_stopped' \in BOOLEAN /\ keepalive_due' \in BOOLEAN
         /\ rx' \in Seq(Pieces) /\ tail' \in Commands \cup {"none"}
<1>1. CASE ~SendFails /\ Sent /\ UNCHANGED keepalive_due
  BY <1>1 DEF Sent, TypeOK, PeerStates, stream
<1>2. CASE SendFails /\ handle_error(accept_live, accept_freed)
  <2>1. accept_live \in BOOLEAN /\ accept_freed \in 0..MaxFreed
    BY DEF TypeOK
  <2>2. wait_for_connection(accept_live, accept_freed)
    BY <1>2 DEF handle_error
  <2> QED BY <2>1, <2>2, WaitTypes DEF Listening, PeerStates
<1> QED BY <1>1, <1>2 DEF send

LEMMA NextTypeOK == TypeOK /\ [Next]_vars => TypeOK'
<1> SUFFICES ASSUME TypeOK, [Next]_vars PROVE TypeOK'
  OBVIOUS
<1> USE DEF session, listener, timers, hardware, stream
<1>1. CASE handle_accept
  <2>1. backlog' \in Nat
    BY <1>1 DEF handle_accept, PollReady, TypeOK
  <2> QED BY <1>1, <2>1 DEF handle_accept, TypeOK, PeerStates
<1>2. CASE AcceptError
  <2>1. wait_for_connection(FALSE, accept_freed) /\ accept_freed \in 0..MaxFreed
    BY <1>2 DEF AcceptError, handle_error, TypeOK
  <2>2. backlog' \in Nat
    BY <1>2 DEF AcceptError, TypeOK
  <2>3. Listening
    BY <2>1, WaitTypes
  <2> QED BY <1>2, <2>2, <2>3 DEF Listening, AcceptError, TypeOK, PeerStates
<1>3. CASE AcceptIntoFreed
  <2>1. backlog' \in Nat /\ undefined' \in BOOLEAN
        /\ accept_freed - 1 \in 0..MaxFreed
    BY <1>3, BoundsAssumption DEF AcceptIntoFreed, PollReady, TypeOK
  <2>2. CASE handle_error(accept_live, accept_freed - 1) /\ UNCHANGED pc
    <3>1. wait_for_connection(accept_live, accept_freed - 1)
      BY <2>2 DEF handle_error
    <3>2. Listening
      <4>1. accept_live \in BOOLEAN
        BY DEF TypeOK
      <4> QED BY <2>1, <3>1, <4>1, WaitTypes
    <3> QED BY <1>3, <2>1, <2>2, <3>2 DEF Listening, AcceptIntoFreed, TypeOK, PeerStates
  <2>3. CASE ~(handle_error(accept_live, accept_freed - 1) /\ UNCHANGED pc)
    BY <1>3, <2>1, <2>3
       DEF AcceptIntoFreed, NetworkUnchanged, TypeOK, PeerStates
  <2> QED BY <2>2, <2>3
<1>4. CASE PollDone
  BY <1>4 DEF PollDone, AcceptOutstanding, TypeOK
<1>5. CASE ReceiveNothing
  BY <1>5 DEF ReceiveNothing, TypeOK
<1>6. CASE ReceiveFails
  <2>1. /\ wait_for_connection(accept_live, accept_freed)
        /\ accept_live \in BOOLEAN /\ accept_freed \in 0..MaxFreed
    BY <1>6 DEF ReceiveFails, handle_error, TypeOK
  <2>2. Listening
    BY <2>1, WaitTypes
  <2> QED BY <1>6, <2>2 DEF Listening, ReceiveFails, TypeOK, PeerStates
<1>7. CASE ReceiveScript
  BY <1>7 DEF ReceiveScript, Received, TypeOK
<1>8. CASE SyntaxError
  BY <1>8 DEF SyntaxError, Fatal, TypeOK
<1>9. CASE set_capturing
  <2>1. m_capture' \in BOOLEAN
    BY <1>9 DEF set_capturing
  <2>2. script' \in Seq(Pieces)
    BY <1>9 DEF set_capturing, Command, NextCommand, TypeOK
  <2> QED BY <1>9, <2>1, <2>2 DEF set_capturing, NextCommand, TypeOK
<1>10. CASE exit
  BY <1>10 DEF exit, Command, NextCommand, TypeOK
<1>11. CASE Harmless
  BY <1>11 DEF Harmless, Command, NextCommand, TypeOK
<1>12. CASE send_gpio_value
  <2>1. script' \in Seq(Pieces)
    BY <1>12 DEF send_gpio_value, Command, NextCommand, TypeOK
  <2> HIDE DEF stream
  <2> QED BY <1>12, <2>1, SendTypes DEF send_gpio_value, NextCommand, TypeOK
<1>13. CASE ReferenceError
  BY <1>13 DEF ReferenceError, Fatal, TypeOK
<1>14. CASE ScriptDone
  BY <1>14 DEF ScriptDone, TypeOK
<1>15. CASE send_keepalive
  <2>1. CASE NetworkUnchanged
    BY <1>15, <2>1 DEF send_keepalive, NetworkUnchanged, TypeOK
  <2>2. CASE Sent /\ keepalive_due' = FALSE
    BY <1>15, <2>2 DEF send_keepalive, Sent, TypeOK, PeerStates
  <2>3. CASE handle_error(accept_live, accept_freed)
    <3>1. /\ wait_for_connection(accept_live, accept_freed)
          /\ accept_live \in BOOLEAN /\ accept_freed \in 0..MaxFreed
      BY <2>3 DEF handle_error, TypeOK
    <3>2. Listening
      BY <3>1, WaitTypes
    <3> QED BY <1>15, <3>2 DEF Listening, send_keepalive, TypeOK, PeerStates
  <2> QED BY <1>15, <2>1, <2>2, <2>3 DEF send_keepalive
<1>16. CASE UpdateVideo
  BY <1>16 DEF UpdateVideo, TypeOK
<1>17. CASE FrameCaptured
  BY <1>17, SendTypes DEF FrameCaptured, TypeOK
<1>18. CASE FrameLost
  BY <1>18 DEF FrameLost, TypeOK
<1>19. CASE Sleep
  BY <1>19 DEF Sleep, TypeOK
<1>20. CASE shutdown
  BY <1>20 DEF shutdown, TypeOK, PeerStates
<1>21. CASE PeerConnects
  BY <1>21 DEF PeerConnects, EnvUnchanged, TypeOK
<1>22. ASSUME NEW c \in Commands, PeerSends(c) PROVE TypeOK'
  BY <1>22 DEF PeerSends, EnvUnchanged, TypeOK, Pieces
<1>23. ASSUME NEW c \in Commands, PeerSendsSplit(c) PROVE TypeOK'
  BY <1>23 DEF PeerSendsSplit, EnvUnchanged, TypeOK, Pieces
<1>24. CASE TailArrives
  <2>1. tail \in Pieces
    BY <1>24 DEF TailArrives, TypeOK, Pieces
  <2>2. rx # <<>> => [rx EXCEPT ![Len(rx)] = tail] \in Seq(Pieces)
    BY <2>1, ExceptSeq DEF TypeOK
  <2>3. <<"fragment">> \in Seq(Pieces)
    BY DEF Pieces
  <2> QED BY <1>24, <2>2, <2>3 DEF TailArrives, EnvUnchanged, TypeOK
<1>25. CASE PeerLeaves
  BY <1>25 DEF PeerLeaves, EnvUnchanged, TypeOK, PeerStates
<1>26. CASE ResetArrives
  BY <1>26 DEF ResetArrives, EnvUnchanged, TypeOK, PeerStates
<1>27. CASE Clock
  BY <1>27 DEF Clock, KeepaliveElapses, FrameElapses, EnvUnchanged, TypeOK
<1>28. CASE UNCHANGED vars
  BY <1>28 DEF vars, TypeOK
<1> QED
  BY <1>1, <1>2, <1>3, <1>4, <1>5, <1>6, <1>7, <1>8, <1>9, <1>10, <1>11,
     <1>12, <1>13, <1>14, <1>15, <1>16, <1>17, <1>18, <1>19, <1>20, <1>21,
     <1>22, <1>23, <1>24, <1>25, <1>26, <1>27, <1>28
  DEF Next, Pass, Poll, Accept, ReceiveCommands, RunScript, Video, Peers,
      HaltedStutter

\* Every variable of the server keeps to its type.
THEOREM TypeCorrect == Spec => []TypeOK
<1>1. Init => TypeOK
  BY InitTypeOK
<1>2. TypeOK /\ [Next]_vars => TypeOK'
  BY NextTypeOK
<1> QED BY <1>1, <1>2, PTL DEF Spec

(***************************************************************************)
(* The connection.  NeverDeaf and OneSession are kept together with where  *)
(* in the pass each state of the server can be met.                        *)
(***************************************************************************)

\* A pass begins without an exit request, receives and waits for the camera
\* only with a peer, and ends the program only on request.
PassInv ==
  /\ pc = "poll" => m_state # "exit"
  /\ pc \in {"receive", "dqbuf"} => m_state = "connected"
  /\ pc \in {"exiting", "stopped"} => m_state = "exit"

\* While a script or the keep-alive may still send, an accept is outstanding
\* only if the connection was replaced a moment ago in the same pass.
FreshAcceptInv ==
  ~undefined /\ pc \in {"script", "keepalive"} /\ accept_live
    => ~keepalive_due

SessionInv == NeverDeaf /\ OneSession /\ PassInv /\ FreshAcceptInv

LEMMA InitSession == Init => SessionInv
BY DEF Init, SessionInv, NeverDeaf, OneSession, PassInv, FreshAcceptInv

LEMMA ReplacedSession ==
  ASSUME SessionInv, NEW live, NEW freed, wait_for_connection(live, freed),
         pc' # "receive", pc' # "dqbuf", pc' # "exiting", pc' # "stopped"
  PROVE  SessionInv'
BY DEF wait_for_connection, store_disconnected, reset, SessionInv, NeverDeaf,
       OneSession, PassInv, FreshAcceptInv

LEMMA SentSession ==
  ASSUME SessionInv, Sent, keepalive_due' => keepalive_due,
         UNCHANGED undefined,
         \/ pc' = pc
         \/ pc' \in {"video", "sleep"}
  PROVE  SessionInv'
BY DEF Sent, stream, SessionInv, NeverDeaf, OneSession, PassInv,
       FreshAcceptInv

LEMMA NextSession == TypeOK /\ SessionInv /\ [Next]_vars => SessionInv'
<1> SUFFICES ASSUME TypeOK, SessionInv, [Next]_vars PROVE SessionInv'
  OBVIOUS
<1> USE DEF session, listener, timers, hardware, stream
<1>1. CASE handle_accept
  BY <1>1 DEF handle_accept, SessionInv, NeverDeaf, OneSession, PassInv,
              FreshAcceptInv
<1>2. CASE AcceptError
  BY <1>2, ReplacedSession DEF AcceptError, handle_error
<1>3. CASE AcceptIntoFreed
  <2>1. CASE handle_error(accept_live, accept_freed - 1) /\ UNCHANGED pc
    BY <1>3, <2>1, ReplacedSession DEF AcceptIntoFreed, handle_error
  <2>2. CASE ~(handle_error(accept_live, accept_freed - 1) /\ UNCHANGED pc)
    BY <1>3, <2>2 DEF AcceptIntoFreed, NetworkUnchanged, SessionInv,
                      NeverDeaf, OneSession, PassInv, FreshAcceptInv
  <2> QED BY <2>1, <2>2
<1>4. CASE PollDone
  BY <1>4 DEF PollDone, AcceptOutstanding, TypeOK, SessionInv, NeverDeaf,
              OneSession, PassInv, FreshAcceptInv
<1>5. CASE ReceiveNothing
  BY <1>5 DEF ReceiveNothing, SessionInv, NeverDeaf, OneSession, PassInv,
              FreshAcceptInv
<1>6. CASE ReceiveFails
  BY <1>6, ReplacedSession DEF ReceiveFails, handle_error
<1>7. CASE ReceiveScript
  BY <1>7 DEF ReceiveScript, SessionInv, NeverDeaf, OneSession, PassInv,
              FreshAcceptInv
<1>8. CASE SyntaxError \/ ReferenceError
  BY <1>8 DEF SyntaxError, ReferenceError, Fatal, SessionInv, NeverDeaf,
              OneSession, PassInv, FreshAcceptInv
<1>9. CASE set_capturing \/ Harmless
  BY <1>9 DEF set_capturing, Harmless, NextCommand, SessionInv, NeverDeaf,
              OneSession, PassInv, FreshAcceptInv
<1>10. CASE exit
  BY <1>10 DEF exit, Command, NextCommand, SessionInv, NeverDeaf,
               OneSession, PassInv, FreshAcceptInv
<1>11. CASE send_gpio_value
  BY <1>11, ReplacedSession, SentSession
     DEF send_gpio_value, send, handle_error, Command, NextCommand
<1>12. CASE ScriptDone
  BY <1>12 DEF ScriptDone, SessionInv, NeverDeaf, OneSession, PassInv,
               FreshAcceptInv
<1>13. CASE send_keepalive
  <2>1. CASE NetworkUnchanged
    BY <1>13, <2>1 DEF send_keepalive, NetworkUnchanged, SessionInv, NeverDeaf,
                       OneSession, PassInv, FreshAcceptInv
  <2>2. CASE Sent /\ keepalive_due' = FALSE
    BY <1>13, <2>2, SentSession DEF send_keepalive
  <2>3. CASE handle_error(accept_live, accept_freed)
    BY <1>13, <2>3, ReplacedSession DEF send_keepalive, handle_error
  <2> QED BY <1>13, <2>1, <2>2, <2>3 DEF send_keepalive
<1>14. CASE UpdateVideo
  BY <1>14 DEF UpdateVideo, is_connected, SessionInv, NeverDeaf, OneSession,
               PassInv, FreshAcceptInv
<1>15. CASE FrameCaptured
  BY <1>15, ReplacedSession, SentSession DEF FrameCaptured, send, handle_error
<1>16. CASE FrameLost
  BY <1>16 DEF FrameLost, SessionInv, NeverDeaf, OneSession, PassInv,
               FreshAcceptInv
<1>17. CASE Sleep
  BY <1>17 DEF Sleep, KeepRunning, SessionInv, NeverDeaf, OneSession,
               PassInv, FreshAcceptInv
<1>18. CASE shutdown
  BY <1>18 DEF shutdown, SessionInv, NeverDeaf, OneSession, PassInv,
               FreshAcceptInv
<1>19. CASE PeerConnects
  BY <1>19 DEF PeerConnects, EnvUnchanged, SessionInv, NeverDeaf, OneSession,
               PassInv, FreshAcceptInv
<1>20. ASSUME NEW c \in Commands, PeerSends(c) \/ PeerSendsSplit(c)
       PROVE  SessionInv'
  BY <1>20 DEF PeerSends, PeerSendsSplit, EnvUnchanged, SessionInv, NeverDeaf,
               OneSession, PassInv, FreshAcceptInv
<1>21. CASE TailArrives
  BY <1>21 DEF TailArrives, EnvUnchanged, SessionInv, NeverDeaf, OneSession,
               PassInv, FreshAcceptInv
<1>22. CASE PeerLeaves \/ ResetArrives
  BY <1>22 DEF PeerLeaves, ResetArrives, EnvUnchanged, SessionInv, NeverDeaf,
               OneSession, PassInv, FreshAcceptInv
<1>23. CASE Clock
  BY <1>23 DEF Clock, KeepaliveElapses, FrameElapses, Blocked, EnvUnchanged,
               SessionInv, NeverDeaf, OneSession, PassInv, FreshAcceptInv
<1>24. CASE UNCHANGED vars
  BY <1>24 DEF vars, SessionInv, NeverDeaf, OneSession, PassInv,
               FreshAcceptInv
<1> QED
  BY <1>1, <1>2, <1>3, <1>4, <1>5, <1>6, <1>7, <1>8, <1>9, <1>10, <1>11,
     <1>12, <1>13, <1>14, <1>15, <1>16, <1>17, <1>18, <1>19, <1>20, <1>21,
     <1>22, <1>23, <1>24
  DEF Next, Pass, Poll, Accept, ReceiveCommands, RunScript, Video, Peers,
      HaltedStutter

LEMMA SessionCorrect == Spec => [](TypeOK /\ SessionInv)
<1>1. Init => TypeOK /\ SessionInv
  BY InitTypeOK, InitSession
<1>2. TypeOK /\ SessionInv /\ [Next]_vars => (TypeOK /\ SessionInv)'
  BY NextTypeOK, NextSession
<1> QED BY <1>1, <1>2, PTL DEF Spec

\* Whatever fails, a server without a peer listens: wait_for_connection() is
\* the only way to lose the peer, and it restarts the io_service.
THEOREM ListensWhenDisconnected == Spec => []NeverDeaf
BY SessionCorrect, PTL DEF SessionInv

\* A connected server with intact memory has exactly the connection it
\* accepted.
THEOREM OneSessionAtATime == Spec => []OneSession
BY SessionCorrect, PTL DEF SessionInv

(***************************************************************************)
(* Sockets deleted under an accept                                         *)
(***************************************************************************)

\* Outside a script, replacing the connection orphans no accept: where a send
\* or a receive can fail, either no accept is outstanding or the step is not
\* reached.
LEMMA NothingOrphaned ==
  ASSUME TypeOK, SessionInv, [Next]_vars, ~undefined', pc # "script"
  PROVE  ~undefined /\ accept_freed' = accept_freed
<1> USE DEF session, listener, timers
<1>1. ASSUME NEW live \in BOOLEAN, ~live,
             wait_for_connection(live, accept_freed), UNCHANGED undefined
      PROVE  ~undefined /\ accept_freed' = accept_freed
  <2>1. accept_freed \in 0..MaxFreed
    BY DEF TypeOK
  <2> QED BY <1>1, <2>1, WaitTypes
<1>2. CASE AcceptError
  BY <1>1, <1>2 DEF AcceptError, handle_error
<1>3. CASE ReceiveFails
  <2>1. ~undefined /\ ~accept_live /\ accept_live \in BOOLEAN
    BY <1>3 DEF ReceiveFails, SessionInv, PassInv, OneSession, TypeOK
  <2> QED BY <1>1, <1>3, <2>1 DEF ReceiveFails, handle_error
<1>4. CASE send_keepalive
  <2>1. CASE NetworkUnchanged \/ Sent
    BY <1>4, <2>1 DEF send_keepalive, NetworkUnchanged, Sent
  <2>2. CASE KeepaliveIsDue /\ handle_error(accept_live, accept_freed)
    <3>1. ~undefined /\ ~accept_live /\ accept_live \in BOOLEAN
      BY <1>4, <2>2
         DEF send_keepalive, KeepaliveIsDue, SessionInv, FreshAcceptInv, TypeOK
    <3> QED BY <1>1, <1>4, <2>2, <3>1 DEF send_keepalive, handle_error
  <2> QED BY <1>4, <2>1, <2>2 DEF send_keepalive
<1>5. CASE FrameCaptured
  <2>1. ~undefined /\ ~accept_live /\ accept_live \in BOOLEAN
    BY <1>5 DEF FrameCaptured, SessionInv, PassInv, OneSession, TypeOK
  <2>2. CASE Sent
    BY <1>5, <2>2 DEF FrameCaptured, Sent
  <2>3. CASE handle_error(accept_live, accept_freed)
    BY <1>1, <1>5, <2>1, <2>3 DEF FrameCaptured, handle_error
  <2> QED BY <1>5, <2>2, <2>3 DEF FrameCaptured, send
<1>6. CASE handle_accept \/ PollDone
  BY <1>6 DEF handle_accept, PollDone
<1>7. CASE ReceiveNothing \/ ReceiveScript \/ SyntaxError
  BY <1>7 DEF ReceiveNothing, ReceiveScript, SyntaxError, Fatal
<1>8. CASE RunScript
  BY <1>8 DEF RunScript, set_capturing, exit, Harmless, send_gpio_value,
              ReferenceError, ScriptDone, Command
<1>9. CASE UpdateVideo \/ FrameLost \/ Sleep \/ shutdown
  BY <1>9 DEF UpdateVideo, FrameLost, Sleep, shutdown
<1>10. CASE Peers \/ Clock
  BY <1>10 DEF Peers, PeerConnects, PeerSends, PeerSendsSplit, TailArrives,
               PeerLeaves, ResetArrives, Clock, KeepaliveElapses,
               FrameElapses, EnvUnchanged
<1>11. CASE UNCHANGED vars
  BY <1>11 DEF vars
<1>12. CASE AcceptIntoFreed
  BY <1>12 DEF AcceptIntoFreed
<1> QED
  BY <1>2, <1>3, <1>4, <1>5, <1>6, <1>7, <1>8, <1>9, <1>10, <1>11, <1>12
  DEF Next, Pass, Poll, Accept, ReceiveCommands, Video, HaltedStutter

\* An intact server deletes a socket under its accept in a script or nowhere.
THEOREM DanglesInScript == Spec => DanglesOnlyInScript
<1>1. TypeOK /\ SessionInv /\ [Next]_vars
        => [accept_freed' > accept_freed => pc = "script" \/ undefined']_vars
  <2> SUFFICES ASSUME TypeOK, SessionInv, [Next]_vars,
                      accept_freed' > accept_freed, pc # "script", ~undefined'
               PROVE  FALSE
    OBVIOUS
  <2>1. accept_freed' = accept_freed /\ accept_freed \in Nat
    BY NothingOrphaned DEF TypeOK
  <2> QED BY <2>1
<1> QED BY <1>1, SessionCorrect, PTL DEF Spec, DanglesOnlyInScript

\* A server whose peers never read the gpio pins, as those of the Qt client,
\* deletes no socket under an accept at all.
THEOREM NoDanglingWithoutReads ==
  ASSUME "gpio_get" \notin Commands
  PROVE  Spec => []NoDanglingAccept
<1>1. Init => NoDanglingAccept
  BY DEF Init, NoDanglingAccept
<1>2. TypeOK /\ SessionInv /\ NoDanglingAccept /\ [Next]_vars
        => NoDanglingAccept'
  <2> SUFFICES ASSUME TypeOK, SessionInv, NoDanglingAccept, [Next]_vars
               PROVE  NoDanglingAccept'
    OBVIOUS
  <2>1. ~send_gpio_value
    <3> SUFFICES ASSUME send_gpio_value PROVE FALSE
      OBVIOUS
    <3>1. script \in Seq(Pieces) /\ script # <<>> /\ Head(script) = "gpio_get"
      BY DEF send_gpio_value, Command, TypeOK
    <3>2. Head(script) \in Pieces
      BY <3>1
    <3> QED BY <3>1, <3>2 DEF Pieces
  <2>2. CASE pc = "script" /\ (RunScript \/ Peers)
    BY <2>1, <2>2
       DEF RunScript, set_capturing, exit, Harmless, ReferenceError, Fatal,
           ScriptDone, Peers, PeerConnects, PeerSends, PeerSendsSplit,
           TailArrives, PeerLeaves, ResetArrives, EnvUnchanged, listener,
           NoDanglingAccept
  <2>3. ~AcceptIntoFreed
    BY DEF AcceptIntoFreed, NoDanglingAccept
  <2>4. undefined' = undefined
    BY <2>3
    DEF Next, Pass, Poll, Accept, handle_accept, AcceptError, PollDone,
        ReceiveCommands, ReceiveNothing, ReceiveFails, ReceiveScript,
        SyntaxError, Fatal, RunScript, set_capturing, exit, Harmless,
        send_gpio_value, ReferenceError, ScriptDone, send_keepalive, Video,
        UpdateVideo, FrameCaptured, FrameLost, Sleep, shutdown, Peers,
        PeerConnects, PeerSends, PeerSendsSplit, TailArrives, PeerLeaves,
        ResetArrives, Clock, KeepaliveElapses, FrameElapses, EnvUnchanged,
        HaltedStutter, listener, vars
  <2>5. CASE pc # "script"
    BY <2>4, <2>5, NothingOrphaned DEF NoDanglingAccept
  <2>6. CASE UNCHANGED vars
    BY <2>6 DEF vars, listener, NoDanglingAccept
  <2>7. pc = "script" => RunScript \/ Peers \/ UNCHANGED vars
    BY DEF Next, Pass, Poll, Accept, handle_accept, AcceptError,
           AcceptIntoFreed, PollDone, ReceiveCommands, ReceiveNothing,
           ReceiveFails, ReceiveScript, SyntaxError, send_keepalive, Video,
           UpdateVideo, FrameCaptured, FrameLost, Sleep, shutdown, Clock,
           KeepaliveElapses, FrameElapses, Blocked, HaltedStutter
  <2> QED BY <2>2, <2>5, <2>6, <2>7
<1> QED BY <1>1, <1>2, SessionCorrect, PTL DEF Spec

(***************************************************************************)
(* Exit requests                                                           *)
(***************************************************************************)

\* A request to exit is overwritten only by a send that fails later in the
\* pass it was made in.
THEOREM ExitLostOnlyToFailedSend == Spec => ExitOnlyLostToFailedSend
<1>1. TypeOK /\ SessionInv /\ [Next]_vars
        => [m_state = "exit" /\ m_state' # "exit"
              => SendFails /\ pc \in {"script", "keepalive"}]_vars
  <2> SUFFICES ASSUME SessionInv, [Next]_vars, m_state = "exit",
                      m_state' # "exit"
               PROVE  SendFails /\ pc \in {"script", "keepalive"}
    OBVIOUS
  <2>1. pc \notin {"poll", "receive", "dqbuf"}
    BY DEF SessionInv, PassInv
  <2>2. CASE send_gpio_value \/ send_keepalive
    BY <2>2 DEF send_gpio_value, Command, send, Sent, send_keepalive,
                NetworkUnchanged, session
  <2>3. CASE ~send_gpio_value /\ ~send_keepalive
    BY <2>1, <2>3
       DEF Next, Pass, Poll, Accept, handle_accept, AcceptError,
           AcceptIntoFreed, PollDone, ReceiveCommands, ReceiveNothing,
           ReceiveFails, ReceiveScript, SyntaxError, Fatal, RunScript,
           set_capturing, exit, Harmless, ReferenceError, ScriptDone, Video,
           UpdateVideo, FrameCaptured, FrameLost, Sleep, shutdown, Peers,
           PeerConnects, PeerSends, PeerSendsSplit, TailArrives, PeerLeaves,
           ResetArrives, Clock, KeepaliveElapses, FrameElapses, EnvUnchanged,
           HaltedStutter, session, vars
  <2> QED BY <2>2, <2>3
<1> QED BY <1>1, SessionCorrect, PTL DEF Spec, ExitOnlyLostToFailedSend

(***************************************************************************)
(* The interpreter                                                         *)
(***************************************************************************)

\* On a network that does not split commands nothing but whole commands is
\* ever received or run.
WholeCommands ==
  SplitCommands
    \/ (tail = "none" /\ rx \in Seq(Commands) /\ script \in Seq(Commands))

HangInv == WholeCommands /\ CleanStreamNeverHangs

LEMMA NotFragment == "fragment" \notin Commands
BY CommandsAssumption DEF CommandNames

\* The streams stay whole: only a peer's command is appended, the whole of rx
\* becomes the script, and the script is taken from its head.
LEMMA NextWhole == TypeOK /\ WholeCommands /\ [Next]_vars => WholeCommands'
<1> SUFFICES ASSUME TypeOK, WholeCommands, [Next]_vars, ~SplitCommands
             PROVE  WholeCommands'
  BY DEF WholeCommands
<1> USE DEF stream
<1>1. tail = "none" /\ rx \in Seq(Commands) /\ script \in Seq(Commands)
  BY DEF WholeCommands
<1>2. <<>> \in Seq(Commands)
  OBVIOUS
<1>3. ASSUME NEW live, NEW freed, wait_for_connection(live, freed)
      PROVE  rx' \in Seq(Commands) /\ tail' = "none"
  BY <1>2, <1>3 DEF wait_for_connection
<1>4. CASE AcceptError \/ ReceiveFails
  BY <1>1, <1>3, <1>4 DEF AcceptError, ReceiveFails, handle_error, WholeCommands
<1>5. CASE send_keepalive
  BY <1>1, <1>3, <1>5 DEF send_keepalive, NetworkUnchanged, Sent, handle_error,
                          WholeCommands
<1>6. CASE AcceptIntoFreed
  BY <1>1, <1>3, <1>6 DEF AcceptIntoFreed, NetworkUnchanged, handle_error,
                          WholeCommands
<1>7. CASE FrameCaptured
  BY <1>1, <1>3, <1>7 DEF FrameCaptured, send, Sent, handle_error, WholeCommands
<1>8. CASE RunScript
  <2>1. script # <<>> => Tail(script) \in Seq(Commands)
    BY <1>1
  <2>2. CASE send_gpio_value
    BY <1>3, <1>1, <2>1, <2>2
       DEF send_gpio_value, Command, NextCommand, send, Sent, handle_error,
           WholeCommands
  <2>3. CASE set_capturing \/ exit \/ Harmless
    BY <1>1, <2>1, <2>3 DEF set_capturing, exit, Harmless, Command,
                            NextCommand, WholeCommands
  <2>4. CASE ReferenceError \/ ScriptDone
    BY <1>1, <1>2, <2>4 DEF ReferenceError, Fatal, ScriptDone, WholeCommands
  <2> QED BY <1>8, <2>2, <2>3, <2>4 DEF RunScript
<1>9. CASE handle_accept \/ PollDone \/ ReceiveNothing
  BY <1>1, <1>9 DEF handle_accept, PollDone, ReceiveNothing, WholeCommands
<1>10. CASE ReceiveScript \/ SyntaxError
  BY <1>1, <1>2, <1>10
     DEF ReceiveScript, Received, SyntaxError, Fatal, WholeCommands
<1>11. CASE UpdateVideo \/ FrameLost \/ Sleep
  BY <1>1, <1>11 DEF UpdateVideo, FrameLost, Sleep, WholeCommands
<1>12. CASE shutdown
  BY <1>1, <1>2, <1>12 DEF shutdown, WholeCommands
<1>13. ASSUME NEW c \in Commands, PeerSends(c) PROVE WholeCommands'
  <2>1. Append(rx, c) \in Seq(Commands)
    BY <1>1
  <2> QED BY <1>1, <1>13, <2>1 DEF PeerSends, EnvUnchanged, WholeCommands
<1>14. CASE PeerConnects \/ PeerLeaves \/ ResetArrives \/ Clock
  BY <1>1, <1>14 DEF PeerConnects, PeerLeaves, ResetArrives, Clock,
                     KeepaliveElapses, FrameElapses, EnvUnchanged,
                     WholeCommands
<1>15. CASE UNCHANGED vars
  BY <1>1, <1>15 DEF vars, WholeCommands
<1>16. ~TailArrives /\ \A c \in Commands : ~PeerSendsSplit(c)
  BY <1>1 DEF TailArrives, PeerSendsSplit
<1> QED
  BY <1>4, <1>5, <1>6, <1>7, <1>8, <1>9, <1>10, <1>11, <1>12, <1>13, <1>14,
     <1>15, <1>16
  DEF Next, Pass, Poll, Accept, ReceiveCommands, Video, Peers, HaltedStutter

\* A whole command hangs the server only if it names a gpio function that was
\* not registered.
LEMMA NextHang ==
  TypeOK /\ HangInv /\ [Next]_vars => CleanStreamNeverHangs'
<1> SUFFICES ASSUME TypeOK, HangInv, [Next]_vars, ~SplitCommands,
                    pc' = "hung"
             PROVE  ~gpio_ok' /\ Commands \cap GpioCommands # {}
  BY DEF CleanStreamNeverHangs
<1>1. tail = "none" /\ rx \in Seq(Commands) /\ script \in Seq(Commands)
  BY DEF HangInv, WholeCommands
<1>2. CASE pc = "hung"
  <2>1. gpio_ok' = gpio_ok
    BY <1>2
    DEF Next, Pass, Poll, Accept, handle_accept, AcceptError, AcceptIntoFreed,
        PollDone, ReceiveCommands, ReceiveNothing, ReceiveFails,
        ReceiveScript, SyntaxError, RunScript, set_capturing, exit, Harmless,
        send_gpio_value, ReferenceError, ScriptDone, Command, send_keepalive,
        Video, UpdateVideo, FrameCaptured, FrameLost, Sleep, shutdown, Peers,
        PeerConnects, PeerSends, PeerSendsSplit, PeerCanSend, TailArrives,
        PeerLeaves, ResetArrives, Clock, KeepaliveElapses, FrameElapses,
        Blocked, HaltedStutter, Halted, hardware, vars
  <2> QED BY <1>2, <2>1 DEF HangInv, CleanStreamNeverHangs
<1>3. CASE pc # "hung"
  <2>1. ~SyntaxError
    <3> SUFFICES ASSUME NEW i \in 1..Len(rx), rx[i] = "fragment" PROVE FALSE
      BY DEF SyntaxError
    <3>1. rx[i] \in Commands
      BY <1>1
    <3> QED BY <3>1, NotFragment
  <2>2. ~Command("fragment")
    <3> SUFFICES ASSUME script # <<>>, Head(script) = "fragment" PROVE FALSE
      BY DEF Command
    <3>1. Head(script) \in Commands
      BY <1>1
    <3> QED BY <3>1, NotFragment
  <2>3. ReferenceError
    BY <1>3, <2>1
    DEF Next, Pass, Poll, Accept, handle_accept, AcceptError, AcceptIntoFreed,
        PollDone, ReceiveCommands, ReceiveNothing, ReceiveFails,
        ReceiveScript, RunScript, set_capturing, exit, Harmless,
        send_gpio_value, NextCommand, ScriptDone, Command, send_keepalive,
        Video, UpdateVideo, FrameCaptured, FrameLost, Sleep, shutdown, Peers,
        PeerConnects, PeerSends, PeerSendsSplit, TailArrives, PeerLeaves,
        ResetArrives, Clock, KeepaliveElapses, FrameElapses, EnvUnchanged,
        HaltedStutter, vars
  <2>4. PICK c \in GpioCommands : Command(c) /\ ~gpio_ok
    BY <2>2, <2>3 DEF ReferenceError
  <2>5. c \in Commands
    <3>1. script # <<>> /\ Head(script) = c
      BY <2>4 DEF Command
    <3> QED BY <1>1, <3>1
  <2>6. gpio_ok' = gpio_ok
    BY <2>3 DEF ReferenceError, Fatal, hardware
  <2> QED BY <2>4, <2>5, <2>6
<1> QED BY <1>2, <1>3

\* Whole commands never hang the server, except gpio commands after GPIO
\* failed to start.
THEOREM CleanStreamIsSafe == Spec => []CleanStreamNeverHangs
<1>1. Init => TypeOK /\ HangInv
  <2>1. <<>> \in Seq(Commands)
    OBVIOUS
  <2> QED BY <2>1, InitTypeOK
          DEF Init, HangInv, WholeCommands, CleanStreamNeverHangs
<1>2. TypeOK /\ HangInv /\ [Next]_vars => (TypeOK /\ HangInv)'
  BY NextTypeOK, NextWhole, NextHang DEF HangInv
<1>3. HangInv => CleanStreamNeverHangs
  BY DEF HangInv
<1> QED BY <1>1, <1>2, <1>3, PTL DEF Spec

=============================================================================
