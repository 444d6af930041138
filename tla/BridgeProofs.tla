---------------------------- MODULE BridgeProofs ----------------------------
(***************************************************************************)
(* Proofs about the bridge model of Bridge.tla, for every value of the     *)
(* constants that satisfies ConstAssumption.                               *)
(***************************************************************************)
EXTENDS Bridge, FiniteSetTheorems, TLAPS

-----------------------------------------------------------------------------
(* Type correctness.                                                       *)

\* The parameter of a well-formed /open or /eval request is a URL or a
\* script, and that of an /input request is one of the input types.
LEMMA RequestParams ==
  ASSUME NEW r \in Requests \cup {NoReq, IdleReq}
  PROVE  /\ r.path = "/open" /\ r.param # Empty => r.param \in Urls
         /\ r.path = "/eval" /\ r.param # Empty => r.param \in Scripts
         /\ r.path = "/input" => r.param \in InputTypes
<1>1. CASE r \in Requests
  BY <1>1 DEF Requests
<1>2. CASE r \in {NoReq, IdleReq}
  BY <1>2 DEF NoReq, IdleReq, Idle
<1>3. QED
  BY <1>1, <1>2

\* The tasks the routes build are commands, and every command names the
\* route that posted it.
LEMMA CommandsBuilt ==
  /\ \A u \in Urls : Cmd("open", u, "/open") \in Commands
  /\ \A j \in Scripts : Cmd("eval", j, "/eval") \in Commands
  /\ Cmd("eval", InputJs, "/input") \in Commands
  /\ Cmd("click", NoArg, "/input") \in Commands
  /\ Cmd("quit", NoArg, "/quit") \in Commands
  /\ \A x \in Widths, y \in Heights :
        Cmd("scroll", <<x \div 2, y \div 2>>, "/input") \in Commands
<1>1. \A u \in Urls : Cmd("open", u, "/open") \in Commands
  BY DEF Commands
<1>2. \A j \in Scripts : Cmd("eval", j, "/eval") \in Commands
  BY DEF Commands
<1>3. /\ Cmd("eval", InputJs, "/input") \in Commands
      /\ Cmd("click", NoArg, "/input") \in Commands
      /\ Cmd("quit", NoArg, "/quit") \in Commands
  BY DEF Commands
<1>4. \A x \in Widths, y \in Heights :
         Cmd("scroll", <<x \div 2, y \div 2>>, "/input") \in Commands
  BY DEF Commands, Cmd
<1>5. QED
  BY <1>1, <1>2, <1>3, <1>4

LEMMA CommandOrigins == \A c \in Commands : c.origin \in Routes
BY DEF Commands, Cmd, Routes

\* The frame OnPaint stores for a size of FrameSizes is a frame of Frames
\* of that size.
LEMMA PaintedFrame ==
  ASSUME NEW sz \in FrameSizes
  PROVE  /\ [w |-> sz[1], h |-> sz[2]] \in Frames
         /\ sz[1] \in Widths /\ sz[2] \in Heights
BY DEF Frames, Widths, Heights

\* Every reachable state of the bridge is well typed: the counters are
\* naturals, the stored frame is one OnPaint can deliver, the UI thread
\* never consumes past the end of its queue, and the listener only ever
\* posts one of the tasks the routes build.
THEOREM TypeCorrect == Spec => []TypeOK
<1> USE DEF sharedVars, listenerVars, ghostVars
<1>1. Init => TypeOK
  <2> SUFFICES ASSUME Init PROVE TypeOK
    OBVIOUS
  <2>1. SharedTypeOK
    <3>1. NoFrame \in Frames /\ ViewW \in Widths /\ ViewH \in Heights
      BY DEF Frames, Widths, Heights
    <3>2. Empty \in Errors
      BY DEF Errors
    <3>3. 0 \in 0..MaxPaints
      BY ConstAssumption
    <3>4. QED
      BY <3>1, <3>2, <3>3 DEF Init, SharedTypeOK
  <2>2. EngineTypeOK
    BY DEF Init, EngineTypeOK
  <2>3. ThreadsTypeOK
    BY ConstAssumption DEF Init, ThreadsTypeOK, Snapshots, Frames, NoFrame
  <2>4. GhostTypeOK
    BY DEF Init, GhostTypeOK
  <2>5. QED
    BY <2>1, <2>2, <2>3, <2>4 DEF TypeOK
<1>2. TypeOK /\ [Next]_vars => TypeOK'
  <2> SUFFICES ASSUME TypeOK, [Next]_vars PROVE TypeOK'
    OBVIOUS
  <2> USE DEF TypeOK
  <2>1. CASE ListenerBind
    BY <2>1 DEF ListenerBind, SharedTypeOK, EngineTypeOK, ThreadsTypeOK,
       GhostTypeOK, Errors
  <2>2. CASE ListenerCheckRunning
    BY <2>2 DEF ListenerCheckRunning, SharedTypeOK, EngineTypeOK,
       ThreadsTypeOK, GhostTypeOK
  <2>3. CASE ListenerTimeout
    BY <2>3 DEF ListenerTimeout, SharedTypeOK, EngineTypeOK, ThreadsTypeOK,
       GhostTypeOK
  <2>4. CASE ListenerAccept
    <3>1. ThreadsTypeOK'
      BY <2>4, ConstAssumption DEF ListenerAccept, ThreadsTypeOK
    <3>2. QED
      BY <2>4, <3>1 DEF ListenerAccept, SharedTypeOK, EngineTypeOK,
         GhostTypeOK
  <2>5. CASE ClientClose
    <3>1. ThreadsTypeOK'
      BY <2>5 DEF ClientClose, ThreadsTypeOK, Requests
    <3>2. QED
      BY <2>5, <3>1 DEF ClientClose, SharedTypeOK, EngineTypeOK, GhostTypeOK
  <2>6. CASE ServeMalformed
    BY <2>6 DEF ServeMalformed, CloseConn, SharedTypeOK, EngineTypeOK,
       ThreadsTypeOK, GhostTypeOK
  <2>7. CASE ServeStatus
    BY <2>7 DEF ServeStatus, CloseConn, SharedTypeOK, EngineTypeOK,
       ThreadsTypeOK, GhostTypeOK
  <2>8. CASE ServeOpen
    <3>1. ThreadsTypeOK'
      BY <2>8, RequestParams, CommandsBuilt DEF ServeOpen, CloseConn,
         ThreadsTypeOK
    <3>2. SharedTypeOK'
      BY <2>8 DEF ServeOpen, CloseConn, SharedTypeOK
    <3>3. QED
      BY <2>8, <3>1, <3>2 DEF ServeOpen, CloseConn, EngineTypeOK, GhostTypeOK
  <2>9. CASE ServeEval
    <3>1. ThreadsTypeOK'
      BY <2>9, RequestParams, CommandsBuilt DEF ServeEval, CloseConn,
         ThreadsTypeOK
    <3>2. SharedTypeOK'
      BY <2>9 DEF ServeEval, CloseConn, SharedTypeOK
    <3>3. QED
      BY <2>9, <3>1, <3>2 DEF ServeEval, CloseConn, EngineTypeOK, GhostTypeOK
  <2>10. CASE ServeInput
    <3>1. ThreadsTypeOK'
      BY <2>10 DEF ServeInput, CloseConn, ThreadsTypeOK
    <3>2. SharedTypeOK'
      BY <2>10 DEF ServeInput, CloseConn, SharedTypeOK
    <3>3. QED
      BY <2>10, <3>1, <3>2 DEF ServeInput, CloseConn, EngineTypeOK,
         GhostTypeOK
  <2>11. CASE InputDispatch
    <3>1. ThreadsTypeOK'
      BY <2>11, CommandsBuilt DEF InputDispatch, CloseConn, ThreadsTypeOK,
         SharedTypeOK
    <3>2. QED
      BY <2>11, <3>1 DEF InputDispatch, SharedTypeOK, EngineTypeOK,
         GhostTypeOK
  <2>12. CASE ListenerPost
    <3>1. pending \in Commands /\ pending.origin \in Routes
      BY <2>12, CommandOrigins DEF ListenerPost, ThreadsTypeOK
    <3>2. EngineTypeOK'
      BY <2>12, <3>1 DEF ListenerPost, PostTask, EngineTypeOK
    <3>3. GhostTypeOK'
      BY <2>12, <3>1 DEF ListenerPost, PostTask, GhostTypeOK
    <3>4. SharedTypeOK'
      BY <2>12 DEF ListenerPost, PostTask, SharedTypeOK, Errors
    <3>5. QED
      BY <2>12, <3>2, <3>3, <3>4 DEF ListenerPost, CloseConn, ThreadsTypeOK
  <2>13. CASE ServeFrame
    <3>1. ThreadsTypeOK'
      BY <2>13 DEF ServeFrame, ThreadsTypeOK, SharedTypeOK, Snapshots
    <3>2. QED
      BY <2>13, <3>1 DEF ServeFrame, SharedTypeOK, EngineTypeOK, GhostTypeOK
  <2>14. CASE FrameEncode
    <3>1. ThreadsTypeOK' /\ GhostTypeOK'
      BY <2>14 DEF FrameEncode, CloseConn, ThreadsTypeOK, GhostTypeOK,
         Snapshots, Frames, NoFrame
    <3>2. QED
      BY <2>14, <3>1 DEF FrameEncode, SharedTypeOK, EngineTypeOK
  <2>15. CASE ServeQuit
    <3>1. EngineTypeOK'
      BY <2>15, CommandsBuilt DEF ServeQuit, EngineTypeOK
    <3>2. GhostTypeOK'
      BY <2>15 DEF ServeQuit, GhostTypeOK, Routes
    <3>3. QED
      BY <2>15, <3>1, <3>2 DEF ServeQuit, CloseConn, SharedTypeOK,
         ThreadsTypeOK
  <2>16. CASE ServeNotFound
    BY <2>16 DEF ServeNotFound, CloseConn, SharedTypeOK, EngineTypeOK,
       ThreadsTypeOK, GhostTypeOK
  <2>17. CASE ControlExecute
    <3>1. EngineTypeOK'
      BY <2>17 DEF ControlExecute, RunQuit, RunLive, RunNotReady,
         EngineTypeOK
    <3>2. SharedTypeOK'
      <4>1. posted[consumed + 1] \in Commands
        BY <2>17 DEF ControlExecute, EngineTypeOK
      <4>2. \A c \in Commands : c.kind = "open" => c.arg \in Urls
        BY DEF Commands, Cmd
      <4>3. QED
        BY <2>17, <4>1, <4>2 DEF ControlExecute, RunQuit, RunLive,
           RunNotReady, SharedTypeOK, Errors
    <3>3. QED
      BY <2>17, <3>1, <3>2 DEF ControlExecute, ThreadsTypeOK, GhostTypeOK
  <2>18. CASE ControlAfterCreated
    BY <2>18 DEF ControlAfterCreated, SharedTypeOK, EngineTypeOK,
       ThreadsTypeOK, GhostTypeOK
  <2>19. ASSUME NEW sz \in FrameSizes, ControlPaint(sz) PROVE TypeOK'
    <3>1. SharedTypeOK'
      BY <2>19, PaintedFrame, ConstAssumption DEF ControlPaint, SharedTypeOK
    <3>2. QED
      BY <2>19, <3>1 DEF ControlPaint, EngineTypeOK, ThreadsTypeOK,
         GhostTypeOK
  <2>20. ASSUME NEW t \in Titles, ControlTitleChange(t) PROVE TypeOK'
    BY <2>20 DEF ControlTitleChange, SharedTypeOK, EngineTypeOK,
       ThreadsTypeOK, GhostTypeOK
  <2>21. CASE ControlBeforeClose
    BY <2>21 DEF ControlBeforeClose, SharedTypeOK, EngineTypeOK,
       ThreadsTypeOK, GhostTypeOK
  <2>22. CASE MainLoopReturned
    BY <2>22 DEF MainLoopReturned, SharedTypeOK, EngineTypeOK,
       ThreadsTypeOK, GhostTypeOK
  <2>23. CASE MainJoin
    BY <2>23 DEF MainJoin, SharedTypeOK, EngineTypeOK, ThreadsTypeOK,
       GhostTypeOK
  <2>24. CASE Exited \/ UNCHANGED vars
    BY <2>24 DEF Exited, vars, SharedTypeOK, EngineTypeOK, ThreadsTypeOK,
       GhostTypeOK
  <2>25. QED
    BY <2>1, <2>2, <2>3, <2>4, <2>5, <2>6, <2>7, <2>8, <2>9, <2>10, <2>11,
       <2>12, <2>13, <2>14, <2>15, <2>16, <2>17, <2>18, <2>19, <2>20,
       <2>21, <2>22, <2>23, <2>24
    DEF Next, ListenerStep, EngineStep
<1>3. QED
  BY <1>1, <1>2, PTL DEF Spec

-----------------------------------------------------------------------------
(* The /frame responses.                                                   *)

\* FrameResponseSound is not inductive by itself: a step of FrameEncode
\* adds the snapshot /frame copied, so the snapshot must already pair a
\* buffer with its own size, and ServeFrame copies the stored frame, so
\* OnPaint must keep the stored size and buffer in step.  An empty buffer
\* (the state before the first paint) may sit beside any size.
FrameInv ==
  /\ frame_bgra # NoFrame => frame_bgra.w = frame_width /\ frame_bgra.h = frame_height
  /\ fsnap.buf # NoFrame => fsnap.buf.w = fsnap.w /\ fsnap.buf.h = fsnap.h
  /\ FrameResponseSound

\* The sizes a frame can be stored with are naturals.
LEMMA SizesNat == Widths \subseteq Nat /\ Heights \subseteq Nat
BY ConstAssumption DEF Widths, Heights

\* A /frame response is an image of exactly one paint: its header's width
\* and height are those of the buffer whose pixels FrameEncode writes out,
\* and no 200 is sent before OnPaint has filled the buffer.
THEOREM FrameSound == Spec => []FrameResponseSound
<1> USE DEF sharedVars, listenerVars, ghostVars
<1>1. Init => FrameInv
  BY DEF Init, FrameInv, FrameResponseSound
<1>2. TypeOK /\ FrameInv /\ [Next]_vars => FrameInv'
  <2> SUFFICES ASSUME TypeOK, FrameInv, [Next]_vars PROVE FrameInv'
    OBVIOUS
  <2>1. CASE ServeFrame
    BY <2>1 DEF ServeFrame, FrameInv, FrameResponseSound
  <2>2. CASE FrameEncode
    <3>1. fsnap.w \in Nat /\ fsnap.h \in Nat
      <4>1. fsnap.w \in Widths \cup {0} /\ fsnap.h \in Heights \cup {0}
        BY DEF TypeOK, ThreadsTypeOK, Snapshots
      <4>2. Widths \cup {0} \subseteq Nat /\ Heights \cup {0} \subseteq Nat
        BY SizesNat
      <4>3. QED
        BY <4>1, <4>2
    <3>2. fsnap.buf = NoFrame => BgraLen(fsnap.buf) = 0
      BY DEF BgraLen, NoFrame
    <3>3. fsnap.w # 0 /\ fsnap.h # 0 => 0 < fsnap.w * fsnap.h * 4
      BY <3>1
    <3>4. \A f \in served' : f \in served \/ (f = fsnap /\ fsnap.buf # NoFrame)
      BY <2>2, <3>2, <3>3 DEF FrameEncode
    <3>5. QED
      BY <2>2, <3>4 DEF FrameEncode, FrameInv, FrameResponseSound, NoFrame
  <2>3. ASSUME NEW sz \in FrameSizes, ControlPaint(sz) PROVE FrameInv'
    BY <2>3 DEF ControlPaint, FrameInv, FrameResponseSound
  <2>4. CASE \/ ListenerBind \/ ListenerCheckRunning \/ ListenerTimeout
             \/ ListenerAccept \/ ClientClose \/ ServeMalformed \/ ServeStatus
             \/ ServeOpen \/ ServeEval \/ ServeInput \/ InputDispatch
             \/ ListenerPost \/ ServeQuit \/ ServeNotFound
    <3>1. UNCHANGED <<frame_width, frame_height, frame_bgra, fsnap, served>>
      BY <2>4 DEF ListenerBind, ListenerCheckRunning, ListenerTimeout,
         ListenerAccept, ClientClose, ServeMalformed, ServeStatus, ServeOpen,
         ServeEval, ServeInput, InputDispatch, ListenerPost, ServeQuit,
         ServeNotFound
    <3>2. QED
      BY <3>1 DEF FrameInv, FrameResponseSound
  <2>5. CASE \/ ControlExecute \/ ControlAfterCreated
             \/ (\E t \in Titles : ControlTitleChange(t)) \/ ControlBeforeClose
             \/ MainLoopReturned \/ MainJoin \/ Exited \/ UNCHANGED vars
    <3>1. UNCHANGED <<frame_width, frame_height, frame_bgra, fsnap, served>>
      BY <2>5 DEF ControlExecute, ControlAfterCreated, ControlTitleChange,
         ControlBeforeClose, MainLoopReturned, MainJoin, Exited, vars
    <3>2. QED
      BY <3>1 DEF FrameInv, FrameResponseSound
  <2>6. QED
    BY <2>1, <2>2, <2>3, <2>4, <2>5 DEF Next, ListenerStep, EngineStep
<1>3. QED
  BY <1>1, <1>2, TypeCorrect, PTL DEF Spec, FrameInv

-----------------------------------------------------------------------------
(* The request counters.                                                   *)

\* What the listener's locals say about the request it is serving: past
\* ServeInput the request is an /input, and the task about to be posted
\* was built for the route of the request (ServeOpen, ServeEval and
\* InputDispatch set pending from req; /quit posts directly).
ListenerInv ==
  /\ lpc = "input" => req.path = "/input"
  /\ lpc = "post" => /\ pending.origin = req.path
                     /\ req.path \in {"/open", "/eval", "/input"}

\* The number of tasks of route r in the sequence of tasks s.
OriginCount(s, r) == Cardinality({i \in DOMAIN s : s[i].origin = r})

\* Appending a task adds one to the count of its own route's tasks and
\* leaves every other route's count alone.
LEMMA OriginCountAppend ==
  ASSUME NEW s \in Seq(Commands), NEW c, NEW r
  PROVE  /\ OriginCount(s, r) \in Nat
         /\ c.origin = r => OriginCount(Append(s, c), r) = OriginCount(s, r) + 1
         /\ c.origin # r => OriginCount(Append(s, c), r) = OriginCount(s, r)
<1> DEFINE A == {i \in DOMAIN s : s[i].origin = r}
           B == {i \in DOMAIN Append(s, c) : Append(s, c)[i].origin = r}
           n == Len(s)
<1>1. /\ n \in Nat /\ DOMAIN s = 1..n /\ DOMAIN Append(s, c) = 1..(n + 1)
      /\ \A i \in 1..n : Append(s, c)[i] = s[i]
      /\ Append(s, c)[n + 1] = c
  OBVIOUS
<1>2. IsFiniteSet(A)
  <2>1. IsFiniteSet(1..n)
    BY <1>1, FS_Interval
  <2>2. A \subseteq 1..n
    BY <1>1
  <2>. QED  BY <2>1, <2>2, FS_Subset
<1>3. Cardinality(A) \in Nat
  BY <1>2, FS_CardinalityType
<1>4. OriginCount(Append(s, c), r) = Cardinality(B) /\ OriginCount(s, r) = Cardinality(A)
  BY DEF OriginCount
<1>5. ASSUME c.origin = r PROVE Cardinality(B) = Cardinality(A) + 1
  <2>1. B = A \cup {n + 1}
    BY <1>1, <1>5
  <2>2. n + 1 \notin A
    BY <1>1
  <2>. QED  BY <1>2, <2>1, <2>2, FS_AddElement
<1>6. ASSUME c.origin # r PROVE Cardinality(B) = Cardinality(A)
  <2>1. B = A
    BY <1>1, <1>6
  <2>. QED  BY <2>1
<1>. QED  BY <1>3, <1>4, <1>5, <1>6

\* Every step keeps the listener's locals consistent with its request.
LEMMA ListenerInvStep == TypeOK /\ ListenerInv /\ [Next]_vars => ListenerInv'
<1> SUFFICES ASSUME TypeOK, ListenerInv, [Next]_vars PROVE ListenerInv'
  OBVIOUS
<1> USE DEF sharedVars, listenerVars, ghostVars
<1>1. CASE ServeOpen \/ ServeEval
  BY <1>1 DEF ServeOpen, ServeEval, CloseConn, ListenerInv, Cmd, NoReq
<1>2. CASE ServeInput \/ InputDispatch
  BY <1>2 DEF ServeInput, InputDispatch, CloseConn, ListenerInv, Cmd, NoReq
<1>3. CASE \/ ListenerBind \/ ListenerCheckRunning \/ ListenerTimeout
           \/ ListenerAccept \/ ServeMalformed \/ ServeStatus
           \/ ListenerPost \/ ServeFrame \/ FrameEncode \/ ServeQuit
           \/ ServeNotFound
  BY <1>3 DEF ListenerBind, ListenerCheckRunning, ListenerTimeout,
     ListenerAccept, ServeMalformed, ServeStatus, ListenerPost, ServeFrame,
     FrameEncode, ServeQuit, ServeNotFound, CloseConn, ListenerInv
<1>4. CASE ClientClose
  BY <1>4 DEF ClientClose, ListenerInv
<1>5. CASE \/ ControlExecute \/ EngineStep \/ MainLoopReturned \/ MainJoin
           \/ Exited \/ UNCHANGED vars
  BY <1>5 DEF ControlExecute, EngineStep, ControlAfterCreated, ControlPaint,
     ControlTitleChange, ControlBeforeClose, MainLoopReturned, MainJoin,
     Exited, vars, ListenerInv
<1>. QED  BY <1>1, <1>2, <1>3, <1>4, <1>5 DEF Next, ListenerStep

\* The counter of route r, as CounterAccounting reads it.
RouteCounter(r) == IF r = "/open" THEN open_requests ELSE eval_requests

\* The bookkeeping CounterAccounting balances is untouched by a step.
CountsKept(r) ==
  /\ UNCHANGED <<open_requests, eval_requests, posted, rejected>>
  /\ InFlight(r)' = InFlight(r)

\* Every step keeps each counter equal to its posted, refused and in-flight
\* requests.
LEMMA CounterStep ==
  TypeOK /\ ListenerInv /\ CounterAccounting /\ [Next]_vars => CounterAccounting'
<1> SUFFICES ASSUME TypeOK, ListenerInv, CounterAccounting, [Next]_vars,
                    NEW r \in {"/open", "/eval"}
             PROVE  RouteCounter(r)' = Queued(r)' + rejected'[r] + InFlight(r)'
  BY DEF CounterAccounting, RouteCounter
<1> USE DEF sharedVars, listenerVars, ghostVars
<1>1. /\ RouteCounter(r) = Queued(r) + rejected[r] + InFlight(r)
      /\ Queued(r) = OriginCount(posted, r) /\ Queued(r)' = OriginCount(posted', r)
      /\ Queued(r) \in Nat /\ rejected[r] \in Nat
      /\ posted \in Seq(Commands) /\ r \in Routes
  <2>1. OriginCount(posted, r) \in Nat
    BY OriginCountAppend DEF TypeOK, EngineTypeOK
  <2>. QED  BY <2>1 DEF CounterAccounting, RouteCounter, Queued, OriginCount,
               TypeOK, EngineTypeOK, GhostTypeOK, Routes
<1>2. CASE CountsKept(r)
  BY <1>1, <1>2 DEF CountsKept, RouteCounter, Queued
<1>3. CASE ServeOpen \/ ServeEval
  BY <1>1, <1>3 DEF ServeOpen, ServeEval, CloseConn, RouteCounter, Queued,
     InFlight, NoReq
<1>4. CASE ServeInput \/ InputDispatch
  <2>1. CountsKept(r)
    BY <1>4 DEF ServeInput, InputDispatch, CloseConn, CountsKept, InFlight,
       ListenerInv, NoReq
  <2>. QED  BY <1>2, <2>1
<1>5. CASE ListenerPost
  <2>1. /\ pending \in Commands /\ pending.origin \in Routes
        /\ pending.origin = req.path
        /\ InFlight(r) = (IF req.path = r THEN 1 ELSE 0)
        /\ InFlight(r)' = 0
    BY <1>5, CommandOrigins DEF ListenerPost, CloseConn, TypeOK,
       ThreadsTypeOK, ListenerInv, InFlight, NoReq
  <2>2. UNCHANGED <<open_requests, eval_requests>>
    BY <1>5 DEF ListenerPost
  <2>3. CASE posted' = Append(posted, pending) /\ UNCHANGED rejected
    <3>1. OriginCount(posted', r)
            = OriginCount(posted, r) + (IF pending.origin = r THEN 1 ELSE 0)
      BY <1>1, <2>3, OriginCountAppend
    <3>. QED  BY <1>1, <2>1, <2>2, <2>3, <3>1 DEF RouteCounter
  <2>5. CASE rejected' = [rejected EXCEPT ![pending.origin] = @ + 1]
             /\ UNCHANGED posted
    BY <1>1, <2>1, <2>2, <2>5 DEF RouteCounter, Queued, TypeOK, GhostTypeOK
  <2>. QED  BY <1>5, <2>3, <2>5 DEF ListenerPost, PostTask
<1>6. CASE ServeQuit
  <2>1. CASE posted' = Append(posted, Cmd("quit", NoArg, "/quit"))
    <3>1. OriginCount(posted', r) = OriginCount(posted, r)
      BY <1>1, <2>1, OriginCountAppend DEF Cmd
    <3>. QED  BY <1>1, <1>6, <2>1, <3>1 DEF ServeQuit, CloseConn, RouteCounter,
                 InFlight, NoReq
  <2>3. CASE UNCHANGED posted
    <3>1. CountsKept(r)
      BY <1>6, <2>3 DEF ServeQuit, CloseConn, CountsKept, InFlight, NoReq
    <3>. QED  BY <1>2, <3>1
  <2>. QED  BY <1>6, <2>1, <2>3 DEF ServeQuit
<1>7. CASE \/ ListenerBind \/ ListenerCheckRunning \/ ListenerTimeout
           \/ ListenerAccept \/ ServeMalformed \/ ServeStatus
           \/ ServeFrame \/ FrameEncode \/ ServeNotFound \/ ClientClose
  <2>1. CountsKept(r)
    BY <1>7 DEF ListenerBind, ListenerCheckRunning, ListenerTimeout,
       ListenerAccept, ServeMalformed, ServeStatus, ServeFrame, FrameEncode,
       ServeNotFound, ClientClose, CloseConn, CountsKept, InFlight
  <2>. QED  BY <1>2, <2>1
<1>8. CASE \/ ControlExecute \/ EngineStep \/ MainLoopReturned \/ MainJoin
           \/ Exited \/ UNCHANGED vars
  <2>1. CountsKept(r)
    BY <1>8 DEF ControlExecute, EngineStep, ControlAfterCreated, ControlPaint,
       ControlTitleChange, ControlBeforeClose, MainLoopReturned, MainJoin,
       Exited, vars, CountsKept, InFlight
  <2>. QED  BY <1>2, <2>1
<1>. QED  BY <1>3, <1>4, <1>5, <1>6, <1>7, <1>8 DEF Next, ListenerStep

\* The request counters of SharedState account for every well-formed /open
\* and /eval request in every reachable state: each was posted to the UI
\* thread, refused by CefPostTask, or is still between its count and its
\* post (main.cpp:695-740), whatever the other threads do meanwhile.
THEOREM CounterCorrect == Spec => []CounterAccounting
<1> USE DEF sharedVars, listenerVars, ghostVars
<1>1. Init => ListenerInv /\ CounterAccounting
  <2> SUFFICES ASSUME Init PROVE ListenerInv /\ CounterAccounting
    OBVIOUS
  <2>2. \A r \in {"/open", "/eval"} : Queued(r) = 0
    <3>1. \A r \in {"/open", "/eval"} :
            {i \in DOMAIN posted : posted[i].origin = r} = {}
      BY DEF Init
    <3>. QED  BY <3>1, FS_EmptySet DEF Queued
  <2>. QED  BY <2>2 DEF Init, ListenerInv, CounterAccounting, InFlight,
               Routes
<1>2. TypeOK /\ ListenerInv /\ CounterAccounting /\ [Next]_vars
        => ListenerInv' /\ CounterAccounting'
  BY ListenerInvStep, CounterStep
<1>. QED  BY <1>1, <1>2, TypeCorrect, PTL DEF Spec

=============================================================================
