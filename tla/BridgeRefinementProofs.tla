------------------------ MODULE BridgeRefinementProofs ------------------------
(***************************************************************************)
(* Proof that the three-thread bridge of Bridge.tla implements the atomic  *)
(* session of BridgeSession.tla under the refinement mapping of Bridge.tla *)
(* (SessionRequests, SessionQueue, SessionListener): every step of the     *)
(* listener, the UI thread, the engine and the main thread is, seen        *)
(* through the mapping, a step of the session or a stutter.                *)
(***************************************************************************)
EXTENDS BridgeProofs, SequenceTheorems, TLAPS

-----------------------------------------------------------------------------
(* The task queue.                                                         *)

\* The queue is empty when nothing has been posted.
LEMMA QueueEmpty == SubSeq(<<>>, 1, 0) = <<>>
BY SubSeqEmpty

\* The part of a sequence of tasks from position k + 1 on.
LEMMA QueueSuffix ==
  ASSUME NEW s \in Seq(Commands), NEW k \in 0..Len(s)
  PROVE  /\ SubSeq(s, k + 1, Len(s)) \in Seq(Commands)
         /\ Len(SubSeq(s, k + 1, Len(s))) = Len(s) - k
         /\ \A i \in 1..(Len(s) - k) : SubSeq(s, k + 1, Len(s))[i] = s[k + i]
<1>1. \A i \in (k + 1)..Len(s) : s[i] \in Commands
  OBVIOUS
<1>. QED  BY <1>1, SubSeqProperties

\* Posting a task appends it to the part of the queue not yet taken.
LEMMA QueueAppend ==
  ASSUME NEW s \in Seq(Commands), NEW k \in 0..Len(s), NEW c \in Commands
  PROVE  SubSeq(Append(s, c), k + 1, Len(s) + 1) = Append(SubSeq(s, k + 1, Len(s)), c)
<1> DEFINE t == Append(s, c)
           lhs == SubSeq(t, k + 1, Len(t))
           mid == SubSeq(s, k + 1, Len(s))
<1>1. /\ t \in Seq(Commands) /\ Len(t) = Len(s) + 1
      /\ \A i \in 1..Len(s) : t[i] = s[i]
      /\ t[Len(s) + 1] = c
  BY AppendProperties
<1>2. /\ lhs \in Seq(Commands) /\ Len(lhs) = Len(s) + 1 - k
      /\ \A i \in 1..(Len(s) + 1 - k) : lhs[i] = t[k + i]
  BY <1>1, QueueSuffix
<1>3. /\ mid \in Seq(Commands) /\ Len(mid) = Len(s) - k
      /\ \A i \in 1..(Len(s) - k) : mid[i] = s[k + i]
  BY QueueSuffix
<1>4. /\ Append(mid, c) \in Seq(Commands) /\ Len(Append(mid, c)) = Len(s) - k + 1
      /\ \A i \in 1..(Len(s) - k) : Append(mid, c)[i] = s[k + i]
      /\ Append(mid, c)[Len(s) - k + 1] = c
  BY <1>3, AppendProperties
<1>5. \A i \in 1..Len(lhs) : lhs[i] = Append(mid, c)[i]
  <2> SUFFICES ASSUME NEW i \in 1..Len(lhs) PROVE lhs[i] = Append(mid, c)[i]
    OBVIOUS
  <2>1. CASE i <= Len(s) - k
    <3>1. k + i \in 1..Len(s)
      BY <1>2, <2>1
    <3>. QED  BY <1>1, <1>2, <1>4, <2>1, <3>1
  <2>2. CASE i = Len(s) - k + 1
    BY <1>1, <1>2, <1>4, <2>2
  <2>. QED  BY <1>2, <2>1, <2>2
<1>6. Len(lhs) = Len(Append(mid, c))
  BY <1>2, <1>4
<1>7. lhs = Append(mid, c)
  BY <1>2, <1>4, <1>5, <1>6, SeqEqual
<1>. QED  BY <1>1, <1>7

\* Taking the next task off the queue removes the head of the part not yet
\* taken, and that head is the task the UI thread runs.
LEMMA QueueTake ==
  ASSUME NEW s \in Seq(Commands), NEW k \in 0..(Len(s) - 1)
  PROVE  /\ SubSeq(s, k + 1, Len(s)) # <<>>
         /\ Head(SubSeq(s, k + 1, Len(s))) = s[k + 1]
         /\ Tail(SubSeq(s, k + 1, Len(s))) = SubSeq(s, k + 2, Len(s))
<1>1. /\ SubSeq(s, k + 1, Len(s)) \in Seq(Commands)
      /\ Len(SubSeq(s, k + 1, Len(s))) = Len(s) - k
  BY QueueSuffix
<1>2. SubSeq(s, k + 1, Len(s)) # <<>>
  <2> SUFFICES ASSUME SubSeq(s, k + 1, Len(s)) = <<>> PROVE FALSE
    OBVIOUS
  <2>1. Len(SubSeq(s, k + 1, Len(s))) = 0
    OBVIOUS
  <2>. QED  BY <1>1, <2>1
<1>3. k + 1 \in 1..Len(s) /\ Len(s) \in (k + 1)..Len(s)
  OBVIOUS
<1>4. /\ Head(SubSeq(s, k + 1, Len(s))) = s[k + 1]
      /\ Tail(SubSeq(s, k + 1, Len(s))) = SubSeq(s, k + 1 + 1, Len(s))
  BY <1>3, HeadTailOfSubSeq
<1>. QED  BY <1>2, <1>4

-----------------------------------------------------------------------------
(* The tasks the listener posts.                                           *)

\* A task built by /open, /eval or /input is one the session's request of
\* that route may submit.
LEMMA PendingSubmittable ==
  ASSUME NEW c \in Commands
  PROVE  /\ c.origin = "/open" => \E u \in Urls : c = Cmd("open", u, "/open")
         /\ c.origin = "/eval" => \E j \in Scripts : c = Cmd("eval", j, "/eval")
         /\ c.origin = "/input" => c \in Session!InputCmds
<1>1. c.origin = "/open" => \E u \in Urls : c = Cmd("open", u, "/open")
  BY DEF Commands, Cmd
<1>2. c.origin = "/eval" => \E j \in Scripts : c = Cmd("eval", j, "/eval")
  BY DEF Commands, Cmd
<1>3. ASSUME c.origin = "/input" PROVE c \in Session!InputCmds
  <2>1. CASE c \in {Cmd("eval", InputJs, "/input"), Cmd("click", NoArg, "/input")}
    BY <2>1 DEF Session!InputCmds, Session!Cmd, Cmd
  <2>2. CASE c \in [kind : {"scroll"},
                    arg : {x \div 2 : x \in Widths} \X {y \div 2 : y \in Heights},
                    origin : {"/input"}]
    <3>1. PICK x \in Widths, y \in Heights : c.arg = <<x \div 2, y \div 2>>
      BY <2>2
    <3>2. c = Cmd("scroll", <<x \div 2, y \div 2>>, "/input")
      BY <2>2, <3>1 DEF Cmd
    <3>. QED  BY <3>2 DEF Session!InputCmds, Session!Cmd, Cmd, Widths, Heights
  <2>. QED  BY <1>3, <2>1, <2>2 DEF Commands, Cmd
<1>. QED  BY <1>1, <1>2, <1>3

-----------------------------------------------------------------------------
(* The refinement.                                                         *)

\* The listener's locals stay consistent with its request in every state.
LEMMA ListenerInvariant == Spec => [](TypeOK /\ ListenerInv)
<1>1. Init => ListenerInv
  BY DEF Init, ListenerInv
<1>. QED  BY <1>1, ListenerInvStep, TypeCorrect, PTL DEF Spec

\* The initial state of the bridge is, through the mapping, the initial
\* state of the session.
LEMMA InitRefines == Init => Session!Init
<1> SUFFICES ASSUME Init PROVE Session!Init
  OBVIOUS
<1>1. SessionRequests = [r \in Session!Counted |-> 0]
  <2>1. \A r \in Session!Counted : InFlight(r) = 0
    BY DEF Init, InFlight
  <2>. QED  BY <2>1 DEF Init, SessionRequests, Session!Counted
<1>2. SessionQueue = <<>>
  BY QueueEmpty DEF Init, SessionQueue
<1>3. SessionListener = "init"
  BY DEF Init, SessionListener
<1>. QED  BY <1>1, <1>2, <1>3 DEF Init, Session!Init, Session!Empty, Empty,
             Session!NoFrame, NoFrame

\* What a step of the bridge leaves of the session's state: the fields of
\* SharedState it shares with the session, and the three mapped values.
SessionKept ==
  /\ UNCHANGED <<running, current_url, title, last_error, frame_capture,
                 frame_width, frame_height, frame_seq, frame_bgra, browser,
                 loop, mpc>>
  /\ SessionRequests' = SessionRequests
  /\ SessionQueue' = SessionQueue
  /\ SessionListener' = SessionListener

LEMMA SessionKeptStutters == SessionKept => UNCHANGED Session!avars
BY DEF SessionKept, Session!avars, Session!frameVars

\* A step that touches no counter and keeps every request's in-flight
\* status keeps the session's counters.
LEMMA RequestsKept ==
  ASSUME UNCHANGED <<open_requests, eval_requests, input_requests>>,
         \A r \in {"/open", "/eval", "/input"} : InFlight(r)' = InFlight(r)
  PROVE  SessionRequests' = SessionRequests
BY DEF SessionRequests

\* The session's count of route r: the counted requests of r whose answer
\* is known.
Known(r) ==
  (IF r = "/open" THEN open_requests
   ELSE IF r = "/eval" THEN eval_requests ELSE input_requests)
  - InFlight(r)

\* A step that keeps every route's known count keeps the session's counters.
LEMMA KnownKept ==
  ASSUME \A r \in Session!Counted : Known(r)' = Known(r)
  PROVE  SessionRequests' = SessionRequests
BY DEF Known, SessionRequests, Session!Counted

\* A step that adds one to the known count of route p alone adds one to the
\* session's counter of p.
LEMMA KnownBump ==
  ASSUME NEW p \in Session!Counted,
         Known(p)' = Known(p) + 1,
         \A r \in Session!Counted \ {p} : Known(r)' = Known(r)
  PROVE  SessionRequests' = [SessionRequests EXCEPT ![p] = @ + 1]
<1>1. SessionRequests' = [r \in Session!Counted |-> Known(r)']
  BY DEF Known, SessionRequests, Session!Counted
<1>2. SessionRequests = [r \in Session!Counted |-> Known(r)]
  BY DEF Known, SessionRequests, Session!Counted
<1>3. [r \in Session!Counted |-> Known(r)']
        = [[r \in Session!Counted |-> Known(r)] EXCEPT ![p] = Known(p) + 1]
  OBVIOUS
<1>. QED  BY <1>1, <1>2, <1>3

\* Every step of the bridge is, through the mapping, a step of the session
\* or leaves the session's state unchanged.
LEMMA StepRefines ==
  TypeOK /\ ListenerInv /\ [Next]_vars => [Session!Next]_Session!avars
<1> SUFFICES ASSUME TypeOK, ListenerInv, [Next]_vars
             PROVE  [Session!Next]_Session!avars
  OBVIOUS
<1> USE DEF sharedVars, listenerVars, ghostVars
<1>0. /\ posted \in Seq(Commands) /\ consumed \in 0..Len(posted)
      /\ pending \in (IF lpc = "post" THEN Commands ELSE {NoCmd})
      /\ open_requests \in Nat /\ eval_requests \in Nat
      /\ input_requests \in Nat
  BY DEF TypeOK, EngineTypeOK, ThreadsTypeOK, SharedTypeOK
<1>a. SessionKept => UNCHANGED Session!avars
  BY SessionKeptStutters
<1>b. lpc \notin {"input", "post"} /\ lpc' \notin {"input", "post"}
        => \A r \in {"/open", "/eval", "/input"} : InFlight(r)' = InFlight(r)
  BY DEF InFlight
\* Steps inside the listener's serving loop that count nothing.
<1>1. CASE \/ ListenerTimeout \/ ListenerAccept \/ ClientClose
           \/ ServeMalformed \/ ServeStatus \/ ServeFrame \/ FrameEncode
           \/ ServeNotFound
  <2>1. /\ lpc \in {"select", "read", "frame"}
        /\ lpc' \in {"loop", "read", "frame"}
        /\ UNCHANGED <<open_requests, eval_requests, input_requests>>
        /\ UNCHANGED <<posted, consumed>>
        /\ UNCHANGED <<running, current_url, title, last_error, frame_capture,
                       frame_width, frame_height, frame_seq, frame_bgra,
                       browser, loop, mpc>>
    BY <1>1 DEF ListenerTimeout, ListenerAccept, ClientClose, ServeMalformed,
       ServeStatus, ServeFrame, FrameEncode, ServeNotFound, CloseConn
  <2>2. SessionRequests' = SessionRequests
    BY <1>b, <2>1, RequestsKept
  <2>3. SessionKept
    BY <2>1, <2>2 DEF SessionKept, SessionQueue, SessionListener
  <2>. QED  BY <1>a, <2>3
<1>2. CASE ListenerBind
  BY <1>2 DEF ListenerBind, Session!Next, Session!Bind, Session!frameVars,
     SessionRequests, InFlight, SessionQueue, SessionListener
<1>3. CASE ListenerCheckRunning
  <2>1. CASE running
    <3>1. SessionKept
      BY <1>3, <2>1 DEF ListenerCheckRunning, SessionKept, SessionRequests,
         InFlight, SessionQueue, SessionListener
    <3>. QED  BY <1>a, <3>1
  <2>2. CASE ~running
    BY <1>3, <2>2 DEF ListenerCheckRunning, Session!Next, Session!Stop,
       Session!frameVars, SessionRequests, InFlight, SessionQueue,
       SessionListener
  <2>. QED  BY <2>1, <2>2
\* A counted request enters the listener's hands: its count and its
\* in-flight mark rise together.
<1>4. CASE ServeOpen \/ ServeEval \/ ServeInput
  <2>1. /\ lpc = "read" /\ lpc' \in {"loop", "post", "input"}
        /\ UNCHANGED <<running, current_url, title, last_error, frame_capture,
                       frame_width, frame_height, frame_seq, frame_bgra,
                       browser, loop, mpc>>
        /\ UNCHANGED <<posted, consumed>>
    BY <1>4 DEF ServeOpen, ServeEval, ServeInput, CloseConn
  <2>2. \A r \in Session!Counted : Known(r)' = Known(r)
    <3> SUFFICES ASSUME NEW r \in Session!Counted PROVE Known(r)' = Known(r)
      OBVIOUS
    <3>1. CASE ServeOpen
      BY <1>0, <3>1 DEF ServeOpen, CloseConn, Known, InFlight, NoReq, Session!Counted
    <3>2. CASE ServeEval
      <4>1. CASE req.param = Empty
        BY <1>0, <3>2, <4>1 DEF ServeEval, CloseConn, Known, InFlight, NoReq,
           Session!Counted
      <4>2. CASE req.param # Empty
        <5>1. /\ lpc = "read" /\ lpc' = "post" /\ req' = req
              /\ req.path = "/eval"
              /\ eval_requests' = eval_requests + 1
              /\ UNCHANGED <<open_requests, input_requests>>
          BY <3>2, <4>2 DEF ServeEval
        <5>. QED  BY <1>0, <5>1 DEF Known, InFlight, Session!Counted
      <4>. QED  BY <4>1, <4>2
    <3>3. CASE ServeInput
      <4>1. CASE req.param = Empty
        BY <1>0, <3>3, <4>1 DEF ServeInput, CloseConn, Known, InFlight, NoReq,
           Session!Counted
      <4>2. CASE req.param # Empty
        <5>1. /\ lpc = "read" /\ lpc' = "input" /\ req' = req
              /\ req.path = "/input"
              /\ input_requests' = input_requests + 1
              /\ UNCHANGED <<open_requests, eval_requests>>
          BY <3>3, <4>2 DEF ServeInput
        <5>. QED  BY <1>0, <5>1 DEF Known, InFlight, Session!Counted
      <4>. QED  BY <4>1, <4>2
    <3>. QED  BY <1>4, <3>1, <3>2, <3>3
  <2>3. SessionKept
    BY <2>1, <2>2, KnownKept DEF SessionKept, SessionQueue, SessionListener
  <2>. QED  BY <1>a, <2>3
<1>5. CASE InputDispatch
  <2>1. req.path = "/input"
    BY <1>5 DEF InputDispatch, ListenerInv
  <2>2. CASE lpc' = "post"
    <3>1. SessionKept
      BY <1>5, <2>1, <2>2 DEF InputDispatch, CloseConn, SessionKept,
         SessionRequests, InFlight, SessionQueue, SessionListener
    <3>. QED  BY <1>a, <3>1
  <2>3. CASE lpc' # "post"
    <3>1. /\ Known("/input")' = Known("/input") + 1
          /\ \A r \in Session!Counted \ {"/input"} : Known(r)' = Known(r)
      BY <1>0, <1>5, <2>1, <2>3 DEF InputDispatch, CloseConn, Known, InFlight, NoReq,
         Session!Counted
    <3>2. SessionRequests' = [SessionRequests EXCEPT !["/input"] = @ + 1]
      BY <3>1, KnownBump DEF Session!Counted
    <3>3. Session!InputRefused
      BY <1>5, <2>3, <3>2 DEF InputDispatch, CloseConn, Session!InputRefused,
         Session!frameVars, SessionQueue, SessionListener
    <3>4. Session!InputRefused
      BY <3>3
    <3>. QED  BY <3>4 DEF Session!Next, Session!Request
  <2>. QED  BY <2>2, <2>3
<1>6. CASE ListenerPost
  <2>1. /\ pending \in Commands
        /\ pending.origin = req.path
        /\ req.path \in {"/open", "/eval", "/input"}
    BY <1>0, <1>6 DEF ListenerPost, ListenerInv
  <2>2. /\ SessionListener = "serving" /\ SessionListener' = "serving"
        /\ SessionRequests' = [SessionRequests EXCEPT ![req.path] = @ + 1]
        /\ UNCHANGED <<running, current_url, title, frame_capture, frame_width,
                       frame_height, frame_seq, frame_bgra, browser, loop, mpc>>
    <3>0. PICK p \in Session!Counted : p = req.path
      BY <2>1 DEF Session!Counted
    <3>1. /\ Known(p)' = Known(p) + 1
          /\ \A r \in Session!Counted \ {p} : Known(r)' = Known(r)
      BY <1>0, <1>6, <3>0 DEF ListenerPost, CloseConn, Known, InFlight, NoReq,
         Session!Counted
    <3>2. SessionRequests' = [SessionRequests EXCEPT ![req.path] = @ + 1]
      BY <3>0, <3>1, KnownBump
    <3>3. SessionListener = "serving" /\ SessionListener' = "serving"
      BY <1>6 DEF ListenerPost, CloseConn, SessionListener
    <3>. QED  BY <1>6, <3>2, <3>3 DEF ListenerPost
  <2>3. \/ SessionQueue' = Append(SessionQueue, pending) /\ UNCHANGED last_error
        \/ PostMayFail /\ last_error' = "post" /\ SessionQueue' = SessionQueue
    <3>1. CASE posted' = Append(posted, pending) /\ UNCHANGED last_error
      <4>1. consumed' = consumed /\ Len(posted') = Len(posted) + 1
        BY <1>6, <3>1 DEF ListenerPost
      <4>2. SubSeq(posted', consumed + 1, Len(posted) + 1)
              = Append(SessionQueue, pending)
        BY <1>0, <2>1, <3>1, QueueAppend DEF SessionQueue
      <4>. QED  BY <3>1, <4>1, <4>2 DEF SessionQueue
    <3>2. CASE PostMayFail /\ last_error' = "post" /\ UNCHANGED posted
      BY <1>6, <3>2 DEF ListenerPost, SessionQueue
    <3>. QED  BY <1>6, <3>1, <3>2 DEF ListenerPost, PostTask
  <2>4. Session!Submit(req.path, pending)
    BY <2>2, <2>3 DEF Session!Submit, Session!frameVars
  <2>5. CASE req.path = "/open"
    <3>1. PICK u \in Urls : pending = Cmd("open", u, "/open")
      BY <2>1, <2>5, PendingSubmittable
    <3>. QED  BY <2>4, <2>5, <3>1 DEF Session!Next, Session!Request, Session!Cmd, Cmd
  <2>6. CASE req.path = "/eval"
    <3>1. PICK j \in Scripts : pending = Cmd("eval", j, "/eval")
      BY <2>1, <2>6, PendingSubmittable
    <3>. QED  BY <2>4, <2>6, <3>1 DEF Session!Next, Session!Request, Session!Cmd, Cmd
  <2>7. CASE req.path = "/input"
    <3>1. pending \in Session!InputCmds
      BY <2>1, <2>7, PendingSubmittable
    <3>. QED  BY <2>4, <2>7, <3>1 DEF Session!Next, Session!Request
  <2>. QED  BY <2>1, <2>5, <2>6, <2>7
<1>7. CASE ServeQuit
  <2>1. CASE posted' = Append(posted, Cmd("quit", NoArg, "/quit"))
    <3>1. SessionQueue' = Append(SessionQueue, Cmd("quit", NoArg, "/quit"))
      <4>1. consumed' = consumed /\ Len(posted') = Len(posted) + 1
        BY <1>7, <2>1 DEF ServeQuit
      <4>2. SubSeq(posted', consumed + 1, Len(posted) + 1)
              = Append(SessionQueue, Cmd("quit", NoArg, "/quit"))
        BY <1>0, <2>1, QueueAppend, CommandsBuilt DEF SessionQueue
      <4>. QED  BY <4>1, <4>2 DEF SessionQueue
    <3>2. Session!Quit
      BY <1>7, <3>1 DEF ServeQuit, CloseConn, Session!Quit, Session!Cmd, Cmd,
         Session!frameVars, SessionRequests, InFlight, SessionListener
    <3>. QED  BY <3>2 DEF Session!Next, Session!Request
  <2>2. CASE UNCHANGED posted
    <3>1. Session!Quit
      BY <1>7, <2>2 DEF ServeQuit, CloseConn, Session!Quit, Session!frameVars,
         SessionRequests, InFlight, SessionQueue, SessionListener
    <3>. QED  BY <3>1 DEF Session!Next, Session!Request
  <2>. QED  BY <1>7, <2>1, <2>2 DEF ServeQuit
<1>8. CASE ControlExecute
  <2>1. /\ consumed \in 0..(Len(posted) - 1)
        /\ UNCHANGED <<posted, lpc, req, open_requests, eval_requests,
                       input_requests, title, frame_capture, frame_width,
                       frame_height, frame_seq, frame_bgra, browser, mpc>>
        /\ consumed' = consumed + 1
    BY <1>0, <1>8 DEF ControlExecute
  <2>2. /\ SessionQueue # <<>>
        /\ Head(SessionQueue) = posted[consumed + 1]
        /\ SessionQueue' = Tail(SessionQueue)
    <3>1. /\ SessionQueue # <<>>
          /\ Head(SessionQueue) = posted[consumed + 1]
          /\ Tail(SessionQueue) = SubSeq(posted, consumed + 2, Len(posted))
      BY <1>0, <2>1, QueueTake DEF SessionQueue
    <3>2. SessionQueue' = SubSeq(posted, consumed + 2, Len(posted))
      BY <2>1 DEF SessionQueue
    <3>. QED  BY <3>1, <3>2
  <2>3. /\ SessionRequests' = SessionRequests
        /\ SessionListener' = SessionListener
    BY <2>1 DEF SessionRequests, InFlight, SessionListener
  <2>4. Session!Execute
    BY <1>8, <2>1, <2>2, <2>3 DEF ControlExecute, RunQuit, RunLive,
       RunNotReady, Session!Execute, Session!frameVars
  <2>. QED  BY <2>4 DEF Session!Next
<1>9. CASE EngineStep
  <2>1. UNCHANGED <<posted, consumed, lpc, req, open_requests, eval_requests,
                    input_requests, mpc>>
    BY <1>9 DEF EngineStep, ControlAfterCreated, ControlPaint,
       ControlTitleChange, ControlBeforeClose
  <2>2. /\ SessionRequests' = SessionRequests
        /\ SessionQueue' = SessionQueue
        /\ SessionListener' = SessionListener
    BY <2>1 DEF SessionRequests, InFlight, SessionQueue, SessionListener
  <2>3. CASE ControlAfterCreated
    BY <2>2, <2>3 DEF ControlAfterCreated, Session!Next, Session!Created,
       Session!frameVars
  <2>4. CASE \E sz \in FrameSizes : ControlPaint(sz)
    BY <2>2, <2>4 DEF ControlPaint, Session!Next, Session!Paint,
       Session!frameVars
  <2>5. CASE \E t \in Titles : ControlTitleChange(t)
    BY <2>2, <2>5 DEF ControlTitleChange, Session!Next, Session!TitleChange,
       Session!frameVars
  <2>6. CASE ControlBeforeClose
    BY <2>2, <2>6 DEF ControlBeforeClose, Session!Next, Session!Closed,
       Session!frameVars
  <2>. QED  BY <1>9, <2>3, <2>4, <2>5, <2>6 DEF EngineStep
<1>10. CASE MainLoopReturned
  BY <1>10 DEF MainLoopReturned, Session!Next, Session!LoopReturned,
     Session!frameVars, SessionRequests, InFlight, SessionQueue,
     SessionListener
<1>11. CASE MainJoin
  BY <1>11 DEF MainJoin, Session!Next, Session!Joined, Session!frameVars,
     SessionRequests, InFlight, SessionQueue, SessionListener
<1>12. CASE Exited \/ UNCHANGED vars
  <2>1. SessionKept
    BY <1>12 DEF Exited, vars, SessionKept, SessionRequests, InFlight,
       SessionQueue, SessionListener
  <2>. QED  BY <1>a, <2>1
<1>. QED  BY <1>1, <1>2, <1>3, <1>4, <1>5, <1>6, <1>7, <1>8, <1>9, <1>10,
             <1>11, <1>12 DEF Next, ListenerStep

\* The bridge implements the atomic session (Bridge.tla, SessionRefinement):
\* whatever the UI thread and the engine do between the listener's steps,
\* each counted request is counted once, together with its post or its
\* refusal, and the UI thread runs the posted tasks once each, oldest
\* first, while the message loop runs (main.cpp:444-556, 695-858).
THEOREM SessionRefines == Spec => SessionRefinement
<1>1. Spec => [](TypeOK /\ ListenerInv)
  BY ListenerInvariant
<1>2. TypeOK /\ ListenerInv /\ [Next]_vars => [Session!Next]_Session!avars
  BY StepRefines
<1>. QED  BY <1>1, <1>2, InitRefines, PTL DEF Spec, SessionRefinement, Session!Spec

=============================================================================
