------------------------------- MODULE Bridge -------------------------------
(***************************************************************************)
(* The CEF host bridge of src/tools/cef_host_bridge/src/main.cpp: three    *)
(* threads sharing one mutex-guarded SharedState.                          *)
(*                                                                         *)
(*  - the listener thread (ServeHttp): binds, then loops on IsRunning,     *)
(*    select with a 200 ms timeout, accept, read, dispatch, respond;       *)
(*  - the control (CEF UI) thread: runs the posted CefTasks in FIFO order  *)
(*    and delivers the browser callbacks (OnAfterCreated, OnPaint,         *)
(*    OnTitleChange, OnBeforeClose);                                       *)
(*  - the main thread: after CefRunMessageLoop returns it clears running,  *)
(*    joins the listener and shuts CEF down.                               *)
(*                                                                         *)
(* Every step is one critical section of state->mu (or g_browser_mu), or   *)
(* thread-local work between two of them, so the interleavings of the      *)
(* model are those of the code.  Strings are abstracted: URLs and scripts  *)
(* are model values, a frame buffer is the record of the paint that        *)
(* filled it (its byte length is w * h * 4).                               *)
(***************************************************************************)
EXTENDS Naturals, Sequences, FiniteSets

CONSTANTS
  Urls,            \* URLs a client may pass to /open
  Scripts,         \* scripts a client may pass to /eval
  Titles,          \* titles the engine may report through OnTitleChange
  StartUrl,        \* Args::start_url
  InitialTitle,    \* the title main() stores before creating the browser
  ViewW, ViewH,    \* Args::view_width / view_height (already clamped)
  FrameSizes,      \* the <<width, height>> pairs OnPaint may deliver
  MaxConns,        \* bound on the connections the listener accepts
  MaxPaints,       \* bound on the OnPaint callbacks
  PostMayFail,     \* CefPostTask may return false
  BindMayFail,     \* ParseBindAddr/socket/inet_pton/bind/listen may fail
  ClientsMayStall, \* a client may connect and then send nothing
  NoArg,           \* the argument of a command that carries none
  InputJs          \* the script BuildInputScript synthesises

ASSUME ConstAssumption ==
  /\ ViewW \in Nat \ {0} /\ ViewH \in Nat \ {0}
  /\ FrameSizes \subseteq (Nat \ {0}) \X (Nat \ {0})
  /\ MaxConns \in Nat /\ MaxPaints \in Nat
  /\ PostMayFail \in BOOLEAN /\ BindMayFail \in BOOLEAN
  /\ ClientsMayStall \in BOOLEAN
  /\ StartUrl \notin Urls
  /\ NoArg \notin Urls \cup Scripts /\ InputJs \notin Scripts

VARIABLES
  \* SharedState (main.cpp:57-73); last_ipc is never written (SetIpc has
  \* no caller) and bind_addr is read-only, so neither is a variable.
  running, current_url, title, last_error,
  open_requests, eval_requests, input_requests,
  frame_capture, frame_width, frame_height, frame_seq, frame_bgra,
  browser,      \* g_browser: "none" before OnAfterCreated, "closed" after OnBeforeClose
  posted,       \* every task CefPostTask accepted, in posting order
  consumed,     \* how many of them the UI thread has taken off the queue
  loop,         \* CefRunMessageLoop: "running" until CefQuitMessageLoop
  lpc,          \* listener thread program counter
  req,          \* the request of the connection being served
  pending,      \* the task the listener is about to post
  fsnap,        \* the frame snapshot /frame copied under the lock
  conns,        \* connections accepted so far
  mpc,          \* main thread program counter
  rejected,     \* ghost: per route, posts CefPostTask refused
  acks,         \* ghost: per route, 200 "queued" responses sent
  served        \* ghost: the frames /frame answered 200 with

sharedVars == <<running, current_url, title, last_error, open_requests,
                eval_requests, input_requests, frame_capture, frame_width,
                frame_height, frame_seq, frame_bgra>>
listenerVars == <<lpc, req, pending, fsnap, conns>>
ghostVars == <<rejected, acks, served>>
vars == <<sharedVars, browser, posted, consumed, loop, listenerVars, mpc,
          ghostVars>>

-----------------------------------------------------------------------------
(* Data.                                                                   *)

Widths == {ViewW} \cup {s[1] : s \in FrameSizes}    \* values of frame_width
Heights == {ViewH} \cup {s[2] : s \in FrameSizes}   \* values of frame_height
NoFrame == [w |-> 0, h |-> 0]          \* frame_bgra before the first paint
Frames == {NoFrame} \cup [w : {s[1] : s \in FrameSizes}, h : {s[2] : s \in FrameSizes}]
BgraLen(b) == b.w * b.h * 4            \* frame_bgra.size()

Empty == "empty"      \* the empty std::string (a missing parameter, no error yet)
Routes == {"/open", "/eval", "/input", "/quit"}   \* the routes that post tasks
Cmd(k, a, o) == [kind |-> k, arg |-> a, origin |-> o]
NoCmd == Cmd("none", NoArg, "none")

\* "click" carries valid x and y, "click_nocoords" does not; "text" stands
\* for every type BuildInputScript turns into a script (text, key, back,
\* forward, reload) and "bogus" for one it does not know.
InputTypes == {Empty, "click", "click_nocoords", "scroll", "text", "bogus"}
Idle == "idle"                        \* a connection whose client sends nothing
Requests ==
  {[path |-> p, param |-> NoArg] : p \in {"/status", "/frame", "/quit", "/other", "malformed"}}
  \cup {[path |-> "/open", param |-> u] : u \in Urls \cup {Empty}}
  \cup {[path |-> "/eval", param |-> j] : j \in Scripts \cup {Empty}}
  \cup {[path |-> "/input", param |-> t] : t \in InputTypes}
NoReq == [path |-> "none", param |-> NoArg]
IdleReq == [path |-> Idle, param |-> NoArg]

Errors == {Empty, "post", "notready", "bind"}   \* the last_error texts, by cause

-----------------------------------------------------------------------------
Init ==
  \* main.cpp:1010-1015 and the SharedState defaults
  /\ running = TRUE
  /\ current_url = StartUrl
  /\ title = InitialTitle
  /\ last_error = Empty
  /\ open_requests = 0 /\ eval_requests = 0 /\ input_requests = 0
  /\ frame_capture = FALSE
  /\ frame_width = ViewW /\ frame_height = ViewH
  /\ frame_seq = 0
  /\ frame_bgra = NoFrame
  /\ browser = "none"
  /\ posted = <<>> /\ consumed = 0
  /\ loop = "running"
  /\ lpc = "init" /\ req = NoReq /\ pending = NoCmd /\ fsnap = [w |-> 0, h |-> 0, buf |-> NoFrame]
  /\ conns = 0
  /\ mpc = "loop"
  /\ rejected = [r \in Routes |-> 0] /\ acks = [r \in Routes |-> 0]
  /\ served = {}

-----------------------------------------------------------------------------
(* Helpers.                                                                *)

\* CloseSocket(client); continue  -- back to the top of the accept loop.
CloseConn ==
  /\ lpc' = "loop"
  /\ req' = NoReq

\* CefPostTask(TID_UI, task) followed, on failure, by SetError and a 500
\* (main.cpp:705-713, 729-736, 762-771, 786-794, 800-807).
PostTask(c) ==
  \/ /\ posted' = Append(posted, c)
     /\ acks' = [acks EXCEPT ![c.origin] = @ + 1]
     /\ UNCHANGED <<rejected, last_error>>
  \/ /\ PostMayFail
     /\ rejected' = [rejected EXCEPT ![c.origin] = @ + 1]
     /\ last_error' = "post"
     /\ UNCHANGED <<posted, acks>>

-----------------------------------------------------------------------------
(* The listener thread: ServeHttp (main.cpp:603-870).                      *)

\* Bind the socket; on any failure record the error and return.
ListenerBind ==
  /\ lpc = "init"
  /\ \/ lpc' = "loop" /\ UNCHANGED last_error
     \/ BindMayFail /\ lpc' = "failed" /\ last_error' = "bind"
  /\ UNCHANGED <<running, current_url, title, open_requests, eval_requests,
                 input_requests, frame_capture, frame_width, frame_height,
                 frame_seq, frame_bgra, browser, posted, consumed, loop,
                 req, pending, fsnap, conns, mpc, ghostVars>>

\* Mutant: the accept loop never looks at the running flag.
ListenerCheckRunningIgnoresFlag ==
  /\ lpc = "loop"
  /\ lpc' = "select"
  /\ UNCHANGED <<sharedVars, browser, posted, consumed, loop, req, pending,
                 fsnap, conns, mpc, ghostVars>>

\* while (IsRunning(state)) -- the loop head; on exit CloseSocket(listener).
ListenerCheckRunning ==
  /\ lpc = "loop"
  /\ lpc' = IF running THEN "select" ELSE "done"
  /\ UNCHANGED <<sharedVars, browser, posted, consumed, loop, req, pending,
                 fsnap, conns, mpc, ghostVars>>

\* select() times out after 200 ms, or accept() fails: continue.
ListenerTimeout ==
  /\ lpc = "select"
  /\ lpc' = "loop"
  /\ UNCHANGED <<sharedVars, browser, posted, consumed, loop, req, pending,
                 fsnap, conns, mpc, ghostVars>>

\* select() reports a connection and accept() returns it.
ListenerAccept ==
  /\ lpc = "select"
  /\ conns < MaxConns
  /\ \E r \in Requests \cup (IF ClientsMayStall THEN {IdleReq} ELSE {}) :
        req' = r
  /\ conns' = conns + 1
  /\ lpc' = "read"
  /\ UNCHANGED <<sharedVars, browser, posted, consumed, loop, pending, fsnap,
                 mpc, ghostVars>>

\* The client of an idle connection closes it: recv returns 0 with nothing
\* read, so ReadHttpRequest fails ("empty request").
ClientClose ==
  /\ lpc = "read"
  /\ req = IdleReq
  /\ req' = [path |-> "malformed", param |-> NoArg]
  /\ UNCHANGED <<sharedVars, browser, posted, consumed, loop, lpc, pending,
                 fsnap, conns, mpc, ghostVars>>

\* ReadHttpRequest or ParseHttpRequest failed: 400.
ServeMalformed ==
  /\ lpc = "read" /\ req.path = "malformed"
  /\ CloseConn
  /\ UNCHANGED <<sharedVars, browser, posted, consumed, loop, pending, fsnap,
                 conns, mpc, ghostVars>>

\* /status: BuildStatusJson copies every field under the lock.
ServeStatus ==
  /\ lpc = "read" /\ req.path = "/status"
  /\ CloseConn
  /\ UNCHANGED <<sharedVars, browser, posted, consumed, loop, pending, fsnap,
                 conns, mpc, ghostVars>>

\* Mutant: the request is counted before the url is checked.
ServeOpenCountsFirst ==
  /\ lpc = "read" /\ req.path = "/open"
  /\ open_requests' = open_requests + 1
  /\ \/ /\ req.param = Empty
        /\ CloseConn
        /\ UNCHANGED pending
     \/ /\ req.param # Empty
        /\ pending' = Cmd("open", req.param, "/open")
        /\ lpc' = "post"
        /\ UNCHANGED req
  /\ UNCHANGED <<running, current_url, title, last_error, eval_requests,
                 input_requests, frame_capture, frame_width, frame_height,
                 frame_seq, frame_bgra, browser, posted, consumed, loop,
                 fsnap, conns, mpc, ghostVars>>

\* /open: 400 without url, else count the request, then post OpenUrlTask.
ServeOpen ==
  /\ lpc = "read" /\ req.path = "/open"
  /\ \/ /\ req.param = Empty
        /\ CloseConn
        /\ UNCHANGED <<open_requests, pending>>
     \/ /\ req.param # Empty
        /\ open_requests' = open_requests + 1
        /\ pending' = Cmd("open", req.param, "/open")
        /\ lpc' = "post"
        /\ UNCHANGED req
  /\ UNCHANGED <<running, current_url, title, last_error, eval_requests,
                 input_requests, frame_capture, frame_width, frame_height,
                 frame_seq, frame_bgra, browser, posted, consumed, loop,
                 fsnap, conns, mpc, ghostVars>>

\* /eval: 400 without js, else count the request, then post EvalTask.
ServeEval ==
  /\ lpc = "read" /\ req.path = "/eval"
  /\ \/ /\ req.param = Empty
        /\ CloseConn
        /\ UNCHANGED <<eval_requests, pending>>
     \/ /\ req.param # Empty
        /\ eval_requests' = eval_requests + 1
        /\ pending' = Cmd("eval", req.param, "/eval")
        /\ lpc' = "post"
        /\ UNCHANGED req
  /\ UNCHANGED <<running, current_url, title, last_error, open_requests,
                 input_requests, frame_capture, frame_width, frame_height,
                 frame_seq, frame_bgra, browser, posted, consumed, loop,
                 fsnap, conns, mpc, ghostVars>>

\* /input: 400 for an empty type, else count the request (main.cpp:743-754).
ServeInput ==
  /\ lpc = "read" /\ req.path = "/input"
  /\ \/ /\ req.param = Empty
        /\ CloseConn
        /\ UNCHANGED input_requests
     \/ /\ req.param # Empty
        /\ input_requests' = input_requests + 1
        /\ lpc' = "input"
        /\ UNCHANGED req
  /\ UNCHANGED <<running, current_url, title, last_error, open_requests,
                 eval_requests, frame_capture, frame_width, frame_height,
                 frame_seq, frame_bgra, browser, posted, consumed, loop,
                 pending, fsnap, conns, mpc, ghostVars>>

\* Mutant: a scroll without coordinates takes the frame size, not its centre.
InputDispatchNoHalf ==
  /\ lpc = "input"
  /\ \/ /\ req.param \in {"click_nocoords", "bogus"}
        /\ CloseConn
        /\ UNCHANGED pending
     \/ /\ req.param = "click"
        /\ pending' = Cmd("click", NoArg, "/input")
        /\ lpc' = "post" /\ UNCHANGED req
     \/ /\ req.param = "scroll"
        /\ pending' = Cmd("scroll", <<frame_width, frame_height>>, "/input")
        /\ lpc' = "post" /\ UNCHANGED req
     \/ /\ req.param = "text"
        /\ pending' = Cmd("eval", InputJs, "/input")
        /\ lpc' = "post" /\ UNCHANGED req
  /\ UNCHANGED <<sharedVars, browser, posted, consumed, loop, fsnap, conns,
                 mpc, ghostVars>>

\* /input after the count: build the task by type (main.cpp:756-808).  A
\* scroll without x and y takes the centre of the frame, read under the lock.
InputDispatch ==
  /\ lpc = "input"
  /\ \/ /\ req.param \in {"click_nocoords", "bogus"}
        /\ CloseConn
        /\ UNCHANGED pending
     \/ /\ req.param = "click"
        /\ pending' = Cmd("click", NoArg, "/input")
        /\ lpc' = "post" /\ UNCHANGED req
     \/ /\ req.param = "scroll"
        /\ pending' = Cmd("scroll", <<frame_width \div 2, frame_height \div 2>>, "/input")
        /\ lpc' = "post" /\ UNCHANGED req
     \/ /\ req.param = "text"
        /\ pending' = Cmd("eval", InputJs, "/input")
        /\ lpc' = "post" /\ UNCHANGED req
  /\ UNCHANGED <<sharedVars, browser, posted, consumed, loop, fsnap, conns,
                 mpc, ghostVars>>

\* Post the task built by /open, /eval or /input and answer 200 or 500.
ListenerPost ==
  /\ lpc = "post"
  /\ PostTask(pending)
  /\ CloseConn
  /\ pending' = NoCmd
  /\ UNCHANGED <<running, current_url, title, open_requests, eval_requests,
                 input_requests, frame_capture, frame_width, frame_height,
                 frame_seq, frame_bgra, browser, consumed, loop, fsnap,
                 conns, mpc, served>>

\* /frame: copy width, height and the BGRA buffer under the lock.
ServeFrame ==
  /\ lpc = "read" /\ req.path = "/frame"
  /\ fsnap' = [w |-> frame_width, h |-> frame_height, buf |-> frame_bgra]
  /\ lpc' = "frame"
  /\ UNCHANGED <<sharedVars, browser, posted, consumed, loop, req, pending,
                 conns, mpc, ghostVars>>

\* Mutant: /frame checks only for a zero size, not the buffer length.
FrameEncodeNoSizeCheck ==
  /\ lpc = "frame"
  /\ served' = IF fsnap.w = 0 \/ fsnap.h = 0 THEN served ELSE served \cup {fsnap}
  /\ fsnap' = [w |-> 0, h |-> 0, buf |-> NoFrame]
  /\ CloseConn
  /\ UNCHANGED <<sharedVars, browser, posted, consumed, loop, pending, conns,
                 mpc, rejected, acks>>

\* /frame after the copy: 503 unless the buffer holds width * height * 4
\* bytes, else a P6 image of the copied pixels.
FrameEncode ==
  /\ lpc = "frame"
  /\ LET expected == fsnap.w * fsnap.h * 4
     IN  served' = IF fsnap.w = 0 \/ fsnap.h = 0 \/ BgraLen(fsnap.buf) < expected
                   THEN served
                   ELSE served \cup {fsnap}
  /\ fsnap' = [w |-> 0, h |-> 0, buf |-> NoFrame]
  /\ CloseConn
  /\ UNCHANGED <<sharedVars, browser, posted, consumed, loop, pending, conns,
                 mpc, rejected, acks>>

\* /quit: post QuitTask, ignore whether the post succeeded, answer 200.
ServeQuit ==
  /\ lpc = "read" /\ req.path = "/quit"
  /\ \/ posted' = Append(posted, Cmd("quit", NoArg, "/quit"))
     \/ PostMayFail /\ UNCHANGED posted
  /\ acks' = [acks EXCEPT !["/quit"] = @ + 1]
  /\ CloseConn
  /\ UNCHANGED <<sharedVars, browser, consumed, loop, pending, fsnap, conns,
                 mpc, rejected, served>>

\* Any other path: 404 with the list of routes.
ServeNotFound ==
  /\ lpc = "read" /\ req.path = "/other"
  /\ CloseConn
  /\ UNCHANGED <<sharedVars, browser, posted, consumed, loop, pending, fsnap,
                 conns, mpc, ghostVars>>

-----------------------------------------------------------------------------
(* The control (CEF UI) thread: the posted CefTasks and the browser        *)
(* callbacks.  It runs only while CefRunMessageLoop has not been quit.     *)

\* The engine work of a task whose browser is live: OpenUrlTask::Execute
\* records the URL (main.cpp:455-456); EvalTask and NativeInputTask only
\* call into the engine, which the bridge keeps no state of.
RunLive(c) ==
  /\ current_url' = IF c.kind = "open" THEN c.arg ELSE current_url
  /\ UNCHANGED <<running, last_error, loop>>

\* GetGlobalBrowser() is null: SetError("... browser not ready").
RunNotReady ==
  /\ last_error' = "notready"
  /\ UNCHANGED <<running, current_url, loop>>

\* QuitTask::Execute: SetRunning(false); CefQuitMessageLoop().
RunQuit ==
  /\ running' = FALSE
  /\ loop' = "quit"
  /\ UNCHANGED <<current_url, last_error>>

\* Take the oldest posted task off the queue and execute it.
ControlExecute ==
  /\ loop = "running"
  /\ consumed < Len(posted)
  /\ consumed' = consumed + 1
  /\ LET c == posted[consumed + 1]
     IN  IF c.kind = "quit" THEN RunQuit
         ELSE IF browser = "live" THEN RunLive(c)
         ELSE RunNotReady
  /\ UNCHANGED <<title, open_requests, eval_requests, input_requests,
                 frame_capture, frame_width, frame_height, frame_seq,
                 frame_bgra, browser, posted, listenerVars, mpc, ghostVars>>

\* OnAfterCreated: SetGlobalBrowser(browser).
ControlAfterCreated ==
  /\ loop = "running"
  /\ browser = "none"
  /\ browser' = "live"
  /\ UNCHANGED <<sharedVars, posted, consumed, loop, listenerVars, mpc, ghostVars>>

\* OnPaint of a PET_VIEW buffer of s[1] x s[2] pixels: every frame field is
\* written in one critical section (main.cpp:928-940).
ControlPaint(s) ==
  /\ loop = "running"
  /\ browser = "live"
  /\ frame_seq < MaxPaints
  /\ frame_capture' = TRUE
  /\ frame_width' = s[1]
  /\ frame_height' = s[2]
  /\ frame_seq' = frame_seq + 1
  /\ frame_bgra' = [w |-> s[1], h |-> s[2]]
  /\ UNCHANGED <<running, current_url, title, last_error, open_requests,
                 eval_requests, input_requests, browser, posted, consumed,
                 loop, listenerVars, mpc, ghostVars>>

\* OnTitleChange: SetTitle(title).
ControlTitleChange(t) ==
  /\ loop = "running"
  /\ browser = "live"
  /\ title' = t
  /\ UNCHANGED <<running, current_url, last_error, open_requests,
                 eval_requests, input_requests, frame_capture, frame_width,
                 frame_height, frame_seq, frame_bgra, browser, posted,
                 consumed, loop, listenerVars, mpc, ghostVars>>

\* OnBeforeClose: SetGlobalBrowser(nullptr); SetRunning(false);
\* CefQuitMessageLoop().
ControlBeforeClose ==
  /\ loop = "running"
  /\ browser = "live"
  /\ browser' = "closed"
  /\ running' = FALSE
  /\ loop' = "quit"
  /\ UNCHANGED <<current_url, title, last_error, open_requests,
                 eval_requests, input_requests, frame_capture, frame_width,
                 frame_height, frame_seq, frame_bgra, posted, consumed,
                 listenerVars, mpc, ghostVars>>

-----------------------------------------------------------------------------
(* The main thread after CefRunMessageLoop (main.cpp:1041-1049).           *)

\* CefRunMessageLoop returned: SetRunning(state, false).
MainLoopReturned ==
  /\ loop = "quit"
  /\ mpc = "loop"
  /\ running' = FALSE
  /\ mpc' = "join"
  /\ UNCHANGED <<current_url, title, last_error, open_requests, eval_requests,
                 input_requests, frame_capture, frame_width, frame_height,
                 frame_seq, frame_bgra, browser, posted, consumed, loop,
                 listenerVars, ghostVars>>

\* http_thread.join() returns once ServeHttp has returned; CefShutdown.
MainJoin ==
  /\ mpc = "join"
  /\ lpc \in {"done", "failed"}
  /\ mpc' = "exited"
  /\ UNCHANGED <<sharedVars, browser, posted, consumed, loop, listenerVars,
                 ghostVars>>

\* The process has exited.
Exited ==
  /\ mpc = "exited"
  /\ UNCHANGED vars

-----------------------------------------------------------------------------
\* The steps the listener takes by itself, without waiting for a client.
ListenerStep ==
  \/ ListenerBind \/ ListenerCheckRunning \/ ListenerTimeout
  \/ ServeMalformed \/ ServeStatus \/ ServeOpen \/ ServeEval \/ ServeInput
  \/ InputDispatch \/ ListenerPost \/ ServeFrame \/ FrameEncode
  \/ ServeQuit \/ ServeNotFound

\* The steps the engine decides on.
EngineStep ==
  \/ ControlAfterCreated
  \/ \E s \in FrameSizes : ControlPaint(s)
  \/ \E t \in Titles : ControlTitleChange(t)
  \/ ControlBeforeClose

Next ==
  \/ ListenerStep
  \/ ListenerAccept \/ ClientClose
  \/ ControlExecute \/ EngineStep
  \/ MainLoopReturned \/ MainJoin
  \/ Exited

\* The listener and the main thread are never descheduled for good, and the
\* UI thread drains its task queue; clients and the engine owe nothing.
Fairness ==
  /\ WF_vars(ListenerStep)
  /\ WF_vars(ControlExecute)
  /\ WF_vars(MainLoopReturned)
  /\ WF_vars(MainJoin)

Spec == Init /\ [][Next]_vars /\ Fairness

-----------------------------------------------------------------------------
(* Properties.                                                             *)

Commands ==
  {Cmd("open", u, "/open") : u \in Urls}
  \cup {Cmd("eval", j, "/eval") : j \in Scripts}
  \cup {Cmd("eval", InputJs, "/input"), Cmd("click", NoArg, "/input"),
        Cmd("quit", NoArg, "/quit")}
  \cup [kind : {"scroll"}, arg : {x \div 2 : x \in Widths} \X {y \div 2 : y \in Heights},
        origin : {"/input"}]
Snapshots == [w : Widths \cup {0}, h : Heights \cup {0}, buf : Frames]

\* The types of SharedState's fields.
SharedTypeOK ==
  /\ running \in BOOLEAN
  /\ current_url \in Urls \cup {StartUrl}
  /\ title \in Titles \cup {InitialTitle}
  /\ last_error \in Errors
  /\ open_requests \in Nat /\ eval_requests \in Nat /\ input_requests \in Nat
  /\ frame_capture \in BOOLEAN
  /\ frame_width \in Widths /\ frame_height \in Heights
  /\ frame_seq \in 0..MaxPaints
  /\ frame_bgra \in Frames

\* The types of the browser handle, the task queue and the message loop.
EngineTypeOK ==
  /\ browser \in {"none", "live", "closed"}
  /\ posted \in Seq(Commands)
  /\ consumed \in 0..Len(posted)
  /\ loop \in {"running", "quit"}

\* The types of the listener's and the main thread's locals.
ThreadsTypeOK ==
  /\ lpc \in {"init", "failed", "loop", "select", "read", "input", "post",
              "frame", "done"}
  /\ req \in Requests \cup {NoReq, IdleReq}
  /\ pending \in (IF lpc = "post" THEN Commands ELSE {NoCmd})
  /\ fsnap \in Snapshots
  /\ conns \in 0..MaxConns
  /\ mpc \in {"loop", "join", "exited"}

\* The types of the ghost variables.
GhostTypeOK ==
  /\ rejected \in [Routes -> Nat] /\ acks \in [Routes -> Nat]
  /\ served \subseteq Snapshots

\* Every variable has the type the code gives it.
TypeOK == SharedTypeOK /\ EngineTypeOK /\ ThreadsTypeOK /\ GhostTypeOK

\* A 200 answer to /frame (main.cpp:833-847) is an image of one paint: its
\* header's width and height are those of the paint whose pixels follow.
\* Before the first OnPaint the stored size is the view size and the buffer
\* is empty, so only the buffer-size check keeps /frame from reading pixels
\* that do not exist.
FrameResponseSound ==
  \A f \in served : f.buf # NoFrame /\ f.buf.w = f.w /\ f.buf.h = f.h

\* The number of tasks of a route that CefPostTask accepted.
Queued(r) == Cardinality({i \in DOMAIN posted : posted[i].origin = r})

\* 1 while the listener has counted a request of route r and not answered it.
InFlight(r) == IF lpc \in {"input", "post"} /\ req.path = r THEN 1 ELSE 0

\* open_requests and eval_requests count exactly the well-formed /open and
\* /eval requests (spec 4.4): each was posted, refused by CefPostTask, or
\* is still on its way, and scripts synthesised by /input are not counted
\* as /eval.
CounterAccounting ==
  \A r \in {"/open", "/eval"} :
    LET counter == IF r = "/open" THEN open_requests ELSE eval_requests
    IN  counter = Queued(r) + rejected[r] + InFlight(r)

\* The same for input_requests: it counts the /input requests that were
\* posted, refused, or are on their way, and no request answered 400.
InputCounterAccounting ==
  input_requests = Queued("/input") + rejected["/input"] + InFlight("/input")

\* A 200 "queued" answer means the task really is in the UI thread's queue
\* (spec 4.4: a refused post is answered 500 and recorded in last_error).
AckedImpliesQueued ==
  \A r \in Routes : acks[r] <= Queued(r)

\* Once the UI message loop has been quit (by QuitTask or OnBeforeClose),
\* the listener stops and main joins it and exits (spec 4.5, 8).
ShutdownCompletes ==
  (loop = "quit") ~> (mpc = "exited")

\* No connection is accepted once running is false (spec 8: "no further
\* connections are accepted").
NoAcceptAfterStop ==
  [][(lpc = "select" /\ lpc' = "read") => running]_vars

-----------------------------------------------------------------------------
(* Refinement: Bridge implements BridgeSession, where each request is one  *)
(* atomic step.  A counted request whose answer the listener has not yet   *)
(* given (InFlight) is not yet counted in the abstract state; the abstract *)
(* queue is the part of the CEF task queue the UI thread has not taken;    *)
(* the listener is "serving" from its bind to its exit from the loop.      *)

\* The abstract per-route counters: the requests whose outcome is known.
SessionRequests ==
  [r \in {"/open", "/eval", "/input"} |->
     (IF r = "/open" THEN open_requests
      ELSE IF r = "/eval" THEN eval_requests ELSE input_requests)
     - InFlight(r)]

\* The abstract queue: the posted tasks the UI thread has not taken.
SessionQueue == SubSeq(posted, consumed + 1, Len(posted))

\* The abstract listener: up from its bind to its exit from the loop.
SessionListener ==
  IF lpc = "init" THEN "init"
  ELSE IF lpc = "failed" THEN "failed"
  ELSE IF lpc = "done" THEN "stopped"
  ELSE "serving"

Session == INSTANCE BridgeSession WITH
  requests <- SessionRequests,
  queue <- SessionQueue,
  listener <- SessionListener,
  main <- mpc

\* Seen through the mapping, every step of the three threads is a step of
\* the atomic session or leaves it unchanged: a request is counted once,
\* together with its post or its refusal, whatever the UI thread and the
\* engine do between the listener's steps (main.cpp:695-858), and commands
\* are executed once each, oldest first (main.cpp:444-556).
SessionRefinement == Session!Spec

=============================================================================
