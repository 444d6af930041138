---------------------------- MODULE BridgeSession ----------------------------
(***************************************************************************)
(* What the CEF host bridge promises its clients (spec.md 3, 4.2, 7), with *)
(* each request one atomic step: a request that posts a command counts     *)
(* itself and, in the same step, either queues the command or records the  *)
(* refusal ("post") in last_error.  The queue holds the commands not yet   *)
(* executed, executed one at a time, oldest first, while the message loop  *)
(* runs.  The engine callbacks and the shutdown of the process are as in   *)
(* the code; the listener is only "up" or "down", with nothing in between. *)
(* Bridge, where a request takes several steps of the listener thread and  *)
(* the other threads run between them, is shown to implement this module. *)
(***************************************************************************)
EXTENDS Naturals, Sequences

CONSTANTS
  Urls, Scripts, Titles, StartUrl, InitialTitle, ViewW, ViewH, FrameSizes,
  MaxPaints, PostMayFail, BindMayFail, NoArg, InputJs

VARIABLES
  running, current_url, title, last_error,
  frame_capture, frame_width, frame_height, frame_seq, frame_bgra,
  browser, loop,
  requests,   \* per counted route, the requests whose outcome is known
  queue,      \* the commands queued and not yet executed, oldest first
  listener,   \* "init", "serving", "stopped" or "failed"
  main        \* the main thread: "loop", "join", "exited"

frameVars == <<frame_capture, frame_width, frame_height, frame_seq, frame_bgra>>
avars == <<running, current_url, title, last_error, frameVars, browser, loop,
           requests, queue, listener, main>>

Empty == "empty"
NoFrame == [w |-> 0, h |-> 0]
Counted == {"/open", "/eval", "/input"}
Cmd(k, a, o) == [kind |-> k, arg |-> a, origin |-> o]

\* The commands an /input request may build: a click, a scroll at the
\* centre of a frame size the bridge has known, or a synthesised script.
InputCmds ==
  {Cmd("click", NoArg, "/input"), Cmd("eval", InputJs, "/input")}
  \cup {Cmd("scroll", <<x \div 2, y \div 2>>, "/input") :
          x \in {ViewW} \cup {s[1] : s \in FrameSizes},
          y \in {ViewH} \cup {s[2] : s \in FrameSizes}}

Init ==
  /\ running = TRUE /\ current_url = StartUrl /\ title = InitialTitle
  /\ last_error = Empty
  /\ frame_capture = FALSE /\ frame_width = ViewW /\ frame_height = ViewH
  /\ frame_seq = 0 /\ frame_bgra = NoFrame
  /\ browser = "none" /\ loop = "running"
  /\ requests = [r \in Counted |-> 0] /\ queue = <<>>
  /\ listener = "init" /\ main = "loop"

-----------------------------------------------------------------------------
(* Requests.                                                               *)

\* The listener binds, or fails to and records why.
Bind ==
  /\ listener = "init"
  /\ \/ listener' = "serving" /\ UNCHANGED last_error
     \/ BindMayFail /\ listener' = "failed" /\ last_error' = "bind"
  /\ UNCHANGED <<running, current_url, title, frameVars, browser, loop,
                 requests, queue, main>>

\* The listener sees running cleared and stops.
Stop ==
  /\ listener = "serving" /\ ~running
  /\ listener' = "stopped"
  /\ UNCHANGED <<running, current_url, title, last_error, frameVars, browser,
                 loop, requests, queue, main>>

\* A request of route r is counted and its command c queued, or refused.
Submit(r, c) ==
  /\ listener = "serving"
  /\ requests' = [requests EXCEPT ![r] = @ + 1]
  /\ \/ queue' = Append(queue, c) /\ UNCHANGED last_error
     \/ PostMayFail /\ last_error' = "post" /\ UNCHANGED queue
  /\ UNCHANGED <<running, current_url, title, frameVars, browser, loop,
                 listener, main>>

\* An /input request is counted, and refused by validation (400).
InputRefused ==
  /\ listener = "serving"
  /\ requests' = [requests EXCEPT !["/input"] = @ + 1]
  /\ UNCHANGED <<running, current_url, title, last_error, frameVars, browser,
                 loop, queue, listener, main>>

\* /quit queues the quit command, or not; it counts nothing.
Quit ==
  /\ listener = "serving"
  /\ \/ queue' = Append(queue, Cmd("quit", NoArg, "/quit"))
     \/ PostMayFail /\ UNCHANGED queue
  /\ UNCHANGED <<running, current_url, title, last_error, frameVars, browser,
                 loop, requests, listener, main>>

Request ==
  \/ \E u \in Urls : Submit("/open", Cmd("open", u, "/open"))
  \/ \E j \in Scripts : Submit("/eval", Cmd("eval", j, "/eval"))
  \/ \E c \in InputCmds : Submit("/input", c)
  \/ InputRefused
  \/ Quit

-----------------------------------------------------------------------------
(* The message loop and the engine.                                        *)

\* The oldest queued command is executed: quit stops the loop; with a live
\* browser an open sets the URL; without one the command fails as "notready".
Execute ==
  /\ loop = "running" /\ queue # <<>>
  /\ queue' = Tail(queue)
  /\ LET c == Head(queue)
     IN  IF c.kind = "quit"
         THEN running' = FALSE /\ loop' = "quit" /\ UNCHANGED <<current_url, last_error>>
         ELSE IF browser = "live"
         THEN /\ current_url' = IF c.kind = "open" THEN c.arg ELSE current_url
              /\ UNCHANGED <<running, loop, last_error>>
         ELSE last_error' = "notready" /\ UNCHANGED <<running, loop, current_url>>
  /\ UNCHANGED <<title, frameVars, browser, requests, listener, main>>

Created ==
  /\ loop = "running" /\ browser = "none" /\ browser' = "live"
  /\ UNCHANGED <<running, current_url, title, last_error, frameVars, loop,
                 requests, queue, listener, main>>

\* A paint replaces the whole frame at once.
Paint(s) ==
  /\ loop = "running" /\ browser = "live" /\ frame_seq < MaxPaints
  /\ frame_capture' = TRUE /\ frame_width' = s[1] /\ frame_height' = s[2]
  /\ frame_seq' = frame_seq + 1 /\ frame_bgra' = [w |-> s[1], h |-> s[2]]
  /\ UNCHANGED <<running, current_url, title, last_error, browser, loop,
                 requests, queue, listener, main>>

TitleChange(t) ==
  /\ loop = "running" /\ browser = "live" /\ title' = t
  /\ UNCHANGED <<running, current_url, last_error, frameVars, browser, loop,
                 requests, queue, listener, main>>

Closed ==
  /\ loop = "running" /\ browser = "live"
  /\ browser' = "closed" /\ running' = FALSE /\ loop' = "quit"
  /\ UNCHANGED <<current_url, title, last_error, frameVars, requests, queue,
                 listener, main>>

\* The process shuts down once the loop has quit and the listener is down.
LoopReturned ==
  /\ loop = "quit" /\ main = "loop"
  /\ running' = FALSE /\ main' = "join"
  /\ UNCHANGED <<current_url, title, last_error, frameVars, browser, loop,
                 requests, queue, listener>>

Joined ==
  /\ main = "join" /\ listener \in {"stopped", "failed"}
  /\ main' = "exited"
  /\ UNCHANGED <<running, current_url, title, last_error, frameVars, browser,
                 loop, requests, queue, listener>>

Next ==
  \/ Bind \/ Stop \/ Request
  \/ Execute \/ Created \/ (\E s \in FrameSizes : Paint(s))
  \/ (\E t \in Titles : TitleChange(t)) \/ Closed
  \/ LoopReturned \/ Joined

Spec == Init /\ [][Next]_avars

=============================================================================
