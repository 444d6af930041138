# Formal models of Go-OS

This directory holds TLA+ models of the parts of the repository that keep
state or implement an algorithm worth checking, with TLC configurations that
model-check them and TLAPS proofs of their main safety properties:

- the CEF host bridge (`src/tools/cef_host_bridge/src/main.cpp`), the only
  concurrent program, with an abstract specification it is shown to refine,
  and its URL and form decoding;
- the VGA text console of the kernel (`src/drivers/driver.cpp`);
- the freestanding libc (`src/libc/libc.c`);
- `_sbrk` of the newlib syscall shim (`src/sdk/newlib_cpp/newlib_syscalls.cpp`).

## 1. Inventory of the system

| Part | Source | State | Operations |
|---|---|---|---|
| Session state | `main.cpp` 57-73, 214-242 | `SharedState` under `mu`: `running`, `current_url`, `title`, `last_error`, three request counters, `frame_capture`, `frame_width`, `frame_height`, `frame_seq`, `frame_bgra` (`last_ipc` is never written, `bind_addr` is read-only) | `SetError`, `SetRunning`, `IsRunning`, `SetCurrentUrl`, `SetTitle`, `BuildStatusJson` |
| HTTP listener | `main.cpp` 603-870 | the listening socket; one connection at a time | bind, the `IsRunning`/`select`(200 ms)/`accept` loop, read, parse, route, respond, close |
| Routes | `main.cpp` 689-863 | — | `/status`, `/open`, `/eval`, `/input` (click, scroll, text/key/back/forward/reload), `/frame`, `/quit`, 404, 400 for a malformed request |
| UI-thread tasks | `main.cpp` 444-556 | the CEF task queue (in CEF), `g_browser` under `g_browser_mu` | `OpenUrlTask`, `EvalTask`, `NativeInputTask`, `QuitTask` |
| Browser callbacks | `main.cpp` 901-971 | `g_browser`, the frame fields | `OnAfterCreated`, `OnPaint`, `OnTitleChange`, `OnBeforeClose` |
| Process | `main.cpp` 986-1049 | — | initialise `SharedState`, start the listener thread, `CefRunMessageLoop`, `SetRunning(false)`, `join`, `CefShutdown` |
| Parser | `main.cpp` 157-196, 312-442 | — | `ReadHttpRequest`, `ParseHttpRequest`, `ParseUrlEncoded`, `UrlDecode`, `GetParam` |
| Arguments | `main.cpp` 198-212, 588-601, 872-899 | — | `ParseArgs`, `ParseIntDefault`, `ParseBindAddr` |
| VGA console driver | `src/drivers/driver.cpp` | cursor row/column, colour, VGA memory | `cpp_putc`, `cpp_print`, scrolling, keyboard poll, PCI scan |
| libc | `src/libc/libc.c` | — | `memset`, `memcpy`, `memmove`, `memcmp`, `strlen` |
| newlib shim | `src/sdk/newlib_cpp/newlib_syscalls.cpp` | `heap_break` | `_sbrk` and thin syscall wrappers |

**How the bridge's parts interact.** There are three threads:

- the **listener** thread runs `ServeHttp`;
- the **UI** thread runs CEF's message loop. It executes the posted tasks one at a time, in FIFO order, and delivers the browser callbacks;
- the **main** thread waits in `CefRunMessageLoop`. When that returns, it clears `running`, joins the listener, and exits.

The listener and the UI thread share only `SharedState`, and every access to it is one short critical section of `mu`. The listener reaches the engine only by posting a task (`CefPostTask`), and posting can fail.

**The hard behaviours are:**

- the interleaving of listener steps with paints and task executions;
- a post that fails after the counter was already incremented;
- a client that connects and then sends nothing (`recv` has no timeout);
- a connection that arrives after `running` was cleared;
- tasks that run before the browser exists or after it has closed;
- shutdown, which has two triggers: `/quit`, or `OnBeforeClose`.

## 2. Modules

| Module | Models | Notes |
|---|---|---|
| `Bridge.tla` | the listener, the session state, the UI-thread tasks, the browser callbacks, and main's shutdown | one action per critical section or thread-local step |
| `MCBridge.tla` | the small instance for TLC | one URL, one script, one title, two paint sizes |
| `BridgeProofs.tla` | the TLAPS proofs of `TypeOK`, `FrameResponseSound` and `CounterAccounting` | |
| `BridgeRefinementProofs.tla` | the TLAPS proof that `Bridge` implements `BridgeSession` | section 4 |
| `BridgeSession.tla` | what the bridge promises: each request one atomic step | abstract; `Bridge` refines it (section 2.1) |
| `UrlForm.tla`, `MCUrlForm.tla` | `UrlDecode` (with `strtol`) and `ParseUrlEncoded`, `main.cpp` 157-196 | section 2.2 |
| `UrlFormProofs.tla` | the TLAPS proofs of `UrlDecodeStrict` and `FormLastWins` | section 4 |
| `Console.tla`, `MCConsole.tla` | the VGA console of `driver.cpp` | section 2.3; `MCConsole` extends `ConsoleProofs` so that the run also checks the inductive invariant |
| `ConsoleProofs.tla` | the TLAPS proofs of `CursorInBounds` and `ScreenIsWindow` | section 4 |
| `LibC.tla`, `MCLibC.tla` | `libc.c` | section 2.4 |
| `LibCProofs.tla` | the TLAPS proofs of `MemmoveCorrect`, `MemcmpCorrect` and `StrlenCorrect` | section 4 |
| `LoopInduction.tla` | lemmas about loops written as recursive functions over their iterations: least counterexample, uniqueness, existence of a run | section 4 |
| `Sbrk.tla`, `MCSbrk.tla`, `SbrkProofs.tla` | `_sbrk` and `align_up_16`, `newlib_syscalls.cpp` 33-49, 158-200 | section 2.5 |

**How the state of `Bridge` corresponds to the code:**

- The `SharedState` fields are variables of the same names.
- `browser` is `g_browser`: it is `"none"` until `OnAfterCreated`, and `"closed"` after `OnBeforeClose`.
- `posted` is the sequence of tasks that `CefPostTask` accepted, and `consumed` is how many of them the UI thread has taken off the queue.
- `loop` records whether `CefQuitMessageLoop` has been called.
- `lpc` and `mpc` are the program counters of the listener and main threads.
- `req`, `pending` and `fsnap` are the listener's locals:
  - `req` is the parsed request;
  - `pending` is the task about to be posted;
  - `fsnap` is the frame `/frame` copied under the lock.
- Three ghost variables record what clients were told:
  - `rejected`: the refused posts, per route;
  - `acks`: the 200 "queued" answers, per route;
  - `served`: the frames answered 200.

**How the data is abstracted:**

- URLs, scripts and titles are model values.
- A frame buffer is the record `[w, h]` of the paint that filled it, so its byte length is `w*h*4`.
- A request is its route plus one abstract parameter. For `/input`, the parameter is the type class:
  - `click`: a click with coordinates;
  - `click_nocoords`: a click without them;
  - `scroll`;
  - `text`: every type `BuildInputScript` turns into a script;
  - `bogus`: a type it does not know;
  - `empty`: no type given.
- A client that never sends anything is the request `Idle`.

**Actions, in the order of the code:**

- Listener:
  - `ListenerBind`: the bind, which may fail;
  - `ListenerCheckRunning`: the loop head, `IsRunning`;
  - `ListenerTimeout`: select times out;
  - `ListenerAccept`;
  - `ServeMalformed`;
  - `ServeStatus`;
  - `ServeOpen` and `ServeEval`: validate the parameter and count the request;
  - `ServeInput`: the empty-type check and the count;
  - `InputDispatch`: build the task by type;
  - `ListenerPost`: `CefPostTask` and the answer, 200 or 500;
  - `ServeFrame`: the locked copy;
  - `FrameEncode`: the size check and the P6 answer;
  - `ServeQuit`;
  - `ServeNotFound`.
- Environment: `ClientClose`, the client of a stalled connection hangs up, so `recv` returns 0.
- UI thread: `ControlExecute` runs the oldest task, which is one of:
  - `RunQuit`;
  - `RunLive`: the browser exists;
  - `RunNotReady`: "browser not ready".
- Engine callbacks: `ControlAfterCreated`, `ControlPaint`, `ControlTitleChange`, `ControlBeforeClose`.
- Main thread: `MainLoopReturned`, then `MainJoin`.

**Constants:**

- `PostMayFail`, `BindMayFail` and `ClientsMayStall` switch on the failures the code handles or meets.
- `MaxConns` bounds the connections accepted, and `MaxPaints` the number of paints.

**Fairness:**

- There is weak fairness on the listener's own steps, on the UI thread's draining of its queue, and on the main thread's two steps. These are threads that, once scheduled, keep running: the listener's loop never blocks except in `recv`, and there it waits on `ClientClose`, which has no fairness.
- Clients and engine callbacks get no fairness. The code cannot make a client send, or CEF paint or close.

### 2.1 The abstract session and the refinement

`BridgeSession` states what a client of the bridge can rely on, without the
listener's program counter. A request of a counted route (`/open`, `/eval`,
`/input`) is one step, `Submit`: it is counted and, in the same step, its
command is queued or the refusal is recorded as `"post"`. An `/input` refused by
validation is `InputRefused`; `/quit` is `Quit`, which counts nothing. `queue`
holds the commands not yet run; `Execute` runs the oldest while the loop runs.
The callbacks and the shutdown are as in `Bridge`, and the listener is only
`init`, `serving`, `stopped` or `failed`.

The refinement mapping, at the end of `Bridge.tla`:

- `requests[r]` is the route's counter minus `InFlight(r)`. A request that the
  listener has counted but not yet posted is still invisible in the abstract
  state, so the abstract step happens when the post is decided.
- `queue` is `SubSeq(posted, consumed + 1, Len(posted))`, the tasks posted and
  not yet taken by the UI thread.
- `listener` is `lpc` collapsed to four values; `main` is `mpc`.

`SessionRefinement == Session!Spec` is checked as a `PROPERTY` of the safety run. It shows that the
intermediate states of a request (counted, dispatched, posting) never let
another thread see a counter, a queue or an error out of step. It also shows
that tasks run in FIFO order, and only while the loop runs.

### 2.2 URL and form decoding

`UrlForm` models the two pure functions `ParseHttpRequest` applies to the query
and to a form body. Text is a sequence of byte values.

- `Strtol16` is `strtol(hex, &end, 16)` on the two bytes after `%`: white space,
  an optional sign, then hex digits, accumulated by the recursive function
  `M[k]` (the value after k digits). `ok` says that `*end == '\0'`.
- `UrlDecode` is a recursive function over the byte index. It follows the
  loop's three branches and its bound `i + 2 < size`.
- `SplitAmp` is `getline(ss, pair, '&')`: `A[k]` is the list of pieces after k
  bytes, the last one still open.
- `ParseUrlEncoded` is a loop over those pieces. `F[k]` is the map after k
  pieces, with `out[key] = value` for each non-empty pair.
- Every loop is a recursive function over its indices, not a `FoldLeft`. The
  community `Folds` module declares `RECURSIVE` operators, which would keep
  the provers away from every module that reaches it.
- Each step `Parse(c)` appends one byte to the text and recomputes both results.
  `NewRequest` starts again from the empty text, so every text up to `MaxLen`
  bytes is reached.

### 2.3 The VGA console

`Console` has the VGA buffer (`vga`, cells of character and attribute), the
cursor and the colour as variables. It also has two ghost variables:

- `hist` is an unscrolled page;
- `top` is the page row shown at screen row 0.

Every exported function of `driver.cpp` is one step. The kernel is
single-threaded when it prints. Each function is written as a function of the
state record `St`, so that `cpp_println` is `cpp_putc(NL)` after `cpp_print`,
exactly as the code calls it. `cpp_print` is the recursive function `P[i]`,
the state after the first i characters. The PCI scan's loop is `L[k]`, the
state after the header and k device lines. `Blank` is the space that clear,
scroll and backspace write. `ConsoleAssumption` says that `'\n'` and `'\b'`
are distinct and are not printable characters. `cpp_pci_scan_brief`
takes the number of devices on the bus as its input; the text of a device
line, which `print_hex*` builds, is the constant `DeviceLine`. `cpp_reboot`
resets the machine: the BIOS clears the screen and the statics take their
initial values. `MaxScroll` bounds the scrolls between two clears.

### 2.4 libc

`LibC` has a byte memory `mem`, and two ghosts, `prev` and `call`, which hold
the memory before the last call and that call. Each of `memset`, `memcpy`,
`memmove`, `memcmp` and `strlen` is one step, on any arguments whose regions
lie in memory. Each `while` loop is a recursive function whose k-th value is the
memory after k iterations, following the code's pointer arithmetic.

### 2.5 `_sbrk`

`Sbrk` has the cached `heap_break`, the kernel's break `kbrk`, and a ghost `last`
(the last call's increment, result and errno). Addresses are W-bit unsigned
integers, and `align_up_16` is taken modulo `2^W`. The kernel answers `SYS_BRK`
as Linux does: it moves the break to any address in `[start_brk, limit]`, and
otherwise returns the break unchanged. `KernelMayFail` adds the `-errno` answer
the shim checks for. `Grow` is lines 169-199:

- the overflow and underflow checks, including `-PTRDIFF_MIN`;
- the alignment of the request;
- the kernel call, and the check that the answer is at least the request.

`Sbrk` adds the first-call initialisation, lines 159-167. The assumption
`SbrkAssumption` puts the heap in user space, far below the top of the address
space, as on x86-64.

## 3. Runs

The bridge runs use `MCBridge` with the following instance:

- view 2x1;
- paint sizes 2x1 and 1x1, so a paint can shrink the frame below the view size;
- `MaxConns = 3`, so three requests can interleave with two paints, a quit and the engine's close;
- `MaxPaints = 2`.

These bounds are enough for every route to be served while every callback fires before, between and after the requests. They also let a post fail after its counter was incremented. Each run explores 10^5 to 10^6 distinct states.

| Run | cfg | Expect | Checks | Shows |
|---|---|---|---|---|
| safety | `MCBridge_safety.cfg` | pass | `TypeOK`, `FrameResponseSound`, `CounterAccounting`, `SessionRefinement` | With failing posts, a failing bind and stalling clients, every `/frame` 200 is the image of one paint of that size. `open_requests` and `eval_requests` equal the posts accepted, plus the posts refused, plus the one in flight. |
| shutdown | `MCBridge_shutdown.cfg` | pass | `ShutdownCompletes` | When clients always send their request, quitting the loop by `/quit` or `OnBeforeClose` always leads to the listener stopping and main exiting. |
| input_counter | `MCBridge_input_counter.cfg` | violation | `InputCounterAccounting` | `input_requests` also counts `/input` requests answered 400. |
| quit_ack | `MCBridge_quit_ack.cfg` | violation | `AckedImpliesQueued` | `/quit` answers 200 even when the `QuitTask` post was refused. |
| stall | `MCBridge_stall.cfg` | violation | `ShutdownCompletes` | A silent client blocks `recv`, so shutdown never completes. |
| accept_after_stop | `MCBridge_accept_after_stop.cfg` | violation | `NoAcceptAfterStop` | A connection that is ready during the last 200 ms `select` is served after `running` was cleared. |
| url_decode | `MCUrlForm_decode.cfg` | pass | `UrlDecodeStrict`, `FormLastWins` | Every text the decoder meets decodes as spec.md says, except escapes that start with a sign or a space. A repeated key keeps its last value. |
| url_lax_escape | `MCUrlForm_lax_escape.cfg` | violation | `UrlDecodeMatchesSpec` | `% 4` decodes to the byte 4 instead of passing through. |
| console_screen | `MCConsole_screen.cfg` | pass | `CursorInBounds`, `ScreenIsWindow` | The cursor stays on the screen, and the screen always shows the last rows printed. |
| libc_reference | `MCLibC_reference.cfg` | pass | `MemmoveCorrect`, `MemcmpCorrect`, `StrlenCorrect` | Each function agrees with its reference for every argument on the instance. |
| sbrk_heap | `MCSbrk_heap.cfg` | pass | `SbrkAligned`, `SbrkBlockInHeap`, `HeapBreakCoherent`, `SbrkFreshBlock` | With a Linux-like kernel, blocks are aligned and inside the heap, each starts at or above the kernel's break before the call (so blocks never overlap), and the cache is the kernel's break. |
| sbrk_init_failure | `MCSbrk_init_failure.cfg` | violation | `SbrkBlockInHeap` | After a failed first `SYS_BRK`, the next `_sbrk` returns a block below `start_brk`. |

**Bounds of the other instances.**

- `MCUrlForm`: texts of up to 5 bytes over `% + - space 4 F a & =`. Five bytes
  hold an escape with a byte before and after it, or two pairs with a repeated
  key. The alphabet has a hex digit of each case, a non-hex letter, a sign and a
  space.
- `MCConsole`: a 3x2 screen with `MaxScroll = 2`. A text of three characters
  wraps, and two scrolls make the copy of a middle row matter. One colour
  change with `bg = 16` shows the truncation of `bg << 4` to a byte. Up to two
  PCI devices, with `MaxShown = 1`, exercise both the "none" line and the cap.
- `MCLibC`: a 4-byte memory of the bytes 0, 1 and 255, with every pair of
  addresses and every length up to 4. That covers overlap in both directions
  by 1, 2 and 3 bytes, the bytes above 127 for `memcmp`, and `memset` values
  that are truncated (256, -1).
- `MCSbrk`: 8-bit addresses, `_end` at 37 (so the base is 48), `start_brk` at 64
  and a limit of 112. The increments include both ends of `ptrdiff_t` (-128 and
  127), unaligned ones (1 and -1), and some that cross `start_brk` and the
  limit. `MaxCalls = 6`.

**Findings.** Each violation run reproduces a disagreement with `spec.md`:

- the `/input` counter counts requests rejected with 400;
- the `/quit` post result is ignored;
- there is no read timeout, so shutdown is not bounded;
- connections are accepted after stop;
- `UrlDecode` accepts `%` escapes that start with a space or a sign (`main.cpp:168`). The spec says an invalid escape passes through unchanged;
- (a code bug) when the first `SYS_BRK` of `_sbrk` fails, `heap_break` stays at `_end` (`newlib_syscalls.cpp:160`). The next call then hands out memory the kernel never granted. Linux never fails `brk` this way; the shim nevertheless handles the case, and handles it wrongly.

A bind or address failure only records `last_error` and returns from `ServeHttp` (`main.cpp:641`). The message loop keeps running with no HTTP endpoint to quit it, where spec.md (7) says a `ConfigError` is fatal. The model lets the bind fail, but no run checks this. A smaller oddity, not modelled, is that `StatusText` has no case for 503, so `/frame` answers `503 OK`.

**Mutants.** Each passing property is broken by a plausible bug in the code it is about:

| Mutant | Breaks |
|---|---|
| a scroll that takes the full frame size instead of half | `TypeOK` |
| `/frame` without the buffer-size check | `FrameResponseSound` |
| `/open` counting before the url check | `CounterAccounting` |
| a loop head that ignores `running` | `ShutdownCompletes` |
| `/open` counting before the url check | `SessionRefinement` |
| `UrlDecode` taking a `%` one byte before the end | `UrlDecodeStrict` |
| `ParseUrlEncoded` keeping the first value of a key | `FormLastWins` |
| the scroll copy stopping a row early | `ScreenIsWindow` |
| the scroll test `cursor_row <= 25` | `CursorInBounds` |
| `memmove` always copying forward | `MemmoveCorrect` |
| `memcmp` on signed chars | `MemcmpCorrect` |
| `strlen` counting the NUL | `StrlenCorrect` |
| `_sbrk` without `align_up_16` | `SbrkAligned` |
| `_sbrk` without the `rc < requested` check | `SbrkBlockInHeap` |
| `_sbrk` caching the request, not the answer | `HeapBreakCoherent` |
| `_sbrk` caching the request, not the answer | `SbrkFreshBlock` |

## 4. Proofs

`BridgeProofs.tla` is checked by `tlapm` and proves three theorems for every value of the constants that satisfies `ConstAssumption`: the view size is positive, and the paint sizes are positive pairs. `BridgeRefinementProofs.tla` proves a fourth, the refinement.

**`TypeCorrect`: `Spec => []TypeOK`.**

- `TypeOK` is already inductive once it says that `pending` is a command exactly while the listener is about to post.
- The proof has one step per action. The lemmas it rests on:
  - `RequestParams`: a parsed request's parameter has its route's type;
  - `CommandsBuilt`: every task a route builds is a command;
  - `CommandOrigins`;
  - `PaintedFrame`.

**`FrameSound`: `Spec => []FrameResponseSound`.**

- `FrameResponseSound` alone is not inductive, because `FrameEncode` adds the snapshot that `/frame` copied. The strengthening `FrameInv` adds two conjuncts:
  - the stored buffer, when non-empty, has the stored width and height, which `OnPaint` keeps in step by writing all of them in one critical section;
  - the snapshot does the same, since `ServeFrame` copies the stored triple.
- The empty buffer, which before the first paint sits beside the view size, is excluded by the size check: `0 < w*h*4` when `w` and `h` are non-zero naturals.
- `FrameInv` was checked with TLC on the safety instance before it was proved.

**`CounterCorrect`: `Spec => []CounterAccounting`.**

- `CounterAccounting` is not inductive: `ListenerPost` appends `pending`, and
  whether that moves a count from `InFlight(r)` to `Queued(r)` of the same route
  depends on `pending` having been built for `req.path`. The strengthening is
  `TypeOK /\ ListenerInv`. `ListenerInv` says that past `ServeInput` the request
  is an `/input`, and that at `post` the pending task's origin is the request's
  route, one of `/open`, `/eval`, `/input`. It was checked with TLC on the
  safety instance first.
- `OriginCount(s, r)` counts the tasks of route `r` in `s`; `Queued(r)` is
  `OriginCount(posted, r)`. The lemma `OriginCountAppend` says appending a task
  adds one to its own route's count and leaves the others alone.
- `ListenerInvStep` proves `ListenerInv` is preserved; `CounterStep` proves the
  counter equation per route, with one case per action that touches a counter,
  `posted`, `rejected` or `lpc`: `ServeOpen`/`ServeEval` (count and go in flight),
  `ServeInput`/`InputDispatch`, `ListenerPost` (in flight to posted or refused),
  `ServeQuit` (posts a task whose origin is `/quit`), and the rest, which keep
  every term (`CountsKept`).

**`SessionRefines`: `Spec => SessionRefinement`** (in `BridgeRefinementProofs.tla`).

- The mapping is made of named operators at the end of `Bridge.tla`:
  `SessionRequests`, `SessionQueue`, `SessionListener`.
- `InitRefines`: the initial state maps to `Session!Init`.
- `StepRefines`: under `TypeOK /\ ListenerInv` (proved by `ListenerInvariant`),
  every `Next` step maps to `[Session!Next]_Session!avars`:
  - `ListenerBind` → `Bind`; `ListenerCheckRunning` → `Stop` or a stutter;
  - `ServeOpen`, `ServeEval`, `ServeInput` → stutter (the request goes in flight,
    so `requests` is unchanged); `InputDispatch` → stutter, or `InputRefused`
    for an unknown type;
  - `ListenerPost` → `Submit` of the pending task, with the counter as it is
    once the request leaves flight (`KnownBump`);
  - `ServeQuit` → `Quit`; `ControlExecute` → `Execute` of the queue's head;
  - the engine callbacks → `Created`, `Paint`, `TitleChange`, `Closed`;
    `MainLoopReturned` → `LoopReturned`; `MainJoin` → `Joined`;
  - every other step keeps the mapped state (`SessionKeptStutters`).
- The queue lemmas (`QueueEmpty`, `QueueSuffix`, `QueueAppend`, `QueueTake`)
  relate `SubSeq(posted, consumed + 1, Len(posted))` to `Append` and `Tail`,
  from the `SequenceTheorems` library. `PendingSubmittable` says the pending
  task is one of the commands `Submit` may queue.
- To make the step proof possible, `ControlExecute` (and `Execute`) choose the
  task's effect with `IF ... ELSE IF`, as the code's `if`/`else` does, where an
  earlier version used a `CASE` whose guards overlapped.

`SbrkProofs.tla` proves three theorems for every width `W`, `_end`,
`start_brk`, limit and increment set allowed by `SbrkAssumption`.

- `SbrkTypeCorrect`: `Spec => []TypeOK`.
- `SbrkAlignedHolds`: `Spec => []SbrkAligned`, for every kernel, including one that fails.
- `SbrkHeapSound`: when the kernel never answers `-errno`, `Spec => [](HeapBreakCoherent /\ SbrkBlockInHeap)`.
- `SbrkCoherent`: the same for `HeapBreakCoherent` alone, as the run states it.
- `SbrkFreshHolds`: when the kernel never answers `-errno`, `Spec => SbrkFreshBlock`,
  the action property that a successful `_sbrk(n >= 0)` returns memory at or
  above the kernel's break before the call.

**The inductive invariant `IInv`.** None of the three properties is inductive as
it stands: a call returns the cached break, so its alignment depends on the
breaks. `IInv` adds that both `heap_break` and `kbrk` are multiples of 16.
Under `~KernelMayFail`, it also adds coherence and soundness, and that before
the first call (`heap_break = 0`) the kernel's break is still `start_brk`.

**The argument.**

- `GrowStep` proves `GrowPost` for one call from any aligned cached break: types,
  alignment, and, when the cached break is the kernel's, coherence and the block
  in the heap.
- `KernelAnswers` lists what `SYS_BRK` can return.
- `GrowPost` also says that a successful call returns the cached break. With
  coherence, that is the kernel's break before the call, which gives
  `SbrkFreshBlock` (lemma `NextFresh`) for the first call too, thanks to
  `heap_break = 0 => kbrk = Start`.
- `AlignInRange` and `AlignRoundsUp` bound `align_up_16`. The user-space
  assumption is what rules out the wrap to 0.
- The step proof has one case for a call with a known break, and one for each
  outcome of the first call.
- A failed first call leaves `heap_break` at the aligned `_end`. That is still
  aligned, which is why `SbrkAligned` holds for every kernel while
  `SbrkBlockInHeap` does not.

`SbrkAssumption` also states that `2^(W-1)` is a positive natural and that
`2^W = 2 * 2^(W-1)`. The provers have no exponentiation, and TLC checks these
facts on each run.

### 4.1 Loops

Every loop of `LibC`, `Console` and `UrlForm` is a recursive function `F[k]`
over its iterations `0..n`. For the provers, `F` is a `CHOOSE`: nothing is known
of it until some function is shown to satisfy its defining equation. The
library's induction theorems take the claim as an operator parameter, which the
installed provers cannot instantiate. `LoopInduction.tla` therefore works with
concrete sets:

- `LeastIsLeast`: a non-empty set of naturals has a least element (from `WFMin`
  and the well-foundedness of `<`). A proof by induction names the set of
  indices where its claim fails, and derives a contradiction at the least one.
- `LoopUnique`: two functions that start alike, and whose k-th values agree
  whenever their (k-1)-th do, are equal on `0..n`.
- `IterExists`: a step function that maps a set `Dom` into itself has a run
  `G` in `Dom` of any length (`IsRun`).

A loop's proof then goes one of two ways:

- **Closed form** (`LibCProofs`): a closed form `C(k)` satisfies the loop's
  equation. So the recursive definition has a solution, `F` satisfies the
  equation too, and `LoopUnique` makes `F = C`.
- **Run** (`ConsoleProofs`, `UrlFormProofs`): `IterExists` gives a run `G`
  that stays in an invariant set. `G` satisfies the loop's equation, so `F` does,
  and `LoopUnique` makes `F = G`.

### 4.2 libc

`LibCProofs.tla` proves, for every memory size allowed by `LibCAssumption`:

- `MemmoveProved`: `Spec => []MemmoveCorrect`;
- `MemcmpProved`: `Spec => []MemcmpCorrect`;
- `StrlenProved`: `Spec => []StrlenCorrect`.

The invariant is `LibCInv == TypeOK /\ MemmoveCorrect /\ MemcmpCorrect /\
StrlenCorrect`. It is inductive because each property is about the last call
alone (the ghosts `prev` and `call`).

The work is in the loop lemmas:

- `ForwardLoop`: after k iterations of the forward copy, each written byte holds
  `FwdVal`. That is the source byte at the same offset, or, when the source lies
  below and overlaps the destination, a repeat of the first `d - s` source bytes.
- `BackwardLoop`: the same for the backward copy.
- `MemmoveRef`: the branch `d < s` takes the forward copy exactly when it reads
  no byte it has already written.
- `MemcmpLoop`: the first differing pair decides the result.
- `StrlenLoop`: the scan stops at the first NUL.

### 4.3 The console

`ConsoleProofs.tla` proves, for every screen size and scroll bound allowed by
`ConsoleAssumption`:

- `ConsoleInvariant`: `Spec => []ConsoleInv`;
- `CursorProved`: `Spec => []CursorInBounds`;
- `WindowProved`: `Spec => []ScreenIsWindow`.

**The inductive invariant.** `ConsoleInv` says that `St` is in `GoodSt` and that
`top <= MaxScroll`. `GoodSt` is the set of well-typed driver states with:

- the cursor on the screen;
- `Win(st)`: the screen is the window of the page at `top`, whenever
  `top <= MaxScroll`.

`Win` is an implication because a call may scroll past `MaxScroll` midway;
`Becomes` then refuses the call. Neither property is inductive alone:

- a scroll keeps the cursor on the screen only because the cursor was there
  before it;
- a write keeps the screen equal to the window only because the cursor's cell
  and the page cell are the same cell.

`ConsoleInv` was checked by TLC as a third invariant of `console_screen` before
it was proved.

**The argument.**

- `WriteGood`: a cell written at the cursor keeps `GoodSt`. `RowCol` and
  `DivRow` split a screen index into its row and column.
- `ScrollGood`: `scroll_if_needed` from a cursor at most one row below the
  screen ends in `GoodSt`. The copy reads row r + 1 of the screen, which is row
  `top + r + 1` of the page. `NewPageRow` blanks exactly the page row that
  becomes the last screen row.
- `PutcGood`: `cpp_putc` maps `GoodSt` into `GoodSt` for every character, for
  `'\n'` and for `'\b'`.
- `PrintGood`, `PrintlnGood`, `PciGood`: the loops of `cpp_print` and of
  `cpp_pci_scan_brief` stay in `GoodSt`, by the run argument of section 4.1.
- `NextInv`: one case per call:
  - the calls that end in `Becomes(st)` (`BecomesInv`);
  - clear (`ClearGood`);
  - `set_color`, which keeps the colour a byte;
  - reboot (`BootGood`).

Nonlinear index arithmetic with a symbolic `Cols` needs the lemmas `DivMod`,
`DivUnique` and `MulMono`.

### 4.4 URL and form decoding

`UrlFormProofs.tla` proves, for texts of every length over every alphabet
allowed by `UrlFormAssumption`:

- `UrlDecodeProved`: `Spec => []UrlDecodeStrict`;
- `FormLastWinsProved`: `Spec => []FormLastWins`.

TLC checks these only up to five bytes.

**`UrlDecodeProved`.** The argument is local to one byte:

- `StrtolTwo`: take two bytes whose first is neither white space nor a sign.
  `strtol(_, 16)` consumes both exactly when both are hex digits, and it then
  yields `16 * hi + lo`, a byte, so `& 0xFF` keeps it (`NibblesByte`).
- `StepsAgree`: when no escape is lax, `CodeStep`, the code's step at byte `i`,
  equals `SpecStep`, the spec's, whatever output follows byte `i`.
- `DecodeAgrees`: `UrlDecode` and `SpecDecode` are then the `CHOOSE` of the same
  predicate, so they are equal. No induction over the text is needed.

The inductive invariant is `DecodeInv`: the text is over the alphabet and
`decoded = UrlDecode(text)`. It needs one fact about the recursive function,
`UrlDecode(<<>>) = <<>>`, which has an explicit solution.

**`FormLastWinsProved`.**

- `SplitAmpType`: the `&` split is a non-empty list of byte texts (a run in
  `Pieces`).
- `LastWinsStep`: one iteration of the pair loop keeps the map last-wins over
  the pieces seen so far:
  - an empty piece changes nothing;
  - a new key is added with its value;
  - a repeated key is overwritten;
  - every other key keeps its value.
- `FoldLastWins`: `IterExists` gives the loop a run among maps from the
  pieces' keys to their values. A least counterexample cannot exist
  (`LastWinsZero`, `LastWinsStep`), and `LoopUnique` makes the recursive
  function that run.
- The inductive invariant `FormInv` is `FormLastWins` itself over
  `SplitAmp(text)`, with the text over the alphabet. It is inductive because
  each request recomputes `form` from the text.

Both `DecodeInv` and `FormInv` were checked by TLC on the `url_decode`
instance, with 66,430 states each.

**Only model-checked:**

- the liveness property `ShutdownCompletes`: liveness under fairness is outside TLAPS's reach;
- the six violations: a violation is a counterexample, not a theorem.

## 5. Not modelled, and the plan

- **Request framing.** `ReadHttpRequest`'s Content-Length framing and the split
  of the request line are still abstracted to their results. The hazard is
  `header_end + 4 + content_length` wrapping `size_t` (`main.cpp:351`). No
  property covers it yet; it needs a byte-level model of the reads.
- **Formatting code.** `JsonEscape`, `BuildStatusJson`, `StatusText` and
  `SendHttpResponse` format text. No property is about that text.
- **Bytes outside the alphabet.** `UrlForm` does not include NUL: the code would
  stop `strtol` early on an embedded NUL.
- **`cpp_keyboard_poll`.** It reads two I/O ports and a table and keeps no state.
- **Hex printing.** The hex digits of a PCI line are abstracted to the constant
  `DeviceLine`.
- **The other newlib wrappers** (`_read`, `_write`, `_open`, `_fstat`, `_lseek`,
  `_gettimeofday`, `_exit`, ...). Each is one syscall and its errno, with no
  state.
- **Start-up failures.** `ParseArgs`, `CefInitialize` and `CreateBrowser` failures
  end the process before any thread starts, so they have no concurrent
  behaviour.
- **Planned:**
  - a proof of `InputCounterAccounting` once the code is fixed (today it is a
    violation run, so it cannot be proved);
  - `LibC`'s `memset` and `memcpy` have no property of their own. C leaves an
    overlapping `memcpy` undefined. The proofs show only that the two calls keep
    memory well typed (`MemsetType`, `MemcpyType`). A property for
    non-overlapping `memcpy` would follow from `ForwardLoop`.
