-------------------------------- MODULE Sbrk --------------------------------
(***************************************************************************)
(* The heap break of the newlib syscall shim                               *)
(* (src/sdk/newlib_cpp/newlib_syscalls.cpp): _sbrk caches the program      *)
(* break in heap_break, learns it from the kernel on the first call, and   *)
(* moves it with SYS_BRK.  Addresses are W-bit unsigned integers           *)
(* (uintptr_t), so every sum the code forms is taken modulo 2^W.           *)
(*                                                                         *)
(* The kernel answers SYS_BRK as Linux does: it moves the break to any     *)
(* address between its start_brk and the limit of the data segment and    *)
(* returns the new break, and otherwise returns the break unchanged.  A    *)
(* kernel that instead returns -errno (which the shim checks for) is the   *)
(* KernelMayFail case.  The process is single-threaded here (newlib's      *)
(* malloc is the only caller), so one call is one step.                    *)
(***************************************************************************)
EXTENDS Integers

CONSTANTS
  W,             \* bits of uintptr_t
  EndSym,        \* the address of the linker symbol _end
  Start,         \* the kernel's start_brk (at or above _end, randomised)
  Limit,         \* the highest break the kernel grants
  Incs,          \* the increments malloc passes to _sbrk
  KernelMayFail, \* SYS_BRK may return a negative errno
  MaxCalls       \* bound on the calls

Max == 2^W - 1                      \* UINTPTR_MAX
PtrdiffMin == -(2^(W - 1))          \* the range of ptrdiff_t
PtrdiffMax == 2^(W - 1) - 1

\* start_brk is page aligned.  The heap lies in user space, far below the
\* top of the address space: Limit + PTRDIFF_MAX stays below
\* UINTPTR_MAX - 15, as it does for x86-64 user addresses (below 2^47) and
\* 64-bit pointers.  The last conjunct is two facts of arithmetic on powers of two, stated
\* because the provers have no exponentiation; TLC checks them here.
ASSUME SbrkAssumption ==
  /\ W \in Nat \ {0}
  /\ EndSym \in 1..Max
  /\ Start \in 1..Max /\ Start % 16 = 0 /\ Limit \in Start..Max
  /\ Limit + PtrdiffMax <= Max - 15
  /\ Incs \subseteq PtrdiffMin..PtrdiffMax
  /\ KernelMayFail \in BOOLEAN
  /\ MaxCalls \in Nat
  /\ 2^(W - 1) \in Nat \ {0} /\ 2^W = 2 * 2^(W - 1)

VARIABLES
  heap_break,   \* the shim's cached break; 0 until the first call
  kbrk,         \* the kernel's program break
  last,         \* ghost: the last call, its increment, result and errno
  calls         \* calls made so far

vars == <<heap_break, kbrk, last, calls>>

ENOMEM == 12

\* align_up_16: (value + 15) & ~15 on a W-bit value.
AlignUp16(v) == LET s == (v + 15) % (2^W) IN s - (s % 16)

\* initial_heap_base: &_end aligned up to 16 (the symbol is present).
Base == AlignUp16(EndSym)

\* SYS_BRK with argument addr when the kernel's break is k: the answer rc
\* and the kernel's break afterwards.
KernelBrk(k, addr) ==
  {IF Start <= addr /\ addr <= Limit THEN [rc |-> addr, k |-> addr]
                                     ELSE [rc |-> k, k |-> k]}
  \cup (IF KernelMayFail THEN {[rc |-> -ENOMEM, k |-> k]} ELSE {})

NoCall == [inc |-> 0, ok |-> FALSE, ret |-> 0, err |-> 0]

Init ==
  /\ heap_break = 0
  /\ kbrk = Start
  /\ last = NoCall
  /\ calls = 0

\* Return (void*)-1 with errno set; the cached break is left at hb.
Fail(inc, hb, k, err) ==
  /\ heap_break' = hb /\ kbrk' = k
  /\ last' = [inc |-> inc, ok |-> FALSE, ret |-> Max, err |-> err]

\* Mutant: the request is not aligned up to 16.
GrowUnaligned(cur, k, inc) ==
  \/ inc >= 0 /\ cur > Max - inc /\ Fail(inc, cur, k, ENOMEM)
  \/ inc < 0 /\ ((-inc) % (2^W)) > cur /\ Fail(inc, cur, k, ENOMEM)
  \/ /\ (inc >= 0 => cur <= Max - inc) /\ (inc < 0 => ((-inc) % (2^W)) <= cur)
     /\ LET requested == cur + inc
        IN \E r \in KernelBrk(k, requested) :
             \/ r.rc < 0 /\ Fail(inc, cur, r.k, -r.rc)
             \/ 0 <= r.rc /\ r.rc < requested /\ Fail(inc, cur, r.k, ENOMEM)
             \/ /\ requested <= r.rc
                /\ heap_break' = r.rc /\ kbrk' = r.k
                /\ last' = [inc |-> inc, ok |-> TRUE, ret |-> cur, err |-> 0]

\* Mutant: the kernel's answer is trusted without the rc < requested check.
GrowNoShortCheck(cur, k, inc) ==
  \/ inc >= 0 /\ cur > Max - inc /\ Fail(inc, cur, k, ENOMEM)
  \/ inc < 0 /\ ((-inc) % (2^W)) > cur /\ Fail(inc, cur, k, ENOMEM)
  \/ /\ (inc >= 0 => cur <= Max - inc) /\ (inc < 0 => ((-inc) % (2^W)) <= cur)
     /\ LET requested == AlignUp16(cur + inc)
        IN \E r \in KernelBrk(k, requested) :
             \/ r.rc < 0 /\ Fail(inc, cur, r.k, -r.rc)
             \/ /\ 0 <= r.rc
                /\ heap_break' = r.rc /\ kbrk' = r.k
                /\ last' = [inc |-> inc, ok |-> TRUE, ret |-> cur, err |-> 0]

\* Mutant: the cache takes the requested break, not the kernel's answer.
GrowCachesRequest(cur, k, inc) ==
  \/ inc >= 0 /\ cur > Max - inc /\ Fail(inc, cur, k, ENOMEM)
  \/ inc < 0 /\ ((-inc) % (2^W)) > cur /\ Fail(inc, cur, k, ENOMEM)
  \/ /\ (inc >= 0 => cur <= Max - inc) /\ (inc < 0 => ((-inc) % (2^W)) <= cur)
     /\ LET requested == AlignUp16(cur + inc)
        IN \E r \in KernelBrk(k, requested) :
             \/ r.rc < 0 /\ Fail(inc, cur, r.k, -r.rc)
             \/ 0 <= r.rc /\ r.rc < requested /\ Fail(inc, cur, r.k, ENOMEM)
             \/ /\ requested <= r.rc
                /\ heap_break' = requested /\ kbrk' = r.k
                /\ last' = [inc |-> inc, ok |-> TRUE, ret |-> cur, err |-> 0]

\* The body of _sbrk once the break is known to be cur (lines 169-199):
\* reject an increment that overflows or a decrement below 0, align the
\* request up to 16, ask the kernel, and accept only a break at or above
\* the request.  -increment of PTRDIFF_MIN wraps to 2^(W-1).
Grow(cur, k, inc) ==
  \/ inc >= 0 /\ cur > Max - inc /\ Fail(inc, cur, k, ENOMEM)
  \/ inc < 0 /\ ((-inc) % (2^W)) > cur /\ Fail(inc, cur, k, ENOMEM)
  \/ /\ (inc >= 0 => cur <= Max - inc) /\ (inc < 0 => ((-inc) % (2^W)) <= cur)
     /\ LET requested == AlignUp16(cur + inc)
        IN \E r \in KernelBrk(k, requested) :
             \/ r.rc < 0 /\ Fail(inc, cur, r.k, -r.rc)
             \/ 0 <= r.rc /\ r.rc < requested /\ Fail(inc, cur, r.k, ENOMEM)
             \/ /\ requested <= r.rc
                /\ heap_break' = r.rc /\ kbrk' = r.k
                /\ last' = [inc |-> inc, ok |-> TRUE, ret |-> cur, err |-> 0]

\* _sbrk(increment).  On the first call heap_break is set to the aligned
\* _end and the kernel is asked for it; a negative answer returns at once,
\* leaving heap_break at _end; otherwise the kernel's answer is the break.
Sbrk(inc) ==
  /\ calls < MaxCalls
  /\ calls' = calls + 1
  /\ \/ /\ heap_break # 0
        /\ Grow(heap_break, kbrk, inc)
     \/ /\ heap_break = 0
        /\ \E r \in KernelBrk(kbrk, Base) :
             \/ r.rc < 0 /\ Fail(inc, Base, r.k, -r.rc)
             \/ 0 <= r.rc /\ Grow(r.rc, r.k, inc)

\* The bound on the calls is reached: the program allocates no more.
Done ==
  /\ calls = MaxCalls
  /\ UNCHANGED vars

Next == (\E inc \in Incs : Sbrk(inc)) \/ Done

Spec == Init /\ [][Next]_vars

-----------------------------------------------------------------------------
(* Properties.                                                             *)

\* Every variable has the type the code gives it.
TypeOK ==
  /\ heap_break \in 0..Max /\ kbrk \in Start..Limit
  /\ last \in [inc : Incs \cup {0}, ok : BOOLEAN, ret : 0..Max, err : Nat]
  /\ calls \in 0..MaxCalls

\* A successful _sbrk(n) with n >= 0 returns a block of n bytes that lies
\* inside the heap the kernel has granted, [start_brk, break): malloc may
\* write all of it.
SbrkBlockInHeap ==
  last.ok /\ last.inc >= 0 => Start <= last.ret /\ last.ret + last.inc <= kbrk

\* Every block _sbrk hands out starts on a 16-byte boundary, the alignment
\* malloc assumes for the chunks it carves from it.
SbrkAligned ==
  last.ok => last.ret % 16 = 0

\* Once known, the cached heap_break is the kernel's break: the next call
\* computes its request, and its result, from the real break.
HeapBreakCoherent ==
  heap_break # 0 => heap_break = kbrk

\* A successful _sbrk(n) with n >= 0 hands out memory that no earlier call
\* handed out: the block starts at or above the kernel's break before the
\* call (and, by SbrkBlockInHeap, ends below the break after it), so the
\* blocks malloc receives never overlap.  It relates the cache _sbrk
\* returns to the kernel's state before the call, which is where a stale
\* heap_break would show.
SbrkFreshBlock ==
  [][calls' = calls + 1 /\ last'.ok /\ last'.inc >= 0 => kbrk <= last'.ret]_vars

=============================================================================
