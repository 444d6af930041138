----------------------------- MODULE SbrkProofs -----------------------------
(***************************************************************************)
(* Proofs about _sbrk (Sbrk.tla) for every width, _end, start_brk, limit   *)
(* and set of increments that satisfy SbrkAssumption.                      *)
(*                                                                         *)
(* The inductive invariant IInv adds to the properties what the kernel's   *)
(* break and the cached break are between calls: both 16-byte aligned, the *)
(* kernel's within [Start, Limit].  Aligned results then follow for every  *)
(* kernel; for a kernel that never answers -errno the cached break is the  *)
(* kernel's, and every block lies in the granted heap.                     *)
(***************************************************************************)
EXTENDS Sbrk, TLAPS

-----------------------------------------------------------------------------
(* Arithmetic.                                                             *)

\* The facts about the width that the other proofs use.
LEMMA WidthFacts ==
  /\ 2^W \in Nat \ {0} /\ 2^(W - 1) \in Nat \ {0}
  /\ Max = 2^W - 1 /\ Max \in Nat
  /\ PtrdiffMax = 2^(W - 1) - 1 /\ PtrdiffMin = -(2^(W - 1))
  /\ 2^(W - 1) < 2^W
  BY SbrkAssumption, SMT DEF SbrkAssumption, Max, PtrdiffMax, PtrdiffMin

\* A remainder by a modulus above the dividend is the dividend.
LEMMA ModSmall ==
  ASSUME NEW N \in Nat \ {0}, NEW x \in 0..(N - 1)
  PROVE  x % N = x
  BY SMT

\* align_up_16 always yields a 16-byte aligned W-bit value.
LEMMA AlignInRange ==
  ASSUME NEW v \in Int
  PROVE  AlignUp16(v) \in 0..Max /\ AlignUp16(v) % 16 = 0
  BY WidthFacts, SMT DEF AlignUp16

\* Below UINTPTR_MAX - 15 it does not wrap, so it rounds up.
LEMMA AlignRoundsUp ==
  ASSUME NEW v \in 0..(Max - 15)
  PROVE  v <= AlignUp16(v)
  BY WidthFacts, SMT DEF AlignUp16

\* The first call's request is aligned.
LEMMA BaseAligned == Base \in 0..Max /\ Base % 16 = 0
  BY AlignInRange, SbrkAssumption DEF Base

\* What SYS_BRK may answer: -ENOMEM, when the kernel may fail, leaving its
\* break alone; or its new break, which is its answer, in [Start, Limit],
\* and either the address asked for or the old break.
LEMMA KernelAnswers ==
  ASSUME NEW k \in Start..Limit, NEW addr \in Int, NEW r \in KernelBrk(k, addr)
  PROVE  \/ KernelMayFail /\ r.rc = -ENOMEM /\ -r.rc = ENOMEM /\ r.k = k
         \/ r.rc = r.k /\ r.k \in Start..Limit /\ (r.rc = addr \/ r.rc = k)
  BY SbrkAssumption DEF KernelBrk, ENOMEM

-----------------------------------------------------------------------------
(* One call.                                                               *)

\* The values last may take.
LastType == [inc : Incs \cup {0}, ok : BOOLEAN, ret : 0..Max, err : Nat]

\* The state a call leaves when it is given the break cur and the kernel's
\* break k: aligned breaks, the kernel's in range, an aligned result; and
\* when cur is the kernel's break, the two agree afterwards and a
\* successful block lies below the kernel's new break.
GrowPost(cur, k, inc) ==
  /\ heap_break' \in 0..Max /\ heap_break' % 16 = 0
  /\ kbrk' \in Start..Limit /\ kbrk' % 16 = 0
  /\ last' \in LastType
  /\ last'.ok => last'.ret % 16 = 0
  /\ last'.ok => last'.ret = cur
  /\ heap_break' \in {cur} \cup Start..Limit
  /\ cur = k =>
       /\ heap_break' = kbrk'
       /\ last'.ok /\ last'.inc >= 0 =>
            Start <= last'.ret /\ last'.ret + last'.inc <= kbrk'

\* Whatever the kernel answers, a call that starts from an aligned break
\* cur and an aligned kernel break k in range ends in GrowPost.
LEMMA GrowStep ==
  ASSUME NEW cur \in 0..Max, NEW k \in Start..Limit, NEW inc \in Incs,
         cur % 16 = 0, k % 16 = 0,
         Grow(cur, k, inc)
  PROVE  GrowPost(cur, k, inc)
<1> USE DEF GrowPost, LastType
<1>0. /\ inc \in PtrdiffMin..PtrdiffMax
      /\ Start \in 1..Max /\ Limit \in Start..Max /\ Limit + PtrdiffMax <= Max - 15
  BY SbrkAssumption
<1>1. CASE inc >= 0 /\ cur > Max - inc /\ Fail(inc, cur, k, ENOMEM)
  BY <1>0, <1>1, WidthFacts DEF Fail, ENOMEM
<1>2. CASE inc < 0 /\ ((-inc) % (2^W)) > cur /\ Fail(inc, cur, k, ENOMEM)
  BY <1>0, <1>2, WidthFacts DEF Fail, ENOMEM
<1>3. CASE /\ (inc >= 0 => cur <= Max - inc) /\ (inc < 0 => ((-inc) % (2^W)) <= cur)
           /\ LET requested == AlignUp16(cur + inc)
              IN \E r \in KernelBrk(k, requested) :
                   \/ r.rc < 0 /\ Fail(inc, cur, r.k, -r.rc)
                   \/ 0 <= r.rc /\ r.rc < requested /\ Fail(inc, cur, r.k, ENOMEM)
                   \/ /\ requested <= r.rc
                      /\ heap_break' = r.rc /\ kbrk' = r.k
                      /\ last' = [inc |-> inc, ok |-> TRUE, ret |-> cur, err |-> 0]
  <2> DEFINE requested == AlignUp16(cur + inc)
  <2>0. (inc >= 0 => cur <= Max - inc) /\ (inc < 0 => ((-inc) % (2^W)) <= cur)
    BY <1>3
  <2>1. cur + inc \in 0..Max
    <3>1. ASSUME inc < 0 PROVE (-inc) % (2^W) = -inc
      <4>1. -inc \in 0..(2^W - 1)
        BY <3>1, <1>0, WidthFacts
      <4>2. 2^W \in Nat \ {0}
        BY WidthFacts
      <4>. QED  BY <4>1, <4>2, ModSmall
    <3>. QED  BY <3>1, <2>0, <1>0, WidthFacts
  <2>2. requested \in 0..Max /\ requested % 16 = 0
    BY <2>1, AlignInRange
  <2>3. PICK r \in KernelBrk(k, requested) :
          \/ r.rc < 0 /\ Fail(inc, cur, r.k, -r.rc)
          \/ 0 <= r.rc /\ r.rc < requested /\ Fail(inc, cur, r.k, ENOMEM)
          \/ /\ requested <= r.rc
             /\ heap_break' = r.rc /\ kbrk' = r.k
             /\ last' = [inc |-> inc, ok |-> TRUE, ret |-> cur, err |-> 0]
    BY <1>3
  <2>4. \/ KernelMayFail /\ r.rc = -ENOMEM /\ -r.rc = ENOMEM /\ r.k = k
        \/ r.rc = r.k /\ r.k \in Start..Limit /\ (r.rc = requested \/ r.rc = k)
    BY <2>2, KernelAnswers
  <2>5. CASE r.rc < 0 /\ Fail(inc, cur, r.k, -r.rc)
    <3>1. -r.rc = ENOMEM /\ r.k = k
      BY <2>4, <2>5, <1>0 DEF ENOMEM
    <3>2. /\ heap_break' = cur /\ kbrk' = r.k
          /\ last' = [inc |-> inc, ok |-> FALSE, ret |-> Max, err |-> -r.rc]
      BY <2>5 DEF Fail
    <3>3. -r.rc = 12
      BY <3>1, Zenon DEF ENOMEM
    <3>5. kbrk' = k /\ last'.err = 12 /\ last'.ret = Max /\ last'.inc = inc /\ last'.ok = FALSE
      BY <3>1, <3>2, <3>3, Zenon
    <3>4. last' \in LastType
      BY <3>2, <3>5, <1>0, WidthFacts
    <3>. QED  BY <3>2, <3>5, <3>4, <1>0, WidthFacts
  <2>6. CASE 0 <= r.rc /\ r.rc < requested /\ Fail(inc, cur, r.k, ENOMEM)
    <3>1. r.rc = r.k /\ r.k \in Start..Limit /\ r.rc = k
      BY <2>4, <2>6, <1>0 DEF ENOMEM
    <3>2. /\ heap_break' = cur /\ kbrk' = k
          /\ last' = [inc |-> inc, ok |-> FALSE, ret |-> Max, err |-> ENOMEM]
      BY <3>1, <2>6 DEF Fail
    <3>. QED  BY <3>2, <1>0, WidthFacts DEF ENOMEM
  <2>7. CASE /\ requested <= r.rc
             /\ heap_break' = r.rc /\ kbrk' = r.k
             /\ last' = [inc |-> inc, ok |-> TRUE, ret |-> cur, err |-> 0]
    <3>1. r.rc = r.k /\ r.k \in Start..Limit /\ r.rc % 16 = 0
      BY <2>2, <2>4, <2>7, <1>0 DEF ENOMEM
    <3>2. cur = k /\ inc >= 0 => cur + inc <= requested
      <4>1. cur = k /\ inc >= 0 => cur + inc \in 0..(Max - 15)
        BY <1>0, WidthFacts
      <4>. QED  BY <4>1, AlignRoundsUp
    <3>7. heap_break' = r.rc /\ kbrk' = r.rc
          /\ last' = [inc |-> inc, ok |-> TRUE, ret |-> cur, err |-> 0]
      BY <3>1, <2>7, Zenon
    <3>3. /\ heap_break' \in 0..Max /\ heap_break' % 16 = 0
          /\ kbrk' \in Start..Limit /\ kbrk' % 16 = 0
      BY <3>1, <3>7, <1>0, WidthFacts
    <3>4. last' \in LastType
      BY <2>7, <1>0, WidthFacts
    <3>5. cur = k => heap_break' = kbrk'
      BY <3>1, <2>7
    <3>6. cur = k /\ last'.inc >= 0 => Start <= last'.ret /\ last'.ret + last'.inc <= kbrk'
      <4>1. requested <= r.rc
        BY <2>7
      <4>. QED  BY <4>1, <2>2, <3>1, <3>2, <3>7, <1>0, WidthFacts
    <3>8. last'.ret = cur /\ heap_break' \in Start..Limit
      BY <3>1, <3>7
    <3>. QED  BY <3>3, <3>4, <3>5, <3>6, <3>8, <2>7
  <2>. QED  BY <2>3, <2>5, <2>6, <2>7
<1>. QED  BY <1>1, <1>2, <1>3 DEF Grow

-----------------------------------------------------------------------------
(* The invariant.                                                          *)

\* Between calls both breaks are aligned, results are aligned, and, when
\* the kernel never answers -errno, the cache is the kernel's break and
\* every block lies in the heap.  Until the cache is set the kernel's
\* break is still its start_brk.  Alignment of the two breaks is what makes
\* the properties inductive: a call's result is the cached break.
IInv ==
  /\ TypeOK
  /\ kbrk % 16 = 0 /\ heap_break % 16 = 0
  /\ SbrkAligned
  /\ ~KernelMayFail => HeapBreakCoherent /\ SbrkBlockInHeap
  /\ heap_break = 0 => kbrk = Start

LEMMA InitIInv == Init => IInv
  BY SbrkAssumption, WidthFacts DEF Init, IInv, TypeOK, NoCall, SbrkAligned,
                                     HeapBreakCoherent, SbrkBlockInHeap

\* A call that ends in GrowPost from a cached break equal to the kernel's,
\* or from any cached break when the kernel may fail, keeps IInv.
LEMMA GrowPostIInv ==
  ASSUME NEW cur, NEW k, NEW inc,
         GrowPost(cur, k, inc),
         calls' \in 0..MaxCalls,
         ~KernelMayFail => cur = k,
         cur # 0
  PROVE  IInv'
<1>1. TypeOK' /\ kbrk' % 16 = 0 /\ heap_break' % 16 = 0 /\ SbrkAligned'
  BY WidthFacts DEF GrowPost, LastType, TypeOK, SbrkAligned
<1>2. ~KernelMayFail => HeapBreakCoherent' /\ SbrkBlockInHeap'
  BY DEF GrowPost, HeapBreakCoherent, SbrkBlockInHeap
<1>3. heap_break' # 0
  BY SbrkAssumption DEF GrowPost
<1>. QED  BY <1>1, <1>2, <1>3 DEF IInv

LEMMA NextIInv == IInv /\ [Next]_vars => IInv'
<1> SUFFICES ASSUME IInv, [Next]_vars PROVE IInv'
  OBVIOUS
<1>0. /\ heap_break \in 0..Max /\ kbrk \in Start..Limit /\ calls \in 0..MaxCalls
      /\ kbrk % 16 = 0 /\ heap_break % 16 = 0
      /\ MaxCalls \in Nat
      /\ ~KernelMayFail => (heap_break # 0 => heap_break = kbrk)
      /\ heap_break = 0 => kbrk = Start
  BY SbrkAssumption DEF IInv, TypeOK, HeapBreakCoherent
<1>1. CASE \E inc \in Incs : Sbrk(inc)
  <2>1. PICK inc \in Incs : Sbrk(inc)
    BY <1>1
  <2>2. calls' \in 0..MaxCalls
    BY <2>1, <1>0 DEF Sbrk
  <2>3. CASE heap_break # 0 /\ Grow(heap_break, kbrk, inc)
    <3>1. GrowPost(heap_break, kbrk, inc)
      BY <2>3, <1>0, GrowStep
    <3>. QED  BY <3>1, <2>2, <2>3, <1>0, GrowPostIInv
  <2>4. CASE /\ heap_break = 0
             /\ \E r \in KernelBrk(kbrk, Base) :
                  \/ r.rc < 0 /\ Fail(inc, Base, r.k, -r.rc)
                  \/ 0 <= r.rc /\ Grow(r.rc, r.k, inc)
    <3>1. PICK r \in KernelBrk(kbrk, Base) :
            \/ r.rc < 0 /\ Fail(inc, Base, r.k, -r.rc)
            \/ 0 <= r.rc /\ Grow(r.rc, r.k, inc)
      BY <2>4
    <3>2. \/ KernelMayFail /\ r.rc = -ENOMEM /\ -r.rc = ENOMEM /\ r.k = kbrk
          \/ r.rc = r.k /\ r.k \in Start..Limit /\ (r.rc = Base \/ r.rc = kbrk)
      BY <1>0, BaseAligned, KernelAnswers
    <3>3. CASE r.rc < 0 /\ Fail(inc, Base, r.k, -r.rc)
      <4>1. KernelMayFail /\ -r.rc = ENOMEM /\ r.k = kbrk
        BY <3>2, <3>3, <1>0, SbrkAssumption
      <4>2. /\ heap_break' = Base /\ kbrk' = kbrk
            /\ last' = [inc |-> inc, ok |-> FALSE, ret |-> Max, err |-> ENOMEM]
        BY <4>1, <3>3, Zenon DEF Fail
      <4>3. heap_break' = 0 => kbrk' = Start
        BY <4>2, <2>4, <1>0
      <4>. QED  BY <4>1, <4>2, <4>3, <2>2, <1>0, BaseAligned, WidthFacts,
                   SbrkAssumption DEF IInv, TypeOK, SbrkAligned, ENOMEM
    <3>4. CASE 0 <= r.rc /\ Grow(r.rc, r.k, inc)
      <4>1. r.rc = r.k /\ r.k \in Start..Limit /\ r.rc % 16 = 0
        BY <3>2, <3>4, <1>0, BaseAligned DEF ENOMEM
      <4>2. r.rc \in 0..Max /\ r.k % 16 = 0
        BY <4>1, SbrkAssumption, WidthFacts
      <4>3. GrowPost(r.rc, r.k, inc)
        BY <4>1, <4>2, <3>4, GrowStep
      <4>4. r.rc # 0
        BY <4>1, SbrkAssumption
      <4>. QED  BY <4>1, <4>3, <4>4, <2>2, GrowPostIInv
    <3>. QED  BY <3>1, <3>3, <3>4
  <2>. QED  BY <2>1, <2>3, <2>4 DEF Sbrk
<1>2. CASE Done \/ UNCHANGED vars
  BY <1>2 DEF Done, vars, IInv, TypeOK, SbrkAligned, HeapBreakCoherent,
              SbrkBlockInHeap
<1>. QED  BY <1>1, <1>2 DEF Next

\* IInv holds in every state of every behaviour.
THEOREM SbrkInvariant == Spec => []IInv
  BY InitIInv, NextIInv, PTL DEF Spec

\* Every variable keeps the type the code gives it, for every kernel.
THEOREM SbrkTypeCorrect == Spec => []TypeOK
  BY SbrkInvariant, PTL DEF IInv

\* Every block _sbrk hands out is 16-byte aligned, for every kernel,
\* including one whose first SYS_BRK fails (newlib_syscalls.cpp:158-199).
THEOREM SbrkAlignedHolds == Spec => []SbrkAligned
  BY SbrkInvariant, PTL DEF IInv

\* With a kernel that answers SYS_BRK as Linux does, never with -errno, the
\* cached heap_break is always the kernel's break and every block of a
\* successful _sbrk(n >= 0) lies in [start_brk, break).
THEOREM SbrkHeapSound ==
  ~KernelMayFail => (Spec => [](HeapBreakCoherent /\ SbrkBlockInHeap))
<1> SUFFICES ASSUME ~KernelMayFail PROVE Spec => [](HeapBreakCoherent /\ SbrkBlockInHeap)
  OBVIOUS
<1>1. IInv => HeapBreakCoherent /\ SbrkBlockInHeap
  BY DEF IInv
<1>. QED  BY <1>1, SbrkInvariant, PTL

\* With such a kernel, whatever sequence of increments the program asks
\* for, the heap_break that _sbrk caches is never stale: once set, it is the
\* break the kernel last reported (newlib_syscalls.cpp:158-199).
THEOREM SbrkCoherent == ~KernelMayFail => (Spec => []HeapBreakCoherent)
BY SbrkHeapSound, PTL

-----------------------------------------------------------------------------
(* Fresh blocks.                                                           *)

\* One step of SbrkFreshBlock.
FreshStep == calls' = calls + 1 /\ last'.ok /\ last'.inc >= 0 => kbrk <= last'.ret

\* With a kernel that never answers -errno, a call returns the cached break,
\* which is the kernel's break before the call, or, on the first call, the
\* kernel's answer, at or above start_brk.
LEMMA NextFresh == ~KernelMayFail /\ IInv /\ [Next]_vars => [FreshStep]_vars
<1> SUFFICES ASSUME ~KernelMayFail, IInv, [Next]_vars PROVE [FreshStep]_vars
  OBVIOUS
<1>0. /\ heap_break \in 0..Max /\ kbrk \in Start..Limit
      /\ kbrk % 16 = 0 /\ heap_break % 16 = 0
      /\ heap_break # 0 => heap_break = kbrk
      /\ heap_break = 0 => kbrk = Start
  BY DEF IInv, TypeOK, HeapBreakCoherent
<1>1. CASE \E inc \in Incs : Sbrk(inc)
  <2>1. PICK inc \in Incs : Sbrk(inc)
    BY <1>1
  <2>2. CASE heap_break # 0 /\ Grow(heap_break, kbrk, inc)
    <3>1. GrowPost(heap_break, kbrk, inc)
      BY <2>2, <1>0, GrowStep
    <3>. QED  BY <1>0, <2>2, <3>1 DEF GrowPost, FreshStep
  <2>3. CASE /\ heap_break = 0
             /\ \E r \in KernelBrk(kbrk, Base) :
                  \/ r.rc < 0 /\ Fail(inc, Base, r.k, -r.rc)
                  \/ 0 <= r.rc /\ Grow(r.rc, r.k, inc)
    <3>1. PICK r \in KernelBrk(kbrk, Base) :
            \/ r.rc < 0 /\ Fail(inc, Base, r.k, -r.rc)
            \/ 0 <= r.rc /\ Grow(r.rc, r.k, inc)
      BY <2>3
    <3>2. r.rc = r.k /\ r.k \in Start..Limit /\ r.rc % 16 = 0
      BY <1>0, <3>1, BaseAligned, KernelAnswers
    <3>3. r.rc \in 0..Max
      BY <3>2, SbrkAssumption, WidthFacts
    <3>4. GrowPost(r.rc, r.k, inc)
      BY <3>1, <3>2, <3>3, GrowStep
    <3>. QED  BY <1>0, <2>3, <3>2, <3>4 DEF GrowPost, FreshStep
  <2>. QED  BY <2>1, <2>2, <2>3 DEF Sbrk
<1>2. CASE Done \/ UNCHANGED vars
  BY <1>2 DEF Done, vars
<1>. QED  BY <1>1, <1>2 DEF Next

\* With a kernel that answers SYS_BRK as Linux does, every successful
\* _sbrk(n >= 0) hands out memory at or above the break the kernel had
\* before the call, so no two blocks malloc receives overlap
\* (newlib_syscalls.cpp:158-199).
THEOREM SbrkFreshHolds == ~KernelMayFail => (Spec => SbrkFreshBlock)
<1> SUFFICES ASSUME ~KernelMayFail PROVE Spec => SbrkFreshBlock
  OBVIOUS
<1>1. IInv /\ [Next]_vars => [FreshStep]_vars
  BY NextFresh
<1>. QED  BY <1>1, SbrkInvariant, PTL DEF Spec, SbrkFreshBlock, FreshStep

=============================================================================
