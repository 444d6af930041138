------------------------------- MODULE MCSbrk -------------------------------
(* An 8-bit address space for TLC: _end at 37 (so the shim's base is 48),   *)
(* the kernel's randomised start_brk at 64 and a data limit of 112, the     *)
(* highest the user-space assumption allows.  The increments reach both     *)
(* ends of ptrdiff_t, cross start_brk downwards and the limit upwards, and  *)
(* include the unaligned 1 and -1.                                          *)
EXTENDS Sbrk

MCIncs == {-128, -20, -1, 0, 1, 16, 40, 127}
=============================================================================
