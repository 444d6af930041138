-------------------------------- MODULE LibC --------------------------------
(***************************************************************************)
(* The freestanding libc of src/libc/libc.c: memset, memcpy, memmove,      *)
(* memcmp and strlen over a small byte memory.  Each call is one step of a *)
(* caller that may pass any arguments whose regions lie in memory (what C  *)
(* requires of it); the byte loops are recursive functions that follow the *)
(* code's loops index by index, and the properties compare their result   *)
(* with a reference definition of what the function must compute.          *)
(***************************************************************************)
EXTENDS Integers, FiniteSets

CONSTANTS
  Size,      \* bytes of memory, at addresses 0..Size-1
  Bytes,     \* the byte values memory may hold (a subset of 0..255)
  Fills      \* the int values a caller passes to memset

ASSUME LibCAssumption ==
  /\ Size \in Nat \ {0}
  /\ Bytes \subseteq 0..255 /\ 0 \in Bytes
  /\ Fills \subseteq Int /\ \A c \in Fills : c % 256 \in Bytes

Addrs == 0..(Size - 1)
Region(p, n) == p..(p + n - 1)             \* the bytes [p, p + n)
InMem(p, n) == n = 0 \/ (p \in Addrs /\ p + n - 1 \in Addrs)

VARIABLES
  mem,       \* the memory
  prev,      \* ghost: the memory before the last call
  call       \* ghost: the last call, its arguments and its result

vars == <<mem, prev, call>>

NoCall == [op |-> "none", d |-> 0, s |-> 0, n |-> 0, ret |-> 0]

Init ==
  /\ mem \in [Addrs -> Bytes]
  /\ prev = mem
  /\ call = NoCall

-----------------------------------------------------------------------------
(* The loops.                                                              *)

\* while (n--) *d++ = *s++;  -- the k-th iteration copies byte k - 1.
CopyForward(m, d, s, n) ==
  LET F[k \in 0..n] == IF k = 0 THEN m
                       ELSE [F[k - 1] EXCEPT ![d + k - 1] = F[k - 1][s + k - 1]]
  IN  F[n]

\* d += n; s += n; while (n--) *--d = *--s;  -- from the last byte down.
CopyBackward(m, d, s, n) ==
  LET F[k \in 0..n] == IF k = 0 THEN m
                       ELSE [F[k - 1] EXCEPT ![d + n - k] = F[k - 1][s + n - k]]
  IN  F[n]

\* memset: while (n--) *p++ = (unsigned char)c;
SetLoop(m, d, c, n) ==
  LET F[k \in 0..n] == IF k = 0 THEN m
                       ELSE [F[k - 1] EXCEPT ![d + k - 1] = c % 256]
  IN  F[n]

\* Mutant: memmove that always copies forward, as memcpy does.
MemmoveForwardOnly(m, d, s, n) ==
  IF d = s \/ n = 0 THEN m ELSE CopyForward(m, d, s, n)

\* memmove: nothing for d == s or n == 0; forward when d < s, else backward.
Memmove(m, d, s, n) ==
  IF d = s \/ n = 0 THEN m
  ELSE IF d < s THEN CopyForward(m, d, s, n)
  ELSE CopyBackward(m, d, s, n)

\* Mutant: memcmp over plain (signed) char, so a byte above 127 is negative.
MemcmpSigned(m, a, b, n) ==
  LET sc(v) == IF v > 127 THEN v - 256 ELSE v
      G[j \in 0..n] ==
        IF j = 0 THEN 0
        ELSE IF m[a + n - j] # m[b + n - j] THEN sc(m[a + n - j]) - sc(m[b + n - j])
        ELSE G[j - 1]
  IN  G[n]

\* memcmp: the difference of the first pair of bytes that differ, as
\* unsigned chars, or 0.  G[j] is the result over the last j bytes.
Memcmp(m, a, b, n) ==
  LET G[j \in 0..n] ==
        IF j = 0 THEN 0
        ELSE IF m[a + n - j] # m[b + n - j] THEN m[a + n - j] - m[b + n - j]
        ELSE G[j - 1]
  IN  G[n]

\* Mutant: strlen that counts the terminating NUL.
StrlenWithNul(m, s) ==
  LET L[len \in 0..(Size - s)] ==
        IF len = Size - s THEN len
        ELSE IF m[s + len] = 0 THEN len + 1 ELSE L[len + 1]
  IN  L[0]

\* strlen: while (s[len]) ++len;  L[len] is the result from index len on.
\* It is called only on a terminated string, so the loop never reaches
\* len = Size - s, past the end of memory; the recursion stops there.
Strlen(m, s) ==
  LET L[len \in 0..(Size - s)] ==
        IF len = Size - s THEN len
        ELSE IF m[s + len] = 0 THEN len ELSE L[len + 1]
  IN  L[0]

-----------------------------------------------------------------------------
(* The calls.                                                              *)

Done(op, d, s, n, ret) ==
  /\ prev' = mem
  /\ call' = [op |-> op, d |-> d, s |-> s, n |-> n, ret |-> ret]

CallMemset(d, c, n) ==
  /\ InMem(d, n)
  /\ mem' = SetLoop(mem, d, c, n)
  /\ Done("memset", d, c, n, d)

\* memcpy: the code copies forward whatever the overlap.
CallMemcpy(d, s, n) ==
  /\ InMem(d, n) /\ InMem(s, n)
  /\ mem' = CopyForward(mem, d, s, n)
  /\ Done("memcpy", d, s, n, d)

CallMemmove(d, s, n) ==
  /\ InMem(d, n) /\ InMem(s, n)
  /\ mem' = Memmove(mem, d, s, n)
  /\ Done("memmove", d, s, n, d)

CallMemcmp(a, b, n) ==
  /\ InMem(a, n) /\ InMem(b, n)
  /\ UNCHANGED mem
  /\ Done("memcmp", a, b, n, Memcmp(mem, a, b, n))

CallStrlen(s) ==
  /\ \E i \in s..(Size - 1) : mem[i] = 0
  /\ UNCHANGED mem
  /\ Done("strlen", 0, s, 0, Strlen(mem, s))

Next ==
  \E p, q \in Addrs, n \in 0..Size :
    \/ \E c \in Fills : CallMemset(p, c, n)
    \/ CallMemcpy(p, q, n)
    \/ CallMemmove(p, q, n)
    \/ CallMemcmp(p, q, n)
    \/ n = 0 /\ CallStrlen(q)

Spec == Init /\ [][Next]_vars

-----------------------------------------------------------------------------
(* Properties: each function against a reference definition.               *)

\* What memmove must compute: the destination holds what the source held
\* before the call, even when the two overlap; no other byte changes.
MovedRef(m, d, s, n) ==
  [a \in DOMAIN m |-> IF a \in Region(d, n) THEN m[s + (a - d)] ELSE m[a]]

\* memmove copies correctly for every overlap of source and destination
\* (libc.c:20-35: the direction of the copy is chosen by d < s).
MemmoveCorrect ==
  call.op = "memmove" => mem = MovedRef(prev, call.d, call.s, call.n)

Sign(x) == IF x > 0 THEN 1 ELSE IF x < 0 THEN -1 ELSE 0

\* What memcmp must return: the sign of the first differing byte pair,
\* compared as unsigned char, and 0 when the regions are equal.
CmpRef(m, a, b, n) ==
  LET diff == {k \in 0..(n - 1) : m[a + k] # m[b + k]}
  IN  IF diff = {} THEN 0
      ELSE LET k == CHOOSE k \in diff : \A j \in diff : k <= j
           IN  Sign(m[a + k] - m[b + k])

\* memcmp orders byte strings as unsigned bytes (libc.c:37-48).
MemcmpCorrect ==
  call.op = "memcmp" => Sign(call.ret) = CmpRef(mem, call.d, call.s, call.n)

\* strlen returns the index of the first NUL at or after s (libc.c:50-54).
StrlenCorrect ==
  call.op = "strlen" =>
    /\ mem[call.s + call.ret] = 0
    /\ \A j \in 0..(call.ret - 1) : mem[call.s + j] # 0

=============================================================================
