------------------------------ MODULE LibCProofs ------------------------------
(***************************************************************************)
(* Proofs that memmove, memcmp and strlen of src/libc/libc.c compute their *)
(* reference definitions for every memory size, every region and every     *)
(* overlap.  Each byte loop of LibC is a recursive function F[k] over the  *)
(* iterations 0..n.  For each one a closed form C(k) is given, shown to    *)
(* satisfy the loop's defining equation (so the recursive definition has a *)
(* solution, and F satisfies it too), and then shown equal to F index by   *)
(* index: a least index where they differ cannot exist (LoopInduction).   *)
(***************************************************************************)
EXTENDS LibC, LoopInduction, TLAPS

-----------------------------------------------------------------------------
(* while (n--) *d++ = *s++;  (memcpy, and memmove when d < s).             *)

\* What the k-th iteration of the forward copy leaves at a written address
\* a: the source byte at the same offset, except that when the source lies
\* below the destination and overlaps it, the loop reads bytes it has
\* already written, so the first d - s source bytes repeat.
FwdVal(m, d, s, a) ==
  IF s < d THEN m[s + ((a - d) % (d - s))] ELSE m[s + (a - d)]

\* Memory after k iterations of the forward copy.
Fwd(m, d, s, k) ==
  [a \in DOMAIN m |-> IF a \in Region(d, k) THEN FwdVal(m, d, s, a) ELSE m[a]]

LEMMA ModFacts ==
  ASSUME NEW x \in Nat, NEW y \in Nat \ {0}
  PROVE  /\ x % y \in 0..(y - 1)
         /\ x < y => x % y = x
         /\ x >= y => (x - y) % y = x % y
<1>1. x % y \in 0..(y - 1)
  OBVIOUS
<1>2. x < y => x % y = x
  OBVIOUS
<1>3. x >= y => (x - y) % y = x % y
  <2> SUFFICES ASSUME x >= y PROVE (x - y) % y = x % y
    OBVIOUS
  <2>1. (x - y) % y \in 0..(y - 1) /\ x - y = y * ((x - y) \div y) + ((x - y) % y)
    OBVIOUS
  <2>2. x = y * ((x - y) \div y + 1) + ((x - y) % y)
    BY <2>1
  <2>3. \A q \in Int, r \in 0..(y - 1) : x = y * q + r => x % y = r
    OBVIOUS
  <2>4. (x - y) \div y + 1 \in Int
    OBVIOUS
  <2>. QED  BY <2>1, <2>2, <2>3, <2>4, Zenon
<1>. QED  BY <1>1, <1>2, <1>3

\* The byte the k-th iteration reads is the one the closed form puts at
\* the address it writes.
LEMMA FwdRead ==
  ASSUME NEW V, NEW m \in [Addrs -> V], NEW d \in Addrs, NEW s \in Addrs,
         NEW n \in Nat, d + n <= Size, s + n <= Size,
         NEW k \in 1..n
  PROVE  Fwd(m, d, s, k - 1)[s + k - 1] = FwdVal(m, d, s, d + k - 1)
<1>0. Size \in Nat /\ DOMAIN m = Addrs /\ Addrs = 0..(Size - 1)
  BY LibCAssumption DEF Addrs
<1>1. s + k - 1 \in DOMAIN m /\ d \in Nat /\ s \in Nat
  BY <1>0
<1>2. CASE s < d /\ s + k - 1 >= d
  <2>1. Fwd(m, d, s, k - 1)[s + k - 1] = m[s + ((s + k - 1 - d) % (d - s))]
    BY <1>1, <1>2 DEF Fwd, FwdVal, Region
  <2>2. (s + k - 1 - d) % (d - s) = (k - 1) % (d - s)
    <3>1. k - 1 \in Nat /\ d - s \in Nat \ {0} /\ k - 1 >= d - s
      BY <1>1, <1>2
    <3>2. (k - 1) - (d - s) = s + k - 1 - d
      BY <1>1
    <3>. QED  BY <3>1, <3>2, ModFacts
  <2>. QED  BY <1>1, <1>2, <2>1, <2>2 DEF FwdVal
<1>3. CASE s < d /\ s + k - 1 < d
  <2>1. Fwd(m, d, s, k - 1)[s + k - 1] = m[s + k - 1]
    BY <1>1, <1>3 DEF Fwd, Region
  <2>2. (k - 1) % (d - s) = k - 1
    <3>1. k - 1 \in Nat /\ d - s \in Nat \ {0} /\ k - 1 < d - s
      BY <1>1, <1>3
    <3>. QED  BY <3>1, ModFacts
  <2>. QED  BY <1>1, <1>3, <2>1, <2>2 DEF FwdVal
<1>4. CASE ~(s < d)
  <2>1. Fwd(m, d, s, k - 1)[s + k - 1] = m[s + k - 1]
    BY <1>1, <1>4 DEF Fwd, Region
  <2>. QED  BY <1>1, <1>4, <2>1 DEF FwdVal
<1>. QED  BY <1>1, <1>2, <1>3, <1>4

\* The forward copy computes Fwd, for every overlap of the two regions.
LEMMA ForwardLoop ==
  ASSUME NEW V, NEW m \in [Addrs -> V], NEW d \in Addrs, NEW s \in Addrs,
         NEW n \in Nat, d + n <= Size, s + n <= Size
  PROVE  CopyForward(m, d, s, n) = Fwd(m, d, s, n)
<1> DEFINE Body(H, k) == IF k = 0 THEN m
                         ELSE [H[k - 1] EXCEPT ![d + k - 1] = H[k - 1][s + k - 1]]
           G == [k \in 0..n |-> Fwd(m, d, s, k)]
           F == CHOOSE F : F = [k \in 0..n |-> Body(F, k)]
<1>0. Size \in Nat /\ DOMAIN m = Addrs /\ Addrs = 0..(Size - 1)
  BY LibCAssumption DEF Addrs
<1>1. ASSUME NEW k \in 1..n
      PROVE  [Fwd(m, d, s, k - 1) EXCEPT ![d + k - 1] = FwdVal(m, d, s, d + k - 1)]
               = Fwd(m, d, s, k)
  <2> DEFINE E == [Fwd(m, d, s, k - 1) EXCEPT ![d + k - 1] = FwdVal(m, d, s, d + k - 1)]
  <2>1. DOMAIN E = Addrs /\ DOMAIN Fwd(m, d, s, k) = Addrs /\ d + k - 1 \in Addrs
    BY <1>0 DEF Fwd
  <2>2. ASSUME NEW a \in Addrs PROVE E[a] = Fwd(m, d, s, k)[a]
    <3>1. CASE a = d + k - 1
      BY <1>0, <2>1, <3>1 DEF Fwd, Region
    <3>2. CASE a # d + k - 1
      <4>1. a \in Region(d, k) <=> a \in Region(d, k - 1)
        BY <1>0, <3>2 DEF Region
      <4>. QED  BY <1>0, <2>1, <3>2, <4>1 DEF Fwd
    <3>. QED  BY <3>1, <3>2
  <2>3. E = [a \in Addrs |-> E[a]] /\ Fwd(m, d, s, k) = [a \in Addrs |-> Fwd(m, d, s, k)[a]]
    BY <1>0, <2>1 DEF Fwd
  <2>. QED  BY <2>2, <2>3
<1>2. G = [k \in 0..n |-> Body(G, k)]
  <2> SUFFICES ASSUME NEW k \in 0..n PROVE G[k] = Body(G, k)
    OBVIOUS
  <2>1. CASE k = 0
    <3>1. Fwd(m, d, s, 0) = [a \in Addrs |-> m[a]]
      BY <1>0 DEF Fwd, Region
    <3>2. m = [a \in Addrs |-> m[a]]
      BY <1>0
    <3>. QED  BY <2>1, <3>1, <3>2
  <2>2. CASE k # 0
    <3>1. k \in 1..n /\ G[k - 1] = Fwd(m, d, s, k - 1) /\ G[k] = Fwd(m, d, s, k)
      BY <2>2
    <3>2. Fwd(m, d, s, k - 1)[s + k - 1] = FwdVal(m, d, s, d + k - 1)
      BY <3>1, FwdRead
    <3>3. Body(G, k) = [Fwd(m, d, s, k - 1) EXCEPT ![d + k - 1] = FwdVal(m, d, s, d + k - 1)]
      BY <2>2, <3>1, <3>2
    <3>. QED  BY <3>1, <3>3, <1>1
  <2>. QED  BY <2>1, <2>2
<1>3. F = [k \in 0..n |-> Body(F, k)]
  BY <1>2
<1> HIDE DEF F, G
<1>4. \A k \in 0..n : F[k] = G[k]
  <2>1. ASSUME NEW k \in 0..n, k = 0 \/ F[k - 1] = G[k - 1]
        PROVE  F[k] = G[k]
    <3>1. F[k] = Body(F, k) /\ G[k] = Body(G, k)
      BY <1>2, <1>3
    <3>2. CASE k = 0
      BY <3>1, <3>2
    <3>3. CASE k # 0
      <4>1. F[k - 1] = G[k - 1]
        BY <2>1, <3>3
      <4>. QED  BY <3>1, <3>3, <4>1, Zenon
    <3>. QED  BY <3>2, <3>3
  <2>. QED  BY ONLY <2>1, LoopUnique
<1>5. G[n] = Fwd(m, d, s, n)
  BY DEF G
<1>. QED  BY <1>4, <1>5 DEF CopyForward, F

-----------------------------------------------------------------------------
(* d += n; s += n; while (n--) *--d = *--s;  (memmove when d > s).         *)

\* Memory after k iterations of the backward copy of n bytes, when the
\* source lies below the destination: the top k bytes of the destination
\* hold their source bytes, which no earlier iteration has overwritten.
Bwd(m, d, s, n, k) ==
  [a \in DOMAIN m |-> IF a \in (d + n - k)..(d + n - 1) THEN m[s + (a - d)]
                      ELSE m[a]]

LEMMA BackwardLoop ==
  ASSUME NEW V, NEW m \in [Addrs -> V], NEW d \in Addrs, NEW s \in Addrs,
         NEW n \in Nat, d + n <= Size, s + n <= Size, s < d
  PROVE  CopyBackward(m, d, s, n) = Bwd(m, d, s, n, n)
<1> DEFINE Body(H, k) == IF k = 0 THEN m
                         ELSE [H[k - 1] EXCEPT ![d + n - k] = H[k - 1][s + n - k]]
           G == [k \in 0..n |-> Bwd(m, d, s, n, k)]
           F == CHOOSE F : F = [k \in 0..n |-> Body(F, k)]
<1>0. /\ Size \in Nat /\ DOMAIN m = Addrs /\ Addrs = 0..(Size - 1)
      /\ d \in Nat /\ s \in Nat
  BY LibCAssumption DEF Addrs
<1>1. ASSUME NEW k \in 1..n
      PROVE  [Bwd(m, d, s, n, k - 1) EXCEPT ![d + n - k] = m[s + n - k]]
               = Bwd(m, d, s, n, k)
  <2> DEFINE E == [Bwd(m, d, s, n, k - 1) EXCEPT ![d + n - k] = m[s + n - k]]
  <2>1. DOMAIN E = Addrs /\ DOMAIN Bwd(m, d, s, n, k) = Addrs /\ d + n - k \in Addrs
    BY <1>0 DEF Bwd
  <2>2. ASSUME NEW a \in Addrs PROVE E[a] = Bwd(m, d, s, n, k)[a]
    <3>1. CASE a = d + n - k
      BY <1>0, <2>1, <3>1 DEF Bwd
    <3>2. CASE a # d + n - k
      <4>1. a \in (d + n - k)..(d + n - 1) <=> a \in (d + n - (k - 1))..(d + n - 1)
        BY <1>0, <3>2
      <4>. QED  BY <1>0, <2>1, <3>2, <4>1 DEF Bwd
    <3>. QED  BY <3>1, <3>2
  <2>3. E = [a \in Addrs |-> E[a]] /\ Bwd(m, d, s, n, k) = [a \in Addrs |-> Bwd(m, d, s, n, k)[a]]
    BY <1>0, <2>1 DEF Bwd
  <2>. QED  BY <2>2, <2>3
<1>2. G = [k \in 0..n |-> Body(G, k)]
  <2> SUFFICES ASSUME NEW k \in 0..n PROVE G[k] = Body(G, k)
    OBVIOUS
  <2>1. CASE k = 0
    <3>1. Bwd(m, d, s, n, 0) = [a \in Addrs |-> m[a]]
      BY <1>0 DEF Bwd
    <3>2. m = [a \in Addrs |-> m[a]]
      BY <1>0
    <3>. QED  BY <2>1, <3>1, <3>2
  <2>2. CASE k # 0
    <3>1. k \in 1..n /\ G[k - 1] = Bwd(m, d, s, n, k - 1) /\ G[k] = Bwd(m, d, s, n, k)
      BY <2>2
    \* The byte read lies below the destination, so it is still the source's.
    <3>2. Bwd(m, d, s, n, k - 1)[s + n - k] = m[s + n - k]
      BY <1>0, <3>1 DEF Bwd
    <3>3. Body(G, k) = [Bwd(m, d, s, n, k - 1) EXCEPT ![d + n - k] = m[s + n - k]]
      BY <2>2, <3>1, <3>2
    <3>. QED  BY <3>1, <3>3, <1>1
  <2>. QED  BY <2>1, <2>2
<1>3. F = [k \in 0..n |-> Body(F, k)]
  BY <1>2
<1> HIDE DEF F, G
<1>4. \A k \in 0..n : F[k] = G[k]
  <2>1. ASSUME NEW k \in 0..n, k = 0 \/ F[k - 1] = G[k - 1]
        PROVE  F[k] = G[k]
    <3>1. F[k] = Body(F, k) /\ G[k] = Body(G, k)
      BY <1>2, <1>3
    <3>2. CASE k = 0
      BY <3>1, <3>2
    <3>3. CASE k # 0
      <4>1. F[k - 1] = G[k - 1]
        BY <2>1, <3>3
      <4>. QED  BY <3>1, <3>3, <4>1, Zenon
    <3>. QED  BY <3>2, <3>3
  <2>. QED  BY <2>1, LoopUnique
<1>5. G[n] = Bwd(m, d, s, n, n)
  BY DEF G
<1>. QED  BY <1>4, <1>5 DEF CopyBackward, F

-----------------------------------------------------------------------------
(* memset: while (n--) *p++ = (unsigned char)c;                            *)

\* Memory after k iterations of memset.
Filled(m, d, c, k) ==
  [a \in DOMAIN m |-> IF a \in Region(d, k) THEN c % 256 ELSE m[a]]

LEMMA SetLoopClosed ==
  ASSUME NEW V, NEW m \in [Addrs -> V], NEW d \in Addrs, NEW c,
         NEW n \in Nat, d + n <= Size
  PROVE  SetLoop(m, d, c, n) = Filled(m, d, c, n)
<1> DEFINE Body(H, k) == IF k = 0 THEN m ELSE [H[k - 1] EXCEPT ![d + k - 1] = c % 256]
           G == [k \in 0..n |-> Filled(m, d, c, k)]
           F == CHOOSE F : F = [k \in 0..n |-> Body(F, k)]
<1>0. /\ Size \in Nat /\ DOMAIN m = Addrs /\ Addrs = 0..(Size - 1) /\ d \in Nat
  BY LibCAssumption DEF Addrs
<1>1. ASSUME NEW k \in 1..n
      PROVE  [Filled(m, d, c, k - 1) EXCEPT ![d + k - 1] = c % 256] = Filled(m, d, c, k)
  <2> DEFINE E == [Filled(m, d, c, k - 1) EXCEPT ![d + k - 1] = c % 256]
  <2>1. DOMAIN E = Addrs /\ DOMAIN Filled(m, d, c, k) = Addrs /\ d + k - 1 \in Addrs
    BY <1>0 DEF Filled
  <2>2. ASSUME NEW a \in Addrs PROVE E[a] = Filled(m, d, c, k)[a]
    <3>1. CASE a = d + k - 1
      BY <1>0, <2>1, <3>1 DEF Filled, Region
    <3>2. CASE a # d + k - 1
      <4>1. a \in Region(d, k) <=> a \in Region(d, k - 1)
        BY <1>0, <3>2 DEF Region
      <4>. QED  BY <1>0, <2>1, <3>2, <4>1 DEF Filled
    <3>. QED  BY <3>1, <3>2
  <2>3. E = [a \in Addrs |-> E[a]] /\ Filled(m, d, c, k) = [a \in Addrs |-> Filled(m, d, c, k)[a]]
    BY <1>0, <2>1 DEF Filled
  <2>. QED  BY <2>2, <2>3
<1>2. G = [k \in 0..n |-> Body(G, k)]
  <2> SUFFICES ASSUME NEW k \in 0..n PROVE G[k] = Body(G, k)
    OBVIOUS
  <2>1. CASE k = 0
    <3>1. Filled(m, d, c, 0) = [a \in Addrs |-> m[a]]
      BY <1>0 DEF Filled, Region
    <3>2. m = [a \in Addrs |-> m[a]]
      BY <1>0
    <3>. QED  BY <2>1, <3>1, <3>2
  <2>2. CASE k # 0
    <3>1. k \in 1..n /\ G[k - 1] = Filled(m, d, c, k - 1) /\ G[k] = Filled(m, d, c, k)
      BY <2>2
    <3>. QED  BY <2>2, <3>1, <1>1
  <2>. QED  BY <2>1, <2>2
<1>3. F = [k \in 0..n |-> Body(F, k)]
  BY <1>2
<1> HIDE DEF F, G
<1>4. \A k \in 0..n : F[k] = G[k]
  <2>1. ASSUME NEW k \in 0..n, k = 0 \/ F[k - 1] = G[k - 1]
        PROVE  F[k] = G[k]
    <3>1. F[k] = Body(F, k) /\ G[k] = Body(G, k)
      BY <1>2, <1>3
    <3>2. CASE k = 0
      BY <3>1, <3>2
    <3>3. CASE k # 0
      <4>1. F[k - 1] = G[k - 1]
        BY <2>1, <3>3
      <4>. QED  BY <3>1, <3>3, <4>1, Zenon
    <3>. QED  BY <3>2, <3>3
  <2>. QED  BY <2>1, LoopUnique
<1>5. G[n] = Filled(m, d, c, n)
  BY DEF G
<1>. QED  BY <1>4, <1>5 DEF SetLoop, F

-----------------------------------------------------------------------------
(* memcmp: compare byte by byte, return the first difference, else 0.    *)

\* The offsets, from lo on, at which the two regions differ.
DiffFrom(m, a, b, lo, n) == {k \in lo..(n - 1) : m[a + k] # m[b + k]}

\* G[j] of Memcmp, the result over the last j bytes: the difference at
\* the first offset among them where the regions differ, or 0.
CmpLast(m, a, b, n, j) ==
  LET D == DiffFrom(m, a, b, n - j, n)
  IN  IF D = {} THEN 0 ELSE m[a + Least(D)] - m[b + Least(D)]

\* Prepending an offset where the bytes differ makes it the first one.
LEMMA FirstDiffNew ==
  ASSUME NEW m, NEW a, NEW b, NEW n \in Nat, NEW j \in 1..n,
         m[a + n - j] # m[b + n - j]
  PROVE  /\ DiffFrom(m, a, b, n - j, n) # {}
         /\ Least(DiffFrom(m, a, b, n - j, n)) = n - j
<1> DEFINE D == DiffFrom(m, a, b, n - j, n)
<1>1. n - j \in D /\ D \subseteq Nat
  BY DEF DiffFrom
<1>2. Least(D) \in D /\ \A i \in D : Least(D) <= i
  BY <1>1, LeastIsLeast
<1>3. \A i \in D : n - j <= i
  BY DEF DiffFrom
<1>. QED  BY <1>1, <1>2, <1>3

LEMMA MemcmpLoop ==
  ASSUME NEW m, NEW a, NEW b, NEW n \in Nat
  PROVE  Memcmp(m, a, b, n) = CmpLast(m, a, b, n, n)
<1> DEFINE Body(H, j) == IF j = 0 THEN 0
                         ELSE IF m[a + n - j] # m[b + n - j]
                              THEN m[a + n - j] - m[b + n - j]
                              ELSE H[j - 1]
           G == [j \in 0..n |-> CmpLast(m, a, b, n, j)]
           F == CHOOSE F : F = [j \in 0..n |-> Body(F, j)]
<1>1. G = [j \in 0..n |-> Body(G, j)]
  <2> SUFFICES ASSUME NEW j \in 0..n PROVE G[j] = Body(G, j)
    OBVIOUS
  <2>1. CASE j = 0
    <3>1. DiffFrom(m, a, b, n - 0, n) = {}
      BY DEF DiffFrom
    <3>. QED  BY <2>1, <3>1 DEF CmpLast
  <2>2. CASE j # 0 /\ m[a + n - j] # m[b + n - j]
    <3>1. j \in 1..n
      BY <2>2
    <3>. QED  BY <2>2, <3>1, FirstDiffNew DEF CmpLast
  <2>3. CASE j # 0 /\ m[a + n - j] = m[b + n - j]
    <3>1. DiffFrom(m, a, b, n - j, n) = DiffFrom(m, a, b, n - (j - 1), n)
      BY <2>3 DEF DiffFrom
    <3>2. G[j - 1] = CmpLast(m, a, b, n, j - 1)
      BY <2>3
    <3>. QED  BY <2>3, <3>1, <3>2 DEF CmpLast
  <2>. QED  BY <2>1, <2>2, <2>3
<1>2. F = [j \in 0..n |-> Body(F, j)]
  BY <1>1
<1> HIDE DEF F, G
<1>3. \A j \in 0..n : F[j] = G[j]
  <2>1. ASSUME NEW j \in 0..n, j = 0 \/ F[j - 1] = G[j - 1]
        PROVE  F[j] = G[j]
    <3>1. F[j] = Body(F, j) /\ G[j] = Body(G, j)
      BY <1>1, <1>2
    <3>2. CASE j = 0
      BY <3>1, <3>2
    <3>3. CASE j # 0
      <4>1. F[j - 1] = G[j - 1]
        BY <2>1, <3>3
      <4>2. Body(F, j) = Body(G, j)
        BY <3>3, <4>1
      <4>. QED  BY <3>1, <4>2
    <3>. QED  BY <3>2, <3>3
  <2>. QED  BY <2>1, LoopUnique
<1>4. G[n] = CmpLast(m, a, b, n, n)
  BY DEF G
<1>. QED  BY <1>3, <1>4 DEF Memcmp, F

-----------------------------------------------------------------------------
(* strlen: while (s[len]) ++len;                                           *)

\* The offsets, from len on, of the NULs of the string at s.
NulFrom(m, s, len) == {i \in len..(Size - s - 1) : m[s + i] = 0}

\* L[len] of Strlen: the first NUL from len on, or the end of memory.
LenFrom(m, s, len) ==
  IF NulFrom(m, s, len) = {} THEN Size - s ELSE Least(NulFrom(m, s, len))

LEMMA StrlenLoop ==
  ASSUME NEW m, NEW s \in Addrs
  PROVE  Strlen(m, s) = LenFrom(m, s, 0)
<1> DEFINE N == Size - s
           Body(H, len) == IF len = N THEN len
                           ELSE IF m[s + len] = 0 THEN len ELSE H[len + 1]
           G == [len \in 0..N |-> LenFrom(m, s, len)]
           F == CHOOSE F : F = [len \in 0..N |-> Body(F, len)]
<1>0. Size \in Nat /\ s \in 0..(Size - 1) /\ N \in Nat
  BY LibCAssumption DEF Addrs
<1>1. G = [len \in 0..N |-> Body(G, len)]
  <2> SUFFICES ASSUME NEW len \in 0..N PROVE G[len] = Body(G, len)
    OBVIOUS
  <2>1. CASE len = N
    <3>1. NulFrom(m, s, len) = {}
      BY <1>0, <2>1 DEF NulFrom
    <3>. QED  BY <2>1, <3>1 DEF LenFrom
  <2>2. CASE len # N /\ m[s + len] = 0
    <3>1. len \in NulFrom(m, s, len) /\ NulFrom(m, s, len) \subseteq Nat
      BY <1>0, <2>2 DEF NulFrom
    <3>2. \A i \in NulFrom(m, s, len) : len <= i
      BY DEF NulFrom
    <3>3. Least(NulFrom(m, s, len)) = len
      BY <3>1, <3>2, LeastIsLeast
    <3>. QED  BY <2>2, <3>1, <3>3 DEF LenFrom
  <2>3. CASE len # N /\ m[s + len] # 0
    <3>1. NulFrom(m, s, len) = NulFrom(m, s, len + 1)
      BY <1>0, <2>3 DEF NulFrom
    <3>2. G[len + 1] = LenFrom(m, s, len + 1)
      BY <1>0, <2>3
    <3>. QED  BY <2>3, <3>1, <3>2 DEF LenFrom
  <2>. QED  BY <2>1, <2>2, <2>3
<1>2. F = [len \in 0..N |-> Body(F, len)]
  BY <1>1
<1> HIDE DEF F, G, N
<1>3. \A len \in 0..N : F[len] = G[len]
  <2>1. ASSUME NEW len \in 0..N, len = N \/ F[len + 1] = G[len + 1]
        PROVE  F[len] = G[len]
    <3>1. F[len] = Body(F, len) /\ G[len] = Body(G, len)
      BY <1>1, <1>2
    <3>2. CASE len = N
      BY <3>1, <3>2
    <3>3. CASE len # N
      <4>1. F[len + 1] = G[len + 1]
        BY <2>1, <3>3
      <4>2. Body(F, len) = Body(G, len)
        BY <3>3, <4>1
      <4>. QED  BY <3>1, <4>2
    <3>. QED  BY <3>2, <3>3
  <2>. QED  BY <1>0, <2>1, LoopUniqueDown
<1>4. G[0] = LenFrom(m, s, 0)
  BY <1>0 DEF G
<1>. QED  BY <1>0, <1>3, <1>4 DEF Strlen, F, N

-----------------------------------------------------------------------------
(* What each call computes.                                                *)

\* Arguments that pass InMem: a region that starts in memory ends in it.
LEMMA InMemBound ==
  ASSUME NEW p \in Addrs, NEW n \in 0..Size, InMem(p, n)
  PROVE  p + n <= Size
BY LibCAssumption DEF InMem, Addrs

\* memmove leaves in the destination what the source held before the call,
\* for each of its three paths (libc.c:24, 27, 29-31).
LEMMA MemmoveRef ==
  ASSUME NEW m \in [Addrs -> Bytes], NEW d \in Addrs, NEW s \in Addrs,
         NEW n \in Nat, d + n <= Size, s + n <= Size
  PROVE  /\ Memmove(m, d, s, n) = MovedRef(m, d, s, n)
         /\ MovedRef(m, d, s, n) \in [Addrs -> Bytes]
<1>0. /\ Size \in Nat /\ DOMAIN m = Addrs /\ Addrs = 0..(Size - 1)
      /\ d \in Nat /\ s \in Nat
  BY LibCAssumption DEF Addrs
<1>1. MovedRef(m, d, s, n) \in [Addrs -> Bytes]
  BY <1>0 DEF MovedRef, Region
<1>2. MovedRef(m, d, s, n) = [a \in Addrs |-> MovedRef(m, d, s, n)[a]]
  BY <1>0 DEF MovedRef
<1>3. CASE d = s \/ n = 0
  <2>1. \A a \in Addrs : MovedRef(m, d, s, n)[a] = m[a]
    BY <1>0, <1>3 DEF MovedRef, Region
  <2>2. m = [a \in Addrs |-> m[a]]
    BY <1>0
  <2>. QED  BY <1>1, <1>2, <1>3, <2>1, <2>2 DEF Memmove
<1>4. CASE ~(d = s \/ n = 0) /\ d < s
  <2>1. Memmove(m, d, s, n) = Fwd(m, d, s, n)
    BY <1>4, ForwardLoop DEF Memmove
  <2>2. \A a \in Addrs : Fwd(m, d, s, n)[a] = MovedRef(m, d, s, n)[a]
    BY <1>0, <1>4 DEF Fwd, FwdVal, MovedRef
  <2>3. Fwd(m, d, s, n) = [a \in Addrs |-> Fwd(m, d, s, n)[a]]
    BY <1>0 DEF Fwd
  <2>. QED  BY <1>1, <1>2, <2>1, <2>2, <2>3
<1>5. CASE ~(d = s \/ n = 0) /\ ~(d < s)
  <2>1. Memmove(m, d, s, n) = Bwd(m, d, s, n, n)
    <3>1. s < d
      BY <1>0, <1>5
    <3>. QED  BY <1>5, <3>1, BackwardLoop DEF Memmove
  <2>2. \A a \in Addrs : Bwd(m, d, s, n, n)[a] = MovedRef(m, d, s, n)[a]
    BY <1>0 DEF Bwd, MovedRef, Region
  <2>3. Bwd(m, d, s, n, n) = [a \in Addrs |-> Bwd(m, d, s, n, n)[a]]
    BY <1>0 DEF Bwd
  <2>. QED  BY <1>1, <1>2, <2>1, <2>2, <2>3
<1>. QED  BY <1>3, <1>4, <1>5

\* memcpy and memset only store bytes.
LEMMA MemcpyType ==
  ASSUME NEW m \in [Addrs -> Bytes], NEW d \in Addrs, NEW s \in Addrs,
         NEW n \in Nat, d + n <= Size, s + n <= Size
  PROVE  CopyForward(m, d, s, n) \in [Addrs -> Bytes]
<1>0. /\ Size \in Nat /\ DOMAIN m = Addrs /\ Addrs = 0..(Size - 1)
      /\ d \in Nat /\ s \in Nat
  BY LibCAssumption DEF Addrs
<1>1. ASSUME NEW a \in Region(d, n) PROVE FwdVal(m, d, s, a) \in Bytes
  <2>1. CASE s < d
    <3>1. (a - d) % (d - s) \in 0..(d - s - 1)
      <4>1. a - d \in Nat /\ d - s \in Nat \ {0}
        BY <1>0, <2>1 DEF Region
      <4>. QED  BY <4>1, ModFacts
    <3>2. s + ((a - d) % (d - s)) \in Addrs
      BY <1>0, <3>1
    <3>. QED  BY <2>1, <3>2 DEF FwdVal
  <2>2. CASE ~(s < d)
    BY <1>0, <2>2 DEF FwdVal, Region
  <2>. QED  BY <2>1, <2>2
<1>2. Fwd(m, d, s, n) \in [Addrs -> Bytes]
  BY <1>0, <1>1 DEF Fwd
<1>. QED  BY <1>2, ForwardLoop

LEMMA MemsetType ==
  ASSUME NEW m \in [Addrs -> Bytes], NEW d \in Addrs, NEW c \in Fills,
         NEW n \in Nat, d + n <= Size
  PROVE  SetLoop(m, d, c, n) \in [Addrs -> Bytes]
<1>1. c % 256 \in Bytes /\ DOMAIN m = Addrs
  BY LibCAssumption
<1>2. Filled(m, d, c, n) \in [Addrs -> Bytes]
  BY <1>1 DEF Filled
<1>. QED  BY <1>2, SetLoopClosed

\* memcmp returns the difference of the first differing byte pair, whose
\* sign is the reference order of unsigned bytes.
LEMMA MemcmpRef ==
  ASSUME NEW m \in [Addrs -> Bytes], NEW a \in Addrs, NEW b \in Addrs,
         NEW n \in Nat, a + n <= Size, b + n <= Size
  PROVE  /\ Memcmp(m, a, b, n) \in Int
         /\ Sign(Memcmp(m, a, b, n)) = CmpRef(m, a, b, n)
<1>0. /\ Size \in Nat /\ DOMAIN m = Addrs /\ Addrs = 0..(Size - 1)
      /\ a \in Nat /\ b \in Nat /\ Bytes \subseteq Int
  BY LibCAssumption DEF Addrs
<1> DEFINE D == DiffFrom(m, a, b, 0, n)
<1>1. Memcmp(m, a, b, n) = IF D = {} THEN 0 ELSE m[a + Least(D)] - m[b + Least(D)]
  <2>1. DiffFrom(m, a, b, n - n, n) = D
    OBVIOUS
  <2>. QED  BY <2>1, MemcmpLoop DEF CmpLast
<1>2. D = {k \in 0..(n - 1) : m[a + k] # m[b + k]}
  BY DEF DiffFrom
<1>3. CASE D = {}
  BY <1>1, <1>2, <1>3 DEF CmpRef, Sign
<1>4. CASE D # {}
  <2>1. Least(D) \in 0..(n - 1)
    BY <1>4, LeastIsLeast DEF DiffFrom
  <2>2. m[a + Least(D)] \in Int /\ m[b + Least(D)] \in Int
    <3>1. a + Least(D) \in Addrs /\ b + Least(D) \in Addrs
      BY <1>0, <2>1
    <3>. QED  BY <1>0, <3>1
  <2>3. CmpRef(m, a, b, n) = Sign(m[a + Least(D)] - m[b + Least(D)])
    BY <1>2, <1>4 DEF CmpRef, Least
  <2>. QED  BY <1>1, <1>4, <2>2, <2>3
<1>. QED  BY <1>3, <1>4

\* On a terminated string, strlen returns the offset of its first NUL.
LEMMA StrlenRef ==
  ASSUME NEW m \in [Addrs -> Bytes], NEW s \in Addrs,
         \E i \in s..(Size - 1) : m[i] = 0
  PROVE  /\ Strlen(m, s) \in Nat
         /\ m[s + Strlen(m, s)] = 0
         /\ \A j \in 0..(Strlen(m, s) - 1) : m[s + j] # 0
<1>0. /\ Size \in Nat /\ Addrs = 0..(Size - 1) /\ s \in Nat
  BY LibCAssumption DEF Addrs
<1> DEFINE Z == NulFrom(m, s, 0)
<1>1. Z # {} /\ Z \subseteq Nat
  <2>1. PICK i \in s..(Size - 1) : m[i] = 0
    OBVIOUS
  <2>2. i - s \in Z
    BY <1>0, <2>1 DEF NulFrom
  <2>. QED  BY <2>2 DEF NulFrom
<1>2. Strlen(m, s) = Least(Z)
  BY <1>1, StrlenLoop DEF LenFrom
<1>3. Least(Z) \in Z /\ \A j \in Z : Least(Z) <= j
  BY <1>1, LeastIsLeast
<1>4. Least(Z) \in 0..(Size - s - 1) /\ m[s + Least(Z)] = 0
  BY <1>3 DEF NulFrom
<1>5. ASSUME NEW j \in 0..(Least(Z) - 1), m[s + j] = 0 PROVE FALSE
  <2>1. j \in Z
    BY <1>0, <1>4, <1>5 DEF NulFrom
  <2>. QED  BY <1>0, <1>3, <1>4, <2>1
<1>. QED  BY <1>2, <1>4, <1>5

-----------------------------------------------------------------------------
(* The invariants.                                                         *)

\* Memory holds bytes, and the ghost records the last call's arguments.
TypeOK ==
  /\ mem \in [Addrs -> Bytes]
  /\ prev \in [Addrs -> Bytes]
  /\ call \in [op : {"none", "memset", "memcpy", "memmove", "memcmp", "strlen"},
               d : Int, s : Int, n : Nat, ret : Int]

\* The three reference properties hold together with the types; none needs
\* a strengthening, since each call records what it is judged by.
LibCInv == TypeOK /\ MemmoveCorrect /\ MemcmpCorrect /\ StrlenCorrect

LEMMA InitInv == Init => LibCInv
<1> SUFFICES ASSUME Init PROVE LibCInv
  OBVIOUS
<1>1. TypeOK
  BY LibCAssumption DEF Init, TypeOK, NoCall
<1>. QED  BY <1>1 DEF Init, NoCall, LibCInv, MemmoveCorrect, MemcmpCorrect, StrlenCorrect

LEMMA NextInv ==
  ASSUME LibCInv, [Next]_vars
  PROVE  LibCInv'
<1>0. /\ Size \in Nat /\ Addrs = 0..(Size - 1) /\ Bytes \subseteq Int
      /\ Fills \subseteq Int /\ mem \in [Addrs -> Bytes]
  BY LibCAssumption DEF LibCInv, TypeOK, Addrs
<1>1. CASE UNCHANGED vars
  BY <1>1 DEF vars, LibCInv, TypeOK, MemmoveCorrect, MemcmpCorrect, StrlenCorrect
<1>2. CASE Next
  <2>1. PICK p \in Addrs, q \in Addrs, n \in 0..Size :
          \/ \E c \in Fills : CallMemset(p, c, n)
          \/ CallMemcpy(p, q, n)
          \/ CallMemmove(p, q, n)
          \/ CallMemcmp(p, q, n)
          \/ n = 0 /\ CallStrlen(q)
    BY <1>2 DEF Next
  <2>2. p \in Int /\ q \in Int /\ n \in Nat
    BY <1>0
  <2>3. CASE \E c \in Fills : CallMemset(p, c, n)
    <3>1. PICK c \in Fills : CallMemset(p, c, n)
      BY <2>3
    <3>2. mem' \in [Addrs -> Bytes]
      BY <1>0, <3>1, InMemBound, MemsetType DEF CallMemset
    <3>3. call' = [op |-> "memset", d |-> p, s |-> c, n |-> n, ret |-> p] /\ prev' = mem
      BY <3>1 DEF CallMemset, Done
    <3>. QED  BY <1>0, <2>2, <3>2, <3>3
             DEF LibCInv, TypeOK, MemmoveCorrect, MemcmpCorrect, StrlenCorrect
  <2>4. CASE CallMemcpy(p, q, n)
    <3>1. mem' \in [Addrs -> Bytes]
      BY <1>0, <2>4, InMemBound, MemcpyType DEF CallMemcpy
    <3>2. call' = [op |-> "memcpy", d |-> p, s |-> q, n |-> n, ret |-> p] /\ prev' = mem
      BY <2>4 DEF CallMemcpy, Done
    <3>. QED  BY <1>0, <2>2, <3>1, <3>2
             DEF LibCInv, TypeOK, MemmoveCorrect, MemcmpCorrect, StrlenCorrect
  <2>5. CASE CallMemmove(p, q, n)
    <3>1. p + n <= Size /\ q + n <= Size
      BY <2>5, InMemBound DEF CallMemmove
    <3>2. mem' = MovedRef(mem, p, q, n) /\ mem' \in [Addrs -> Bytes]
      BY <1>0, <2>5, <3>1, MemmoveRef DEF CallMemmove
    <3>3. call' = [op |-> "memmove", d |-> p, s |-> q, n |-> n, ret |-> p] /\ prev' = mem
      BY <2>5 DEF CallMemmove, Done
    <3>. QED  BY <1>0, <2>2, <3>2, <3>3
             DEF LibCInv, TypeOK, MemmoveCorrect, MemcmpCorrect, StrlenCorrect
  <2>6. CASE CallMemcmp(p, q, n)
    <3>1. p + n <= Size /\ q + n <= Size
      BY <2>6, InMemBound DEF CallMemcmp
    <3>2. /\ Memcmp(mem, p, q, n) \in Int
          /\ Sign(Memcmp(mem, p, q, n)) = CmpRef(mem, p, q, n)
      BY <1>0, <3>1, MemcmpRef
    <3>3. /\ call' = [op |-> "memcmp", d |-> p, s |-> q, n |-> n,
                      ret |-> Memcmp(mem, p, q, n)]
          /\ prev' = mem /\ mem' = mem
      BY <2>6 DEF CallMemcmp, Done
    <3>. QED  BY <1>0, <2>2, <3>2, <3>3
             DEF LibCInv, TypeOK, MemmoveCorrect, MemcmpCorrect, StrlenCorrect
  <2>7. CASE n = 0 /\ CallStrlen(q)
    <3>1. /\ Strlen(mem, q) \in Nat
          /\ mem[q + Strlen(mem, q)] = 0
          /\ \A j \in 0..(Strlen(mem, q) - 1) : mem[q + j] # 0
      BY <1>0, <2>7, StrlenRef DEF CallStrlen
    <3>2. /\ call' = [op |-> "strlen", d |-> 0, s |-> q, n |-> 0, ret |-> Strlen(mem, q)]
          /\ prev' = mem /\ mem' = mem
      BY <2>7 DEF CallStrlen, Done
    <3>. QED  BY <1>0, <2>2, <3>1, <3>2
             DEF LibCInv, TypeOK, MemmoveCorrect, MemcmpCorrect, StrlenCorrect
  <2>. QED  BY <2>1, <2>3, <2>4, <2>5, <2>6, <2>7
<1>. QED  BY <1>1, <1>2

\* For every memory size and every call sequence, memmove leaves in the
\* destination what the source held before the call, whatever the
\* overlap (libc.c:20-35).
THEOREM MemmoveProved == Spec => []MemmoveCorrect
<1>1. Spec => []LibCInv
  BY InitInv, NextInv, PTL DEF Spec
<1>. QED  BY <1>1, PTL DEF LibCInv

\* For every memory size, memcmp's result has the sign of the first
\* differing pair of bytes compared as unsigned char (libc.c:37-48).
THEOREM MemcmpProved == Spec => []MemcmpCorrect
<1>1. Spec => []LibCInv
  BY InitInv, NextInv, PTL DEF Spec
<1>. QED  BY <1>1, PTL DEF LibCInv

\* For every memory size, strlen on a terminated string returns the offset
\* of its first NUL (libc.c:50-54).
THEOREM StrlenProved == Spec => []StrlenCorrect
<1>1. Spec => []LibCInv
  BY InitInv, NextInv, PTL DEF Spec
<1>. QED  BY <1>1, PTL DEF LibCInv

=============================================================================
