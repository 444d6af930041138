---------------------------- MODULE LoopInduction ----------------------------
(***************************************************************************)
(* Induction over the iterations of a loop, for the proofs about the       *)
(* driver and libc loops.  Every loop of the models is a recursive         *)
(* function F[k] over its iterations 0..n.  What F computes is shown by    *)
(* a least-counterexample argument: the well-foundedness of < on Nat       *)
(* (WFMin of the library), applied to the concrete set of indices where a  *)
(* claim fails, gives a least one, and the loop's step rules it out.  No   *)
(* lemma here takes an operator as a parameter.                            *)
(***************************************************************************)
EXTENDS Integers, WellFoundedInduction, TLAPS


\* Every non-empty set of naturals has a least element.
LEMMA LeastNat ==
  ASSUME NEW T \in SUBSET Nat, T # {}
  PROVE  \E x \in T : \A y \in T : x <= y
<1>1. \E x \in T : \A y \in T : ~(<<y, x>> \in OpToRel(<, Nat))
  BY NatLessThanWellFounded, WFMin
<1>2. PICK x \in T : \A y \in T : ~(<<y, x>> \in OpToRel(<, Nat))
  BY <1>1
<1>3. \A y \in T : ~(y < x)
  BY <1>2 DEF OpToRel
<1>. QED  BY <1>3

\* The least element of a set of naturals (CHOOSE as CmpRef writes it).
Least(S) == CHOOSE k \in S : \A j \in S : k <= j

LEMMA LeastIsLeast ==
  ASSUME NEW S \in SUBSET Nat, S # {}
  PROVE  /\ Least(S) \in S
         /\ \A j \in S : Least(S) <= j
BY LeastNat DEF Least

\* Two loops that start alike, and whose k-th iterations agree whenever
\* the (k-1)-th ones do, agree on every iteration.
LEMMA LoopUnique ==
  ASSUME NEW bound \in Nat, NEW X, NEW Y,
         \A k \in 0..bound : (k = 0 \/ X[k - 1] = Y[k - 1]) => X[k] = Y[k]
  PROVE  \A k \in 0..bound : X[k] = Y[k]
<1> DEFINE T == {k \in 0..bound : X[k] # Y[k]}
<1> SUFFICES ASSUME T # {} PROVE FALSE
  OBVIOUS
<1>1. PICK x \in T : \A y \in T : x <= y
  <2>1. T \subseteq Nat
    OBVIOUS
  <2>. QED  BY <2>1, LeastNat
<1>2. x # 0
  BY <1>1
<1>3. x - 1 \in 0..bound /\ ~(x <= x - 1)
  BY <1>2
<1>. QED  BY <1>1, <1>3

\* The same for a loop that recurs upwards, from bound down to 0.
LEMMA LoopUniqueDown ==
  ASSUME NEW bound \in Nat, NEW X, NEW Y,
         \A k \in 0..bound : (k = bound \/ X[k + 1] = Y[k + 1]) => X[k] = Y[k]
  PROVE  \A k \in 0..bound : X[k] = Y[k]
<1> DEFINE T == {j \in 0..bound : X[bound - j] # Y[bound - j]}
<1> SUFFICES ASSUME NEW k \in 0..bound, X[k] # Y[k] PROVE FALSE
  OBVIOUS
<1>0. bound - k \in T
  <2>1. bound - k \in 0..bound /\ bound - (bound - k) = k
    OBVIOUS
  <2>. QED  BY <2>1
<1>1. PICK x \in T : \A y \in T : x <= y
  <2>1. T \subseteq Nat
    OBVIOUS
  <2>. QED  BY <1>0, <2>1, LeastNat
<1>2. x # 0
  BY <1>1
<1>3. x - 1 \in 0..bound /\ ~(x <= x - 1) /\ bound - (x - 1) = (bound - x) + 1
      /\ bound - x \in 0..bound /\ bound - x # bound
  BY <1>2
<1>. QED  BY <1>1, <1>3

\* A loop whose step maps Dom to Dom has a run of every length: there is
\* a G[0..bound] with G[0] = start and G[i] = step[G[i - 1], i].  (It is
\* what makes a recursive definition over 0..bound denote its loop when no
\* closed form is known.)  IsRun keeps the statement opaque, so that a use
\* of the lemma is a plain instance of it.
IsRun(G, Dom, start, step, bound) ==
  /\ G \in [0..bound -> Dom]
  /\ \A i \in 0..bound : G[i] = IF i = 0 THEN start ELSE step[<<G[i - 1], i>>]

LEMMA IterExists ==
  ASSUME NEW Dom, NEW start \in Dom, NEW step \in [Dom \X Nat -> Dom], NEW bound \in Nat
  PROVE  \E G : IsRun(G, Dom, start, step, bound)
<1> DEFINE Ok(k) == \E G \in [0..k -> Dom] :
                      \A i \in 0..k : G[i] = IF i = 0 THEN start ELSE step[<<G[i - 1], i>>]
<1>1. Ok(0)
  <2> DEFINE G == [i \in 0..0 |-> start]
  <2>1. G \in [0..0 -> Dom] /\ \A i \in 0..0 : G[i] = start /\ i = 0
    OBVIOUS
  <2>. QED  BY <2>1
<1>2. ASSUME NEW k \in Nat, Ok(k) PROVE Ok(k + 1)
  <2>1. PICK G0 \in [0..k -> Dom] :
               \A i \in 0..k : G0[i] = IF i = 0 THEN start ELSE step[<<G0[i - 1], i>>]
    BY <1>2
  <2> DEFINE G == [i \in 0..(k + 1) |-> IF i = k + 1 THEN step[<<G0[k], k + 1>>] ELSE G0[i]]
  <2>2. G \in [0..(k + 1) -> Dom]
    BY <2>1
  <2>3. ASSUME NEW i \in 0..(k + 1)
        PROVE  G[i] = IF i = 0 THEN start ELSE step[<<G[i - 1], i>>]
    <3>1. CASE i = k + 1
      <4>1. i # 0 /\ i - 1 = k /\ k \in 0..(k + 1) /\ k # k + 1
        BY <3>1
      <4>2. G[i] = step[<<G0[k], k + 1>>] /\ G[i - 1] = G0[k]
        BY <3>1, <4>1
      <4>. QED  BY <3>1, <4>1, <4>2
    <3>2. CASE i # k + 1
      <4>1. i \in 0..k /\ G[i] = G0[i]
        BY <3>2
      <4>2. i # 0 => i - 1 \in 0..k /\ G[i - 1] = G0[i - 1]
        BY <4>1
      <4>. QED  BY <2>1, <4>1, <4>2
    <3>. QED  BY <3>1, <3>2
  <2>. QED  BY <2>2, <2>3
<1>3. \A k \in Nat : Ok(k)
  <2> DEFINE T == {k \in Nat : ~Ok(k)}
  <2> SUFFICES ASSUME T # {} PROVE FALSE
    OBVIOUS
  <2>1. PICK x \in T : \A y \in T : x <= y
    BY LeastNat
  <2>2. x \in Nat /\ ~Ok(x)
    BY <2>1
  <2>3. x # 0
    BY <1>1, <2>2
  <2>4. x - 1 \in Nat /\ ~(x <= x - 1) /\ (x - 1) + 1 = x
    BY <2>2, <2>3
  <2> HIDE DEF Ok
  <2>5. Ok(x - 1)
    BY <2>1, <2>4
  <2>6. Ok((x - 1) + 1)
    BY <2>4, <2>5, <1>2
  <2>. QED  BY <2>2, <2>4, <2>6
<1>. QED  BY <1>3 DEF IsRun

=============================================================================
