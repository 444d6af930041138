---------------------------- MODULE UrlFormProofs ----------------------------
(***************************************************************************)
(* Proofs about the query and form decoding of the CEF host bridge         *)
(* (src/tools/cef_host_bridge/src/main.cpp:157-196), for texts of every    *)
(* length: UrlDecodeStrict and FormLastWins of UrlForm.                    *)
(*                                                                         *)
(* UrlDecode: the argument is local to one byte.  On two bytes whose first *)
(* is neither white space nor a sign, strtol(_, 16) consumes both exactly  *)
(* when both are hex digits, and then yields 16 * hi + lo (StrtolTwo).    *)
(* So at every index the code's decoding step and the spec's agree,        *)
(* whatever the rest of the output is (StepsAgree), and the two recursive  *)
(* functions, having the same definition, are equal: no induction over the *)
(* text is needed.                                                         *)
(*                                                                         *)
(* ParseUrlEncoded: the '&' split is a list of byte texts (SplitAmpType),  *)
(* and each iteration of the pair loop keeps the map last-wins over the    *)
(* pieces seen so far (LastWinsStep); IterExists gives the loop a run,     *)
(* least-counterexample induction makes every state of it last-wins, and   *)
(* LoopUnique shows the recursive function is that run (FoldLastWins).     *)
(***************************************************************************)
EXTENDS UrlForm, LoopInduction, SequenceTheorems, TLAPS

-----------------------------------------------------------------------------
(* The longest prefix in a set, and strtol on two bytes.                   *)

\* PrefixLen is the k that satisfies its two clauses: all of the k bytes
\* from "from" are in P and the next one is not (or the text ends).
LEMMA PrefixExact ==
  ASSUME NEW s \in Seq(Nat), NEW P, NEW from \in Nat \ {0},
         NEW k \in 0..(Len(s) - from + 1),
         \A j \in from..(from + k - 1) : s[j] \in P,
         from + k > Len(s) \/ s[from + k] \notin P
  PROVE  PrefixLen(s, from, P) = k
<1> DEFINE Ok(m) == /\ \A j \in from..(from + m - 1) : s[j] \in P
                    /\ from + m > Len(s) \/ s[from + m] \notin P
<1>1. \A m \in 0..(Len(s) - from + 1) : Ok(m) => m = k
  <2> SUFFICES ASSUME NEW m \in 0..(Len(s) - from + 1), Ok(m), m # k
               PROVE  FALSE
    OBVIOUS
  <2>1. CASE m < k
    <3>1. from + m \in from..(from + k - 1) /\ from + m <= Len(s)
      BY <2>1
    <3>. QED  BY <2>1, <3>1
  <2>2. CASE k < m
    <3>1. from + k \in from..(from + m - 1) /\ from + k <= Len(s)
      BY <2>2
    <3>. QED  BY <2>2, <3>1
  <2>. QED  BY <2>1, <2>2
<1>2. Ok(k)
  OBVIOUS
<1> HIDE DEF Ok
<1>. QED  BY <1>1, <1>2 DEF PrefixLen, Ok

\* strtol(_, 16) on two bytes whose first is neither white space nor a
\* sign consumes both exactly when both are hex digits, and then yields
\* 16 * hi + lo, a byte.
LEMMA StrtolTwo ==
  ASSUME NEW a \in Nat, NEW b \in Nat, a \notin Space \cup {PLUS, MINUS}
  PROVE  /\ Strtol16(<<a, b>>).ok <=> a \in HexDigits /\ b \in HexDigits
         /\ a \in HexDigits /\ b \in HexDigits =>
              Strtol16(<<a, b>>).v = 16 * HexVal(a) + HexVal(b)
<1> DEFINE s == <<a, b>>
<1> SUFFICES /\ Strtol16(s).ok <=> a \in HexDigits /\ b \in HexDigits
             /\ a \in HexDigits /\ b \in HexDigits =>
                  Strtol16(s).v = 16 * HexVal(a) + HexVal(b)
  OBVIOUS
<1>0. s \in Seq(Nat) /\ Len(s) = 2 /\ s[1] = a /\ s[2] = b
  OBVIOUS
<1>1. PrefixLen(s, 1, Space) = 0
  <2>1. /\ s \in Seq(Nat) /\ 1 \in Nat \ {0} /\ 0 \in 0..(Len(s) - 1 + 1)
        /\ \A j \in 1..(1 + 0 - 1) : s[j] \in Space
        /\ 1 + 0 > Len(s) \/ s[1 + 0] \notin Space
    BY <1>0
  <2>. QED  BY ONLY <2>1, PrefixExact
<1>2. PrefixLen(s, 1, HexDigits) =
        IF a \notin HexDigits THEN 0 ELSE IF b \notin HexDigits THEN 1 ELSE 2
  <2>1. CASE a \notin HexDigits
    <3>1. /\ s \in Seq(Nat) /\ 1 \in Nat \ {0} /\ 0 \in 0..(Len(s) - 1 + 1)
          /\ \A j \in 1..(1 + 0 - 1) : s[j] \in HexDigits
          /\ 1 + 0 > Len(s) \/ s[1 + 0] \notin HexDigits
      BY <1>0, <2>1
    <3>2. PrefixLen(s, 1, HexDigits) = 0
      BY ONLY <3>1, PrefixExact
    <3>. QED  BY <2>1, <3>2
  <2>2. CASE a \in HexDigits /\ b \notin HexDigits
    <3>1. /\ s \in Seq(Nat) /\ 1 \in Nat \ {0} /\ 1 \in 0..(Len(s) - 1 + 1)
          /\ \A j \in 1..(1 + 1 - 1) : s[j] \in HexDigits
          /\ 1 + 1 > Len(s) \/ s[1 + 1] \notin HexDigits
      BY <1>0, <2>2
    <3>2. PrefixLen(s, 1, HexDigits) = 1
      BY ONLY <3>1, PrefixExact
    <3>. QED  BY <2>2, <3>2
  <2>3. CASE a \in HexDigits /\ b \in HexDigits
    <3>1. /\ s \in Seq(Nat) /\ 1 \in Nat \ {0} /\ 2 \in 0..(Len(s) - 1 + 1)
          /\ \A j \in 1..(1 + 2 - 1) : s[j] \in HexDigits
          /\ 1 + 2 > Len(s) \/ s[1 + 2] \notin HexDigits
      BY <1>0, <2>3
    <3>2. PrefixLen(s, 1, HexDigits) = 2
      BY ONLY <3>1, PrefixExact
    <3>. QED  BY <2>3, <3>2
  <2>. QED  BY <2>1, <2>2, <2>3
<1> DEFINE ws == PrefixLen(s, 1, Space)
           signed == ws < Len(s) /\ s[ws + 1] \in {PLUS, MINUS}
           p == ws + (IF signed THEN 1 ELSE 0)
           nd == PrefixLen(s, p + 1, HexDigits)
           Eq(M) == M = [k \in 0..nd |-> IF k = 0 THEN 0 ELSE 16 * M[k - 1] + HexVal(s[p + k])]
           mag == (CHOOSE M : Eq(M))[nd]
<1>3. Strtol16(s) = [ok |-> nd > 0 /\ p + nd = Len(s),
                     v |-> IF signed /\ s[ws + 1] = MINUS THEN -mag ELSE mag]
  BY DEF Strtol16
<1>4. ws = 0 /\ ~signed /\ p = 0
  BY <1>0, <1>1
<1>5. nd = IF a \notin HexDigits THEN 0 ELSE IF b \notin HexDigits THEN 1 ELSE 2
  BY <1>2, <1>4
<1>6. a \in HexDigits /\ b \in HexDigits => mag = 16 * HexVal(a) + HexVal(b)
  <2> SUFFICES ASSUME a \in HexDigits, b \in HexDigits
               PROVE  mag = 16 * HexVal(a) + HexVal(b)
    OBVIOUS
  <2>1. nd = 2 /\ p = 0
    BY <1>4, <1>5
  <2> HIDE DEF p, nd
  <2> DEFINE W == [k \in 0..2 |-> IF k = 0 THEN 0 ELSE IF k = 1 THEN HexVal(a)
                                  ELSE 16 * HexVal(a) + HexVal(b)]
  <2>2. Eq(W)
    BY <1>0, <2>1 DEF HexVal
  <2>3. \A M : Eq(M) => M[2] = 16 * HexVal(a) + HexVal(b)
    BY <1>0, <2>1 DEF HexVal
  <2>. QED  BY <2>1, <2>2, <2>3
<1> HIDE DEF s, ws, signed, p, nd, mag
<1>7. Strtol16(s).ok = (nd > 0 /\ p + nd = Len(s)) /\ Strtol16(s).v = mag
  <2>1. Strtol16(s).ok = (nd > 0 /\ p + nd = Len(s))
    BY <1>3
  <2>2. Strtol16(s).v = IF signed /\ s[ws + 1] = MINUS THEN -mag ELSE mag
    BY <1>3
  <2>3. Strtol16(s).v = mag
    BY <1>4, <2>2, Zenon
  <2>. QED  BY <2>1, <2>3
<1>8. Strtol16(s).ok <=> a \in HexDigits /\ b \in HexDigits
  <2>1. (nd > 0 /\ p + nd = Len(s)) <=> a \in HexDigits /\ b \in HexDigits
    BY <1>0, <1>4, <1>5
  <2>. QED  BY <1>7, <2>1, Zenon
<1>. QED  BY <1>6, <1>7, <1>8


\* Two consecutive bytes of a text.
LEMMA SubSeqTwo ==
  ASSUME NEW t \in Seq(Nat), NEW j \in 1..(Len(t) - 1)
  PROVE  SubSeq(t, j, j + 1) = <<t[j], t[j + 1]>>
<1>1. SubSeq(t, j, j + 1) = [k \in 1..2 |-> t[k + j - 1]]
  OBVIOUS
<1>2. <<t[j], t[j + 1]>> = [k \in 1..2 |-> t[k + j - 1]]
  OBVIOUS
<1>. QED  BY <1>1, <1>2

\* A hex digit's value is a nibble.
LEMMA HexValRange ==
  ASSUME NEW c \in HexDigits
  PROVE  HexVal(c) \in 0..15
BY DEF HexDigits, HexVal

\* Two nibbles make a byte, which & 0xFF leaves alone.
LEMMA NibblesByte ==
  ASSUME NEW x \in 0..15, NEW y \in 0..15
  PROVE  (16 * x + y) % 256 = 16 * x + y
OBVIOUS

-----------------------------------------------------------------------------
(* One step of each decoding.                                              *)

\* The output of UrlDecode from byte i on, given D, the output from every
\* later byte (main.cpp:160-175).
CodeStep(D, t, i) ==
  IF i > Len(t) THEN <<>>
  ELSE IF t[i] = PLUS THEN <<SP>> \o D[i + 1]
  ELSE IF t[i] = PCT /\ i + 2 <= Len(t) /\ Strtol16(SubSeq(t, i + 1, i + 2)).ok
       THEN << Strtol16(SubSeq(t, i + 1, i + 2)).v % 256 >> \o D[i + 3]
  ELSE <<t[i]>> \o D[i + 1]

\* The same for the decoding spec.md states.
SpecStep(D, t, i) ==
  IF i > Len(t) THEN <<>>
  ELSE IF t[i] = PLUS THEN <<SP>> \o D[i + 1]
  ELSE IF t[i] = PCT /\ i + 2 <= Len(t)
          /\ t[i + 1] \in HexDigits /\ t[i + 2] \in HexDigits
       THEN << 16 * HexVal(t[i + 1]) + HexVal(t[i + 2]) >> \o D[i + 3]
  ELSE <<t[i]>> \o D[i + 1]

\* The two decodings are their recursive functions at byte 1.
LEMMA DecodeDefs ==
  ASSUME NEW t
  PROVE  /\ UrlDecode(t) =
              (CHOOSE D : D = [i \in 1..(Len(t) + 3) |-> CodeStep(D, t, i)])[1]
         /\ SpecDecode(t) =
              (CHOOSE D : D = [i \in 1..(Len(t) + 3) |-> SpecStep(D, t, i)])[1]
BY DEF UrlDecode, SpecDecode, CodeStep, SpecStep

\* Without a lax escape, the code's step and the spec's give the same
\* output at every byte, whatever the output after it: a '%' is followed
\* by a byte strtol neither skips nor reads as a sign, so strtol takes the
\* two bytes exactly when both are hex digits, and its value is a byte.
LEMMA StepsAgree ==
  ASSUME NEW t \in Seq(Nat), ~LaxEscape(t), NEW D, NEW i \in 1..(Len(t) + 3)
  PROVE  CodeStep(D, t, i) = SpecStep(D, t, i)
<1>1. CASE i > Len(t) \/ t[i] = PLUS
  BY <1>1 DEF CodeStep, SpecStep
<1>2. CASE i <= Len(t) /\ t[i] # PLUS /\ t[i] = PCT /\ i + 2 <= Len(t)
  <2> DEFINE a == t[i + 1]
             b == t[i + 2]
  <2>1. a \notin Space \cup {PLUS, MINUS}
    BY <1>2 DEF LaxEscape
  <2>0. ~(i > Len(t)) /\ i \in Nat /\ i + 1 \in 1..(Len(t) - 1)
    BY <1>2
  <2>2. SubSeq(t, i + 1, i + 2) = <<a, b>> /\ a \in Nat /\ b \in Nat
    <3>1. SubSeq(t, i + 1, i + 1 + 1) = <<t[i + 1], t[i + 1 + 1]>>
      BY <2>0, SubSeqTwo
    <3>. QED  BY <2>0, <3>1
  <2>3. /\ Strtol16(<<a, b>>).ok <=> a \in HexDigits /\ b \in HexDigits
        /\ a \in HexDigits /\ b \in HexDigits =>
             Strtol16(<<a, b>>).v = 16 * HexVal(a) + HexVal(b)
    BY <2>1, <2>2, StrtolTwo
  <2>4. a \in HexDigits /\ b \in HexDigits =>
          (16 * HexVal(a) + HexVal(b)) % 256 = 16 * HexVal(a) + HexVal(b)
    <3> SUFFICES ASSUME a \in HexDigits, b \in HexDigits
                 PROVE  (16 * HexVal(a) + HexVal(b)) % 256 = 16 * HexVal(a) + HexVal(b)
      OBVIOUS
    <3> HIDE DEF a, b
    <3>1. HexVal(a) \in 0..15
      BY HexValRange
    <3>2. HexVal(b) \in 0..15
      BY HexValRange
    <3>. QED  BY <3>1, <3>2, NibblesByte
  <2>5. CodeStep(D, t, i) =
          IF Strtol16(<<a, b>>).ok THEN << Strtol16(<<a, b>>).v % 256 >> \o D[i + 3]
          ELSE <<t[i]>> \o D[i + 1]
    BY <1>2, <2>0, <2>2, Zenon DEF CodeStep
  <2>6. SpecStep(D, t, i) =
          IF a \in HexDigits /\ b \in HexDigits
          THEN << 16 * HexVal(a) + HexVal(b) >> \o D[i + 3]
          ELSE <<t[i]>> \o D[i + 1]
    BY <1>2 DEF SpecStep
  <2> HIDE DEF a, b
  <2>. QED  BY <2>3, <2>4, <2>5, <2>6
<1>3. CASE i <= Len(t) /\ t[i] # PLUS /\ ~(t[i] = PCT /\ i + 2 <= Len(t))
  BY <1>3 DEF CodeStep, SpecStep
<1>. QED  BY <1>1, <1>2, <1>3

\* UrlDecode decodes every text with no lax escape as spec.md says, at
\* every length: the two recursive functions have the same definition.
LEMMA DecodeAgrees ==
  ASSUME NEW t \in Seq(Nat), ~LaxEscape(t)
  PROVE  UrlDecode(t) = SpecDecode(t)
<1> DEFINE Dom == 1..(Len(t) + 3)
<1>1. \A D : [i \in Dom |-> CodeStep(D, t, i)] = [i \in Dom |-> SpecStep(D, t, i)]
  BY StepsAgree
<1>2. (CHOOSE D : D = [i \in Dom |-> CodeStep(D, t, i)])
        = (CHOOSE D : D = [i \in Dom |-> SpecStep(D, t, i)])
  BY <1>1, Zenon
<1>. QED  BY <1>2, DecodeDefs


\* The empty query decodes to the empty text.
LEMMA UrlDecodeEmpty == UrlDecode(<<>>) = <<>>
<1> DEFINE Eq(D) == D = [i \in 1..(Len(<<>>) + 3) |-> CodeStep(D, <<>>, i)]
           W == [i \in 1..3 |-> <<>>]
<1>1. Eq(W)
  BY DEF CodeStep
<1>2. Eq(CHOOSE D : Eq(D))
  BY <1>1
<1>3. \A D : Eq(D) => D[1] = <<>>
  BY DEF CodeStep
<1>4. UrlDecode(<<>>) = (CHOOSE D : Eq(D))[1]
  BY DEF UrlDecode, CodeStep
<1> HIDE DEF Eq
<1>. QED  BY <1>2, <1>3, <1>4

-----------------------------------------------------------------------------
(* The invariant of the requests.                                          *)

\* The text is made of the client's bytes and decoded is its decoding.
DecodeInv == text \in Seq(Alphabet) /\ decoded = UrlDecode(text)

\* Every request keeps it.
LEMMA DecodeInvInductive == Init /\ [][Next]_vars => []DecodeInv
<1>1. Init => DecodeInv
  BY UrlDecodeEmpty DEF Init, DecodeInv
<1>2. DecodeInv /\ [Next]_vars => DecodeInv'
  <2> SUFFICES ASSUME DecodeInv, [Next]_vars PROVE DecodeInv'
    OBVIOUS
  <2>1. ASSUME NEW c \in Alphabet, Parse(c) PROVE DecodeInv'
    BY <2>1 DEF DecodeInv, Parse
  <2>2. CASE NewRequest
    BY <2>2, UrlDecodeEmpty DEF DecodeInv, NewRequest
  <2>3. CASE UNCHANGED vars
    BY <2>3 DEF DecodeInv, vars
  <2>. QED  BY <2>1, <2>2, <2>3 DEF Next
<1>. QED  BY <1>1, <1>2, PTL

\* After any sequence of requests, the query UrlDecode returns is what
\* spec.md says it is whenever the text has no escape starting with a sign
\* or white space, escapes that end the text included (main.cpp:164):
\* UrlDecodeStrict for texts of every length over every alphabet.
THEOREM UrlDecodeProved == Spec => []UrlDecodeStrict
<1>1. DecodeInv => UrlDecodeStrict
  <2> SUFFICES ASSUME DecodeInv, ~LaxEscape(text) PROVE decoded = SpecDecode(text)
    BY DEF UrlDecodeStrict
  <2>1. text \in Seq(Nat)
    <3>1. Alphabet \subseteq Nat
      BY UrlFormAssumption
    <3>2. text \in Seq(Alphabet)
      BY DEF DecodeInv
    <3>. QED  BY <3>1, <3>2, SeqMonotonic
  <2>. QED  BY <2>1, DecodeAgrees DEF DecodeInv
<1>. QED  BY <1>1, DecodeInvInductive, PTL DEF Spec


-----------------------------------------------------------------------------
(* The '&' split.                                                          *)

\* LoopUnique as one formula, for use with abbreviations hidden.
LEMMA LoopUniqueAll ==
  \A X, Y : \A b \in Nat :
    (\A m \in 0..b : (m = 0 \/ X[m - 1] = Y[m - 1]) => X[m] = Y[m])
      => \A m \in 0..b : X[m] = Y[m]
BY LoopUnique

\* The pieces so far: a non-empty list of byte texts.
Pieces == Seq(Seq(Nat)) \ {<<>>}

\* One byte of getline's split: '&' opens a new piece, any other byte
\* goes to the end of the last one.
SplitByte(acc, c) ==
  IF c = AMP THEN Append(acc, <<>>) ELSE [acc EXCEPT ![Len(acc)] = Append(@, c)]

LEMMA SplitByteType ==
  ASSUME NEW acc \in Pieces, NEW c \in Nat
  PROVE  SplitByte(acc, c) \in Pieces
<1>1. Len(acc) \in 1..Len(acc) /\ acc[Len(acc)] \in Seq(Nat)
  BY DEF Pieces
<1>. QED  BY <1>1 DEF SplitByte, Pieces

\* std::getline's split of a text is a non-empty list of byte texts; of
\* the empty text, the one empty piece.
LEMMA SplitAmpType ==
  ASSUME NEW t \in Seq(Nat)
  PROVE  /\ SplitAmp(t) \in Pieces
         /\ t = <<>> => SplitAmp(t) = << <<>> >>
<1> DEFINE n == Len(t)
           Body(A, k) == IF k = 0 THEN << <<>> >>
                         ELSE IF t[k] = AMP THEN Append(A[k - 1], <<>>)
                         ELSE [A[k - 1] EXCEPT ![Len(A[k - 1])] = Append(@, t[k])]
           Eq(A) == A = [k \in 0..n |-> Body(A, k)]
           f == [p \in Pieces \X Nat |-> IF p[2] \in 1..n THEN SplitByte(p[1], t[p[2]]) ELSE p[1]]
<1>0. n \in Nat /\ << <<>> >> \in Pieces
  BY DEF Pieces
<1>1. f \in [Pieces \X Nat -> Pieces]
  BY SplitByteType
<1> HIDE DEF f, n
<1>2. PICK G : IsRun(G, Pieces, << <<>> >>, f, n)
  BY <1>0, <1>1, IterExists
<1>3. G \in [0..n -> Pieces]
  BY <1>2 DEF IsRun
<1>4. ASSUME NEW k \in 0..n PROVE G[k] = Body(G, k)
  <2>1. CASE k = 0
    BY <1>2, <2>1 DEF IsRun
  <2>2. CASE k # 0
    <3>1. k - 1 \in 0..n /\ k \in 1..n
      BY <1>0, <2>2
    <3>2. <<G[k - 1], k>> \in Pieces \X Nat
      BY <1>3, <3>1
    <3>3. f[<<G[k - 1], k>>] = SplitByte(G[k - 1], t[k])
      BY <3>1, <3>2 DEF f
    <3>4. G[k] = f[<<G[k - 1], k>>]
      BY <1>2, <2>2 DEF IsRun
    <3>. QED  BY <2>2, <3>3, <3>4 DEF SplitByte
  <2>. QED  BY <2>1, <2>2
<1>5. Eq(G)
  BY <1>3, <1>4
<1> DEFINE A == CHOOSE A : Eq(A)
<1>6. Eq(A)
  BY <1>5
<1> HIDE DEF A, Eq
<1>7. \A k \in 0..n : A[k] = G[k]
  <2>1. ASSUME NEW k \in 0..n, k = 0 \/ A[k - 1] = G[k - 1] PROVE A[k] = G[k]
    <3>1. A[k] = Body(A, k) /\ G[k] = Body(G, k)
      BY <1>4, <1>6 DEF Eq
    <3>2. Body(A, k) = Body(G, k)
      BY <2>1
    <3>. QED  BY <3>1, <3>2
  <2>2. \A k \in 0..n : (k = 0 \/ A[k - 1] = G[k - 1]) => A[k] = G[k]
    BY <2>1
  <2>3. n \in Nat
    BY <1>0
  <2>4. \A b \in Nat :
          (\A m \in 0..b : (m = 0 \/ A[m - 1] = G[m - 1]) => A[m] = G[m])
            => \A m \in 0..b : A[m] = G[m]
    BY LoopUniqueAll
  <2>5. (\A m \in 0..n : (m = 0 \/ A[m - 1] = G[m - 1]) => A[m] = G[m])
          => \A m \in 0..n : A[m] = G[m]
    BY <2>3, <2>4
  <2>. QED  BY <2>2, <2>5
<1>8. SplitAmp(t) = A[n]
  BY DEF SplitAmp, A, Eq, n
<1>9. SplitAmp(t) = G[n] /\ G[n] \in Pieces
  BY <1>0, <1>3, <1>7, <1>8
<1>10. t = <<>> => G[n] = << <<>> >>
  <2>1. t = <<>> => n = 0
    BY DEF n
  <2>2. G[0] = << <<>> >>
    <3>1. 0 \in 0..n
      BY <1>0
    <3>. QED  BY <1>2, <3>1, Zenon DEF IsRun
  <2>. QED  BY <2>1, <2>2
<1>. QED  BY <1>9, <1>10


-----------------------------------------------------------------------------
(* The loop over the pairs.                                                *)

\* The non-empty pieces among the first k.
NonEmpty(ps, k) == {j \in 1..k : ps[j] # <<>>}

\* m is what the first k pieces make of the map: its keys are their
\* decoded keys, and each key holds the value of the last pair with it.
LastWins(ps, k, m) ==
  /\ DOMAIN m = {PairKey(ps[j]) : j \in NonEmpty(ps, k)}
  /\ \A j \in NonEmpty(ps, k) :
       (\A l \in NonEmpty(ps, k) : l > j => PairKey(ps[l]) # PairKey(ps[j]))
         => m[PairKey(ps[j])] = PairValue(ps[j])

\* One iteration of ParseUrlEncoded's loop: skip an empty piece, else
\* out[key] = value.
PairStep(ps, k, m) ==
  IF ps[k] = <<>> THEN m ELSE Put(m, PairKey(ps[k]), PairValue(ps[k]))

\* The map before the first pair.
LEMMA LastWinsZero ==
  ASSUME NEW ps
  PROVE  LastWins(ps, 0, [x \in {} |-> <<>>])
BY DEF LastWins, NonEmpty

\* Each iteration keeps the map last-wins: a new key is added with its
\* value, a key given again is overwritten, and no other key changes.
LEMMA LastWinsStep ==
  ASSUME NEW ps \in Seq(Seq(Nat)), NEW k \in 1..Len(ps), NEW m,
         LastWins(ps, k - 1, m)
  PROVE  LastWins(ps, k, PairStep(ps, k, m))
<1> DEFINE J0 == NonEmpty(ps, k - 1)
           J1 == NonEmpty(ps, k)
           key(j) == PairKey(ps[j])
           val(j) == PairValue(ps[j])
<1>0. DOMAIN m = {key(j) : j \in J0}
      /\ \A j \in J0 : (\A l \in J0 : l > j => key(l) # key(j)) => m[key(j)] = val(j)
  BY DEF LastWins
<1>1. CASE ps[k] = <<>>
  <2>1. J1 = J0
    BY <1>1 DEF NonEmpty
  <2>2. PairStep(ps, k, m) = m
    BY <1>1 DEF PairStep
  <2>. QED  BY <1>0, <2>1, <2>2 DEF LastWins
<1>2. CASE ps[k] # <<>>
  <2> DEFINE m1 == Put(m, key(k), val(k))
  <2>1. J1 = J0 \cup {k} /\ k \notin J0 /\ \A j \in J0 : j < k
    BY <1>2 DEF NonEmpty
  <2>2. PairStep(ps, k, m) = m1
    BY <1>2 DEF PairStep
  <2>3. DOMAIN m1 = {key(j) : j \in J1}
    BY <1>0, <2>1 DEF Put
  <2>4. ASSUME NEW j \in J1, \A l \in J1 : l > j => key(l) # key(j)
        PROVE  m1[key(j)] = val(j)
    <3>1. CASE j = k
      BY <3>1 DEF Put
    <3>2. CASE j # k
      <4>1. j \in J0 /\ k > j
        BY <2>1, <3>2
      <4>2. key(k) # key(j)
        BY <2>1, <2>4, <4>1
      <4>3. \A l \in J0 : l > j => key(l) # key(j)
        BY <2>1, <2>4
      <4>4. m[key(j)] = val(j)
        BY <1>0, <4>1, <4>3
      <4>5. m1[key(j)] = m[key(j)]
        BY <1>0, <4>1, <4>2 DEF Put
      <4>. QED  BY <4>4, <4>5
    <3>. QED  BY <3>1, <3>2
  <2> HIDE DEF m1
  <2>. QED  BY <2>2, <2>3, <2>4 DEF LastWins
<1>. QED  BY <1>1, <1>2


\* out[key] = value keeps out a map from keys to values.
LEMMA PutType ==
  ASSUME NEW K, NEW V, NEW m \in UNION {[D -> V] : D \in SUBSET K},
         NEW k \in K, NEW v \in V
  PROVE  Put(m, k, v) \in UNION {[D -> V] : D \in SUBSET K}
<1>1. PICK D \in SUBSET K : m \in [D -> V]
  OBVIOUS
<1>2. Put(m, k, v) \in [D \cup {k} -> V]
  BY <1>1 DEF Put
<1>. QED  BY <1>1, <1>2

\* ParseUrlEncoded's loop over the pieces of a split.
FoldPairs(ps) ==
  LET F[k \in 0..Len(ps)] ==
        IF k = 0 THEN [x \in {} |-> <<>>]
        ELSE IF ps[k] = <<>> THEN F[k - 1]
        ELSE Put(F[k - 1], PairKey(ps[k]), PairValue(ps[k]))
  IN  F[Len(ps)]

LEMMA ParseIsFold ==
  ASSUME NEW t
  PROVE  ParseUrlEncoded(t) = FoldPairs(SplitAmp(t))
BY DEF ParseUrlEncoded, FoldPairs

\* The loop over any list of pieces ends last-wins.
LEMMA FoldLastWins ==
  ASSUME NEW ps \in Seq(Seq(Nat))
  PROVE  LastWins(ps, Len(ps), FoldPairs(ps))
<1> DEFINE n == Len(ps)
           Keys == {PairKey(ps[j]) : j \in 1..n}
           Vals == {PairValue(ps[j]) : j \in 1..n}
           Maps == UNION {[D -> Vals] : D \in SUBSET Keys}
           empty == [x \in {} |-> <<>>]
           Eq(F) == F = [k \in 0..n |->
                           IF k = 0 THEN empty
                           ELSE IF ps[k] = <<>> THEN F[k - 1]
                           ELSE Put(F[k - 1], PairKey(ps[k]), PairValue(ps[k]))]
           f == [p \in Maps \X Nat |-> IF p[2] \in 1..n THEN PairStep(ps, p[2], p[1]) ELSE p[1]]
<1>0. n \in Nat /\ empty \in Maps
  <2>1. empty \in [{} -> Vals] /\ {} \in SUBSET Keys
    OBVIOUS
  <2>2. empty \in Maps
    BY <2>1, Zenon
  <2>3. n \in Nat
    OBVIOUS
  <2>. QED  BY <2>2, <2>3, Zenon
<1>1. f \in [Maps \X Nat -> Maps]
  <2>1. ASSUME NEW m \in Maps, NEW k \in 1..n PROVE PairStep(ps, k, m) \in Maps
    <3>1. PairKey(ps[k]) \in Keys /\ PairValue(ps[k]) \in Vals
      OBVIOUS
    <3>2. Put(m, PairKey(ps[k]), PairValue(ps[k])) \in Maps
      BY <3>1, PutType
    <3>. QED  BY <3>2 DEF PairStep
  <2>. QED  BY <2>1
<1> HIDE DEF f, n, Maps, empty
<1>2. PICK G : IsRun(G, Maps, empty, f, n)
  BY <1>0, <1>1, IterExists
<1>3. G \in [0..n -> Maps] /\ G[0] = empty
  <2>1. 0 \in 0..n
    BY <1>0
  <2>. QED  BY <1>2, <2>1, Zenon DEF IsRun
<1>4. ASSUME NEW k \in 1..n PROVE G[k] = PairStep(ps, k, G[k - 1])
  <2>1. <<G[k - 1], k>> \in Maps \X Nat /\ k \in 1..n
    BY <1>0, <1>3
  <2>2. G[k] = f[<<G[k - 1], k>>]
    BY <1>0, <1>2 DEF IsRun
  <2>. QED  BY <2>1, <2>2 DEF f
<1>5. \A k \in 0..n : LastWins(ps, k, G[k])
  <2> DEFINE S == {k \in 0..n : ~LastWins(ps, k, G[k])}
  <2> SUFFICES ASSUME S # {} PROVE FALSE
    OBVIOUS
  <2>1. S \in SUBSET Nat
    BY <1>0
  <2> DEFINE m0 == Least(S)
  <2>2. m0 \in S /\ \A j \in S : m0 <= j
    BY <2>1, LeastIsLeast
  <2>3. m0 # 0
    <3>1. LastWins(ps, 0, G[0])
      <4>1. LastWins(ps, 0, empty)
        BY LastWinsZero DEF empty
      <4>. QED  BY <1>3, <4>1, Zenon
    <3>. QED  BY <2>2, <3>1, Zenon
  <2>4. m0 \in 1..n /\ m0 - 1 \in 0..n /\ m0 - 1 \notin S
    <3>1. S \subseteq 0..n
      OBVIOUS
    <3> HIDE DEF S
    <3>2. m0 \in 1..n /\ m0 - 1 \in 0..n
      <4>1. m0 \in 0..n
        BY <2>2, <3>1, Zenon
      <4>2. n \in Nat
        BY <1>0
      <4> HIDE DEF m0
      <4>. QED  BY <2>3, <4>1, <4>2
    <3>3. m0 - 1 \notin S
      BY <1>0, <2>2, <3>2
    <3>. QED  BY <3>2, <3>3
  <2>5. LastWins(ps, m0 - 1, G[m0 - 1])
    BY <2>4, Zenon
  <2>6. LastWins(ps, m0, PairStep(ps, m0, G[m0 - 1]))
    BY <1>0, <2>4, <2>5, LastWinsStep DEF n
  <2>. QED  BY <1>4, <2>2, <2>4, <2>6
<1>6. Eq(G)
  <2>1. ASSUME NEW k \in 0..n
        PROVE  G[k] = IF k = 0 THEN empty
                      ELSE IF ps[k] = <<>> THEN G[k - 1]
                      ELSE Put(G[k - 1], PairKey(ps[k]), PairValue(ps[k]))
    BY <1>3, <1>4 DEF PairStep
  <2>. QED  BY <1>3, <2>1
<1> DEFINE A == CHOOSE F : Eq(F)
<1>7. Eq(A)
  BY <1>6
<1> HIDE DEF A, Eq
<1>8. \A k \in 0..n : A[k] = G[k]
  <2>1. ASSUME NEW k \in 0..n, k = 0 \/ A[k - 1] = G[k - 1] PROVE A[k] = G[k]
    BY <1>6, <1>7, <2>1 DEF Eq
  <2>2. \A k \in 0..n : (k = 0 \/ A[k - 1] = G[k - 1]) => A[k] = G[k]
    BY <2>1
  <2>3. n \in Nat
    BY <1>0
  <2>4. \A b \in Nat :
          (\A m \in 0..b : (m = 0 \/ A[m - 1] = G[m - 1]) => A[m] = G[m])
            => \A m \in 0..b : A[m] = G[m]
    BY LoopUniqueAll
  <2>5. (\A m \in 0..n : (m = 0 \/ A[m - 1] = G[m - 1]) => A[m] = G[m])
          => \A m \in 0..n : A[m] = G[m]
    BY <2>3, <2>4
  <2>. QED  BY <2>2, <2>5
<1>9. FoldPairs(ps) = A[n]
  BY DEF FoldPairs, A, Eq, n, empty
<1>. QED  BY <1>0, <1>5, <1>8, <1>9 DEF n


\* ParseUrlEncoded of every text is last-wins over the text's pieces.
LEMMA ParseLastWins ==
  ASSUME NEW t \in Seq(Nat)
  PROVE  LastWins(SplitAmp(t), Len(SplitAmp(t)), ParseUrlEncoded(t))
<1>1. SplitAmp(t) \in Seq(Seq(Nat))
  BY SplitAmpType DEF Pieces
<1>. QED  BY <1>1, FoldLastWins, ParseIsFold

\* The empty query's one empty piece leaves the map empty.
LEMMA EmptyLastWins ==
  LastWins(<< <<>> >>, 1, [x \in {} |-> <<>>])
<1>1. NonEmpty(<< <<>> >>, 1) = {}
  BY DEF NonEmpty
<1>. QED  BY <1>1, Zenon DEF LastWins

-----------------------------------------------------------------------------
(* The invariant of the form.                                              *)

\* The text is made of the client's bytes and the form is last-wins over
\* its pieces.
FormInv ==
  /\ text \in Seq(Alphabet)
  /\ LastWins(SplitAmp(text), Len(SplitAmp(text)), form)

LEMMA TextNat ==
  ASSUME NEW s \in Seq(Alphabet)
  PROVE  s \in Seq(Nat)
<1>1. Alphabet \subseteq Nat
  BY UrlFormAssumption
<1>. QED  BY <1>1, SeqMonotonic

\* The empty query's form is last-wins.
LEMMA EmptyForm ==
  LastWins(SplitAmp(<<>>), Len(SplitAmp(<<>>)), [x \in {} |-> <<>>])
<1>1. SplitAmp(<<>>) = << <<>> >>
  <2>1. <<>> \in Seq(Nat)
    OBVIOUS
  <2>. QED  BY <2>1, SplitAmpType, Zenon
<1>2. Len(<< <<>> >>) = 1
  OBVIOUS
<1>. QED  BY <1>1, <1>2, EmptyLastWins

\* Every request keeps it.
LEMMA FormInvInductive == Init /\ [][Next]_vars => []FormInv
<1>1. Init => FormInv
  BY EmptyForm DEF Init, FormInv
<1>2. FormInv /\ [Next]_vars => FormInv'
  <2> SUFFICES ASSUME FormInv, [Next]_vars PROVE FormInv'
    OBVIOUS
  <2>1. ASSUME NEW c \in Alphabet, Parse(c) PROVE FormInv'
    <3>1. text' \in Seq(Alphabet)
      BY <2>1 DEF FormInv, Parse
    <3>2. form' = ParseUrlEncoded(text')
      BY <2>1 DEF Parse
    <3>. QED  BY <3>1, <3>2, TextNat, ParseLastWins DEF FormInv
  <2>2. CASE NewRequest
    BY <2>2, EmptyForm DEF FormInv, NewRequest
  <2>3. CASE UNCHANGED vars
    BY <2>3 DEF FormInv, vars
  <2>. QED  BY <2>1, <2>2, <2>3 DEF Next
<1>. QED  BY <1>1, <1>2, PTL

\* After any sequence of requests, the form ParseUrlEncoded returns maps
\* exactly the decoded keys of the non-empty pairs, each to the value of
\* the last pair with that key (main.cpp:180-196, spec.md 4.1):
\* FormLastWins for texts of every length over every alphabet.
THEOREM FormLastWinsProved == Spec => []FormLastWins
<1>1. FormInv => FormLastWins
  <2> SUFFICES ASSUME FormInv PROVE FormLastWins
    OBVIOUS
  <2> DEFINE ps == SplitAmp(text)
  <2>1. ps \in Seq(Seq(Nat))
    BY TextNat, SplitAmpType DEF FormInv, Pieces
  <2>2. {j \in DOMAIN ps : ps[j] # <<>>} = NonEmpty(ps, Len(ps))
    BY <2>1 DEF NonEmpty
  <2>3. LastWins(ps, Len(ps), form)
    BY DEF FormInv
  <2> HIDE DEF ps
  <2>. QED  BY <2>2, <2>3 DEF FormLastWins, LastWins, ps
<1>. QED  BY <1>1, FormInvInductive, PTL DEF Spec

=============================================================================
