------------------------------- MODULE UrlForm -------------------------------
(***************************************************************************)
(* The query-string and form decoding of the CEF host bridge               *)
(* (src/tools/cef_host_bridge/src/main.cpp): UrlDecode and                 *)
(* ParseUrlEncoded, the two pure functions ParseHttpRequest applies to the *)
(* query after '?' and to an application/x-www-form-urlencoded body.  Text *)
(* is a sequence of byte values.  Each step parses one text a client may   *)
(* send; the properties compare the result with what spec.md (4.1, 8)      *)
(* says the decoding is.                                                   *)
(***************************************************************************)
EXTENDS Integers, Sequences

CONSTANTS
  Alphabet,   \* the bytes a client's text is made of
  MaxLen      \* the longest text tried

ASSUME UrlFormAssumption ==
  /\ Alphabet \subseteq 1..255
  /\ MaxLen \in Nat

\* '%', '+', '-', ' ', '&' and '='.
PCT == 37
PLUS == 43
MINUS == 45
SP == 32
AMP == 38
EQ == 61

\* isspace in the C locale, and the digits strtol accepts in base 16.
Space == {9, 10, 11, 12, 13, SP}
HexDigits == (48..57) \cup (65..70) \cup (97..102)
HexVal(c) == IF c <= 57 THEN c - 48 ELSE IF c <= 70 THEN c - 55 ELSE c - 87

\* The number of bytes of s, from index from on, that are in P.
PrefixLen(s, from, P) ==
  CHOOSE k \in 0..(Len(s) - from + 1) :
    /\ \A j \in from..(from + k - 1) : s[j] \in P
    /\ from + k > Len(s) \/ s[from + k] \notin P

\* std::strtol(s, &end, 16) on a NUL-free s: skip white space, take an
\* optional sign, then the longest run of hex digits (a "0x" prefix needs
\* a digit after it, which two bytes cannot hold).  ok is *end == '\0':
\* all of s was consumed; with no digit at all end is s itself.
Strtol16(s) ==
  LET ws == PrefixLen(s, 1, Space)
      signed == ws < Len(s) /\ s[ws + 1] \in {PLUS, MINUS}
      p == ws + (IF signed THEN 1 ELSE 0)
      nd == PrefixLen(s, p + 1, HexDigits)
      M[k \in 0..nd] == IF k = 0 THEN 0 ELSE 16 * M[k - 1] + HexVal(s[p + k])
      mag == M[nd]
  IN  [ok |-> nd > 0 /\ p + nd = Len(s),
       v |-> IF signed /\ s[ws + 1] = MINUS THEN -mag ELSE mag]

\* Mutant: the bound test is i + 2 <= size, so a '%' one byte before the
\* end takes the one byte substr(i + 1, 2) returns as its escape.
UrlDecodeLastAtEnd(t) ==
  LET D[i \in 1..(Len(t) + 3)] ==
        IF i > Len(t) THEN <<>>
        ELSE IF t[i] = PLUS THEN <<SP>> \o D[i + 1]
        ELSE IF t[i] = PCT /\ i + 1 <= Len(t)
                /\ Strtol16(SubSeq(t, i + 1, IF i + 2 <= Len(t) THEN i + 2 ELSE i + 1)).ok
             THEN << Strtol16(SubSeq(t, i + 1, IF i + 2 <= Len(t) THEN i + 2 ELSE i + 1)).v % 256 >>
                  \o D[i + 3]
        ELSE <<t[i]>> \o D[i + 1]
  IN  D[1]

\* UrlDecode: '+' is a space; '%' with two more bytes is replaced by
\* strtol(hex, 16) & 0xFF when strtol consumes both bytes; any other byte
\* is copied.  D[i] is the output from byte i on (i is 1-based here, so
\* the code's i + 2 < size is i + 2 <= Len(t)).
UrlDecode(t) ==
  LET D[i \in 1..(Len(t) + 3)] ==
        IF i > Len(t) THEN <<>>
        ELSE IF t[i] = PLUS THEN <<SP>> \o D[i + 1]
        ELSE IF t[i] = PCT /\ i + 2 <= Len(t) /\ Strtol16(SubSeq(t, i + 1, i + 2)).ok
             THEN << Strtol16(SubSeq(t, i + 1, i + 2)).v % 256 >> \o D[i + 3]
        ELSE <<t[i]>> \o D[i + 1]
  IN  D[1]

\* std::getline(ss, pair, '&') over the text: the pieces between '&'s;
\* A[k] holds the pieces of the first k bytes, the last one still open.
\* A last empty piece (text ending in '&') is one getline does not
\* return; every empty piece is skipped below, so it makes no difference.
SplitAmp(t) ==
  LET A[k \in 0..Len(t)] ==
        IF k = 0 THEN << <<>> >>
        ELSE IF t[k] = AMP THEN Append(A[k - 1], <<>>)
        ELSE [A[k - 1] EXCEPT ![Len(A[k - 1])] = Append(@, t[k])]
  IN  A[Len(t)]

\* The key and value a non-empty pair contributes: split at the first
\* '='; a pair without '=' has the empty value.
PairKey(p) ==
  LET eq == PrefixLen(p, 1, (0..255) \ {EQ}) IN UrlDecode(SubSeq(p, 1, eq))
PairValue(p) ==
  LET eq == PrefixLen(p, 1, (0..255) \ {EQ})
  IN  IF eq = Len(p) THEN <<>> ELSE UrlDecode(SubSeq(p, eq + 2, Len(p)))

\* The map with key k set to v.
Put(m, k, v) == [x \in DOMAIN m \cup {k} |-> IF x = k THEN v ELSE m[x]]

\* Mutant: the pair is inserted only if its key is new (map::emplace).
ParseFirstWins(t) ==
  LET ps == SplitAmp(t)
      F[k \in 0..Len(ps)] ==
        IF k = 0 THEN [x \in {} |-> <<>>]
        ELSE IF ps[k] = <<>> \/ PairKey(ps[k]) \in DOMAIN F[k - 1] THEN F[k - 1]
        ELSE Put(F[k - 1], PairKey(ps[k]), PairValue(ps[k]))
  IN  F[Len(ps)]

\* ParseUrlEncoded: out[key] = value for each non-empty pair in order;
\* F[k] is the map after the first k pieces.
ParseUrlEncoded(t) ==
  LET ps == SplitAmp(t)
      F[k \in 0..Len(ps)] ==
        IF k = 0 THEN [x \in {} |-> <<>>]
        ELSE IF ps[k] = <<>> THEN F[k - 1]
        ELSE Put(F[k - 1], PairKey(ps[k]), PairValue(ps[k]))
  IN  F[Len(ps)]

-----------------------------------------------------------------------------

VARIABLES
  text,       \* the query or body a client sent
  decoded,    \* UrlDecode(text)
  form        \* ParseUrlEncoded(text)

vars == <<text, decoded, form>>

Init == text = <<>> /\ decoded = <<>> /\ form = [x \in {} |-> <<>>]

\* ParseHttpRequest meets the text t: the texts are tried in order of
\* length, each one the last with a byte c added.
Parse(c) ==
  /\ Len(text) < MaxLen
  /\ text' = Append(text, c)
  /\ decoded' = UrlDecode(text')
  /\ form' = ParseUrlEncoded(text')

\* The next request starts from an empty query.
NewRequest ==
  /\ text # <<>>
  /\ text' = <<>> /\ decoded' = <<>> /\ form' = [x \in {} |-> <<>>]

Next == (\E c \in Alphabet : Parse(c)) \/ NewRequest

Spec == Init /\ [][Next]_vars

-----------------------------------------------------------------------------
(* What spec.md says the decoding is.                                      *)

\* spec.md: "%XY (valid hex) decodes to byte XY; + decodes to space;
\* invalid % sequences pass through unchanged."
SpecDecode(t) ==
  LET D[i \in 1..(Len(t) + 3)] ==
        IF i > Len(t) THEN <<>>
        ELSE IF t[i] = PLUS THEN <<SP>> \o D[i + 1]
        ELSE IF t[i] = PCT /\ i + 2 <= Len(t)
                /\ t[i + 1] \in HexDigits /\ t[i + 2] \in HexDigits
             THEN << 16 * HexVal(t[i + 1]) + HexVal(t[i + 2]) >> \o D[i + 3]
        ELSE <<t[i]>> \o D[i + 1]
  IN  D[1]

\* A '%' whose next two bytes a strict hex parser refuses but strtol takes:
\* a sign or white space first.
LaxEscape(t) ==
  \E i \in 1..(Len(t) - 2) : t[i] = PCT /\ t[i + 1] \in Space \cup {PLUS, MINUS}

\* UrlDecode decodes as the spec says every text that has no escape
\* starting with a sign or a space: escapes at the very end of the text
\* included (main.cpp:164, the i + 2 < size bound).
UrlDecodeStrict ==
  ~LaxEscape(text) => decoded = SpecDecode(text)

\* UrlDecode decodes every text as the spec says; in particular a
\* malformed escape such as "%-1" or "% F" passes through unchanged
\* (main.cpp:164-172, which hands the two bytes to strtol).
UrlDecodeMatchesSpec ==
  decoded = SpecDecode(text)

\* spec.md 4.1: each key maps to the decoded value of the last pair with
\* that decoded key, a pair without '=' giving the empty value, and the
\* keys are exactly the decoded keys of the non-empty pairs
\* (main.cpp:180-196).
FormLastWins ==
  LET ps == SplitAmp(text)
      J == {j \in DOMAIN ps : ps[j] # <<>>}
  IN  /\ DOMAIN form = {PairKey(ps[j]) : j \in J}
      /\ \A j \in J :
           (\A l \in J : l > j => PairKey(ps[l]) # PairKey(ps[j]))
             => form[PairKey(ps[j])] = PairValue(ps[j])

=============================================================================
