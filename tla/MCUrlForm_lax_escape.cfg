CONSTANTS
  Alphabet <- MCAlphabet
  MaxLen = 5
SPECIFICATION Spec
INVARIANT
  UrlDecodeMatchesSpec
