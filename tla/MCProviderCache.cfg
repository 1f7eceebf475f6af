SPECIFICATION Spec
CONSTANTS
  Provider = {"google", "aws"}
  Version = {1, 2}
  MaxEdition = 2
  Session = {s1, s2}
  nopVerifier = FALSE
  allowSrcDownload = TRUE
SYMMETRY SessionsAlike
CONSTRAINT Bounds
INVARIANTS
  NeverMixed
  FoundVersionLoads
  CachedIsOwnAndWhole
