CONSTANTS
  HeaderLengths = {0, 5, 6}
  Lengths = {13, 14, 34, 42, 54, 58, 62}
  Cuts = {13, 14, 20, 34, 38, 54}
  MaxCuts = 2
  Unit = 185
  MaxFragments = 3
SPECIFICATION Spec
CHECK_DEADLOCK FALSE
INVARIANT DeniedStaysOut
INVARIANT JudgesItsHeaders
