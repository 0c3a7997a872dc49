SPECIFICATION ParseSpec
CONSTANTS
  Tried <- MCTried
  Initial <- MCInitial
  Number <- MCNumber
  Address <- MCAddress
  Pairs <- MCPairs
  Dotted <- MCDotted
  Numerals <- MCNumerals
  Probes <- MCProbes
  NULL = NULL
INVARIANTS MeansWhatItSays TakesEveryRule LaxOnlyInPlaces
CHECK_DEADLOCK FALSE
