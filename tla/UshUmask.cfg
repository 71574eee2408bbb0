CONSTANTS
  Tokens <- MCTokens
  Uses <- MCUses
  MaxScans = 1
  Unusable <- MCUnusable
  Masks <- MCMasks
  OptErrLimit = 1

SPECIFICATION UshSpec
INVARIANT MaskAsReported
\* A loop that has ended stops.
CHECK_DEADLOCK FALSE
