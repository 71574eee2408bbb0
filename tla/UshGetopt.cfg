CONSTANTS
  Tokens <- MCTokens
  Uses <- MCUses
  MaxScans = 1
  Unusable <- MCUnusable
  Masks <- MCMasks
  OptErrLimit = 1

SPECIFICATION UshSpec
INVARIANT UshTypeOK
INVARIANT MaskRight
INVARIANT EnvRight
INVARIANT InOrder
INVARIANT CommandRight
\* A loop that has ended stops.
CHECK_DEADLOCK FALSE
