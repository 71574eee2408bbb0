CONSTANTS
  Tokens <- MCTokens
  Uses <- MCUses
  MaxScans = 2

SPECIFICATION Spec
INVARIANT TypeOK
INVARIANT InBounds
INVARIANT ExchangeRotates
INVARIANT ParsedRight
PROPERTY ScanReturns
\* A caller whose last scan has ended makes no more calls.
CHECK_DEADLOCK FALSE
