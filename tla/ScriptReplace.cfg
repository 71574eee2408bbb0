CONSTANTS
  Scripts <- ReplaceScripts
  Operands <- MCOperands
  Given <- MCGiven
  Comments <- MCComments
  Meaning <- MCMeaning
  Grow = 2
  MayFail = FALSE
  MaxCalls = 1
  NULL = NULL
  Lost = Lost

SPECIFICATION Spec
INVARIANT ReplaceAsGiven
\* A process that makes no more calls or has become the program stops.
CHECK_DEADLOCK FALSE
