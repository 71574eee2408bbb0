CONSTANTS
  Scripts <- MCScripts
  Operands <- MCOperands
  Given <- MCGiven
  Comments <- MCComments
  Meaning <- MCMeaning
  Grow = 2
  MayFail = TRUE
  MaxCalls = 2
  NULL = NULL
  Lost = Lost

SPECIFICATION Spec
INVARIANT TypeOK
INVARIANT InCapacity
INVARIANT ArgsRight
INVARIANT StringsFreed
PROPERTY ScriptEnds
\* A process that makes no more calls or has become the program stops.
CHECK_DEADLOCK FALSE
