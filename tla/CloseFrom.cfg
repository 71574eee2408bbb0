CONSTANTS
  File = File
  Dir = Dir
  Closed = Closed
  MaxFd = 4
  IntMax <- MCIntMax
  LongMax <- MCLongMax
  Args <- Ordinary
  HardLimits <- EnoughLimit
  ProcMayFail = TRUE
  LimitMayFail = TRUE

SPECIFICATION Spec
INVARIANT TypeOK
INVARIANT AllClosed
INVARIANT LowerKept
INVARIANT StopsAtFirst
PROPERTY Terminates
\* The call ends.
CHECK_DEADLOCK FALSE
