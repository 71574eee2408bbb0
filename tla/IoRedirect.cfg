CONSTANTS
  p1 = p1
  p2 = p2
  a = a
  c = c
  tty = tty
  Closed = Closed
  MaxFd = 3
  Procs <- TwoProcs
  Names <- TwoNames
  Denied <- DeniedNames
  Inherited <- Ttys
  Tables <- StdOpen
  MaxRequests = 3
  DupMayFail = TRUE

SPECIFICATION Spec
INVARIANT TypeOK
INVARIANT NoLeak
INVARIANT OldFileRefused
PROPERTY PromiseKept
\* The processes stop after their last request.
CHECK_DEADLOCK FALSE
