CONSTANTS
  MaxCalls = 3
  Others <- OneOther
  ExitCodes <- MCExitCodes
  Signals <- MCSignals
  ExecErrnos <- MCExecErrnos
  ForkMayFail = TRUE

SPECIFICATION Spec
INVARIANT TypeOK
INVARIANT StatusIsChilds
INVARIANT NoChildLeft
INVARIANT BadStatusIsReal
PROPERTY CallEnds
\* A returned last call and a replaced process have nothing more to do.
CHECK_DEADLOCK FALSE
