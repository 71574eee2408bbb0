CONSTANTS
  home = home
  tmp = tmp
  a = a
  x = x
  one = one
  tty = tty
  NoDir = NoDir
  None = None
  Unset = Unset
  Garbage = Garbage
  ScriptFile = ScriptFile
  Closed = Closed
  Inherited <- Ttys
  MaxCalls = 1
  MaxOptions = 3
  OptErrLimit = 1
  Dirs <- HomeAndTmp
  Names <- JustA
  Masks <- ZeroMask
  Vars <- NoVars
  Values <- JustOne
  Lowest <- NoLowest
  Tables <- StdOpen
  UseScripts = FALSE
  ExitCodes <- TwoCodes
  Signals <- NoSignals
  ExecErrnos <- OneErrno
  ForkMayFail = FALSE
  MaxFd = 4

SPECIFICATION Spec
INVARIANT CallerUntouched
\* A process that has exited or become the program, or that makes no more
\* calls, stops.
CHECK_DEADLOCK FALSE
