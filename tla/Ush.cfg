CONSTANTS
  home = home
  tmp = tmp
  a = a
  x = x
  one = one
  tty = tty
  NoDir = NoDir
  None = None
  Unset = Unset
  Garbage = Garbage
  ScriptFile = ScriptFile
  Closed = Closed
  Inherited <- Ttys
  MaxCalls = 2
  MaxOptions = 3
  OptErrLimit = 1
  Dirs <- HomeAndTmp
  Names <- JustA
  Masks <- TwoMasks
  Vars <- JustX
  Values <- JustOne
  Lowest <- From3Or4
  Tables <- StdOpen
  UseScripts = TRUE
  ExitCodes <- TwoCodes
  Signals <- OneSignal
  ExecErrnos <- OneErrno
  ForkMayFail = TRUE
  MaxFd = 4

SPECIFICATION Spec
INVARIANT TypeOK
INVARIANT HonestStatus
INVARIANT NoScriptLeft
PROPERTY PromiseKept
PROPERTY UshEnds
\* A process that has exited or become the program, or that makes no more
\* calls, stops.
CHECK_DEADLOCK FALSE
