--------------------------- MODULE CloseFrom_proofs ---------------------------
(***************************************************************************)
(* For every table of descriptors, every width of int and every hard       *)
(* limit: close_from() closes all it should and nothing else, or stops at  *)
(* the first close() that fails, as long as the argument is an int below   *)
(* INT_MAX and the limit covers the table.                                 *)
(***************************************************************************)
EXTENDS CloseFrom, TLAPS

ArgsFit == Args \subseteq -1 .. IntMax - 1

LimitsCover == \A l \in HardLimits : l > MaxFd

\* An int is converted to itself.
LEMMA ToIntFits ==
  ASSUME NEW x \in 0 .. IntMax
  PROVE  ToInt(x) = x
<1>1. x + IntMax + 1 \in 0 .. 2 * IntMax + 1
  BY CloseFromAssumption
<1>2. (x + IntMax + 1) % (2 * IntMax + 2) = x + IntMax + 1
  BY <1>1, CloseFromAssumption
<1> QED
  BY <1>2, CloseFromAssumption DEF ToInt

LEMMA ToIntIsInt ==
  ASSUME NEW x \in Int
  PROVE  ToInt(x) \in Int
BY CloseFromAssumption DEF ToInt

\* For arguments that fit, the first close() is of the argument and the walk
\* starts right above it.
LEMMA ArgumentKept ==
  ASSUME NEW a \in 0 .. IntMax - 1
  PROVE  atoi(a) = a /\ ToInt(atoi(a) + 1) = a + 1
<1>1. a <= LongMax
  BY CloseFromAssumption
<1>2. atoi(a) = a
  BY <1>1, ToIntFits, CloseFromAssumption DEF atoi
<1> QED
  BY <1>2, ToIntFits, CloseFromAssumption

LEMMA WithoutFdShape ==
  ASSUME NEW f, fds \in [Fds -> {File, Dir, Closed}]
  PROVE  /\ WithoutFd(f) \in [Fds -> {File, Dir, Closed}]
         /\ \A g \in Fds : WithoutFd(f)[g] = IF g = f THEN Closed ELSE fds[g]
BY DEF WithoutFd, CloseFd

\* Every state of every behaviour is well typed, whatever the arguments.
THEOREM Typed == Spec => []TypeOK
<1>1. Init => TypeOK
  BY CloseFromAssumption DEF Init, TypeOK
<1>2. TypeOK /\ [Next]_vars => TypeOK'
  <2> SUFFICES ASSUME TypeOK, [Next]_vars
               PROVE  TypeOK'
    OBVIOUS
  <2> USE CloseFromAssumption, FdAssumption DEF TypeOK
  <2>1. CASE RejectArgument
    BY <2>1 DEF RejectArgument, EDOM
  <2>2. CASE CloseFirst
    <3>1. atoi(arg) \in Int
      BY <2>2, ToIntIsInt DEF CloseFirst, isnumeric, atoi
    <3>2. ToInt(atoi(arg) + 1) \in Int
      BY <3>1, ToIntIsInt
    <3> QED
      BY <2>2, <3>2, WithoutFdShape DEF CloseFirst, EIO
  <2>3. CASE OpenDir
    BY <2>3 DEF OpenDir, Opened
  <2>4. CASE OpenDirFails \/ GetLimit \/ GetLimitFails
    <3>1. CASE OpenDirFails
      BY <3>1 DEF OpenDirFails
    <3>2. CASE GetLimit
      BY <3>2 DEF GetLimit
    <3>3. CASE GetLimitFails
      BY <3>3 DEF GetLimitFails, EINVAL
    <3> QED
      BY <2>4, <3>1, <3>2, <3>3
  <2>5. ASSUME NEW f \in Fds, SkipEntry(f) PROVE TypeOK'
    BY <2>5 DEF SkipEntry, Fds
  <2>6. ASSUME NEW f \in Fds, CloseEntry(f) PROVE TypeOK'
    BY <2>6, WithoutFdShape DEF CloseEntry, CloseEntryIf, EIO, Fds
  <2>7. CASE EndOfDir
    BY <2>7 DEF EndOfDir
  <2>8. CASE CloseDir
    BY <2>8 DEF CloseDir, CloseFd
  <2>9. CASE Scan
    BY <2>9, WithoutFdShape DEF Scan, EIO
  <2>10. CASE EndOfScan
    BY <2>10 DEF EndOfScan
  <2>11. CASE UNCHANGED vars
    BY <2>11 DEF vars
  <2> QED
    <3> HIDE DEF TypeOK
    <3> QED
      BY <2>1, <2>2, <2>3, <2>4, <2>5, <2>6, <2>7, <2>8, <2>9, <2>10, <2>11
      DEF Next
<1> QED
  BY <1>1, <1>2, PTL DEF Spec

-------------------------------------------------------------------------------
(***************************************************************************)
(* The invariant follows the walk: what is below the argument is as it was *)
(* but for the directory's descriptor, which is there only during the walk *)
(* and in a place that was free; what is from the argument on, up to the   *)
(* position reached, is closed but for that same descriptor.               *)
(***************************************************************************)
Walking == {"readdir", "closedir"}

Started ==
  /\ pc = "call" => fds = before /\ rv = 0
  /\ pc # "call" /\ rv = 0 => arg >= 0
  /\ pc \notin {"call", "done"} => arg >= 0 /\ fd_lo = arg + 1
  /\ pc \notin {"call", "done", "closedir"} => rv = 0
  /\ pc = "scan" => pos > arg /\ limit > MaxFd
  /\ pc = "readdir" => fds[dirp] = Dir

BelowKept ==
  \A f \in Fds :
    f < arg \/ arg = -1 =>
      IF pc \in Walking /\ f = dirp
      THEN before[f] = Closed
      ELSE fds[f] = before[f]

AboveClosed ==
  rv = 0 /\ arg >= 0 =>
    \A f \in Fds :
      f >= arg =>
        /\ pc # "call" /\ f = arg =>
             fds[f] = Closed \/ (pc \in Walking /\ f = dirp)
        /\ pc = "readdir" /\ f < pos => fds[f] = Closed \/ f = dirp
        /\ pc = "closedir" => fds[f] = Closed \/ f = dirp
        /\ pc = "scan" /\ f < pos => fds[f] = Closed
        /\ pc = "done" => fds[f] = Closed

WalkInv == Started /\ BelowKept /\ AboveClosed

LEMMA WalkHolds ==
  ASSUME ArgsFit, LimitsCover
  PROVE  Spec => []WalkInv
<1>1. Init => WalkInv
  BY DEF Init, WalkInv, Started, BelowKept, AboveClosed, Walking
<1>2. TypeOK /\ WalkInv /\ [Next]_vars => WalkInv'
  <2> SUFFICES ASSUME TypeOK, WalkInv, [Next]_vars
               PROVE  WalkInv'
    OBVIOUS
  <2> USE CloseFromAssumption, FdAssumption
      DEF TypeOK, WalkInv, Started, BelowKept, AboveClosed, Walking
  <2>1. CASE RejectArgument
    BY <2>1 DEF RejectArgument, isnumeric, EDOM
  <2>2. CASE CloseFirst
    <3>1. arg \in 0 .. IntMax - 1
      BY <2>2, ArgsFit DEF CloseFirst, isnumeric, ArgsFit
    <3>2. atoi(arg) = arg /\ ToInt(atoi(arg) + 1) = arg + 1
      BY <3>1, ArgumentKept
    <3> QED
      BY <2>2, <3>1, <3>2, WithoutFdShape DEF CloseFirst, EIO
  <2>3. CASE OpenDir
    <3>1. PICK d \in Fds : /\ fds[d] = Closed
                           /\ dirp' = d
                           /\ fds' = [fds EXCEPT ![d] = Dir]
      BY <2>3 DEF OpenDir, IsLowestFree, Opened
    <3> QED
      BY <2>3, <3>1 DEF OpenDir, Fds
  <2>4. CASE OpenDirFails
    BY <2>4 DEF OpenDirFails
  <2>5. CASE GetLimit
    BY <2>5, LimitsCover DEF GetLimit, LimitsCover, Fds
  <2>6. CASE GetLimitFails
    BY <2>6 DEF GetLimitFails, EINVAL
  <2>7. ASSUME NEW f \in Fds, SkipEntry(f) PROVE WalkInv'
    BY <2>7 DEF SkipEntry, NextEntry, Fds
  <2>8. ASSUME NEW f \in Fds, CloseEntry(f) PROVE WalkInv'
    BY <2>8, WithoutFdShape
    DEF CloseEntry, CloseEntryIf, NextEntry, EIO, Fds
  <2>9. CASE EndOfDir
    BY <2>9 DEF EndOfDir, Fds
  <2>10. CASE CloseDir
    <3>1. \A f \in Fds : fds'[f] = IF f = dirp THEN Closed ELSE fds[f]
      BY <2>10 DEF CloseDir, CloseFd
    <3>2. Started'
      BY <2>10 DEF CloseDir
    <3>3. BelowKept'
      BY <2>10, <3>1 DEF CloseDir
    <3>4. AboveClosed'
      BY <2>10, <3>1 DEF CloseDir
    <3> QED
      BY <3>2, <3>3, <3>4
  <2>11. CASE Scan
    BY <2>11, WithoutFdShape DEF Scan, EIO, Fds
  <2>12. CASE EndOfScan
    BY <2>12 DEF EndOfScan, Fds
  <2>13. CASE UNCHANGED vars
    BY <2>13 DEF vars
  <2> QED
    <3> HIDE DEF TypeOK, WalkInv
    <3> QED
      BY <2>1, <2>2, <2>3, <2>4, <2>5, <2>6, <2>7, <2>8, <2>9, <2>10, <2>11,
         <2>12, <2>13
      DEF Next
<1> QED
  BY <1>1, <1>2, Typed, PTL DEF Spec

\* With arguments that are ints below INT_MAX and hard limits that cover the
\* table, close_from() leaves every lower descriptor alone and, when it reports
\* success, has closed all the others, by either way.
THEOREM CloseFromRight ==
  ASSUME ArgsFit, LimitsCover
  PROVE  Spec => [](AllClosed /\ LowerKept)
<1>1. TypeOK /\ WalkInv => AllClosed /\ LowerKept
  <2> SUFFICES ASSUME TypeOK, WalkInv
               PROVE  AllClosed /\ LowerKept
    OBVIOUS
  <2>1. AllClosed
    BY CloseFromAssumption DEF TypeOK, WalkInv, Started, AboveClosed, AllClosed
  <2>2. LowerKept
    BY CloseFromAssumption DEF TypeOK, WalkInv, BelowKept, Walking, LowerKept
  <2> QED
    BY <2>1, <2>2
<1> QED
  BY <1>1, WalkHolds, Typed, PTL

\* close_from() never touches a descriptor below its argument, on any path,
\* be there errors of close() or not (close-from.c:84-113, :145-170).
COROLLARY LowerLeftAlone ==
  ASSUME ArgsFit, LimitsCover
  PROVE  Spec => []LowerKept
BY CloseFromRight, PTL

-------------------------------------------------------------------------------
(***************************************************************************)
(* How a walk stops.  What lies above the position reached is as it was at *)
(* first, the directory's descriptor apart, which was free then, or is the *)
(* argument; and no close() has failed so far, or the last one was the     *)
(* first to fail.                                                          *)
(***************************************************************************)
Ahead(f) ==
  /\ f > arg
  /\ pc \in {"readdir", "scan"} => f >= pos

AboveKept ==
  rv = 0 /\ arg >= 0 /\ pc \notin {"closedir", "done"} =>
    \A f \in Fds :
      Ahead(f) => IF pc = "readdir" /\ f = dirp THEN before[f] = Closed
                                               ELSE fds[f] = before[f]

\* What the walk has left behind did not fail.
NoneFailed ==
  rv = 0 /\ arg >= 0 /\ pc \notin {"call", "closedir", "done"} =>
    \A f \in faulty : f >= arg /\ ~Ahead(f) => before[f] = Closed

StoppedAt(last) ==
  /\ rv = EIO <=> FirstToFail(last)
  /\ rv # EIO => last = arg
  /\ \A f \in Fds :
       f >= arg => IF pc = "closedir" /\ f = dirp
                   THEN f <= last \/ before[f] = Closed
                   ELSE fds[f] = IF f <= last THEN Closed ELSE before[f]

Stopped ==
  rv # 0 /\ arg >= 0 => \E last \in {arg} \cup OpenFds(before) : StoppedAt(last)

StopInv == AboveKept /\ NoneFailed /\ Stopped

LEMMA ErrorCodes == EIO # 0 /\ EINVAL # 0 /\ EDOM # 0 /\ EINVAL # EIO
BY DEF EIO, EINVAL, EDOM

\* A close() in the walk that fails is the first one to do so.
LEMMA FailsFirst ==
  ASSUME TypeOK, WalkInv, StopInv, rv = 0, pc \in {"readdir", "scan"},
         NEW f \in Fds, f > arg, f >= pos, fds[f] # Closed, f \in faulty,
         pc = "readdir" => f # dirp,
         \A g \in Fds : pos <= g /\ g < f => fds[g] = Closed
  PROVE  FirstToFail(f)
<1>1. arg >= 0 /\ arg \in Int
  BY CloseFromAssumption DEF TypeOK, WalkInv, Started
<1>2. before[f] # Closed
  BY <1>1 DEF StopInv, AboveKept, Ahead
<1>3. ASSUME NEW g \in faulty, arg <= g, g < f
      PROVE  before[g] = Closed
  <2>1. g \in Fds
    BY DEF TypeOK
  <2>2. CASE Ahead(g)
    <3>1. fds[g] = Closed
      BY <1>3, <2>1, <2>2 DEF Ahead
    <3> QED
      BY <1>1, <2>1, <2>2, <3>1 DEF StopInv, AboveKept
  <2>3. CASE ~Ahead(g)
    BY <1>1, <1>3, <2>3 DEF StopInv, NoneFailed
  <2> QED
    BY <2>2, <2>3
<1> QED
  BY <1>2, <1>3 DEF FirstToFail

\* With arguments that are ints below INT_MAX and hard limits that cover the
\* table: when close_from() fails, all descriptors from its argument on to the
\* first whose close() failed are closed, that one included, and all above are
\* as they were (close-from.c:84-113, :145-170).
THEOREM StopsRight ==
  ASSUME ArgsFit, LimitsCover
  PROVE  Spec => []StopsAtFirst
<1>1. Init => StopInv
  BY DEF Init, StopInv, AboveKept, NoneFailed, Stopped, Ahead
<1> DEFINE Inv == TypeOK /\ WalkInv
<1>2. Inv /\ Inv' /\ StopInv /\ [Next]_vars => StopInv'
  <2> SUFFICES ASSUME TypeOK, WalkInv, TypeOK', WalkInv', StopInv, [Next]_vars
               PROVE  StopInv'
    OBVIOUS
  <2> USE CloseFromAssumption, FdAssumption, ErrorCodes
  <2>a. /\ fds \in [Fds -> {File, Dir, Closed}] /\ faulty \subseteq Fds
        /\ before \in [Fds -> {File, Closed}] /\ arg \in Nat \cup {-1}
        /\ pos \in Int /\ dirp \in Fds \cup {-1} /\ rv \in Nat
    BY DEF TypeOK
  <2>b. /\ pc = "call" => fds = before /\ rv = 0
        /\ pc # "call" /\ rv = 0 => arg >= 0
        /\ pc \notin {"call", "done"} => arg >= 0 /\ fd_lo = arg + 1
        /\ pc \notin {"call", "done", "closedir"} => rv = 0
        /\ pc = "scan" => pos > arg /\ limit > MaxFd
        /\ pc = "readdir" => fds[dirp] = Dir
    BY DEF WalkInv, Started
  <2>1. CASE RejectArgument
    BY <2>1, <2>a, <2>b
    DEF RejectArgument, isnumeric, StopInv, AboveKept, NoneFailed, Stopped
  <2>2. CASE CloseFirst
    <3>1. arg \in 0 .. IntMax - 1
      BY <2>2, <2>a, ArgsFit DEF CloseFirst, isnumeric, ArgsFit, TypeOK
    <3>2. atoi(arg) = arg
      BY <3>1, ArgumentKept
    <3>3. /\ \A g \in Fds : fds'[g] = IF g = arg THEN Closed ELSE before[g]
          /\ UNCHANGED <<arg, before, faulty>>
      BY <2>2, <2>a, <2>b, <3>2, WithoutFdShape DEF CloseFirst
    <3>4. CASE CloseFails(arg)
      <4>1. FirstToFail(arg) /\ arg \in OpenFds(before)
        BY <2>2, <2>a, <2>b, <3>4
        DEF CloseFirst, CloseFails, OpenFds, FirstToFail
      <4>2. rv' = EIO /\ pc' = "done"
        BY <2>2, <3>2, <3>4 DEF CloseFirst
      <4>3. StoppedAt(arg)'
        BY <2>a, <3>3, <4>1, <4>2 DEF StoppedAt, FirstToFail, Fds
      <4> QED
        BY <3>3, <4>2, <4>3 DEF StopInv, AboveKept, NoneFailed, Stopped
    <3>5. CASE ~CloseFails(arg)
      <4>1. rv' = 0 /\ pc' = "opendir"
        BY <2>2, <3>2, <3>5 DEF CloseFirst
      <4>2. arg \in faulty => before[arg] = Closed
        BY <2>2, <2>a, <2>b, <3>5 DEF CloseFirst, CloseFails, OpenFds
      <4>3. AboveKept'
        BY <3>1, <3>3, <4>1 DEF AboveKept, Ahead, Fds
      <4>4. NoneFailed'
        BY <2>a, <3>1, <3>3, <4>1, <4>2 DEF NoneFailed, Ahead, Fds
      <4> QED
        BY <4>1, <4>3, <4>4 DEF StopInv, Stopped
    <3> QED
      BY <3>4, <3>5
  <2>3. CASE OpenDir
    <3>1. PICK d \in Fds : /\ fds[d] = Closed
                           /\ dirp' = d
                           /\ fds' = [fds EXCEPT ![d] = Dir]
      BY <2>3 DEF OpenDir, IsLowestFree, Opened
    <3>2. /\ pc = "opendir" /\ pc' = "readdir" /\ rv = 0 /\ pos' = 0
          /\ UNCHANGED <<arg, before, faulty, rv>>
      BY <2>3, <2>b DEF OpenDir
    <3>3. AboveKept'
      BY <2>a, <2>b, <3>1, <3>2 DEF StopInv, AboveKept, Ahead
    <3>4. NoneFailed'
      BY <2>a, <2>b, <3>2 DEF StopInv, NoneFailed, Ahead, Fds
    <3> QED
      BY <3>2, <3>3, <3>4 DEF StopInv, Stopped
  <2>4. CASE OpenDirFails
    BY <2>4, <2>a, <2>b
    DEF OpenDirFails, StopInv, AboveKept, NoneFailed, Stopped, Ahead
  <2>5. CASE GetLimit
    BY <2>5, <2>a, <2>b
    DEF GetLimit, StopInv, AboveKept, NoneFailed, Stopped, Ahead, Fds
  <2>6. CASE GetLimitFails
    <3>1. /\ pc = "getrlimit" /\ pc' = "done" /\ rv = 0 /\ rv' = EINVAL
          /\ UNCHANGED <<arg, before, faulty, fds>> /\ arg >= 0
      BY <2>6, <2>b DEF GetLimitFails
    <3>2. \A f \in Fds : f > arg => fds[f] = before[f]
      BY <3>1 DEF StopInv, AboveKept, Ahead
    <3>3. arg \in Fds => fds[arg] = Closed
      BY <3>1, <2>a DEF WalkInv, AboveClosed, Walking
    <3>4. arg \in faulty => before[arg] = Closed
      BY <3>1, <2>a DEF StopInv, NoneFailed, Ahead
    <3>5. StoppedAt(arg)'
      <4>1. ~FirstToFail(arg)
        BY <3>4 DEF FirstToFail
      <4>2. \A f \in Fds : f >= arg => fds[f] = IF f <= arg THEN Closed
                                                        ELSE before[f]
        BY <2>a, <3>2, <3>3 DEF Fds
      <4> QED
        BY <3>1, <4>1, <4>2 DEF StoppedAt, FirstToFail
    <3> QED
      BY <3>1, <3>5 DEF StopInv, AboveKept, NoneFailed, Stopped
  <2>7. ASSUME NEW f \in Fds, SkipEntry(f) PROVE StopInv'
    <3>1. /\ pc = "readdir" /\ rv = 0 /\ pos' = f + 1 /\ arg >= 0
          /\ UNCHANGED <<pc, rv, arg, before, faulty, fds, dirp>>
          /\ f = dirp \/ f <= arg
          /\ f >= pos
      BY <2>7, <2>a, <2>b DEF SkipEntry, NextEntry, Fds
    <3>2. AboveKept'
      BY <2>a, <3>1 DEF StopInv, AboveKept, Ahead, Fds
    <3>3. NoneFailed'
      <4>1. SUFFICES ASSUME NEW g \in faulty, g >= arg, ~Ahead(g)'
                     PROVE  before[g] = Closed
        BY <3>1 DEF NoneFailed
      <4>2. g \in Fds /\ (g <= arg \/ g < f + 1)
        BY <2>a, <3>1, <4>1 DEF Ahead, Fds
      <4>3. CASE ~Ahead(g)
        BY <3>1, <4>1, <4>3 DEF StopInv, NoneFailed
      <4>4. CASE Ahead(g) /\ g = dirp
        BY <3>1, <4>2, <4>4 DEF StopInv, AboveKept
      <4>5. CASE Ahead(g) /\ g # dirp
        <5>1. g >= pos /\ g < f
          BY <2>a, <3>1, <4>2, <4>5 DEF Ahead, Fds
        <5>2. fds[g] = Closed
          BY <2>7, <4>2, <5>1 DEF SkipEntry, NextEntry
        <5> QED
          BY <3>1, <4>2, <4>5, <5>2 DEF StopInv, AboveKept
      <4> QED
        BY <4>3, <4>4, <4>5
    <3> QED
      BY <3>1, <3>2, <3>3 DEF StopInv, Stopped
  <2>8. ASSUME NEW f \in Fds, CloseEntry(f) PROVE StopInv'
    <3>1. /\ pc = "readdir" /\ rv = 0 /\ pos' = f + 1 /\ arg >= 0
          /\ UNCHANGED <<arg, before, faulty, dirp>>
          /\ f # dirp /\ f > arg /\ f >= pos /\ fds[f] # Closed
          /\ \A g \in Fds : pos <= g /\ g < f => fds[g] = Closed
      BY <2>8, <2>a, <2>b DEF CloseEntry, CloseEntryIf, NextEntry, Fds
    <3>2. \A g \in Fds : fds'[g] = IF g = f THEN Closed ELSE fds[g]
      BY <2>8, <2>a, WithoutFdShape DEF CloseEntry, CloseEntryIf
    <3>3. before[f] # Closed
      BY <3>1 DEF StopInv, AboveKept, Ahead
    <3>4. \A g \in Fds : pos <= g /\ arg < g /\ g < f => before[g] = Closed
      BY <3>1, <2>b DEF StopInv, AboveKept, Ahead
    <3>5. CASE CloseFails(f)
      <4>1. rv' = EIO /\ pc' = "closedir"
        BY <2>8, <3>5 DEF CloseEntry, CloseEntryIf
      <4>2. FirstToFail(f)
        BY <2>a, <3>1, <3>5, FailsFirst DEF CloseFails
      <4>3. ASSUME NEW g \in Fds, g >= arg
            PROVE  IF g = dirp THEN g <= f \/ before[g] = Closed
                   ELSE fds'[g] = IF g <= f THEN Closed ELSE before[g]
        <5>1. CASE g = dirp
          <6>1. g > f => before[g] = Closed
            BY <2>a, <3>1, <5>1, <4>3 DEF StopInv, AboveKept, Ahead, Fds
          <6> QED
            BY <5>1, <6>1 DEF Fds
        <5>2. CASE g # dirp /\ g > f
          <6>1. Ahead(g)
            BY <2>a, <3>1, <5>2 DEF Ahead, Fds
          <6>2. fds[g] = before[g]
            BY <3>1, <5>2, <6>1 DEF StopInv, AboveKept
          <6> QED
            BY <3>2, <5>2, <6>2 DEF Fds
        <5>3. CASE g # dirp /\ g < f
          <6>1. CASE g >= pos
            BY <3>1, <3>2, <5>3, <6>1 DEF Fds
          <6>2. CASE g < pos
            <7>1. fds[g] = Closed
              BY <3>1, <4>3, <5>3, <6>2 DEF WalkInv, AboveClosed
            <7> QED
              BY <3>2, <5>3, <7>1 DEF Fds
          <6> QED
            BY <2>a, <6>1, <6>2 DEF Fds
        <5>4. CASE g # dirp /\ g = f
          BY <3>2, <5>4 DEF Fds
        <5> QED
          BY <5>1, <5>2, <5>3, <5>4 DEF Fds
      <4>4. StoppedAt(f)'
        BY <3>1, <4>1, <4>2, <4>3 DEF StoppedAt, FirstToFail
      <4>5. f \in OpenFds(before')
        BY <3>1, <3>3 DEF OpenFds
      <4> QED
        BY <4>1, <4>4, <4>5 DEF StopInv, AboveKept, NoneFailed, Stopped
    <3>6. CASE ~CloseFails(f)
      <4>1. UNCHANGED <<rv, pc>> /\ f \notin faulty
        BY <2>8, <3>1, <3>6
        DEF CloseEntry, CloseEntryIf, CloseFails, OpenFds
      <4>2. AboveKept'
        BY <2>a, <3>1, <3>2, <4>1 DEF StopInv, AboveKept, Ahead, Fds
      <4>3. NoneFailed'
        <5>1. SUFFICES ASSUME NEW g \in faulty, g >= arg, ~Ahead(g)'
                       PROVE  before[g] = Closed
          BY <3>1, <4>1 DEF NoneFailed
        <5>2. g \in Fds /\ (g <= arg \/ g < f + 1) /\ g # f
          BY <2>a, <3>1, <4>1, <5>1 DEF Ahead, Fds
        <5>3. CASE ~Ahead(g)
          BY <3>1, <5>1, <5>3 DEF StopInv, NoneFailed
        <5>4. CASE Ahead(g)
          <6>1. g >= pos /\ g > arg /\ g < f
            BY <2>a, <3>1, <5>2, <5>4 DEF Ahead, Fds
          <6> QED
            BY <3>4, <5>2, <6>1
        <5> QED
          BY <5>3, <5>4
      <4> QED
        BY <3>1, <4>1, <4>2, <4>3 DEF StopInv, Stopped
    <3> QED
      BY <3>5, <3>6
  <2>9. CASE EndOfDir
    BY <2>9, <2>a, <2>b DEF EndOfDir, StopInv, AboveKept, NoneFailed, Stopped
  <2>10. CASE CloseDir
    <3>1. /\ pc = "closedir" /\ pc' = "done"
          /\ UNCHANGED <<arg, before, faulty, rv>>
          /\ \A g \in Fds : fds'[g] = IF g = dirp THEN Closed ELSE fds[g]
      BY <2>10, <2>a DEF CloseDir, CloseFd
    <3>2. ASSUME NEW last \in {arg} \cup OpenFds(before), StoppedAt(last)
          PROVE  StoppedAt(last)'
      BY <3>1, <3>2 DEF StoppedAt, FirstToFail
    <3>3. Stopped'
      BY <3>1, <3>2 DEF StopInv, Stopped
    <3> QED
      BY <3>1, <3>3 DEF StopInv, AboveKept, NoneFailed
  <2>11. CASE Scan
    <3>1. /\ pc = "scan" /\ rv = 0 /\ pos' = pos + 1 /\ arg >= 0 /\ pos > arg
          /\ UNCHANGED <<arg, before, faulty, dirp>>
      BY <2>11, <2>b DEF Scan
    <3>2. \A g \in Fds : fds'[g] = IF g = pos THEN Closed ELSE fds[g]
      BY <2>11, <2>a, WithoutFdShape DEF Scan
    <3>3. CASE CloseFails(pos)
      <4>1. rv' = EIO /\ pc' = "done" /\ pos \in Fds /\ fds[pos] # Closed
            /\ pos \in faulty
        BY <2>11, <3>3 DEF Scan, CloseFails, OpenFds
      <4>2. FirstToFail(pos)
        BY <2>a, <3>1, <4>1, FailsFirst
      <4>3. ASSUME NEW g \in Fds, g >= arg
            PROVE  fds'[g] = IF g <= pos THEN Closed ELSE before[g]
        <5>1. CASE g > pos
          <6>1. Ahead(g)
            BY <2>a, <3>1, <5>1 DEF Ahead, Fds
          <6>2. fds[g] = before[g]
            BY <3>1, <6>1 DEF StopInv, AboveKept
          <6> QED
            BY <2>a, <3>2, <5>1, <6>2 DEF Fds
        <5>2. CASE g < pos
          <6>1. fds[g] = Closed
            BY <3>1, <4>3, <5>2 DEF WalkInv, AboveClosed
          <6> QED
            BY <2>a, <3>2, <5>2, <6>1 DEF Fds
        <5>3. CASE g = pos
          BY <3>2, <5>3 DEF Fds
        <5> QED
          BY <2>a, <5>1, <5>2, <5>3 DEF Fds
      <4>4. PICK q \in Fds : q = pos
        BY <4>1
      <4>5. StoppedAt(q)'
        BY <3>1, <4>1, <4>2, <4>3, <4>4 DEF StoppedAt, FirstToFail
      <4>6. before[q] # Closed
        BY <4>2, <4>4 DEF FirstToFail
      <4> QED
        BY <3>1, <4>1, <4>5, <4>6 DEF StopInv, AboveKept, NoneFailed, Stopped,
                                      OpenFds
    <3>4. CASE ~CloseFails(pos)
      <4>1. UNCHANGED <<rv, pc>>
        BY <2>11, <3>4 DEF Scan
      <4>2. pos \in faulty => fds[pos] = Closed
        BY <2>a, <3>4 DEF CloseFails, OpenFds
      <4>3. AboveKept'
        BY <2>a, <3>1, <3>2, <4>1 DEF StopInv, AboveKept, Ahead, Fds
      <4>4. NoneFailed'
        <5>1. SUFFICES ASSUME NEW g \in faulty, g >= arg, ~Ahead(g)'
                       PROVE  before[g] = Closed
          BY <3>1, <4>1 DEF NoneFailed
        <5>2. CASE ~Ahead(g)
          BY <3>1, <5>1, <5>2 DEF StopInv, NoneFailed
        <5>3. CASE Ahead(g)
          <6>1. g = pos /\ g \in Fds
            BY <2>a, <3>1, <4>1, <5>1, <5>3 DEF Ahead, Fds
          <6> QED
            BY <3>1, <4>2, <5>3, <6>1 DEF StopInv, AboveKept
        <5> QED
          BY <5>2, <5>3
      <4> QED
        BY <3>1, <4>1, <4>3, <4>4 DEF StopInv, Stopped
    <3> QED
      BY <3>3, <3>4
  <2>12. CASE EndOfScan
    BY <2>12, <2>a, <2>b DEF EndOfScan, StopInv, AboveKept, NoneFailed, Stopped
  <2>13. CASE UNCHANGED vars
    <3>1. Stopped'
      BY <2>13 DEF vars, StopInv, Stopped, StoppedAt, FirstToFail
    <3> QED
      BY <2>13, <3>1 DEF vars, StopInv, AboveKept, NoneFailed, Ahead
  <2> QED
    BY <2>1, <2>2, <2>3, <2>4, <2>5, <2>6, <2>7, <2>8, <2>9, <2>10, <2>11,
       <2>12, <2>13
    DEF Next
<1>3. StopInv => StopsAtFirst
  BY DEF StopInv, Stopped, StoppedAt, StopsAtFirst
<1> QED
  BY <1>1, <1>2, <1>3, Typed, WalkHolds, PTL DEF Spec
===============================================================================
