------------------------------ MODULE CloseFrom ------------------------------
(***************************************************************************)
(* ush_close_from() of libush/io-redirect.c and close_from() of            *)
(* libcscript/close-from.c: close every descriptor from a given one on, by *)
(* way of the directory /proc/self/fd, or of all numbers below the hard    *)
(* limit if that directory cannot be opened.                               *)
(*                                                                         *)
(* The argument is a string of digits, modelled by its value, or another   *)
(* string, modelled by -1.                                                 *)
(***************************************************************************)
EXTENDS FdTable

CONSTANTS
  IntMax,      \* INT_MAX: ints wrap around from here to -IntMax - 1
  LongMax,     \* LONG_MAX: where strtol() saturates
  Args,        \* the arguments that are given
  HardLimits,  \* values that rlim_max may have
  File, Dir,   \* what a descriptor may be open on
  ProcMayFail, \* may opendir("/proc/self/fd") fail on its own account?
  LimitMayFail \* may getrlimit() fail?

ASSUME CloseFromAssumption ==
  /\ IntMax \in Nat /\ MaxFd < IntMax
  /\ LongMax \in Nat /\ IntMax < LongMax
  /\ Args \subseteq Nat \cup {-1}
  /\ HardLimits \subseteq Nat
  /\ File # Closed /\ Dir # Closed
  /\ ProcMayFail \in BOOLEAN /\ LimitMayFail \in BOOLEAN

EIO == 5
EINVAL == 22
EDOM == 33

VARIABLES
  pc,     \* the next system call
  arg,    \* the argument of --close-from
  fd_lo,  \* the first descriptor that is still to be closed
  fds,    \* the descriptor table
  faulty, \* descriptors whose close() fails (and closes them all the same)
  dirp,   \* the descriptor of the directory stream
  pos,    \* how far the directory, or the range of numbers, has been read
  limit,  \* max_fds in close_from_all()
  rv,     \* what is returned
  before  \* history: the descriptor table at first

vars == <<pc, arg, fd_lo, fds, faulty, dirp, pos, limit, rv, before>>

Init ==
  /\ pc = "call"
  /\ arg \in Args
  /\ fd_lo = 0
  /\ fds \in [Fds -> {File, Closed}]
  /\ faulty \in SUBSET Fds
  /\ dirp = -1
  /\ pos = 0
  /\ limit = 0
  /\ rv = 0
  /\ before = fds

\* Conversion of a long to an int, and what adding 1 to an int yields.
ToInt(l) == ((l + IntMax + 1) % (2 * IntMax + 2)) - IntMax - 1

atoi(a) == ToInt(IF a > LongMax THEN LongMax ELSE a)

isnumeric(a) == a >= 0

\* close(f): the table without f, and whether the call fails with anything but
\* EBADF, which the code puts up with.
WithoutFd(f) == IF f \in Fds THEN CloseFd(fds, f) ELSE fds
CloseFails(f) == f \in OpenFds(fds) /\ f \in faulty

RejectArgument ==
  /\ pc = "call"
  /\ ~isnumeric(arg)
  /\ rv' = EDOM
  /\ pc' = "done"
  /\ UNCHANGED <<arg, fd_lo, fds, faulty, dirp, pos, limit, before>>

\* Mutant of CloseFirst: the result of close() is returned instead of errno.
CloseFirstWithoutErrno ==
  /\ pc = "call"
  /\ isnumeric(arg)
  /\ fds' = WithoutFd(atoi(arg))
  /\ fd_lo' = ToInt(atoi(arg) + 1)
  /\ IF CloseFails(atoi(arg))
     THEN rv' = -1 /\ pc' = "done"
     ELSE rv' = 0 /\ pc' = "opendir"
  /\ UNCHANGED <<arg, faulty, dirp, pos, limit, before>>

\* close(fd_lo++) before anything else, to have a descriptor for opendir().
CloseFirst ==
  /\ pc = "call"
  /\ isnumeric(arg)
  /\ fds' = WithoutFd(atoi(arg))
  /\ fd_lo' = ToInt(atoi(arg) + 1)
  /\ IF CloseFails(atoi(arg))
     THEN rv' = EIO /\ pc' = "done"
     ELSE rv' = 0 /\ pc' = "opendir"
  /\ UNCHANGED <<arg, faulty, dirp, pos, limit, before>>

OpenDir ==
  /\ pc = "opendir"
  /\ \E d \in Fds :
       /\ IsLowestFree(fds, d)
       /\ dirp' = d
       /\ fds' = Opened(fds, d, Dir)
  /\ pos' = 0
  /\ pc' = "readdir"
  /\ UNCHANGED <<arg, fd_lo, faulty, limit, rv, before>>

OpenDirFails ==
  /\ pc = "opendir"
  /\ ProcMayFail \/ TableFull(fds)
  /\ pc' = "getrlimit"
  /\ UNCHANGED <<arg, fd_lo, fds, faulty, dirp, pos, limit, rv, before>>

(***************************************************************************)
(* close_from_dirp(): the directory lists the open descriptors in order,   *)
(* as they are when it is read; reading a directory whose descriptor has   *)
(* been closed ends the loop.                                              *)
(***************************************************************************)
NextEntry(f) ==
  /\ fds[dirp] # Closed
  /\ f >= pos
  /\ fds[f] # Closed
  /\ \A g \in Fds : pos <= g /\ g < f => fds[g] = Closed

SkipEntry(f) ==
  /\ pc = "readdir"
  /\ NextEntry(f)
  /\ f = dirp \/ f < fd_lo
  /\ pos' = f + 1
  /\ UNCHANGED <<pc, arg, fd_lo, fds, faulty, dirp, limit, rv, before>>

CloseEntryIf(f, wanted) ==
  /\ pc = "readdir"
  /\ NextEntry(f)
  /\ wanted
  /\ pos' = f + 1
  /\ fds' = WithoutFd(f)
  /\ IF CloseFails(f)
     THEN rv' = EIO /\ pc' = "closedir"
     ELSE UNCHANGED <<rv, pc>>
  /\ UNCHANGED <<arg, fd_lo, faulty, dirp, limit, before>>

\* Mutant of CloseEntry: the lower bound is forgotten.
CloseAnyEntry(f) == CloseEntryIf(f, f # dirp)

\* Mutant of CloseEntry: the loop goes on after a close() that failed.
CloseEntryGoesOn(f) ==
  /\ pc = "readdir"
  /\ NextEntry(f)
  /\ f # dirp /\ f >= fd_lo
  /\ pos' = f + 1
  /\ fds' = WithoutFd(f)
  /\ rv' = IF CloseFails(f) THEN EIO ELSE rv
  /\ UNCHANGED <<pc, arg, fd_lo, faulty, dirp, limit, before>>

CloseEntry(f) == CloseEntryIf(f, f # dirp /\ f >= fd_lo)

EndOfDir ==
  /\ pc = "readdir"
  /\ fds[dirp] = Closed \/ \A f \in Fds : f >= pos => fds[f] = Closed
  /\ pc' = "closedir"
  /\ UNCHANGED <<arg, fd_lo, fds, faulty, dirp, pos, limit, rv, before>>

CloseDir ==
  /\ pc = "closedir"
  /\ fds' = CloseFd(fds, dirp)
  /\ pc' = "done"
  /\ UNCHANGED <<arg, fd_lo, faulty, dirp, pos, limit, rv, before>>

(***************************************************************************)
(* close_from_all()                                                        *)
(***************************************************************************)
GetLimit ==
  /\ pc = "getrlimit"
  /\ limit' \in HardLimits
  /\ pos' = fd_lo
  /\ pc' = "scan"
  /\ UNCHANGED <<arg, fd_lo, fds, faulty, dirp, rv, before>>

GetLimitFails ==
  /\ pc = "getrlimit"
  /\ LimitMayFail
  /\ rv' = EINVAL
  /\ pc' = "done"
  /\ UNCHANGED <<arg, fd_lo, fds, faulty, dirp, pos, limit, before>>

\* Mutant of Scan: the loop does not go on to the next number.
ScanStays ==
  /\ pc = "scan"
  /\ pos < limit
  /\ fds' = WithoutFd(pos)
  /\ IF CloseFails(pos)
     THEN rv' = EIO /\ pc' = "done"
     ELSE UNCHANGED <<rv, pc>>
  /\ UNCHANGED <<arg, fd_lo, faulty, dirp, pos, limit, before>>

Scan ==
  /\ pc = "scan"
  /\ pos < limit
  /\ pos' = pos + 1
  /\ fds' = WithoutFd(pos)
  /\ IF CloseFails(pos)
     THEN rv' = EIO /\ pc' = "done"
     ELSE UNCHANGED <<rv, pc>>
  /\ UNCHANGED <<arg, fd_lo, faulty, dirp, limit, before>>

\* Mutant of EndOfScan: the last number is left out.
EndOfScanEarly ==
  /\ pc = "scan"
  /\ pos >= limit - 1
  /\ pc' = "done"
  /\ UNCHANGED <<arg, fd_lo, fds, faulty, dirp, pos, limit, rv, before>>

EndOfScan ==
  /\ pc = "scan"
  /\ pos >= limit
  /\ pc' = "done"
  /\ UNCHANGED <<arg, fd_lo, fds, faulty, dirp, pos, limit, rv, before>>

Next ==
  \/ RejectArgument
  \/ CloseFirst
  \/ OpenDir
  \/ OpenDirFails
  \/ \E f \in Fds : SkipEntry(f) \/ CloseEntry(f)
  \/ EndOfDir
  \/ CloseDir
  \/ GetLimit
  \/ GetLimitFails
  \/ Scan
  \/ EndOfScan

\* One thread runs all of this, and no call of it blocks.
Spec == Init /\ [][Next]_vars /\ WF_vars(Next)

-------------------------------------------------------------------------------
(***************************************************************************)
(* Properties.                                                             *)
(***************************************************************************)

\* Every variable has its type; while the directory is read it has one of the
\* process's own descriptors.
TypeOK ==
  /\ pc \in {"call", "opendir", "readdir", "closedir", "getrlimit", "scan",
             "done"}
  /\ arg \in Args
  /\ fd_lo \in Int
  /\ fds \in [Fds -> {File, Dir, Closed}]
  /\ faulty \subseteq Fds
  /\ dirp \in Fds \cup {-1}
  /\ pc \in {"readdir", "closedir"} => dirp \in Fds
  /\ pos \in Int
  /\ limit \in Nat
  /\ rv \in Nat
  /\ before \in [Fds -> {File, Closed}]

\* When the call reports success every descriptor from the given one on is
\* closed, the one that the walk itself needed included, whichever of the two
\* ways was taken and wherever the directory's own descriptor happened to be.
AllClosed ==
  pc = "done" /\ rv = 0 => \A f \in Fds : f >= arg => fds[f] = Closed

\* Descriptors below the given one are left alone, in failure as well.
LowerKept ==
  pc = "done" => \A f \in Fds : f < arg \/ arg = -1 => fds[f] = before[f]

\* When a close() fails, the walk stops there: that close() was the first to
\* fail, what comes before it and itself is closed, and every higher descriptor
\* is as it was.  If nothing but the limit could not be had, only the
\* descriptor given is closed.
FirstToFail(f) ==
  /\ f \in faulty /\ before[f] # Closed
  /\ \A g \in faulty : arg <= g /\ g < f => before[g] = Closed

StopsAtFirst ==
  pc = "done" /\ arg >= 0 /\ rv # 0 =>
    \E last \in {arg} \cup OpenFds(before) :
      /\ rv = EIO <=> FirstToFail(last)
      /\ rv # EIO => last = arg
      /\ \A f \in Fds :
           f >= arg => fds[f] = IF f <= last THEN Closed ELSE before[f]

\* Closing descriptors while their directory is being read does not keep the
\* walk from coming to its end.
Terminates == <>(pc = "done")
===============================================================================
