------------------------------- MODULE FdTable -------------------------------
(***************************************************************************)
(* The kernel's file descriptor table of one process, as libush uses it:   *)
(* which number open() hands out, what dup2() and close() do to the table. *)
(* Not part of the repository.                                             *)
(*                                                                         *)
(* A table maps each descriptor to the file it is open on, or to Closed.   *)
(***************************************************************************)
EXTENDS Integers

CONSTANTS
  MaxFd,  \* the largest descriptor a process may have (RLIMIT_NOFILE - 1)
  Closed  \* what a descriptor that is not open maps to

ASSUME FdAssumption == MaxFd \in Nat /\ MaxFd >= 2

Fds == 0 .. MaxFd
Std == 0 .. 2

OpenFds(fds) == {f \in Fds : fds[f] # Closed}

\* The descriptor that open() returns: the lowest one that is not in use.
IsLowestFree(fds, f) ==
  /\ fds[f] = Closed
  /\ \A g \in 0 .. f - 1 : fds[g] # Closed

TableFull(fds) == \A f \in Fds : fds[f] # Closed

Opened(fds, f, file) == [fds EXCEPT ![f] = file]

\* dup2(f, f) leaves the table as it is.
Dup2(fds, old, new) == [fds EXCEPT ![new] = fds[old]]

CloseFd(fds, f) == [fds EXCEPT ![f] = Closed]
===============================================================================
