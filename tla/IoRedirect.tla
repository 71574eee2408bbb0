------------------------------ MODULE IoRedirect ------------------------------
(***************************************************************************)
(* libush/io-redirect.c: set_stdin() and set_write_fd(), one system call a *)
(* step, in several processes that share a file system.                    *)
(*                                                                         *)
(* A process makes any number of requests one after the other, as          *)
(* ush_getopt() does: it goes on to the next option after a failure.  All  *)
(* processes together make up to MaxRequests.                              *)
(* O_APPEND makes no difference to what is modelled here, so append is     *)
(* left out.                                                               *)
(***************************************************************************)
EXTENDS FdTable

CONSTANTS
  Procs,       \* processes
  Names,       \* the paths that are given
  Denied,      \* the paths that may not be opened
  Inherited,   \* the files a process may have open to begin with
  Tables,      \* descriptor tables a process may start with
  MaxRequests, \* how many requests the processes make in all (a bound)
  DupMayFail   \* may dup2() fail?

ASSUME RedirectAssumption ==
  /\ Denied \subseteq Names
  /\ Names # {} /\ Closed \notin Names \cup Inherited
  /\ Tables \subseteq [Fds -> Inherited \cup {Closed}]
  /\ MaxRequests \in Nat \ {0}
  /\ DupMayFail \in BOOLEAN

ENOENT == 2
EACCES == 13
EBUSY == 16
EEXIST == 17
EMFILE == 24

\* What a descriptor can be open on.
Contents == Names \cup Inherited \cup {Closed}

\* --stdin=name, --stdout=name, --stdout-new=name and so on.
Requests == [fd : {0}, name : Names, new : {FALSE}]
              \cup [fd : {1, 2}, name : Names, new : BOOLEAN]

VARIABLES
  files,  \* the paths that exist
  step,   \* the next system call of each process
  count,  \* how many requests have been made
  req,    \* the arguments of the current request of each process
  fds,    \* each process's descriptor table
  old_fd, \* each process's local variable old_fd
  ret,    \* what the last request returned
  ioerr,  \* cmd->ioerr
  before  \* history: files and fds when the current request was made

vars == <<files, step, count, req, fds, old_fd, ret, ioerr, before>>

Init ==
  /\ files \in SUBSET Names
  /\ step = [p \in Procs |-> "idle"]
  /\ count = 0
  /\ req = [p \in Procs |-> CHOOSE r \in Requests : TRUE]
  /\ fds \in [Procs -> Tables]
  /\ old_fd = [p \in Procs |-> -1]
  /\ ret = [p \in Procs |-> 0]
  /\ ioerr = [p \in Procs |-> 0]
  /\ before = [p \in Procs |-> [files |-> files, fds |-> fds[p]]]

Request(p) ==
  /\ step[p] \in {"idle", "done"}
  /\ count < MaxRequests
  /\ count' = count + 1
  /\ \E r \in Requests :
       /\ req' = [req EXCEPT ![p] = r]
       /\ step' = [step EXCEPT ![p] = IF r.new THEN "access" ELSE "open"]
  /\ before' = [before EXCEPT ![p] = [files |-> files, fds |-> fds[p]]]
  /\ UNCHANGED <<files, fds, old_fd, ret, ioerr>>

\* Every way out of the functions returns a value.
Return(p, value) ==
  /\ step' = [step EXCEPT ![p] = "done"]
  /\ ret' = [ret EXCEPT ![p] = value]

\* Mutant of Fail: what open() returned is recorded instead of errno.
FailWithoutErrno(p, e, fd) ==
  /\ ioerr' = [ioerr EXCEPT ![p] = fd]
  /\ Return(p, fd)
  /\ UNCHANGED <<count, req, before>>

\* The first failing call sets cmd->ioerr; set_stdin() returns old_fd, which is
\* what open() returned, and set_write_fd() returns the errno.
Fail(p, e, fd) ==
  /\ ioerr' = [ioerr EXCEPT ![p] = e]
  /\ Return(p, IF req[p].fd = 0 THEN fd ELSE e)
  /\ UNCHANGED <<count, req, before>>

\* access(fname, F_OK) for the -new variants.
AccessFinds(p) ==
  /\ step[p] = "access"
  /\ req[p].name \in files
  /\ Fail(p, EEXIST, EEXIST)
  /\ UNCHANGED <<files, fds, old_fd>>

\* Mutant of AccessFindsNothing: the result of access() does not matter.
AccessIgnored(p) ==
  /\ step[p] = "access"
  /\ step' = [step EXCEPT ![p] = "open"]
  /\ UNCHANGED <<files, count, req, fds, old_fd, ret, ioerr, before>>

AccessFindsNothing(p) ==
  /\ step[p] = "access"
  /\ req[p].name \notin files
  /\ step' = [step EXCEPT ![p] = "open"]
  /\ UNCHANGED <<files, count, req, fds, old_fd, ret, ioerr, before>>

OpenErrors(p) ==
  {e \in {EACCES, ENOENT, EMFILE} :
     \/ e = EACCES /\ req[p].name \in Denied
     \/ e = ENOENT /\ req[p].fd = 0 /\ req[p].name \notin files
     \/ e = EMFILE /\ TableFull(fds[p])}

OpenFails(p) ==
  /\ step[p] = "open"
  /\ old_fd' = [old_fd EXCEPT ![p] = -1]
  /\ \E e \in OpenErrors(p) : Fail(p, e, -1)
  /\ UNCHANGED <<files, fds>>

\* open(fname, O_RDONLY) or open(fname, O_CREAT|O_WRONLY, mode).
Open(p) ==
  /\ step[p] = "open"
  /\ OpenErrors(p) = {}
  /\ \E f \in Fds :
       /\ IsLowestFree(fds[p], f)
       /\ old_fd' = [old_fd EXCEPT ![p] = f]
       /\ fds' = [fds EXCEPT ![p] = Opened(@, f, req[p].name)]
  /\ files' = files \cup {req[p].name}
  /\ step' = [step EXCEPT ![p] = "dup2"]
  /\ UNCHANGED <<count, req, ret, ioerr, before>>

\* dup2() of a descriptor to itself never fails.
DupFails(p) ==
  /\ step[p] = "dup2"
  /\ DupMayFail
  /\ old_fd[p] # req[p].fd
  /\ Fail(p, EBUSY, old_fd[p])
  /\ UNCHANGED <<files, fds, old_fd>>

\* Mutant of Dup: the arguments of dup2() are swapped.
DupSwapped(p) ==
  /\ step[p] = "dup2"
  /\ fds' = [fds EXCEPT ![p] = Dup2(@, req[p].fd, old_fd[p])]
  /\ step' = [step EXCEPT ![p] = "close"]
  /\ UNCHANGED <<files, count, req, old_fd, ret, ioerr, before>>

\* dup2() returns its second argument, so the branches for a surprise (another
\* descriptor returned) are dead.
Dup(p) ==
  /\ step[p] = "dup2"
  /\ fds' = [fds EXCEPT ![p] = Dup2(@, old_fd[p], req[p].fd)]
  /\ step' = [step EXCEPT ![p] = "close"]
  /\ UNCHANGED <<files, count, req, old_fd, ret, ioerr, before>>

\* Mutant of Close: the descriptor that open() returned stays open.
CloseForgotten(p) ==
  /\ step[p] = "close"
  /\ Return(p, 0)
  /\ UNCHANGED <<files, fds, count, req, old_fd, ioerr, before>>

Close(p) ==
  /\ step[p] = "close"
  /\ fds' = [fds EXCEPT ![p] = CloseFd(@, old_fd[p])]
  /\ Return(p, 0)
  /\ UNCHANGED <<files, count, req, old_fd, ioerr, before>>

SystemCall(p) ==
  \/ AccessFinds(p)
  \/ AccessFindsNothing(p)
  \/ OpenFails(p)
  \/ Open(p)
  \/ DupFails(p)
  \/ Dup(p)
  \/ Close(p)

Next == \E p \in Procs : Request(p) \/ SystemCall(p)

\* No system call of a redirection is assumed to block for ever (opening a FIFO
\* is left out).
Spec == Init /\ [][Next]_vars /\ \A p \in Procs : WF_vars(SystemCall(p))
-------------------------------------------------------------------------------
(***************************************************************************)
(* Properties.                                                             *)
(***************************************************************************)

\* Every variable has its type; req, count and before are those of the current
\* request.
TypeOK ==
  /\ files \subseteq Names
  /\ step \in [Procs -> {"idle", "access", "open", "dup2", "close", "done"}]
  /\ count \in 0 .. MaxRequests
  /\ req \in [Procs -> Requests]
  /\ old_fd \in [Procs -> Fds \cup {-1}]
  /\ \A p \in Procs : step[p] \in {"dup2", "close"} => old_fd[p] \in Fds
  /\ ret \in [Procs -> Int]
  /\ ioerr \in [Procs -> Nat]
  /\ fds \in [Procs -> [Fds -> Contents]]
  /\ before \in [Procs -> [files : SUBSET Names, fds : [Fds -> Contents]]]

\* Outside the standard descriptors a redirection that is reported as done
\* leaves the table as it was: the descriptor that open() returned is gone
\* again and no other one was hit.  One that is refused leaves it so as well,
\* but for one descriptor if it was dup2() that failed: that of open(), on the
\* file that was asked for, is still open then, and the caller has been told of
\* the failure.
NoLeak ==
  \A p \in Procs :
    step[p] = "done" =>
      \A f \in Fds \ Std :
        \/ fds[p][f] = before[p].fds[f]
        \/ /\ ret[p] # 0 /\ ioerr[p] = EBUSY
           /\ f = old_fd[p] /\ before[p].fds[f] = Closed
           /\ fds[p][f] = req[p].name

\* A file that was there when a -new request was made is never written to by
\* it, whatever other processes do meanwhile (files are not removed here).
OldFileRefused ==
  \A p \in Procs :
    step[p] = "done" /\ req[p].new /\ ret[p] = 0 =>
      req[p].name \notin before[p].files

\* The redirection of a process that starts with its standard descriptors open
\* implements RedirectSpec: seen from the standard descriptors it happens in
\* one step, the dup2(), and only what is reported as done has been done.
Visible(p) == [f \in Std |-> fds[p][f]]

Reported(p) ==
  CASE step[p] = "idle" -> "none"
    [] step[p] \in {"access", "open", "dup2"} -> "pending"
    [] step[p] = "close" -> "bound"
    [] step[p] = "done" -> IF ret[p] = 0 THEN "bound" ELSE "refused"

Promise == INSTANCE RedirectSpec
  WITH Requests <- [fd : Std, name : Names],
       Tables <- {[f \in Std |-> t[f]] : t \in Tables},
       std <- [p \in Procs |-> Visible(p)],
       asked <- [p \in Procs |-> [fd |-> req[p].fd, name |-> req[p].name]],
       outcome <- [p \in Procs |-> Reported(p)]

PromiseKept == Promise!Spec
===============================================================================
