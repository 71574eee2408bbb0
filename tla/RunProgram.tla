------------------------------ MODULE RunProgram ------------------------------
(***************************************************************************)
(* libush/run-program.c: run a prepared command, either by exec() in the   *)
(* calling process or by fork(), exec() in the child and wait() in the     *)
(* caller.                                                                 *)
(*                                                                         *)
(* The actors are the calling process, which may make several calls one    *)
(* after the other, the child that each forking call creates, and the      *)
(* children the calling process already has for reasons of its own         *)
(* (Others): wait() does not tell them apart.                              *)
(***************************************************************************)
EXTENDS Integers

CONSTANTS
  MaxCalls,     \* how many times the caller calls run_program (a bound)
  Others,       \* children of the caller that run_program did not fork
  ExitCodes,    \* exit codes a program may end with
  Signals,      \* signals a program may die of
  ExecErrnos,   \* errno values execvp() may fail with
  ForkMayFail   \* may fork() fail?

ASSUME RunAssumption ==
  /\ MaxCalls \in Nat \ {0}
  /\ Others \cap (1 .. MaxCalls) = {}
  /\ ExitCodes \subseteq 0 .. 255
  /\ Signals \subseteq 1 .. 126
  /\ ExecErrnos \subseteq 1 .. 255
  /\ ForkMayFail \in BOOLEAN

VARIABLES
  handler,      \* may a signal handler of the caller interrupt wait()?
  pc,           \* where the calling process is
  n,            \* the number of the current call; also the pid of its child
  cmd_fork,     \* cmd->cmd_fork
  child,        \* cmd->child
  child_status, \* cmd->child_status
  rc,           \* cmd->rc
  rv,           \* the value the call returns
  kid,          \* life of every process that is or may be a child
  wstatus       \* wait status of each child that has ended

cmdVars == <<cmd_fork, child, child_status, rc>>
runVars == <<handler, pc, n, cmd_fork, child, child_status, rc, rv, kid,
             wstatus>>

Forked == 1 .. MaxCalls
Pids == Forked \cup Others

(***************************************************************************)
(* The encoding of a wait status that <sys/wait.h> decodes.                *)
(***************************************************************************)
Exited(code) == 256 * code
Signaled(sig) == sig
WIFEXITED(status) == status % 128 = 0
WIFSIGNALED(status) == status % 128 \in 1 .. 126
WEXITSTATUS(status) == (status \div 256) % 256

Unreaped == {p \in Pids : kid[p] \in {"copy", "program", "zombie"}}

(***************************************************************************)
(* run_program() has been entered: pc = "run".                             *)
(***************************************************************************)

\* fork() succeeds: the caller goes on to wait_cmd(), the child to
\* exec_program().
Fork ==
  /\ pc = "run"
  /\ cmd_fork
  /\ child' = n
  /\ kid' = [kid EXCEPT ![n] = "copy"]
  /\ pc' = "wait"
  /\ UNCHANGED <<handler, n, cmd_fork, child_status, rc, rv, wstatus>>

\* fork() returns -1, which is not 0: the caller takes the branch of the
\* parent and waits.
ForkFails ==
  /\ pc = "run"
  /\ cmd_fork
  /\ ForkMayFail
  /\ child' = -1
  /\ pc' = "wait"
  /\ UNCHANGED <<handler, n, cmd_fork, child_status, rc, rv, kid, wstatus>>

\* Without --fork the program replaces the calling process.
Exec ==
  /\ pc = "run"
  /\ ~cmd_fork
  /\ pc' = "replaced"
  /\ UNCHANGED <<handler, n, cmdVars, rv, kid, wstatus>>

\* Mutant of ExecFails: the result of execvp() is returned, not errno.
ExecFailsReturnsRc(e) ==
  /\ pc = "run"
  /\ ~cmd_fork
  /\ rc' = -1
  /\ rv' = -1
  /\ pc' = "returned"
  /\ UNCHANGED <<handler, n, cmd_fork, child, child_status, kid, wstatus>>

\* execvp() returns only when it fails, and exec_program() returns errno.
ExecFails(e) ==
  /\ pc = "run"
  /\ ~cmd_fork
  /\ rc' = -1
  /\ rv' = e
  /\ pc' = "returned"
  /\ UNCHANGED <<handler, n, cmd_fork, child, child_status, kid, wstatus>>

(***************************************************************************)
(* The children.                                                           *)
(***************************************************************************)

Dies(p, status) ==
  /\ kid' = [kid EXCEPT ![p] = "zombie"]
  /\ wstatus' = [wstatus EXCEPT ![p] = status]
  /\ UNCHANGED <<handler, pc, n, cmdVars, rv>>

ChildExecs(p) ==
  /\ kid[p] = "copy"
  /\ kid' = [kid EXCEPT ![p] = "program"]
  /\ UNCHANGED <<handler, pc, n, cmdVars, rv, wstatus>>

\* A child whose execvp() fails must not return into the caller's code:
\* exec_program() calls exit(errno).
ChildExecFails(p, e) ==
  /\ kid[p] = "copy"
  /\ Dies(p, Exited(e))

ProgramExits(p, code) ==
  /\ kid[p] = "program"
  /\ Dies(p, Exited(code))

Killed(p, sig) ==
  /\ kid[p] \in {"copy", "program"}
  /\ Dies(p, Signaled(sig))

(***************************************************************************)
(* wait_cmd(): its local status starts at 0, the result of wait() itself   *)
(* is ignored, and the loop ends as soon as status looks like that of a    *)
(* process that ended.                                                     *)
(***************************************************************************)
WaitReturnsIf(ended, status, value) ==
  /\ ended
  /\ child_status' = status
  /\ rv' = value
  /\ rc' = value
  /\ pc' = "returned"
  /\ UNCHANGED <<handler, n, cmd_fork, child, wstatus>>

\* Mutant of WaitReturns: only an exited child ends the loop.
WaitReturnsIfExited(status) ==
  WaitReturnsIf(WIFEXITED(status), status, status)

\* Mutant of WaitReturns: the exit code is returned instead of the status.
WaitReturnsCode(status) ==
  WaitReturnsIf(WIFEXITED(status) \/ WIFSIGNALED(status),
                status, WEXITSTATUS(status))

WaitReturns(status) ==
  WaitReturnsIf(WIFEXITED(status) \/ WIFSIGNALED(status), status, status)

\* Mutant of WaitReaps: the dead child is looked at and not reaped.
WaitPeeks(p) ==
  /\ pc = "wait"
  /\ kid[p] = "zombie"
  /\ kid' = kid
  /\ WaitReturns(wstatus[p])

\* wait() reaps any one of the caller's dead children.
WaitReaps(p) ==
  /\ pc = "wait"
  /\ kid[p] = "zombie"
  /\ kid' = [kid EXCEPT ![p] = "reaped"]
  /\ WaitReturns(wstatus[p])

\* Mutant of WaitHasNoChild: status was not set before the wait.
WaitHasNoChildNorStatus ==
  /\ pc = "wait"
  /\ Unreaped = {}
  /\ kid' = kid
  /\ WaitReturns(Exited(255))

\* wait() fails with ECHILD and leaves status as it was.
WaitHasNoChild ==
  /\ pc = "wait"
  /\ Unreaped = {}
  /\ kid' = kid
  /\ WaitReturns(Exited(0))

\* wait() fails with EINTR and leaves status as it was.
WaitInterrupted ==
  /\ pc = "wait"
  /\ handler
  /\ Unreaped # {}
  /\ \A p \in Pids : kid[p] # "zombie"
  /\ kid' = kid
  /\ WaitReturns(Exited(0))

(***************************************************************************)
(* What run_program() and its child do, and what programs do.              *)
(***************************************************************************)
RunStep ==
  \/ Fork
  \/ ForkFails
  \/ Exec
  \/ \E e \in ExecErrnos : ExecFails(e)
  \/ \E p \in Pids : WaitReaps(p)
  \/ WaitHasNoChild
  \/ WaitInterrupted

ChildStep(p) ==
  \/ ChildExecs(p)
  \/ \E e \in ExecErrnos : ChildExecFails(p, e)

ProgramStep(p) ==
  \/ \E code \in ExitCodes : ProgramExits(p, code)
  \/ \E sig \in Signals : Killed(p, sig)

(***************************************************************************)
(* The calling process: it chooses --fork or not and calls run_program(),  *)
(* up to MaxCalls times.                                                   *)
(***************************************************************************)
SetFork(fork) ==
  /\ pc = "idle"
  /\ cmd_fork' = fork
  /\ UNCHANGED <<handler, pc, n, child, child_status, rc, rv, kid, wstatus>>

Call ==
  /\ pc = "idle"
  /\ pc' = "run"
  /\ UNCHANGED <<handler, n, cmdVars, rv, kid, wstatus>>

NextCall ==
  /\ pc = "returned"
  /\ n < MaxCalls
  /\ n' = n + 1
  /\ pc' = "idle"
  /\ UNCHANGED <<handler, cmdVars, rv, kid, wstatus>>

Init ==
  /\ handler \in BOOLEAN
  /\ pc = "idle"
  /\ n = 1
  /\ cmd_fork = FALSE
  /\ child = 0
  /\ child_status = 0
  /\ rc = 0
  /\ rv = 0
  /\ kid \in [Pids -> {"program", "unborn"}]
  /\ \A p \in Forked : kid[p] = "unborn"
  /\ wstatus = [p \in Pids |-> 0]

Next ==
  \/ \E fork \in BOOLEAN : SetFork(fork)
  \/ Call
  \/ NextCall
  \/ RunStep
  \/ \E p \in Pids : ChildStep(p) \/ ProgramStep(p)

\* The calling process and the child before its exec() are running code of
\* ours and are scheduled; nothing makes a program end.
Fairness ==
  /\ WF_runVars(RunStep)
  /\ \A p \in Pids : WF_runVars(ChildStep(p))

Spec == Init /\ [][Next]_runVars /\ Fairness

-------------------------------------------------------------------------------
(***************************************************************************)
(* Properties.                                                             *)
(***************************************************************************)

\* Every variable has its type: rc and rv are results of system calls, errno
\* values or wait statuses, kid is the life of a process.
TypeOK ==
  /\ handler \in BOOLEAN
  /\ pc \in {"idle", "run", "wait", "returned", "replaced"}
  /\ n \in 1 .. MaxCalls
  /\ cmd_fork \in BOOLEAN
  /\ child \in Forked \cup {-1, 0}
  /\ child_status \in Nat
  /\ rc \in Nat \cup {-1}
  /\ rv \in Nat
  /\ kid \in [Pids -> {"unborn", "copy", "program", "zombie", "reaped"}]
  /\ wstatus \in [Pids -> Nat]

\* The process has no children but those of its calls, and no wait() of it is
\* interrupted.
Alone == ~handler /\ \A p \in Others : kid[p] = "unborn"

\* A call that forked a child returns only when that very child has ended and
\* has been reaped, and returns its wait status, whichever way the child ended
\* and however many calls came before.  wait_cmd() looks at nothing but the
\* status word, so this holds only of a process that is alone.
StatusIsChilds ==
  Alone /\ pc = "returned" /\ cmd_fork /\ child = n =>
    kid[n] = "reaped" /\ rv = wstatus[n]

\* Between the calls of a process that is alone nothing of an earlier call is
\* left: no child still running that the caller does not know of, no zombie.
NoChildLeft ==
  Alone /\ pc \in {"idle", "returned"} =>
    \A p \in Forked : kid[p] \in {"unborn", "reaped"}

\* A call hangs only as long as the program it started runs (or, in a process
\* that is not alone, some other child): it returns, or is replaced by the
\* program, unless from some point on it waits for a program that never ends.
\* A child killed by a signal must get it out of the wait loop as well as one
\* that exits.
Awaited == IF Alone THEN {n} ELSE Pids

CallEnds ==
  pc = "run" ~> \/ pc \in {"returned", "replaced"}
                \/ [](pc = "wait" /\ \E p \in Awaited : kid[p] = "program")

\* Whatever other children the caller has and however wait() fails, a call
\* never makes up a failure: a status other than 0 is that of some child of the
\* caller that has been reaped.
BadStatusIsReal ==
  pc = "returned" /\ cmd_fork /\ rv # 0 =>
    \E p \in Pids : kid[p] = "reaped" /\ wstatus[p] = rv
===============================================================================
