--------------------------------- MODULE Ush ---------------------------------
(***************************************************************************)
(* libush/ush.c with the handlers of its options (cmd-chdir.c, cmd-env.c,  *)
(* cmd-umask.c, io-redirect.c) and the course of a script                  *)
(* (run-interpret.c): a process calls ush() or ush_argv() several times;   *)
(* each call carries out its options one by one, in the calling process,   *)
(* and then has run_program() (module RunProgram) run the program, or      *)
(* reads a script of more options and a program.                           *)
(*                                                                         *)
(* What a program inherits is the record attr.  Options are chosen one at  *)
(* a time, as the argument vector or the script holds them.  A script is a *)
(* list of such options, then "--", then the program and its arguments.    *)
(* Not here: the argument vector of the program, the encodings of scripts, *)
(* and --debug, --verbose, --show-argv, which only print.                  *)
(***************************************************************************)
EXTENDS FdTable

CONSTANTS
  MaxCalls,    \* how many calls the process makes (a bound)
  MaxOptions,  \* how many options all calls and scripts have (a bound)
  OptErrLimit, \* 10 in ush_getopt(): more errors end the loop
  Dirs,        \* directories that exist
  NoDir,       \* a directory that does not
  Names,       \* names of files, relative to the current directory
  Masks,       \* valid umasks
  Vars,        \* names of environment variables
  Values,      \* values of environment variables
  Lowest,      \* numbers given to --close-from
  Unset,       \* an environment variable that is not set
  Garbage,     \* the value of one that lies in memory that has been freed
  Inherited,   \* what the descriptors are open on at first
  ScriptFile,  \* the script
  Tables,      \* descriptor tables the process may start with
  None,        \* no program has been started
  UseScripts,  \* are calls made without --command?
  ExitCodes, Signals, ExecErrnos, ForkMayFail \* see RunProgram

ENOENT == 2
EACCES == 13
EFAULT == 14
EBUSY == 16
EEXIST == 17
EISDIR == 21
EINVAL == 22
EMFILE == 24

ASSUME UshAssumption ==
  /\ MaxCalls \in Nat \ {0}
  /\ MaxOptions \in Nat
  /\ OptErrLimit \in Nat
  /\ NoDir \notin Dirs /\ Dirs # {}
  /\ 0 \in Masks /\ Masks \subseteq 0 .. 511
  /\ {Unset, Garbage} \cap Values = {}
  /\ Lowest \subseteq Nat
  /\ Closed # ScriptFile
  /\ {Closed, ScriptFile} \cap (Inherited \cup Dirs \X Names) = {}
  /\ Tables \subseteq [Fds -> Inherited \cup {Closed}]
  /\ UseScripts \in BOOLEAN

ASSUME RunParameters ==
  /\ ExitCodes \subseteq 0 .. 255
  /\ Signals \subseteq 1 .. 126
  /\ ExecErrnos \subseteq 1 .. 255
  /\ ForkMayFail \in BOOLEAN

VARIABLES
  handler, pc, n, cmd_fork, child, child_status, rc, rv, kid,
  wstatus,     \* see RunProgram

  at,          \* where the process is: see TypeOK
  calls,       \* how many calls it has made
  left,        \* how many more options there may be
  err_count,   \* of ush_getopt(), then of run_interpret_linebuf()
  opt_command, \* the static variable of that name
  ioerr,       \* cmd->ioerr
  script,      \* the descriptor a script is read from, or -1
  attr,        \* what a program inherits: cwd, mask, env and fds
  files,       \* the files that exist
  status,      \* what the call returned, or the exit code of the process

  failed,      \* history: has an option of this call failed?
  given,       \* history: what the program of this call was started with
  before       \* history: attr when this call was made

runVars == <<handler, pc, n, cmd_fork, child, child_status, rc, rv, kid,
             wstatus>>
history == <<failed, given, before>>
vars == <<runVars, at, calls, left, err_count, opt_command, ioerr, script,
          attr, files, status, history>>

\* The process has no children of its own and handles no signals here.
R == INSTANCE RunProgram WITH Others <- {}

Init ==
  /\ R!Init
  /\ ~handler
  /\ at = "out"
  /\ calls = 0
  /\ left = MaxOptions
  /\ err_count = 0
  /\ opt_command = FALSE
  /\ ioerr = 0
  /\ script = -1
  /\ \E d \in Dirs, m \in Masks, t \in Tables :
       attr = [cwd |-> d, mask |-> m, env |-> [v \in Vars |-> Unset],
               fds |-> t]
  /\ files \in SUBSET (Dirs \X Names)
  /\ status = 0
  /\ failed = FALSE
  /\ given = None
  /\ before = attr

\* A call of ush() or ush_argv(): what earlier calls left in the static
\* variables is still there.
Enter ==
  /\ at = "out"
  /\ calls < MaxCalls
  /\ calls' = calls + 1
  /\ at' = "options"
  /\ err_count' = 0
  /\ failed' = FALSE
  /\ given' = None
  /\ before' = attr
  /\ IF pc = "returned" THEN R!NextCall ELSE UNCHANGED runVars
  /\ UNCHANGED <<left, opt_command, ioerr, script, attr, files, status>>

(***************************************************************************)
(* Options.  Each is a turn of the loop of ush_getopt(), in the arguments  *)
(* of the call or, one option a vector, in a script.                       *)
(***************************************************************************)
\* A mutant: the loop goes on, however many errors there are.
ReadingDespiteErrors ==
  /\ left > 0
  /\ at \in {"options", "lines"}

Reading ==
  /\ left > 0
  /\ \/ at = "options" /\ err_count <= OptErrLimit
     \/ at = "lines"

Option ==
  /\ Reading
  /\ left' = left - 1
  /\ UNCHANGED <<at, calls, script, status, given, before>>

\* A mutant: err_count = (rv != 0) instead of ++err_count.
CountLast(ok) ==
  /\ err_count' = IF ok THEN 0 ELSE 1
  /\ failed' = (failed \/ ~ok)

Count(ok) ==
  /\ err_count' = IF ok THEN err_count ELSE err_count + 1
  /\ failed' = (failed \/ ~ok)

\* An option that only sets a variable.
OptFork ==
  /\ Option
  /\ R!SetFork(TRUE)
  /\ Count(TRUE)
  /\ UNCHANGED <<opt_command, ioerr, attr, files>>

OptCommand ==
  /\ Option
  /\ opt_command' = TRUE
  /\ Count(TRUE)
  /\ UNCHANGED <<runVars, ioerr, attr, files>>

\* An option that is carried out at once, in the calling process.
Prepares ==
  /\ Option
  /\ UNCHANGED <<runVars, opt_command>>

OptChdir(dir) ==
  /\ Prepares
  /\ attr' = IF dir \in Dirs THEN [attr EXCEPT !.cwd = dir] ELSE attr
  /\ ioerr' = IF dir \in Dirs THEN ioerr ELSE ENOENT
  /\ Count(dir \in Dirs)
  /\ files' = files

\* umask() returns the old mask, and cmd_umask() returns that: the option
\* counts as failed unless the old mask was 0.
OptUmask(mask) ==
  /\ Prepares
  /\ attr' = [attr EXCEPT !.mask = mask]
  /\ Count(attr.mask = 0)
  /\ UNCHANGED <<ioerr, files>>

OptBadUmask ==
  /\ Prepares
  /\ ioerr' = EINVAL
  /\ Count(FALSE)
  /\ UNCHANGED <<attr, files>>

OptClearenv ==
  /\ Prepares
  /\ attr' = [attr EXCEPT !.env = [v \in Vars |-> Unset]]
  /\ Count(TRUE)
  /\ UNCHANGED <<ioerr, files>>

\* putenv() keeps a pointer to its argument.  In a script that is the line
\* buffer, which is freed before the next line is read.
OptEnv(var, value) ==
  /\ Prepares
  /\ \E kept \in IF at = "lines" THEN {value, Garbage} ELSE {value} :
       attr' = [attr EXCEPT !.env[var] = kept]
  /\ Count(TRUE)
  /\ UNCHANGED <<ioerr, files>>

OptBadEnv ==
  /\ Prepares
  /\ Count(FALSE)
  /\ UNCHANGED <<ioerr, attr, files>>

\* set_stdin() and set_write_fd() as a whole (module IoRedirect): access() of
\* the -new variants, open(), dup2() and close() of what open() returned.
\* Which files may be opened is not modelled, so any may be refused.
Path(name) == <<attr.cwd, name>>

OpenErrors(fd, name, new) ==
  {e \in {EEXIST, ENOENT, EMFILE} :
     \/ e = EEXIST /\ new /\ Path(name) \in files
     \/ e = ENOENT /\ fd = 0 /\ Path(name) \notin files
     \/ e = EMFILE /\ TableFull(attr.fds)}

OptOpenFails(fd, name, new) ==
  /\ Prepares
  /\ ioerr' \in OpenErrors(fd, name, new) \cup {EACCES}
  /\ Count(FALSE)
  /\ UNCHANGED <<attr, files>>

\* open() has returned low.
OpensAt(low, fd, name, new) ==
  /\ OpenErrors(fd, name, new) = {}
  /\ IsLowestFree(attr.fds, low)
  /\ files' = files \cup {Path(name)}

OptRedirect(fd, name, new) ==
  /\ Prepares
  /\ \E low \in Fds :
       /\ OpensAt(low, fd, name, new)
       /\ attr' = [attr EXCEPT !.fds =
                     CloseFd(Dup2(Opened(@, low, Path(name)), low, fd), low)]
  /\ Count(TRUE)
  /\ ioerr' = ioerr

\* dup2() fails (never that of a descriptor to itself): the descriptor of
\* open() stays open.
OptDupFails(fd, name, new) ==
  /\ Prepares
  /\ \E low \in Fds \ {fd} :
       /\ OpensAt(low, fd, name, new)
       /\ attr' = [attr EXCEPT !.fds = Opened(@, low, Path(name))]
  /\ ioerr' = EBUSY
  /\ Count(FALSE)

\* ush_close_from() as a whole (module CloseFrom).  It stops at the first
\* close() that fails, and that closes its descriptor all the same (last), or
\* after lowest, if neither the directory nor the limit can be had.
ClosedFrom(range) ==
  attr' = [attr EXCEPT !.fds =
             [f \in Fds |-> IF f \in range THEN Closed ELSE @[f]]]

OptCloseFrom(lowest) ==
  /\ Prepares
  /\ ClosedFrom(lowest .. MaxFd)
  /\ Count(TRUE)
  /\ UNCHANGED <<ioerr, files>>

OptCloseFromFails(lowest) ==
  /\ Prepares
  /\ \E last \in {lowest} \cup OpenFds(attr.fds) : ClosedFrom(lowest .. last)
  /\ Count(FALSE)
  /\ UNCHANGED <<ioerr, files>>

\* An unknown or ambiguous option, a missing argument, an argument of
\* --close-from that is not a number.
OptWrong ==
  /\ Prepares
  /\ Count(FALSE)
  /\ UNCHANGED <<ioerr, attr, files>>

Exit(code) ==
  /\ at' = "exited"
  /\ status' = code
  /\ UNCHANGED <<runVars, calls, left, err_count, opt_command, ioerr, script,
                 attr, files, history>>

\* --help and --version end the calling process.
OptHelp ==
  /\ Reading
  /\ Exit(0)

(***************************************************************************)
(* ush_argv() after its options.                                           *)
(***************************************************************************)
OptionErrors ==
  /\ at = "options"
  /\ err_count > 0
  /\ Exit(1)

OptionsDone == at = "options" /\ err_count = 0

NoCommandName ==
  /\ OptionsDone
  /\ Exit(2)

IoErrorSeen ==
  /\ OptionsDone
  /\ ioerr # 0
  /\ Exit(2)

RunCommand ==
  /\ OptionsDone
  /\ ioerr = 0
  /\ opt_command
  /\ R!Call
  /\ at' = "run"
  /\ UNCHANGED <<calls, left, err_count, opt_command, ioerr, script, attr,
                 files, status, history>>

\* A mutant: the status that wait() stored is returned as it is.
ReturnsAsIs(value) ==
  /\ at' = "out"
  /\ status' = value
  /\ UNCHANGED <<runVars, calls, left, err_count, opt_command, ioerr, files,
                 history>>

\* Back in the caller.
Returns(value) ==
  /\ at' = "out"
  /\ status' = IF cmd_fork THEN R!WEXITSTATUS(value) ELSE value
  /\ UNCHANGED <<runVars, calls, left, err_count, opt_command, ioerr, files,
                 history>>

OpensScript == OptionsDone /\ ioerr = 0 /\ ~opt_command /\ UseScripts

OpenScriptFails ==
  /\ OpensScript
  /\ \E e \in {ENOENT, EACCES, EISDIR, EMFILE} :
       /\ e = EMFILE => TableFull(attr.fds)
       /\ Returns(e)
  /\ UNCHANGED <<script, attr>>

OpenScript ==
  /\ OpensScript
  /\ \E low \in Fds :
       /\ IsLowestFree(attr.fds, low)
       /\ script' = low
       /\ attr' = [attr EXCEPT !.fds = Opened(@, low, ScriptFile)]
  /\ at' = "lines"
  /\ err_count' = 0
  /\ UNCHANGED <<runVars, calls, left, opt_command, ioerr, files, status, history>>

(***************************************************************************)
(* run_interpret_linebuf() and run_interpret_xfname()                      *)
(***************************************************************************)
\* A mutant: the fclose() is forgotten.
CloseScriptNot ==
  /\ attr' = attr
  /\ script' = -1

CloseScript ==
  /\ attr' = [attr EXCEPT !.fds = CloseFd(@, script)]
  /\ script' = -1

\* End of file can be seen only as long as the descriptor is open.
Readable == attr.fds[script] = ScriptFile

ScriptErrors ==
  /\ at = "lines"
  /\ err_count > 0
  /\ Returns(EFAULT)
  /\ CloseScript

\* A mutant: the test for a blank line comes before the test for end of file.
ScriptWithoutEnd ==
  /\ at = "lines"
  /\ err_count = 0
  /\ Readable
  /\ at' = "spinning"
  /\ UNCHANGED <<runVars, calls, left, err_count, opt_command, ioerr, script,
                 attr, files, status, history>>

ScriptWithoutCommand ==
  /\ at = "lines"
  /\ err_count = 0
  /\ Readable
  /\ Returns(EFAULT)
  /\ CloseScript

\* The line "--".
EndOfLines ==
  /\ at = "lines"
  /\ err_count = 0
  /\ at' = "args"
  /\ UNCHANGED <<runVars, calls, left, err_count, opt_command, ioerr, script,
                 attr, files, status, history>>

\* Nothing but blank lines and comments after "--".
NothingToRun ==
  /\ at = "args"
  /\ Readable
  /\ Returns(0)
  /\ CloseScript

RunScript ==
  /\ at = "args"
  /\ Readable
  /\ R!Call
  /\ at' = "run"
  /\ UNCHANGED <<calls, left, err_count, opt_command, ioerr, script, attr,
                 files, status, history>>

\* A read error is not end of file: the loop reads again, and again.
ReadFails ==
  /\ at \in {"lines", "args"}
  /\ ~Readable
  /\ at' = "spinning"
  /\ UNCHANGED <<runVars, calls, left, err_count, opt_command, ioerr, script,
                 attr, files, status, history>>

(***************************************************************************)
(* run_program(), the child, and the end of the call.                      *)
(***************************************************************************)
others == <<calls, left, err_count, opt_command, ioerr, script, attr, files,
            status, failed, before>>

\* The program is started, by exec() in this process or in the child.
Started ==
  \/ pc = "run" /\ pc' = "replaced"
  \/ \E p \in R!Pids : kid[p] = "copy" /\ kid'[p] = "program"

Running ==
  /\ at = "run"
  /\ R!RunStep \/ \E p \in R!Pids : R!ChildStep(p)
  /\ at' = IF pc' = "replaced" THEN "replaced" ELSE at
  /\ given' = IF Started THEN attr ELSE given
  /\ UNCHANGED others

ProgramRuns ==
  /\ \E p \in R!Pids : R!ProgramStep(p)
  /\ UNCHANGED <<others, at, given>>

Return ==
  /\ at = "run"
  /\ pc = "returned"
  /\ Returns(rv)
  /\ IF script = -1 THEN UNCHANGED <<script, attr>> ELSE CloseScript

Handle ==
  \/ OptFork \/ OptCommand
  \/ \E dir \in Dirs \cup {NoDir} : OptChdir(dir)
  \/ \E mask \in Masks : OptUmask(mask)
  \/ OptBadUmask
  \/ OptClearenv
  \/ \E var \in Vars, value \in Values : OptEnv(var, value)
  \/ OptBadEnv
  \/ \E fd \in Std, name \in Names, new \in BOOLEAN :
       /\ fd = 0 => ~new
       /\ \/ OptRedirect(fd, name, new)
          \/ OptOpenFails(fd, name, new)
          \/ OptDupFails(fd, name, new)
  \/ \E lowest \in Lowest : OptCloseFrom(lowest) \/ OptCloseFromFails(lowest)
  \/ OptWrong
  \/ OptHelp

Proceed ==
  \/ OptionErrors \/ NoCommandName \/ IoErrorSeen \/ RunCommand
  \/ OpenScriptFails \/ OpenScript
  \/ ScriptErrors \/ ScriptWithoutCommand \/ EndOfLines
  \/ NothingToRun \/ RunScript \/ ReadFails
  \/ Running \/ Return

Next ==
  \/ Enter
  \/ Handle
  \/ Proceed
  \/ ProgramRuns

\* A vector of arguments and a script are finite, so the options come to an
\* end and the code after them runs; programs need not end.
Spec == Init /\ [][Next]_vars /\ WF_vars(Proceed)
-------------------------------------------------------------------------------
(***************************************************************************)
(* Properties.                                                             *)
(***************************************************************************)

\* Every variable has its type; at most one script is open, and only while a
\* call reads or runs it.
AttrWith(values) ==
  [cwd : Dirs, mask : Masks, env : [Vars -> values],
   fds : [Fds -> Inherited \cup {Closed, ScriptFile} \cup (Dirs \X Names)]]

TypeOK ==
  /\ R!TypeOK
  /\ at \in {"out", "options", "lines", "args", "spinning", "run", "replaced",
             "exited"}
  /\ calls \in 0 .. MaxCalls
  /\ left \in 0 .. MaxOptions
  /\ err_count \in 0 .. MaxOptions
  /\ at = "options" => err_count <= OptErrLimit + 1
  /\ opt_command \in BOOLEAN
  /\ ioerr \in 0 .. 255
  /\ script \in Fds \cup {-1}
  /\ at \in {"out", "options"} => script = -1
  /\ attr \in AttrWith(Values \cup {Unset, Garbage})
  /\ files \subseteq Dirs \X Names
  /\ status \in Nat
  /\ failed \in BOOLEAN
  /\ given # None => given \in AttrWith(Values \cup {Unset, Garbage})
  /\ before \in AttrWith(Values \cup {Unset, Garbage})

\* What README promises (module Launcher): a program is started only if every
\* option of the call has succeeded, on the command line and in the script,
\* with just what they have prepared, in the order in which they came, earlier
\* calls and their statics notwithstanding; but for the environment variables
\* that a script has set.  It holds as long as the standard descriptors are
\* open.
Hidden(a) ==
  IF script = -1 THEN a ELSE [a EXCEPT !.fds = CloseFd(@, script)]

Phase ==
  CASE at = "out" -> "idle"
    [] at = "exited" -> "stopped"
    [] at \in {"run", "replaced"} /\ given # None -> "started"
    [] OTHER -> IF script = -1 THEN "preparing" ELSE "reading"

Promise == INSTANCE Launcher
  WITH Own <- ScriptFile,
       Lost <- Garbage,
       Attributes <- AttrWith({Unset}),
       phase <- Phase,
       attr <- Hidden(attr),
       doomed <- failed

PromiseKept == Promise!Spec

\* If the program of a forking call exits, the call returns its exit code.
HonestStatus ==
  at = "out" /\ given # None /\ R!WIFEXITED(wstatus[n]) =>
    status = R!WEXITSTATUS(wstatus[n])

\* A call that reads a script gives the caller no descriptor of it back.  If
\* all its options have succeeded, it gives back none at all but standard ones
\* that it did not have; and if some have failed, at most files that were to
\* be redirected to (dup2() has failed).
NoScriptLeft ==
  at = "out" =>
    \A f \in Fds :
      /\ attr.fds[f] # ScriptFile
      /\ \/ f \in Std
         \/ attr.fds[f] \in {before.fds[f], Closed}
         \/ failed /\ attr.fds[f] \in Dirs \X Names

\* A call comes to an end: it returns, exits, or becomes the program, unless
\* it waits for a program that does not end, or a script has closed its own
\* descriptor.
UshEnds ==
  at = "options" ~>
    \/ at \in {"out", "exited", "replaced"}
    \/ script # -1 /\ ~Readable
    \/ [](at = "run" /\ kid[n] = "program")

(***************************************************************************)
(* What the documentation says and the code does not do.                   *)
(***************************************************************************)

\* ush.h: "Actions -- after fork(), if any, and before exec()".  A call with
\* --fork that returns leaves the attributes of its caller alone.
CallerUntouched ==
  at = "out" /\ given # None => attr = before
===============================================================================
