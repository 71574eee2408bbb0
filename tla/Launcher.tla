------------------------------- MODULE Launcher -------------------------------
(***************************************************************************)
(* What README promises of a call of ush: the commands given as options    *)
(* are executed in order of appearance, each with its effect on what the   *)
(* program will inherit; if all of them succeeded, and only then, the      *)
(* program may be started, with exactly what they have prepared.  Less     *)
(* than README says is promised of a script: a variable that it sets may   *)
(* have lost its value when the program is started.                        *)
(*                                                                         *)
(* The preparations are those of one process that goes on from call to     *)
(* call, as in the code; that they are not undone for the caller is a      *)
(* promise of its own (Ush!CallerUntouched).                               *)
(***************************************************************************)
EXTENDS Integers

CONSTANTS
  Fds, Std, Closed, \* descriptors
  Dirs, Names,      \* directories, and names of files in them
  Masks,            \* umasks
  Vars, Values, Unset, \* environment variables, their values
  Lost,             \* the value of a variable that has lost its own
  Own,              \* a file that the launcher itself may leave open
  Attributes,       \* what a process may have to begin with
  None              \* no program has been started

VARIABLES
  phase, \* "idle", "preparing", "reading" a script, "started" or "stopped"
  attr,  \* cwd, mask, env and fds
  doomed,\* has an option failed?
  given  \* what the program was started with

launcherVars == <<phase, attr, doomed, given>>

Init ==
  /\ phase = "idle"
  /\ attr \in Attributes
  /\ doomed = FALSE
  /\ given = None

Call ==
  /\ phase = "idle"
  /\ phase' = "preparing"
  /\ doomed' = FALSE
  /\ given' = None
  /\ attr' = attr

\* --chdir, --umask, --clearenv, --env, --stdin, --stdout, --stderr and their
\* variants, --close-from.
Prepared ==
  \/ \E d \in Dirs : attr' = [attr EXCEPT !.cwd = d]
  \/ \E m \in Masks : attr' = [attr EXCEPT !.mask = m]
  \/ attr' = [attr EXCEPT !.env = [v \in Vars |-> Unset]]
  \/ \E v \in Vars, w \in Values : attr' = [attr EXCEPT !.env[v] = w]
  \/ \E f \in Std, name \in Names :
       attr' = [attr EXCEPT !.fds[f] = <<attr.cwd, name>>]
  \/ \E k \in Fds :
       attr' = [attr EXCEPT !.fds =
                  [f \in Fds |-> IF f >= k THEN Closed ELSE @[f]]]

Reads ==
  /\ phase = "preparing"
  /\ phase' = "reading"
  /\ UNCHANGED <<attr, doomed, given>>

Prepare ==
  /\ phase \in {"preparing", "reading"}
  /\ \/ Prepared
     \/ phase = "reading" /\ \E v \in Vars : attr' = [attr EXCEPT !.env[v] = Lost]
  /\ UNCHANGED <<phase, doomed, given>>

\* An option that fails may have had its effect all the same, or a part of it:
\* a file has been opened, and is left so; some descriptors have been closed.
HalfDone ==
  \/ \E f \in Fds, name \in Names :
       /\ attr.fds[f] = Closed
       /\ attr' = [attr EXCEPT !.fds[f] = <<attr.cwd, name>>]
  \/ \E k, l \in Fds :
       attr' = [attr EXCEPT !.fds =
                  [f \in Fds |-> IF f \in k .. l THEN Closed ELSE @[f]]]

Fail ==
  /\ phase \in {"preparing", "reading"}
  /\ Prepared \/ HalfDone \/ attr' = attr
  /\ doomed' = TRUE
  /\ UNCHANGED <<phase, given>>

\* The program gets what was prepared, and at most one more descriptor.
Inherits(fds) ==
  \/ fds = attr.fds
  \/ \E f \in Fds : attr.fds[f] = Closed /\ fds = [attr.fds EXCEPT ![f] = Own]

Start ==
  /\ phase \in {"preparing", "reading"}
  /\ ~doomed
  /\ phase' = "started"
  /\ DOMAIN given' = DOMAIN attr
  /\ \A a \in DOMAIN attr \ {"fds"} : given'[a] = attr[a]
  /\ Inherits(given'.fds)
  /\ UNCHANGED <<attr, doomed>>

End ==
  /\ phase \in {"preparing", "reading", "started"}
  /\ phase' \in {"idle", "stopped"}
  /\ UNCHANGED <<attr, doomed, given>>

Next == Call \/ Reads \/ Prepare \/ Fail \/ Start \/ End

Spec == Init /\ [][Next]_launcherVars
===============================================================================
