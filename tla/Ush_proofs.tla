------------------------------ MODULE Ush_proofs ------------------------------
(***************************************************************************)
(* For every number of calls and options, every table of descriptors and   *)
(* every option: a script that has been opened is closed again before its  *)
(* call returns, a program is started as module Launcher promises: only    *)
(* if nothing has failed, and with exactly what was prepared, and a call   *)
(* that forks returns the exit code of its own program.                    *)
(***************************************************************************)
EXTENDS Ush, TLAPS

Files == Inherited \cup {Closed, ScriptFile} \cup (Dirs \X Names)
FdTables == [Fds -> Files]
AttrValues == AttrWith(Values \cup {Unset, Garbage})

(***************************************************************************)
(* The invariant.                                                          *)
(***************************************************************************)
AttrsOK == attr \in AttrValues /\ before \in AttrValues

\* A script is open exactly while a call reads it, and possibly while its
\* program runs.
ScriptOpen ==
  /\ script \in Fds \cup {-1}
  /\ at \in {"out", "options"} => script = -1
  /\ at \in {"lines", "args"} => script \in Fds

\* The descriptor of the script apart, none is open on it; the standard ones
\* apart, the others are at most closed, as long as no option has failed.
OthersKept ==
  \A f \in Fds : f # script =>
    /\ attr.fds[f] # ScriptFile
    /\ \/ f \in Std
       \/ attr.fds[f] \in {before.fds[f], Closed}
       \/ failed /\ attr.fds[f] \in Dirs \X Names

IInv == AttrsOK /\ ScriptOpen /\ OthersKept

(***************************************************************************)
(* Descriptor tables.                                                      *)
(***************************************************************************)
LEMMA TableOf ==
  ASSUME NEW a \in AttrValues
  PROVE  /\ a.fds \in FdTables /\ a.cwd \in Dirs
         /\ \A t \in FdTables : /\ [a EXCEPT !.fds = t] \in AttrValues
                                /\ [a EXCEPT !.fds = t].fds = t
BY DEF AttrValues, AttrWith, FdTables, Files

LEMMA Kinds ==
  /\ Closed \in Files /\ ScriptFile \in Files
  /\ \A d \in Dirs, name \in Names : <<d, name>> \in Files
  /\ Closed # ScriptFile
  /\ {Closed, ScriptFile} \cap (Dirs \X Names) = {}
BY UshAssumption DEF Files

LEMMA Redirected ==
  ASSUME NEW t \in FdTables, NEW low \in Fds, NEW fd \in Std, NEW file \in Files
  PROVE  LET u == CloseFd(Dup2(Opened(t, low, file), low, fd), low)
         IN  /\ u \in FdTables
             /\ \A f \in Fds : u[f] \in {t[f], Closed} \/ (f = fd /\ u[f] = file)
<1>1. Std \subseteq Fds
  BY FdAssumption DEF Fds, Std
<1> DEFINE o == Opened(t, low, file)
           d == Dup2(o, low, fd)
           u == CloseFd(d, low)
<1>2. o \in FdTables /\ \A f \in Fds : o[f] = IF f = low THEN file ELSE t[f]
  BY DEF Opened, FdTables
<1>3. d \in FdTables /\ \A f \in Fds : d[f] = IF f = fd THEN o[low] ELSE o[f]
  BY <1>1, <1>2 DEF Dup2, FdTables
<1>4. u \in FdTables /\ \A f \in Fds : u[f] = IF f = low THEN Closed ELSE d[f]
  BY <1>3, Kinds DEF CloseFd, FdTables
<1> QED
  BY <1>1, <1>2, <1>3, <1>4

\* If the standard descriptors are open, a redirection changes one of them.
OptRedirectTo(fd, name, low) ==
  /\ IsLowestFree(attr.fds, low)
  /\ attr' = [attr EXCEPT !.fds =
                CloseFd(Dup2(Opened(@, low, Path(name)), low, fd), low)]

LEMMA RedirectedTo ==
  ASSUME attr \in AttrValues, \A f \in Std : attr.fds[f] # Closed,
         NEW fd \in Std, NEW name \in Names, NEW low \in Fds,
         OptRedirectTo(fd, name, low)
  PROVE  /\ attr' = [attr EXCEPT !.fds = [@ EXCEPT ![fd] = Path(name)]]
         /\ \A f \in Std : attr'.fds[f] # Closed
<1>1. Std \subseteq Fds
  BY FdAssumption DEF Fds, Std
<1>2. attr.fds \in FdTables /\ attr.cwd \in Dirs
  BY TableOf
<1>3. Path(name) \in Files /\ Path(name) # Closed
  BY <1>2, Kinds DEF Path
<1>4. low \notin Std /\ attr.fds[low] = Closed
  BY DEF OptRedirectTo, IsLowestFree
<1> DEFINE t == attr.fds
           u == CloseFd(Dup2(Opened(t, low, Path(name)), low, fd), low)
           w == [t EXCEPT ![fd] = Path(name)]
<1>5. u \in FdTables /\ w \in FdTables
  BY <1>1, <1>2, <1>3, Redirected DEF FdTables
<1>6. \A f \in Fds : u[f] = w[f]
  BY <1>1, <1>2, <1>3, <1>4, <1>5 DEF CloseFd, Dup2, Opened, FdTables
<1>7. u = w
  BY <1>5, <1>6 DEF FdTables
<1>8. attr' = [attr EXCEPT !.fds = w]
  BY <1>7 DEF OptRedirectTo
<1>9. attr'.fds = w
  BY <1>5, <1>8, TableOf
<1>10. \A f \in Std : w[f] # Closed
  BY <1>1, <1>2, <1>3 DEF FdTables
<1> QED
  BY <1>8, <1>9, <1>10

LEMMA RedirectTo ==
  ASSUME NEW fd, NEW name, NEW new, OptRedirect(fd, name, new)
  PROVE  \E low \in Fds : OptRedirectTo(fd, name, low)
BY DEF OptRedirect, OptRedirectTo, OpensAt

\* A dup2() that fails leaves one more descriptor open.
LEMMA LeftOpen ==
  ASSUME attr \in AttrValues, NEW fd \in Std, NEW name \in Names, NEW new,
         OptDupFails(fd, name, new)
  PROVE  \E low \in Fds :
           /\ attr.fds[low] = Closed
           /\ attr' = [attr EXCEPT !.fds = [attr.fds EXCEPT ![low] = Path(name)]]
           /\ attr' \in AttrValues
           /\ attr'.fds = [attr.fds EXCEPT ![low] = Path(name)]
           /\ attr'.fds[low] = Path(name)
           /\ \A f \in Fds \ {low} : attr'.fds[f] = attr.fds[f]
<1>1. PICK low \in Fds :
        /\ IsLowestFree(attr.fds, low)
        /\ attr' = [attr EXCEPT !.fds = Opened(attr.fds, low, Path(name))]
  BY DEF OptDupFails, OpensAt
<1>2. attr.fds \in FdTables /\ Path(name) \in Files
  BY TableOf, Kinds DEF Path
<1> DEFINE w == [attr.fds EXCEPT ![low] = Path(name)]
<1>3. w \in FdTables /\ w[low] = Path(name)
      /\ \A f \in Fds \ {low} : w[f] = attr.fds[f]
  BY <1>2 DEF FdTables
<1>4. attr.fds[low] = Closed /\ attr' = [attr EXCEPT !.fds = w]
  BY <1>1 DEF IsLowestFree, Opened
<1> HIDE DEF w
<1>5. attr' \in AttrValues /\ attr'.fds = w
  BY <1>3, <1>4, TableOf
<1> QED
  BY <1>3, <1>4, <1>5 DEF w

LEMMA Cut ==
  ASSUME attr \in AttrValues, NEW range, ClosedFrom(range)
  PROVE  \E w \in FdTables :
           /\ attr' = [attr EXCEPT !.fds = w]
           /\ attr' \in AttrValues /\ attr'.fds = w
           /\ \A f \in Fds : w[f] = IF f \in range THEN Closed ELSE attr.fds[f]
<1> DEFINE w == [f \in Fds |-> IF f \in range THEN Closed ELSE attr.fds[f]]
<1>1. attr' = [attr EXCEPT !.fds = w]
  BY DEF ClosedFrom
<1>2. /\ w \in FdTables
      /\ \A f \in Fds : w[f] = IF f \in range THEN Closed ELSE attr.fds[f]
  BY TableOf, Kinds DEF FdTables
<1> HIDE DEF w
<1>3. attr' \in AttrValues /\ attr'.fds = w
  BY <1>1, <1>2, TableOf
<1> QED
  BY <1>1, <1>2, <1>3

(***************************************************************************)
(* Kinds of steps.                                                         *)
(***************************************************************************)
\* An option at most closes descriptors that are not standard ones, unless it
\* fails.
LEMMA PreparingKeeps ==
  ASSUME IInv, at' = at, script' = script, before' = before,
         failed => failed', attr' \in AttrValues,
         \A f \in Fds :
           \/ attr'.fds[f] \in {attr.fds[f], Closed}
           \/ attr'.fds[f] \in Dirs \X Names /\ (f \in Std \/ failed')
  PROVE  IInv'
<1>1. AttrsOK'
  BY DEF IInv, AttrsOK
<1>2. ScriptOpen'
  BY DEF IInv, ScriptOpen
<1>3. OthersKept'
  BY Kinds DEF IInv, OthersKept
<1> QED
  BY <1>1, <1>2, <1>3 DEF IInv

LEMMA StandingStill ==
  ASSUME IInv, UNCHANGED <<script, before, attr, failed>>,
         at' = at \/ at' \notin {"out", "options", "lines", "args"}
                  \/ (at' = "out" /\ script = -1)
                  \/ (at' = "args" /\ script \in Fds)
  PROVE  IInv'
<1>1. AttrsOK'
  BY DEF IInv, AttrsOK
<1>2. ScriptOpen'
  BY DEF IInv, ScriptOpen
<1>3. OthersKept'
  BY DEF IInv, OthersKept
<1> QED
  BY <1>1, <1>2, <1>3 DEF IInv

LEMMA ClosingKeeps ==
  ASSUME IInv, script \in Fds, CloseScript, UNCHANGED <<before, failed>>,
         at' = "out"
  PROVE  IInv'
<1>1. attr.fds \in FdTables
  BY TableOf DEF IInv, AttrsOK
<1> DEFINE t == CloseFd(attr.fds, script)
<1>2. t \in FdTables /\ \A f \in Fds : t[f] = IF f = script THEN Closed
                                                           ELSE attr.fds[f]
  BY <1>1, Kinds DEF CloseFd, FdTables
<1>3. attr' = [attr EXCEPT !.fds = t] /\ script' = -1
  BY DEF CloseScript
<1> HIDE DEF t
<1>4. attr' \in AttrValues /\ attr'.fds = t
  BY <1>2, <1>3, TableOf DEF IInv, AttrsOK
<1>5. AttrsOK' /\ ScriptOpen'
  BY <1>3, <1>4 DEF IInv, AttrsOK, ScriptOpen
<1>6. OthersKept'
  BY <1>2, <1>4, Kinds DEF IInv, OthersKept
<1> QED
  BY <1>5, <1>6 DEF IInv

(***************************************************************************)
(* The options.                                                            *)
(***************************************************************************)
LEMMA OptionFrame ==
  ASSUME Option
  PROVE  at' = at /\ script' = script /\ before' = before
BY DEF Option

\* Every option but --help is counted, as a success or as a failure.
LEMMA Counts ==
  ASSUME Handle
  PROVE  OptHelp \/ (Option /\ \E ok \in BOOLEAN : Count(ok))
<1>1. ASSUME NEW dir, OptChdir(dir)
      PROVE  Option /\ \E ok \in BOOLEAN : Count(ok)
  <2>1. (dir \in Dirs) \in BOOLEAN
    OBVIOUS
  <2> QED
    BY <1>1, <2>1 DEF OptChdir, Prepares
<1>2. ASSUME NEW mask, OptUmask(mask)
      PROVE  Option /\ \E ok \in BOOLEAN : Count(ok)
  <2>1. (attr.mask = 0) \in BOOLEAN
    OBVIOUS
  <2> QED
    BY <1>2, <2>1 DEF OptUmask, Prepares
<1> QED
  BY <1>1, <1>2
  DEF Handle, OptFork, OptCommand, Prepares, OptBadUmask, OptClearenv, OptEnv,
      OptBadEnv, OptRedirect, OptOpenFails, OptDupFails, OptCloseFrom,
      OptCloseFromFails, OptWrong

LEMMA HandleKeeps ==
  ASSUME IInv, Handle
  PROVE  IInv'
<1>1. attr \in AttrValues /\ attr.fds \in FdTables
  BY TableOf DEF IInv, AttrsOK
<1>2. CASE OptHelp
  BY <1>2, StandingStill DEF OptHelp, Exit, history
<1>14. failed => failed'
  BY <1>2, Counts DEF OptHelp, Exit, history, Count
<1>3. ASSUME Option, attr' = attr
      PROVE  IInv'
  BY <1>1, <1>3, <1>14, OptionFrame, PreparingKeeps
<1>4. CASE OptFork \/ OptCommand \/ OptBadUmask \/ OptBadEnv \/ OptWrong
  BY <1>3, <1>4 DEF OptFork, OptCommand, OptBadUmask, OptBadEnv, OptWrong,
                    Prepares
<1>5. ASSUME Option, attr' \in AttrValues, attr'.fds = attr.fds
      PROVE  IInv'
  BY <1>5, <1>14, OptionFrame, PreparingKeeps
<1>6. ASSUME NEW dir \in Dirs \cup {NoDir}, OptChdir(dir)
      PROVE  IInv'
  <2>1. attr' \in AttrValues /\ attr'.fds = attr.fds
    BY <1>1, <1>6 DEF OptChdir, AttrValues, AttrWith
  <2> QED
    BY <1>5, <1>6, <2>1 DEF OptChdir, Prepares
<1>7. ASSUME NEW mask \in Masks, OptUmask(mask)
      PROVE  IInv'
  <2>1. attr' \in AttrValues /\ attr'.fds = attr.fds
    BY <1>1, <1>7 DEF OptUmask, AttrValues, AttrWith
  <2> QED
    BY <1>5, <1>7, <2>1 DEF OptUmask, Prepares
<1>8. CASE OptClearenv
  <2>1. attr' \in AttrValues /\ attr'.fds = attr.fds
    BY <1>1, <1>8 DEF OptClearenv, AttrValues, AttrWith
  <2> QED
    BY <1>5, <1>8, <2>1 DEF OptClearenv, Prepares
<1>9. ASSUME NEW var \in Vars, NEW value \in Values, OptEnv(var, value)
      PROVE  IInv'
  <2>1. PICK kept \in Values \cup {Garbage} :
               attr' = [attr EXCEPT !.env[var] = kept]
    BY <1>9 DEF OptEnv
  <2>2. attr' \in AttrValues /\ attr'.fds = attr.fds
    BY <1>1, <2>1 DEF AttrValues, AttrWith
  <2> QED
    BY <1>5, <1>9, <2>2 DEF OptEnv, Prepares
<1>10. ASSUME NEW fd \in Std, NEW name \in Names, NEW new \in BOOLEAN,
              OptRedirect(fd, name, new)
       PROVE  IInv'
  <2>1. PICK low \in Fds : OptRedirectTo(fd, name, low)
    BY <1>10, RedirectTo
  <2> DEFINE u == CloseFd(Dup2(Opened(attr.fds, low, Path(name)), low, fd), low)
  <2>2. Path(name) \in Files /\ Path(name) \in Dirs \X Names
    BY <1>1, TableOf, Kinds DEF Path
  <2>3. /\ u \in FdTables
        /\ \A f \in Fds : \/ u[f] \in {attr.fds[f], Closed}
                          \/ f = fd /\ u[f] = Path(name)
    BY <1>1, <2>2, Redirected
  <2>4. attr' = [attr EXCEPT !.fds = u]
    BY <2>1 DEF OptRedirectTo
  <2> HIDE DEF u
  <2>5. attr' \in AttrValues /\ attr'.fds = u
    BY <1>1, <2>3, <2>4, TableOf
  <2>6. Option
    BY <1>10 DEF OptRedirect, Prepares
  <2> QED
    BY <1>14, <2>2, <2>3, <2>5, <2>6, OptionFrame, PreparingKeeps
<1>11. ASSUME NEW fd \in Std, NEW name \in Names, NEW new \in BOOLEAN,
              OptOpenFails(fd, name, new)
       PROVE  IInv'
  BY <1>3, <1>11 DEF OptOpenFails, Prepares
<1>12. ASSUME NEW fd \in Std, NEW name \in Names, NEW new \in BOOLEAN,
              OptDupFails(fd, name, new)
       PROVE  IInv'
  <2>1. PICK low \in Fds :
          /\ attr' \in AttrValues
          /\ attr'.fds[low] = Path(name)
          /\ \A f \in Fds \ {low} : attr'.fds[f] = attr.fds[f]
    BY <1>1, <1>12, LeftOpen
  <2>2. Path(name) \in Dirs \X Names
    BY <1>1, TableOf DEF Path
  <2>3. Option /\ failed'
    BY <1>12 DEF OptDupFails, Prepares, Count
  <2> QED
    BY <2>1, <2>2, <2>3, OptionFrame, PreparingKeeps
<1>13. ASSUME NEW lowest \in Lowest,
              OptCloseFrom(lowest) \/ OptCloseFromFails(lowest)
       PROVE  IInv'
  <2>1. PICK range : ClosedFrom(range)
    BY <1>13 DEF OptCloseFrom, OptCloseFromFails
  <2>2. /\ attr' \in AttrValues
        /\ \A f \in Fds : attr'.fds[f] \in {attr.fds[f], Closed}
    BY <1>1, <2>1, Cut
  <2>3. Option
    BY <1>13 DEF OptCloseFrom, OptCloseFromFails, Prepares
  <2> QED
    BY <1>14, <2>2, <2>3, OptionFrame, PreparingKeeps
<1> QED
  BY <1>2, <1>4, <1>6, <1>7, <1>8, <1>9, <1>10, <1>11, <1>12, <1>13 DEF Handle

(***************************************************************************)
(* The rest of a call.                                                     *)
(***************************************************************************)
LEMMA ProceedKeeps ==
  ASSUME IInv, Proceed
  PROVE  IInv'
<1>1. CASE OptionErrors \/ NoCommandName \/ IoErrorSeen
  BY <1>1, StandingStill
  DEF OptionErrors, NoCommandName, IoErrorSeen, Exit, history
<1>2. CASE RunCommand \/ RunScript \/ EndOfLines \/ ReadFails
  <2>1. /\ UNCHANGED <<script, before, attr, failed>>
        /\ at' \in {"run", "args", "spinning"}
    BY <1>2 DEF RunCommand, RunScript, EndOfLines, ReadFails, history
  <2>2. at' = "args" => script \in Fds
    BY <1>2 DEF RunCommand, RunScript, EndOfLines, ReadFails, IInv, ScriptOpen
  <2> QED
    BY <2>1, <2>2, StandingStill
<1>3. CASE OpenScriptFails
  <2>1. /\ UNCHANGED <<script, before, attr, failed>>
        /\ at' = "out" /\ at = "options"
    BY <1>3 DEF OpenScriptFails, OpensScript, OptionsDone, Returns, history
  <2>2. script = -1
    BY <2>1 DEF IInv, ScriptOpen
  <2> QED
    BY <2>1, <2>2, StandingStill
<1>4. CASE OpenScript
  <2>1. PICK low \in Fds :
          /\ script' = low
          /\ attr' = [attr EXCEPT !.fds = Opened(attr.fds, low, ScriptFile)]
    BY <1>4 DEF OpenScript
  <2> DEFINE u == Opened(attr.fds, low, ScriptFile)
  <2>2. attr.fds \in FdTables
    BY TableOf DEF IInv, AttrsOK
  <2>3. /\ u \in FdTables
        /\ \A f \in Fds : u[f] = IF f = low THEN ScriptFile ELSE attr.fds[f]
    BY <2>2, Kinds DEF Opened, FdTables
  <2> HIDE DEF u
  <2>4. attr' \in AttrValues /\ attr'.fds = u
    BY <2>1, <2>3, TableOf DEF IInv, AttrsOK, u
  <2>5. at = "options" /\ at' = "lines" /\ UNCHANGED <<before, failed>>
    BY <1>4 DEF OpenScript, OpensScript, OptionsDone, history
  <2>6. AttrsOK' /\ ScriptOpen'
    BY <2>1, <2>4, <2>5 DEF IInv, AttrsOK, ScriptOpen
  <2>7. script = -1
    BY <2>5 DEF IInv, ScriptOpen
  <2>8. OthersKept'
    BY <2>1, <2>3, <2>4, <2>5, <2>7 DEF IInv, OthersKept, Fds
  <2> QED
    BY <2>6, <2>8 DEF IInv
<1>5. CASE ScriptErrors \/ ScriptWithoutCommand \/ NothingToRun
  <2>1. /\ CloseScript /\ UNCHANGED <<before, failed>> /\ at' = "out"
        /\ at \in {"lines", "args"}
    BY <1>5 DEF ScriptErrors, ScriptWithoutCommand, NothingToRun, Returns,
                history
  <2>2. script \in Fds
    BY <2>1 DEF IInv, ScriptOpen
  <2> QED
    BY <2>1, <2>2, ClosingKeeps
<1>6. CASE Running
  <2>1. /\ UNCHANGED <<script, before, attr, failed>>
        /\ at' = at \/ at' = "replaced"
    BY <1>6 DEF Running, others
  <2> QED
    BY <2>1, StandingStill
<1>7. CASE Return
  <2>1. /\ UNCHANGED <<before, failed>> /\ at' = "out"
        /\ IF script = -1 THEN UNCHANGED <<script, attr>> ELSE CloseScript
    BY <1>7 DEF Return, Returns, history
  <2>2. CASE script = -1
    BY <2>1, <2>2, StandingStill
  <2>3. CASE script # -1
    <3>1. script \in Fds
      BY <2>3 DEF IInv, ScriptOpen
    <3> QED
      BY <2>1, <2>3, <3>1, ClosingKeeps
  <2> QED
    BY <2>2, <2>3
<1> QED
  BY <1>1, <1>2, <1>3, <1>4, <1>5, <1>6, <1>7 DEF Proceed

LEMMA EnterKeeps ==
  ASSUME IInv, Enter
  PROVE  IInv'
<1>1. /\ at = "out" /\ at' = "options" /\ before' = attr /\ attr' = attr
      /\ script' = script
  BY DEF Enter
<1>2. script = -1
  BY <1>1 DEF IInv, ScriptOpen
<1>3. \A f \in Fds : attr.fds[f] # ScriptFile
  BY <1>2 DEF IInv, OthersKept, Fds
<1> QED
  BY <1>1, <1>3 DEF IInv, AttrsOK, ScriptOpen, OthersKept

LEMMA InitIInv ==
  ASSUME Init
  PROVE  IInv
<1>1. PICK d \in Dirs, m \in Masks, t \in Tables :
        attr = [cwd |-> d, mask |-> m, env |-> [v \in Vars |-> Unset],
                fds |-> t]
  BY DEF Init
<1>2. t \in FdTables
  BY UshAssumption DEF FdTables, Files
<1>3. attr \in AttrValues
  BY <1>1, <1>2 DEF AttrValues, AttrWith, FdTables, Files
<1>4. at = "out" /\ script = -1 /\ before = attr
  BY DEF Init
<1>5. \A f \in Fds : attr.fds[f] # ScriptFile
  BY <1>1, UshAssumption
<1> QED
  BY <1>3, <1>4, <1>5 DEF IInv, AttrsOK, ScriptOpen, OthersKept

LEMMA NextKeepsIInv ==
  ASSUME IInv, [Next]_vars
  PROVE  IInv'
<1>1. CASE Enter
  BY <1>1, EnterKeeps
<1>2. CASE Handle
  BY <1>2, HandleKeeps
<1>3. CASE Proceed
  BY <1>3, ProceedKeeps
<1>4. CASE ProgramRuns
  BY <1>4, StandingStill DEF ProgramRuns, others
<1>5. CASE UNCHANGED vars
  BY <1>5, StandingStill DEF vars, history
<1> QED
  BY <1>1, <1>2, <1>3, <1>4, <1>5 DEF Next

(***************************************************************************)
(* The descriptors of a script.                                            *)
(***************************************************************************)
\* A call that reads a script gives its caller no descriptor of it back,
\* whatever the script redirects or closes, and however the call ends; nor any
\* other that is not a standard one, but files that were to be redirected to
\* and then dup2() failed (run-interpret.c:364-369, io-redirect.c:46-50,
\* 102-106).
THEOREM ScriptGone == Spec => []NoScriptLeft
<1>1. Init => IInv
  BY InitIInv
<1>2. IInv /\ [Next]_vars => IInv'
  BY NextKeepsIInv
<1>3. IInv => NoScriptLeft
  <2> SUFFICES ASSUME IInv, at = "out", NEW f \in Fds
               PROVE  /\ attr.fds[f] # ScriptFile
                      /\ \/ f \in Std
                         \/ attr.fds[f] \in {before.fds[f], Closed}
                         \/ failed /\ attr.fds[f] \in Dirs \X Names
    BY DEF NoScriptLeft
  <2>1. f # script
    BY DEF IInv, ScriptOpen, Fds
  <2> QED
    BY <2>1 DEF IInv, OthersKept
<1> QED
  BY <1>1, <1>2, <1>3, PTL DEF Spec

(***************************************************************************)
(* The promise of module Launcher, for processes in which the standard     *)
(* descriptors are open and stay so.                                       *)
(***************************************************************************)
StdOpenAtFirst ==
  /\ \A t \in Tables : \A f \in Std : t[f] # Closed
  /\ Lowest \cap Std = {}

NoneIsNoAttribute == None \notin AttrValues

\* The errors of the options are known when the program is started, and it is
\* started with what was prepared.
Course ==
  /\ failed \in BOOLEAN /\ err_count \in Nat
  /\ at \in {"options", "lines"} => (failed <=> err_count > 0)
  /\ at \in {"args", "run"} => ~failed
  /\ at \in {"options", "lines", "args", "spinning"} => given = None
  /\ at \in {"run", "replaced"} => given \in {None, attr}

\* No script is read through a standard descriptor, and one whose program
\* runs has not been closed.
ScriptApart ==
  /\ \A f \in Std : attr.fds[f] # Closed
  /\ script \notin Std
  /\ at = "run" /\ script # -1 => attr.fds[script] = ScriptFile

PInv == IInv /\ Course /\ ScriptApart

LEMMA OptionKeepsCourse ==
  ASSUME Course, Option, NEW ok \in BOOLEAN, Count(ok)
  PROVE  Course'
<1>1. /\ at' = at /\ given' = given /\ at \in {"options", "lines"}
      /\ err_count' = (IF ok THEN err_count ELSE err_count + 1)
      /\ failed' = (failed \/ ~ok)
  BY DEF Option, Reading, Count
<1>2. CASE ok
  BY <1>1, <1>2 DEF Course
<1>3. CASE ~ok
  <2>1. err_count' \in Nat /\ err_count' > 0
    BY <1>1, <1>3 DEF Course
  <2>2. failed' = TRUE
    BY <1>1, <1>3
  <2>3. at' \notin {"args", "run", "replaced"} /\ given' = None
    BY <1>1 DEF Course
  <2> QED
    BY <2>1, <2>2, <2>3 DEF Course
<1> QED
  BY <1>2, <1>3

LEMMA HandleKeepsCourse ==
  ASSUME Course, Handle
  PROVE  Course'
<1>1. ASSUME Option, \E ok \in BOOLEAN : Count(ok)
      PROVE  Course'
  BY <1>1, OptionKeepsCourse
<1>2. CASE OptHelp
  <2>1. at' = "exited" /\ UNCHANGED <<failed, err_count>>
    BY <1>2 DEF OptHelp, Exit, history
  <2> QED
    BY <2>1 DEF Course
<1> QED
  BY <1>1, <1>2, Counts

LEMMA ProceedKeepsCourse ==
  ASSUME Course, Proceed
  PROVE  Course'
<1>1. CASE OptionErrors \/ NoCommandName \/ IoErrorSeen
  <2>1. at' = "exited" /\ UNCHANGED <<failed, err_count>>
    BY <1>1 DEF OptionErrors, NoCommandName, IoErrorSeen, Exit, history
  <2> QED
    BY <2>1 DEF Course
<1>2. CASE RunCommand \/ RunScript \/ EndOfLines \/ ReadFails
  <2>1. /\ UNCHANGED <<failed, given, attr, err_count>>
        /\ \/ at' = "run" /\ (at = "args" \/ (at = "options" /\ err_count = 0))
           \/ at' = "args" /\ at = "lines" /\ err_count = 0
           \/ at' = "spinning" /\ at \in {"lines", "args"}
    BY <1>2 DEF RunCommand, RunScript, EndOfLines, ReadFails, OptionsDone,
                history
  <2> QED
    BY <2>1 DEF Course
<1>3. CASE \/ OpenScriptFails \/ ScriptErrors \/ ScriptWithoutCommand
           \/ NothingToRun \/ Return
  <2>1. at' = "out" /\ UNCHANGED <<failed, err_count>>
    BY <1>3 DEF OpenScriptFails, ScriptErrors, ScriptWithoutCommand,
                NothingToRun, Return, Returns, history
  <2> QED
    BY <2>1 DEF Course
<1>4. CASE OpenScript
  <2>1. /\ at = "options" /\ err_count = 0 /\ at' = "lines"
        /\ err_count' = 0 /\ failed' = failed /\ given' = given
    BY <1>4 DEF OpenScript, OpensScript, OptionsDone, history
  <2> QED
    BY <2>1 DEF Course
<1>5. CASE Running
  <2>1. /\ at = "run" /\ at' \in {"run", "replaced"}
        /\ given' \in {given, attr}
        /\ UNCHANGED <<failed, attr, err_count>>
    BY <1>5 DEF Running, others
  <2> QED
    BY <2>1 DEF Course
<1> QED
  BY <1>1, <1>2, <1>3, <1>4, <1>5 DEF Proceed

LEMMA StdStayOpen ==
  ASSUME StdOpenAtFirst, IInv, ScriptApart, Option, attr' \in AttrValues,
         \A f \in Std : attr'.fds[f] # Closed
  PROVE  ScriptApart'
<1>1. at' = at /\ script' = script /\ at \in {"options", "lines"}
  BY DEF Option, Reading
<1> QED
  BY <1>1 DEF ScriptApart

LEMMA HandleKeepsApart ==
  ASSUME StdOpenAtFirst, IInv, ScriptApart, Handle
  PROVE  ScriptApart'
<1>1. attr \in AttrValues /\ attr.fds \in FdTables
  BY TableOf DEF IInv, AttrsOK
<1>2. \A f \in Std : attr.fds[f] # Closed
  BY DEF ScriptApart
<1>3. attr' \in AttrValues
  BY HandleKeeps DEF IInv, AttrsOK
<1>4. CASE OptHelp
  BY <1>4 DEF OptHelp, Exit, ScriptApart
<1>5. ASSUME Option, attr'.fds = attr.fds
      PROVE  ScriptApart'
  BY <1>2, <1>3, <1>5, StdStayOpen
<1>6. CASE OptFork \/ OptCommand \/ OptBadUmask \/ OptBadEnv \/ OptWrong
  BY <1>5, <1>6 DEF OptFork, OptCommand, OptBadUmask, OptBadEnv, OptWrong,
                    Prepares
<1>7. ASSUME NEW dir \in Dirs \cup {NoDir}, OptChdir(dir)
      PROVE  ScriptApart'
  <2>1. attr'.fds = attr.fds
    BY <1>1, <1>7 DEF OptChdir, AttrValues, AttrWith
  <2> QED
    BY <1>5, <1>7, <2>1 DEF OptChdir, Prepares
<1>8. ASSUME NEW mask \in Masks, OptUmask(mask)
      PROVE  ScriptApart'
  <2>1. attr'.fds = attr.fds
    BY <1>1, <1>8 DEF OptUmask, AttrValues, AttrWith
  <2> QED
    BY <1>5, <1>8, <2>1 DEF OptUmask, Prepares
<1>9. CASE OptClearenv
  <2>1. attr'.fds = attr.fds
    BY <1>1, <1>9 DEF OptClearenv, AttrValues, AttrWith
  <2> QED
    BY <1>5, <1>9, <2>1 DEF OptClearenv, Prepares
<1>10. ASSUME NEW var \in Vars, NEW value \in Values, OptEnv(var, value)
       PROVE  ScriptApart'
  <2>1. attr'.fds = attr.fds
    BY <1>1, <1>10 DEF OptEnv, AttrValues, AttrWith
  <2> QED
    BY <1>5, <1>10, <2>1 DEF OptEnv, Prepares
<1>11. ASSUME NEW fd \in Std, NEW name \in Names, NEW new \in BOOLEAN,
              OptRedirect(fd, name, new)
       PROVE  ScriptApart'
  <2>1. PICK low \in Fds : OptRedirectTo(fd, name, low)
    BY <1>11, RedirectTo
  <2>2. \A f \in Std : attr'.fds[f] # Closed
    BY <1>1, <1>2, <2>1, RedirectedTo
  <2> QED
    BY <1>3, <1>11, <2>2, StdStayOpen DEF OptRedirect, Prepares
<1>12. ASSUME NEW fd \in Std, NEW name \in Names, NEW new \in BOOLEAN,
              OptOpenFails(fd, name, new)
       PROVE  ScriptApart'
  BY <1>5, <1>12 DEF OptOpenFails, Prepares
<1>13. ASSUME NEW fd \in Std, NEW name \in Names, NEW new \in BOOLEAN,
              OptDupFails(fd, name, new)
       PROVE  ScriptApart'
  <2>1. PICK low \in Fds :
          /\ attr.fds[low] = Closed
          /\ \A f \in Fds \ {low} : attr'.fds[f] = attr.fds[f]
    BY <1>1, <1>13, LeftOpen
  <2>2. \A f \in Std : attr'.fds[f] # Closed
    BY <1>2, <2>1, FdAssumption DEF Std, Fds
  <2> QED
    BY <1>3, <1>13, <2>2, StdStayOpen DEF OptDupFails, Prepares
<1>14. ASSUME NEW lowest \in Lowest,
              OptCloseFrom(lowest) \/ OptCloseFromFails(lowest)
       PROVE  ScriptApart'
  <2>1. lowest \in Nat /\ lowest \notin Std
    BY UshAssumption DEF StdOpenAtFirst
  <2>2. PICK last : ClosedFrom(lowest .. last)
    BY <1>14 DEF OptCloseFrom, OptCloseFromFails
  <2>3. \A f \in Std : f \in Fds /\ f \notin lowest .. last
    BY <2>1, FdAssumption DEF Std, Fds
  <2>4. PICK w \in FdTables :
          /\ attr'.fds = w
          /\ \A f \in Fds :
               w[f] = IF f \in lowest .. last THEN Closed ELSE attr.fds[f]
    BY <1>1, <2>2, Cut
  <2>5. \A f \in Std : attr'.fds[f] = attr.fds[f]
    BY <2>3, <2>4
  <2> QED
    BY <1>2, <1>3, <1>14, <2>5, StdStayOpen
    DEF OptCloseFrom, OptCloseFromFails, Prepares
<1> QED
  BY <1>4, <1>6, <1>7, <1>8, <1>9, <1>10, <1>11, <1>12, <1>13, <1>14 DEF Handle

LEMMA ProceedKeepsApart ==
  ASSUME StdOpenAtFirst, IInv, ScriptApart, Proceed
  PROVE  ScriptApart'
<1>1. attr \in AttrValues /\ attr.fds \in FdTables /\ Std \subseteq Fds
  BY TableOf, FdAssumption DEF IInv, AttrsOK, Fds, Std
<1>2. CASE OptionErrors \/ NoCommandName \/ IoErrorSeen
  <2>1. at' = "exited" /\ UNCHANGED <<attr, script>>
    BY <1>2 DEF OptionErrors, NoCommandName, IoErrorSeen, Exit, history
  <2> QED
    BY <2>1 DEF ScriptApart
<1>3. CASE EndOfLines \/ ReadFails
  <2>1. at' \in {"args", "spinning"} /\ UNCHANGED <<attr, script>>
    BY <1>3 DEF EndOfLines, ReadFails
  <2> QED
    BY <2>1 DEF ScriptApart
<1>4. CASE RunCommand
  <2>1. at = "options" /\ at' = "run" /\ UNCHANGED <<attr, script>>
    BY <1>4 DEF RunCommand, OptionsDone
  <2> QED
    BY <2>1 DEF ScriptApart, IInv, ScriptOpen
<1>5. CASE RunScript
  <2>1. /\ attr.fds[script] = ScriptFile /\ at' = "run"
        /\ UNCHANGED <<attr, script>>
    BY <1>5 DEF RunScript, Readable
  <2> QED
    BY <2>1 DEF ScriptApart
<1>6. CASE OpenScriptFails
  <2>1. at' = "out" /\ UNCHANGED <<attr, script>>
    BY <1>6 DEF OpenScriptFails, Returns
  <2> QED
    BY <2>1 DEF ScriptApart
<1>7. CASE OpenScript
  <2>1. PICK low \in Fds :
          /\ IsLowestFree(attr.fds, low)
          /\ script' = low
          /\ attr' = [attr EXCEPT !.fds = Opened(attr.fds, low, ScriptFile)]
    BY <1>7 DEF OpenScript
  <2>2. low \notin Std
    BY <2>1 DEF ScriptApart, IsLowestFree
  <2> DEFINE u == Opened(attr.fds, low, ScriptFile)
  <2>3. u \in FdTables /\ \A f \in Std : u[f] = attr.fds[f]
    BY <1>1, <2>2, Kinds DEF Opened, FdTables
  <2> HIDE DEF u
  <2>4. attr'.fds = u
    BY <1>1, <2>1, <2>3, TableOf DEF u
  <2>5. at' = "lines"
    BY <1>7 DEF OpenScript
  <2> QED
    BY <2>1, <2>2, <2>3, <2>4, <2>5 DEF ScriptApart
<1>8. ASSUME script \in Fds, CloseScript, at' = "out"
      PROVE  ScriptApart'
  <2> DEFINE u == CloseFd(attr.fds, script)
  <2>1. u \in FdTables /\ \A f \in Std : u[f] = attr.fds[f]
    BY <1>1, <1>8, Kinds DEF CloseFd, FdTables, ScriptApart
  <2>2. attr' = [attr EXCEPT !.fds = u] /\ script' = -1
    BY <1>8 DEF CloseScript
  <2> HIDE DEF u
  <2>3. attr'.fds = u
    BY <1>1, <2>1, <2>2, TableOf
  <2> QED
    BY <1>8, <2>1, <2>2, <2>3 DEF ScriptApart, Std
<1>9. CASE ScriptErrors \/ ScriptWithoutCommand \/ NothingToRun
  <2>1. CloseScript /\ at' = "out" /\ at \in {"lines", "args"}
    BY <1>9 DEF ScriptErrors, ScriptWithoutCommand, NothingToRun, Returns
  <2> QED
    BY <1>8, <2>1 DEF IInv, ScriptOpen
<1>10. CASE Return
  <2>1. /\ at' = "out"
        /\ IF script = -1 THEN UNCHANGED <<script, attr>> ELSE CloseScript
    BY <1>10 DEF Return, Returns
  <2>2. CASE script = -1
    BY <2>1, <2>2 DEF ScriptApart
  <2>3. CASE script # -1
    BY <1>8, <2>1, <2>3 DEF IInv, ScriptOpen
  <2> QED
    BY <2>2, <2>3
<1>11. CASE Running
  <2>1. UNCHANGED <<script, attr>> /\ at = "run" /\ at' \in {"run", "replaced"}
    BY <1>11 DEF Running, others
  <2> QED
    BY <2>1 DEF ScriptApart
<1> QED
  BY <1>2, <1>3, <1>4, <1>5, <1>6, <1>7, <1>9, <1>10, <1>11 DEF Proceed

LEMMA PInvHolds ==
  ASSUME StdOpenAtFirst
  PROVE  Spec => []PInv
<1>1. Init => PInv
  <2> SUFFICES ASSUME Init
               PROVE  PInv
    OBVIOUS
  <2>1. PICK d \in Dirs, m \in Masks, t \in Tables :
          attr = [cwd |-> d, mask |-> m, env |-> [v \in Vars |-> Unset],
                  fds |-> t]
    BY DEF Init
  <2>2. IInv
    BY InitIInv
  <2>3. Course
    BY DEF Init, Course
  <2>4. ScriptApart
    BY <2>1 DEF Init, ScriptApart, StdOpenAtFirst, Std
  <2> QED
    BY <2>2, <2>3, <2>4 DEF PInv
<1>2. PInv /\ [Next]_vars => PInv'
  <2> SUFFICES ASSUME PInv, [Next]_vars
               PROVE  PInv'
    OBVIOUS
  <2>1. IInv /\ Course /\ ScriptApart
    BY DEF PInv
  <2>2. IInv'
    BY <2>1, NextKeepsIInv
  <2>3. CASE Enter
    <3>1. /\ at' = "options" /\ UNCHANGED <<attr, script>>
          /\ failed' = FALSE /\ err_count' = 0 /\ given' = None
      BY <2>3 DEF Enter
    <3>2. Course'
      <4>1. ~(err_count' > 0) /\ err_count' \in Nat
        BY <3>1
      <4> QED
        BY <3>1, <4>1 DEF Course
    <3>3. ScriptApart'
      BY <2>1, <3>1 DEF ScriptApart
    <3> QED
      BY <2>2, <3>2, <3>3 DEF PInv
  <2>4. CASE Handle
    BY <2>1, <2>2, <2>4, HandleKeepsCourse, HandleKeepsApart DEF PInv
  <2>5. CASE Proceed
    BY <2>1, <2>2, <2>5, ProceedKeepsCourse, ProceedKeepsApart DEF PInv
  <2>6. CASE ProgramRuns
    BY <2>1, <2>2, <2>6 DEF ProgramRuns, others, PInv, Course, ScriptApart
  <2>7. CASE UNCHANGED vars
    BY <2>1, <2>2, <2>7 DEF vars, history, PInv, Course, ScriptApart
  <2> QED
    BY <2>3, <2>4, <2>5, <2>6, <2>7 DEF Next
<1> QED
  BY <1>1, <1>2, PTL DEF Spec

(***************************************************************************)
(* The refinement mapping.                                                 *)
(***************************************************************************)
Early == IF script = -1 THEN "preparing" ELSE "reading"

LEMMA PhaseOf ==
  /\ at = "out" => Phase = "idle"
  /\ at = "exited" => Phase = "stopped"
  /\ at \in {"options", "lines", "args", "spinning"} => Phase = Early
  /\ at \in {"run", "replaced"} =>
       Phase = IF given = None THEN Early ELSE "started"
BY DEF Phase, Early

LEMMA PhaseThen ==
  /\ at' = "out" => Phase' = "idle"
  /\ at' = "exited" => Phase' = "stopped"
  /\ at' \in {"options", "lines", "args", "spinning"} => Phase' = Early'
  /\ at' \in {"run", "replaced"} =>
       Phase' = IF given' = None THEN Early' ELSE "started"
BY DEF Phase, Early

\* attr without the script.
Bare == Hidden(attr)
LauncherStep == [Promise!Next]_Promise!launcherVars

LEMMA BareIs ==
  ASSUME attr \in AttrValues, script \in Fds \cup {-1}
  PROVE  /\ Bare \in AttrValues
         /\ Bare.cwd = attr.cwd /\ Bare.mask = attr.mask /\ Bare.env = attr.env
         /\ script = -1 => Bare = attr
         /\ script # -1 => /\ Bare = [attr EXCEPT !.fds = CloseFd(@, script)]
                           /\ Bare.fds = CloseFd(attr.fds, script)
<1>1. CASE script = -1
  BY <1>1 DEF Bare, Hidden
<1>2. CASE script # -1
  <2>1. CloseFd(attr.fds, script) \in FdTables
    BY TableOf, Kinds DEF CloseFd, FdTables
  <2>2. Bare = [attr EXCEPT !.fds = CloseFd(@, script)]
    BY <1>2 DEF Bare, Hidden
  <2> HIDE DEF CloseFd
  <2> QED
    BY <1>2, <2>1, <2>2 DEF AttrValues, AttrWith, FdTables, Files
<1> QED
  BY <1>1, <1>2

\* A step that changes only descriptors, seen without the script.
LEMMA BareThen ==
  ASSUME attr \in AttrValues, script \in Fds \cup {-1}, script' = script,
         NEW t \in FdTables, attr' = [attr EXCEPT !.fds = t],
         NEW u \in FdTables,
         \A f \in Fds : u[f] = IF f = script THEN Closed ELSE t[f]
  PROVE  Bare' = [Bare EXCEPT !.fds = u]
<1>1. attr'.fds = t
  BY TableOf
<1>2. CASE script = -1
  <2>1. \A f \in Fds : u[f] = t[f]
    BY <1>2 DEF Fds
  <2>2. u = t
    BY <2>1 DEF FdTables
  <2> QED
    BY <1>2, <2>2 DEF Bare, Hidden
<1>3. CASE script # -1
  <2>1. CloseFd(t, script) \in FdTables
        /\ \A f \in Fds : CloseFd(t, script)[f] =
                            IF f = script THEN Closed ELSE t[f]
    BY Kinds DEF CloseFd, FdTables
  <2>2. u = CloseFd(t, script)
    BY <2>1 DEF FdTables
  <2>3. Bare' = [attr' EXCEPT !.fds = u]
    BY <1>1, <1>3, <2>2 DEF Bare, Hidden
  <2>4. Bare = [attr EXCEPT !.fds = CloseFd(attr.fds, script)]
    BY <1>3 DEF Bare, Hidden
  <2> QED
    BY <2>3, <2>4 DEF AttrValues, AttrWith
<1> QED
  BY <1>2, <1>3

LEMMA BareTable ==
  ASSUME attr \in AttrValues, script \in Fds \cup {-1}
  PROVE  /\ Bare.fds \in FdTables
         /\ \A f \in Fds : Bare.fds[f] = IF f = script THEN Closed
                                                      ELSE attr.fds[f]
<1>1. attr.fds \in FdTables
  BY TableOf
<1>2. CASE script = -1
  BY <1>1, <1>2, BareIs DEF Fds
<1>3. CASE script # -1
  <2>1. Bare.fds = CloseFd(attr.fds, script)
    BY <1>3, BareIs
  <2> QED
    BY <1>1, <1>3, <2>1, Kinds DEF CloseFd, FdTables
<1> QED
  BY <1>2, <1>3

\* An option whose effect is one of those in the README, or which fails
\* half-way; in a script, one that sets a variable to what will be freed.
LEMMA OptionPromised ==
  ASSUME PInv, Option, NEW ok \in BOOLEAN, Count(ok),
         \/ Bare' = Bare
         \/ Promise!Prepared
         \/ ~ok /\ Promise!HalfDone
         \/ /\ ok /\ at = "lines"
            /\ \E v \in Vars : Bare' = [Bare EXCEPT !.env[v] = Garbage]
  PROVE  LauncherStep
<1>1. /\ at \in {"options", "lines"} /\ at' = at /\ given' = given
      /\ failed' = (failed \/ ~ok) /\ script' = script
      /\ at = "lines" => script # -1
  BY DEF Option, Reading, Count, PInv, IInv, ScriptOpen, Fds
<1>2. /\ Phase \in {"preparing", "reading"} /\ Phase' = Phase
      /\ at = "lines" => Phase = "reading"
  BY <1>1, PhaseOf, PhaseThen DEF Early
<1>3. failed \in BOOLEAN
  BY DEF PInv, Course
<1>4. CASE ~ok
  <2>1. failed' = TRUE
    BY <1>1, <1>4
  <2>2. Promise!Prepared \/ Promise!HalfDone \/ Bare' = Bare
    BY <1>4
  <2>3. Promise!Fail
    BY <1>1, <1>2, <2>1, <2>2 DEF Promise!Fail, Bare
  <2> QED
    BY <2>3 DEF LauncherStep, Promise!Next
<1>5. CASE ok /\ Promise!Prepared
  <2>1. failed' = failed
    BY <1>1, <1>3, <1>5
  <2>2. Promise!Prepare
    BY <1>1, <1>2, <1>5, <2>1 DEF Promise!Prepare
  <2> QED
    BY <2>2 DEF LauncherStep, Promise!Next
<1>6. CASE ok /\ Bare' = Bare
  <2>1. failed' = failed
    BY <1>1, <1>3, <1>6
  <2> QED
    BY <1>1, <1>2, <1>6, <2>1 DEF LauncherStep, Promise!launcherVars, Bare
<1>7. CASE /\ ok /\ at = "lines"
           /\ \E v \in Vars : Bare' = [Bare EXCEPT !.env[v] = Garbage]
  <2>1. failed' = failed
    BY <1>1, <1>3, <1>7
  <2>2. Promise!Prepare
    BY <1>1, <1>2, <1>7, <2>1 DEF Promise!Prepare, Bare
  <2> QED
    BY <2>2 DEF LauncherStep, Promise!Next
<1> QED
  BY <1>4, <1>5, <1>6, <1>7

LEMMA HandlePromised ==
  ASSUME PInv, Handle
  PROVE  LauncherStep
<1>1. /\ attr \in AttrValues /\ attr.fds \in FdTables
      /\ script \in Fds \cup {-1} /\ script \notin Std
      /\ \A f \in Std : attr.fds[f] # Closed
  BY TableOf DEF PInv, IInv, AttrsOK, ScriptOpen, ScriptApart
<1>2. CASE OptHelp
  <2>1. /\ at \in {"options", "lines"} /\ at' = "exited"
        /\ UNCHANGED <<attr, script, failed, given>>
    BY <1>2 DEF OptHelp, Reading, Exit, history
  <2>2. /\ Phase \in {"preparing", "reading"} /\ Phase' = "stopped"
        /\ Bare' = Bare
    BY <2>1, PhaseOf, PhaseThen DEF Bare, Hidden, Early
  <2>3. Promise!End
    BY <2>1, <2>2 DEF Promise!End, Bare
  <2> QED
    BY <2>3 DEF LauncherStep, Promise!Next
<1>3. ASSUME Option, attr' = attr, NEW ok \in BOOLEAN, Count(ok)
      PROVE  LauncherStep
  <2>1. Bare' = Bare
    BY <1>3 DEF Option, Bare, Hidden
  <2> QED
    BY <1>3, <2>1, OptionPromised
<1>4. CASE OptFork \/ OptCommand \/ OptBadUmask \/ OptBadEnv \/ OptWrong
  BY <1>3, <1>4 DEF OptFork, OptCommand, OptBadUmask, OptBadEnv, OptWrong,
                    Prepares
<1>5. ASSUME NEW dir \in Dirs \cup {NoDir}, OptChdir(dir)
      PROVE  LauncherStep
  <2>1. Option /\ script' = script
    BY <1>5 DEF OptChdir, Prepares, Option
  <2> DEFINE ok == dir \in Dirs
  <2>4. ok \in BOOLEAN /\ Count(ok)
    BY <1>5 DEF OptChdir
  <2> HIDE DEF ok
  <2>2. CASE dir \notin Dirs
    BY <1>3, <1>5, <2>1, <2>2, <2>4 DEF OptChdir
  <2>3. CASE dir \in Dirs
    <3>1. attr' = [attr EXCEPT !.cwd = dir]
      BY <1>5, <2>3 DEF OptChdir
    <3>2. Bare' = [Bare EXCEPT !.cwd = dir]
      BY <1>1, <2>1, <2>3, <3>1 DEF Bare, Hidden, AttrValues, AttrWith
    <3>3. Promise!Prepared
      BY <2>3, <3>2 DEF Promise!Prepared, Bare
    <3> QED
      BY <2>1, <2>4, <3>3, OptionPromised
  <2> QED
    BY <2>2, <2>3
<1>6. ASSUME NEW mask \in Masks, OptUmask(mask)
      PROVE  LauncherStep
  <2>1. /\ Option /\ script' = script /\ Count(attr.mask = 0)
        /\ attr' = [attr EXCEPT !.mask = mask]
    BY <1>6 DEF OptUmask, Prepares, Option
  <2>2. Bare' = [Bare EXCEPT !.mask = mask]
    BY <1>1, <2>1 DEF Bare, Hidden, AttrValues, AttrWith
  <2>3. Promise!Prepared
    BY <2>2 DEF Promise!Prepared, Bare
  <2> QED
    BY <2>1, <2>3, OptionPromised
<1>7. CASE OptClearenv
  <2>1. /\ Option /\ script' = script /\ Count(TRUE)
        /\ attr' = [attr EXCEPT !.env = [v \in Vars |-> Unset]]
    BY <1>7 DEF OptClearenv, Prepares, Option
  <2>2. Bare' = [Bare EXCEPT !.env = [v \in Vars |-> Unset]]
    BY <1>1, <2>1 DEF Bare, Hidden, AttrValues, AttrWith
  <2>3. Promise!Prepared
    BY <2>2 DEF Promise!Prepared, Bare
  <2> QED
    BY <2>1, <2>3, OptionPromised
<1>8. ASSUME NEW var \in Vars, NEW value \in Values, OptEnv(var, value)
      PROVE  LauncherStep
  <2>1. /\ Option /\ script' = script /\ Count(TRUE)
        /\ at \in {"options", "lines"}
    BY <1>8 DEF OptEnv, Prepares, Option, Reading
  <2>2. PICK kept : /\ kept = value \/ (at = "lines" /\ kept = Garbage)
                    /\ attr' = [attr EXCEPT !.env[var] = kept]
    BY <1>8 DEF OptEnv
  <2>3. Bare' = [Bare EXCEPT !.env[var] = kept]
    BY <1>1, <2>1, <2>2 DEF Bare, Hidden, AttrValues, AttrWith
  <2>4. CASE kept = value
    <3>1. Promise!Prepared
      BY <2>3, <2>4 DEF Promise!Prepared, Bare
    <3> QED
      BY <2>1, <3>1, OptionPromised
  <2>5. CASE at = "lines" /\ kept = Garbage
    BY <2>1, <2>3, <2>5, OptionPromised
  <2> QED
    BY <2>2, <2>4, <2>5
<1>9. ASSUME NEW fd \in Std, NEW name \in Names, NEW new \in BOOLEAN,
             OptRedirect(fd, name, new)
      PROVE  LauncherStep
  <2>1. Option /\ script' = script /\ Count(TRUE)
    BY <1>9 DEF OptRedirect, Prepares, Option
  <2>2. PICK low \in Fds : OptRedirectTo(fd, name, low)
    BY <1>9, RedirectTo
  <2>3. attr' = [attr EXCEPT !.fds = [attr.fds EXCEPT ![fd] = Path(name)]]
    BY <1>1, <2>2, RedirectedTo
  <2>4. Path(name) = <<Bare.cwd, name>>
    BY <1>1, BareIs DEF Path
  <2> DEFINE w == [attr.fds EXCEPT ![fd] = Path(name)]
             u == [Bare.fds EXCEPT ![fd] = Path(name)]
  <2>5. Std \subseteq Fds /\ Path(name) \in Files
    BY <1>1, TableOf, Kinds, FdAssumption DEF Fds, Std, Path
  <2>6. /\ w \in FdTables
        /\ \A f \in Fds : w[f] = IF f = fd THEN Path(name) ELSE attr.fds[f]
    BY <1>1, <2>5 DEF FdTables
  <2>7. /\ u \in FdTables
        /\ \A f \in Fds : u[f] = IF f = fd THEN Path(name) ELSE Bare.fds[f]
    BY <1>1, <2>5, BareTable DEF FdTables
  <2>8. attr' = [attr EXCEPT !.fds = w]
    BY <2>3
  <2> HIDE DEF w, u
  <2>9. \A f \in Fds : u[f] = IF f = script THEN Closed ELSE w[f]
    BY <1>1, <2>6, <2>7, BareTable
  <2>10. Bare' = [Bare EXCEPT !.fds = u]
    BY <1>1, <2>1, <2>6, <2>7, <2>8, <2>9, BareThen
  <2>11. Bare' = [Bare EXCEPT !.fds[fd] = Path(name)]
    BY <2>10 DEF u
  <2>12. Promise!Prepared
    BY <2>4, <2>11 DEF Promise!Prepared, Bare
  <2> QED
    BY <2>1, <2>12, OptionPromised
<1>10. ASSUME NEW fd \in Std, NEW name \in Names, NEW new \in BOOLEAN,
              OptOpenFails(fd, name, new)
       PROVE  LauncherStep
  BY <1>3, <1>10 DEF OptOpenFails, Prepares
<1>11. ASSUME NEW fd \in Std, NEW name \in Names, NEW new \in BOOLEAN,
              OptDupFails(fd, name, new)
       PROVE  LauncherStep
  <2>1. Option /\ script' = script /\ Count(FALSE)
    BY <1>11 DEF OptDupFails, Prepares, Option
  <2> DEFINE Left(t, low) == [t EXCEPT ![low] = Path(name)]
  <2>2. PICK low \in Fds :
          /\ attr.fds[low] = Closed
          /\ attr' = [attr EXCEPT !.fds = Left(attr.fds, low)]
    BY <1>1, <1>11, LeftOpen
  <2>3. Path(name) = <<Bare.cwd, name>> /\ Path(name) \in Files
    BY <1>1, BareIs, TableOf, Kinds DEF Path
  <2>4. /\ Left(attr.fds, low) \in FdTables
        /\ \A f \in Fds : Left(attr.fds, low)[f] =
                            IF f = low THEN Path(name) ELSE attr.fds[f]
    BY <1>1, <2>3 DEF FdTables
  <2>5. CASE low = script
    <3>1. \A f \in Fds : Bare.fds[f] =
             IF f = script THEN Closed ELSE Left(attr.fds, low)[f]
      BY <1>1, <2>4, <2>5, BareTable
    <3> HIDE DEF Left
    <3>2. Bare' = [Bare EXCEPT !.fds = Bare.fds]
      BY <1>1, <2>1, <2>2, <2>4, <3>1, BareTable, BareThen
    <3>3. Bare' = Bare
      BY <1>1, <3>2, BareIs DEF AttrValues, AttrWith
    <3> QED
      BY <2>1, <3>3, OptionPromised
  <2>6. CASE low # script
    <3>1. /\ Left(Bare.fds, low) \in FdTables
          /\ \A f \in Fds : Left(Bare.fds, low)[f] =
                              IF f = low THEN Path(name) ELSE Bare.fds[f]
      BY <1>1, <2>3, BareTable DEF FdTables
    <3>2. \A f \in Fds : Left(Bare.fds, low)[f] =
             IF f = script THEN Closed ELSE Left(attr.fds, low)[f]
      BY <1>1, <2>4, <2>6, <3>1, BareTable
    <3> HIDE DEF Left
    <3>3. Bare' = [Bare EXCEPT !.fds = Left(Bare.fds, low)]
      BY <1>1, <2>1, <2>2, <2>4, <3>1, <3>2, BareThen
    <3>4. Bare' = [Bare EXCEPT !.fds[low] = Path(name)]
      BY <3>3 DEF Left
    <3>5. Bare.fds[low] = Closed
      BY <1>1, <2>2, <2>6, BareTable
    <3>6. Promise!HalfDone
      BY <2>3, <3>4, <3>5 DEF Promise!HalfDone, Bare
    <3> QED
      BY <2>1, <3>6, OptionPromised
  <2> QED
    BY <2>5, <2>6
<1>14. ASSUME NEW range, ClosedFrom(range), script' = script
        PROVE  Bare' = [Bare EXCEPT !.fds =
                          [f \in Fds |-> IF f \in range THEN Closed ELSE @[f]]]
  <2>1. PICK w \in FdTables :
          /\ attr' = [attr EXCEPT !.fds = w]
          /\ \A f \in Fds : w[f] = IF f \in range THEN Closed ELSE attr.fds[f]
    BY <1>1, <1>14, Cut
  <2> DEFINE u == [f \in Fds |-> IF f \in range THEN Closed ELSE Bare.fds[f]]
  <2>2. /\ u \in FdTables
        /\ \A f \in Fds : u[f] = IF f \in range THEN Closed ELSE Bare.fds[f]
    BY <1>1, BareTable, Kinds DEF FdTables
  <2>3. Bare' = [Bare EXCEPT !.fds = u]
    <3> HIDE DEF u
    <3>1. \A f \in Fds : u[f] = IF f = script THEN Closed ELSE w[f]
      BY <1>1, <2>1, <2>2, BareTable
    <3> QED
      BY <1>1, <1>14, <2>1, <2>2, <3>1, BareThen
  <2> QED
    BY <2>3
<1>12. ASSUME NEW lowest \in Lowest, OptCloseFrom(lowest)
       PROVE  LauncherStep
  <2>1. Option /\ script' = script /\ Count(TRUE)
    BY <1>12 DEF OptCloseFrom, Prepares, Option
  <2>2. Bare' = [Bare EXCEPT !.fds =
                   [f \in Fds |-> IF f \in lowest .. MaxFd THEN Closed ELSE @[f]]]
    BY <1>14, <1>12, <2>1 DEF OptCloseFrom
  <2>3. /\ lowest \in Nat
        /\ \A f \in Fds : f \in lowest .. MaxFd <=> f >= lowest
    BY UshAssumption, FdAssumption DEF Fds
  <2>4. Bare' = [Bare EXCEPT !.fds =
                   [f \in Fds |-> IF f >= lowest THEN Closed ELSE @[f]]]
    BY <2>2, <2>3
  <2>5. CASE lowest \in Fds
    <3>1. Promise!Prepared
      BY <2>4, <2>5 DEF Promise!Prepared, Bare
    <3> QED
      BY <2>1, <3>1, OptionPromised
  <2>6. CASE lowest \notin Fds
    <3>1. \A f \in Fds : ~(f >= lowest)
      BY <2>3, <2>6, FdAssumption DEF Fds
    <3>2. [f \in Fds |-> IF f >= lowest THEN Closed ELSE Bare.fds[f]] = Bare.fds
      BY <1>1, <3>1, BareTable DEF FdTables
    <3>3. Bare' = [Bare EXCEPT !.fds = Bare.fds]
      BY <2>4, <3>2
    <3>4. Bare' = Bare
      BY <1>1, <3>3, BareIs DEF AttrValues, AttrWith
    <3> QED
      BY <2>1, <3>4, OptionPromised
  <2> QED
    BY <2>5, <2>6
<1>13. ASSUME NEW lowest \in Lowest, OptCloseFromFails(lowest)
       PROVE  LauncherStep
  <2>1. Option /\ script' = script /\ Count(FALSE)
    BY <1>13 DEF OptCloseFromFails, Prepares, Option
  <2>2. PICK last \in {lowest} \cup Fds : ClosedFrom(lowest .. last)
    BY <1>13 DEF OptCloseFromFails, OpenFds
  <2>3. Bare' = [Bare EXCEPT !.fds =
                   [f \in Fds |-> IF f \in lowest .. last THEN Closed ELSE @[f]]]
    BY <1>14, <2>1, <2>2
  <2>4. CASE lowest \in Fds
    <3>1. Promise!HalfDone
      BY <2>2, <2>3, <2>4 DEF Promise!HalfDone, Bare
    <3> QED
      BY <2>1, <3>1, OptionPromised
  <2>5. CASE lowest \notin Fds
    <3>1. \A f \in Fds : f \notin lowest .. last
      BY <2>5, UshAssumption, FdAssumption DEF Fds
    <3>2. [f \in Fds |-> IF f \in lowest .. last THEN Closed ELSE Bare.fds[f]]
            = Bare.fds
      BY <1>1, <3>1, BareTable DEF FdTables
    <3>3. Bare' = [Bare EXCEPT !.fds = Bare.fds]
      BY <2>3, <3>2
    <3>4. Bare' = Bare
      BY <1>1, <3>3, BareIs DEF AttrValues, AttrWith
    <3> QED
      BY <2>1, <3>4, OptionPromised
  <2> QED
    BY <2>4, <2>5
<1> QED
  BY <1>2, <1>4, <1>5, <1>6, <1>7, <1>8, <1>9, <1>10, <1>11, <1>12, <1>13
  DEF Handle

LEMMA ProceedPromised ==
  ASSUME NoneIsNoAttribute, PInv, Proceed
  PROVE  LauncherStep
<1>1. /\ attr \in AttrValues /\ attr.fds \in FdTables
      /\ script \in Fds \cup {-1}
      /\ at = "options" => script = -1
      /\ at \in {"lines", "args"} => script \in Fds
      /\ at \in {"options", "lines", "args"} => given = None
      /\ at \in {"args", "run"} => ~failed
      /\ at = "run" => given \in {None, attr}
      /\ at = "run" /\ script # -1 => attr.fds[script] = ScriptFile
  BY TableOf DEF PInv, IInv, AttrsOK, ScriptOpen, Course, ScriptApart
<1>2. failed \in BOOLEAN
  BY DEF PInv, Course
<1>3. ASSUME Phase \in {"preparing", "reading", "started"},
             Phase' \in {"idle", "stopped"},
             Bare' = Bare, failed' = failed, given' = given
      PROVE  LauncherStep
  BY <1>3 DEF LauncherStep, Promise!Next, Promise!End, Bare
<1>4. ASSUME Phase' = Phase, Bare' = Bare, failed' = failed, given' = given
      PROVE  LauncherStep
  BY <1>4 DEF LauncherStep, Promise!launcherVars, Bare
<1>5. CASE OptionErrors \/ NoCommandName \/ IoErrorSeen
  <2>1. /\ at = "options" /\ at' = "exited"
        /\ UNCHANGED <<attr, script, failed, given>>
    BY <1>5 DEF OptionErrors, NoCommandName, IoErrorSeen, OptionsDone, Exit,
                history
  <2> QED
    BY <1>3, <2>1, PhaseOf, PhaseThen DEF Bare, Hidden, Early
<1>6. CASE RunCommand \/ RunScript \/ EndOfLines \/ ReadFails
  <2>1. /\ at \in {"options", "lines", "args"}
        /\ at' \in {"run", "args", "spinning"}
        /\ UNCHANGED <<attr, script, failed, given>>
    BY <1>6 DEF RunCommand, RunScript, EndOfLines, ReadFails, OptionsDone,
                history
  <2>2. Phase' = Phase
    BY <1>1, <2>1, PhaseOf, PhaseThen DEF Early
  <2> QED
    BY <1>4, <2>1, <2>2 DEF Bare, Hidden
<1>7. CASE OpenScriptFails
  <2>1. /\ at = "options" /\ at' = "out"
        /\ UNCHANGED <<attr, script, failed, given>>
    BY <1>7 DEF OpenScriptFails, OpensScript, OptionsDone, Returns, history
  <2> QED
    BY <1>3, <2>1, PhaseOf, PhaseThen DEF Bare, Hidden, Early
<1>8. CASE OpenScript
  <2>1. /\ at = "options" /\ at' = "lines"
        /\ UNCHANGED <<failed, given>>
    BY <1>8 DEF OpenScript, OpensScript, OptionsDone, history
  <2>2. PICK low \in Fds :
          /\ IsLowestFree(attr.fds, low)
          /\ script' = low
          /\ attr' = [attr EXCEPT !.fds = Opened(attr.fds, low, ScriptFile)]
    BY <1>8 DEF OpenScript
  <2> DEFINE u == Opened(attr.fds, low, ScriptFile)
  <2>3. u \in FdTables /\ CloseFd(u, low) = attr.fds
    BY <1>1, <2>2, Kinds DEF IsLowestFree, Opened, CloseFd, FdTables
  <2> HIDE DEF u
  <2>4. attr'.fds = u /\ attr' = [attr EXCEPT !.fds = u]
    BY <1>1, <2>2, <2>3, TableOf DEF u
  <2>5. low # -1
    BY DEF Fds
  <2>6. Bare' = [attr' EXCEPT !.fds = attr.fds]
    BY <2>2, <2>3, <2>4, <2>5 DEF Bare, Hidden
  <2>7. Bare' = attr
    BY <1>1, <2>4, <2>6 DEF AttrValues, AttrWith
  <2>8. Bare = attr
    BY <1>1, <2>1 DEF Bare, Hidden
  <2>9. Phase = "preparing" /\ Phase' = "reading"
    BY <1>1, <2>1, <2>2, <2>5, PhaseOf, PhaseThen DEF Early
  <2>10. Promise!Reads
    BY <2>1, <2>7, <2>8, <2>9 DEF Promise!Reads, Bare
  <2> QED
    BY <2>10 DEF LauncherStep, Promise!Next
<1>9. ASSUME script \in Fds, CloseScript
      PROVE  Bare' = Bare
  <2>1. script # -1
    BY <1>9 DEF Fds
  <2> QED
    BY <1>9, <2>1 DEF CloseScript, Bare, Hidden
<1>10. CASE ScriptErrors \/ ScriptWithoutCommand \/ NothingToRun
  <2>1. /\ CloseScript /\ at' = "out" /\ at \in {"lines", "args"}
        /\ UNCHANGED <<failed, given>>
    BY <1>10 DEF ScriptErrors, ScriptWithoutCommand, NothingToRun, Returns,
                 history
  <2> QED
    BY <1>1, <1>3, <1>9, <2>1, PhaseOf, PhaseThen DEF Early
<1>11. CASE Return
  <2>1. /\ at = "run" /\ at' = "out" /\ UNCHANGED <<failed, given>>
        /\ IF script = -1 THEN UNCHANGED <<script, attr>> ELSE CloseScript
    BY <1>11 DEF Return, Returns, history
  <2>2. Bare' = Bare
    <3>1. CASE script = -1
      BY <2>1, <3>1 DEF Bare, Hidden
    <3>2. CASE script # -1
      BY <1>1, <1>9, <2>1, <3>2
    <3> QED
      BY <3>1, <3>2
  <2> QED
    BY <1>3, <2>1, <2>2, PhaseOf, PhaseThen DEF Early
<1>12. CASE Running
  <2>1. /\ at = "run" /\ at' \in {"run", "replaced"}
        /\ given' \in {given, attr}
        /\ UNCHANGED <<attr, script, failed>>
    BY <1>12 DEF Running, others
  <2>2. Bare' = Bare
    BY <2>1 DEF Bare, Hidden
  <2>3. CASE given' = given
    BY <1>4, <2>1, <2>2, <2>3, PhaseOf, PhaseThen DEF Early
  <2>4. CASE given' # given
    <3>1. given = None /\ given' = attr /\ given' # None
      BY <1>1, <2>1, <2>4 DEF NoneIsNoAttribute
    <3>2. Phase \in {"preparing", "reading"} /\ Phase' = "started"
      BY <2>1, <3>1, PhaseOf, PhaseThen DEF Early
    <3>3. failed = FALSE
      BY <1>1, <1>2, <2>1
    <3>4. /\ DOMAIN given' = DOMAIN Bare
          /\ \A a \in DOMAIN Bare \ {"fds"} : given'[a] = Bare[a]
      <4>1. CASE script = -1
        BY <1>1, <3>1, <4>1, BareIs
      <4>2. CASE script # -1
        BY <1>1, <3>1, <4>2 DEF Bare, Hidden, AttrValues, AttrWith
      <4> QED
        BY <4>1, <4>2
    <3>5. \/ given'.fds = Bare.fds
          \/ \E f \in Fds : /\ Bare.fds[f] = Closed
                            /\ given'.fds = [Bare.fds EXCEPT ![f] = ScriptFile]
      <4>1. CASE script = -1
        BY <1>1, <3>1, <4>1, BareIs
      <4>2. CASE script # -1
        <5>1. Bare.fds = CloseFd(attr.fds, script) /\ script \in Fds
          BY <1>1, <4>2, BareIs
        <5>2. /\ Bare.fds[script] = Closed
              /\ attr.fds = [Bare.fds EXCEPT ![script] = ScriptFile]
          BY <1>1, <2>1, <4>2, <5>1 DEF CloseFd, FdTables
        <5> QED
          BY <3>1, <5>1, <5>2
      <4> QED
        BY <4>1, <4>2
    <3>6. Promise!Start
      BY <2>1, <2>2, <3>2, <3>3, <3>4, <3>5
      DEF Promise!Start, Promise!Inherits, Bare
    <3> QED
      BY <3>6 DEF LauncherStep, Promise!Next
  <2> QED
    BY <2>3, <2>4
<1> QED
  BY <1>5, <1>6, <1>7, <1>8, <1>10, <1>11, <1>12 DEF Proceed

\* If the standard descriptors are open and stay so, then for any number of
\* calls and options a program is started only after options that have all
\* succeeded, with just what they and those of earlier calls have prepared, in
\* their order, on the command line and in a script, and also if one of an
\* earlier call had failed half-way; but a variable that a script has set may
\* have lost its value (ush.c:425-449, run-interpret.c:243-304).
THEOREM KeepsPromise ==
  ASSUME StdOpenAtFirst, NoneIsNoAttribute
  PROVE  Spec => PromiseKept
<1>1. Init => Promise!Init
  <2> SUFFICES ASSUME Init
               PROVE  Promise!Init
    OBVIOUS
  <2>1. PICK d \in Dirs, m \in Masks, t \in Tables :
          attr = [cwd |-> d, mask |-> m, env |-> [v \in Vars |-> Unset],
                  fds |-> t]
    BY DEF Init
  <2>2. t \in FdTables
    BY UshAssumption DEF FdTables, Files
  <2>3. attr \in AttrWith({Unset})
    BY <2>1, <2>2 DEF AttrWith, FdTables, Files
  <2>4. at = "out" /\ script = -1 /\ failed = FALSE /\ given = None
    BY DEF Init
  <2>5. Hidden(attr) = attr /\ Phase = "idle"
    BY <2>4, PhaseOf DEF Hidden
  <2> QED
    BY <2>3, <2>4, <2>5 DEF Promise!Init
<1>2. PInv /\ [Next]_vars => LauncherStep
  <2> SUFFICES ASSUME PInv, [Next]_vars
               PROVE  LauncherStep
    OBVIOUS
  <2>1. CASE Enter
    <3>1. /\ at = "out" /\ at' = "options" /\ UNCHANGED <<attr, script>>
          /\ failed' = FALSE /\ given' = None
      BY <2>1 DEF Enter
    <3>2. Phase = "idle" /\ Phase' = "preparing" /\ Bare' = Bare
      <4>1. script = -1
        BY <3>1 DEF PInv, IInv, ScriptOpen
      <4> QED
        BY <3>1, <4>1, PhaseOf, PhaseThen DEF Bare, Hidden, Early
    <3> QED
      BY <3>1, <3>2 DEF LauncherStep, Promise!Next, Promise!Call, Bare
  <2>2. CASE Handle
    BY <2>2, HandlePromised
  <2>3. CASE Proceed
    BY <2>3, ProceedPromised
  <2>4. CASE ProgramRuns \/ UNCHANGED vars
    <3>1. UNCHANGED <<at, attr, script, failed, given>>
      BY <2>4 DEF ProgramRuns, others, vars, history
    <3>2. UNCHANGED Promise!launcherVars
      BY <3>1 DEF Promise!launcherVars, Phase, Hidden
    <3> QED
      BY <3>2 DEF LauncherStep
  <2> QED
    BY <2>1, <2>2, <2>3, <2>4 DEF Next
<1> QED
  BY <1>1, <1>2, PInvHolds, PTL DEF Spec, PromiseKept, Promise!Spec,
     LauncherStep

(***************************************************************************)
(* The calls.                                                              *)
(*                                                                         *)
(* Every step of Ush is, on the variables of RunProgram, a step of that    *)
(* module or none, so that its invariant holds here as well.               *)
(***************************************************************************)
RP == INSTANCE RunProgram_proofs WITH Others <- {}

LEMMA Parameters == RP!RunAssumption
BY UshAssumption, RunParameters DEF RP!RunAssumption

LEMMA SameTypes == RP!TypeOK <=> R!TypeOK
BY DEF RP!TypeOK, R!TypeOK, RP!Forked, R!Forked, RP!Pids, R!Pids

(***************************************************************************)
(* Steps of RunProgram.                                                    *)
(***************************************************************************)
RunStays == UNCHANGED runVars
RunMoves == [RP!Next]_RP!runVars

LEMMA StaysMoves ==
  ASSUME RunStays
  PROVE  RunMoves
BY DEF RunStays, RunMoves, runVars, RP!runVars

LEMMA HandleMoves ==
  ASSUME Handle
  PROVE  RunMoves
<1>1. CASE OptFork
  <2>1. R!SetFork(TRUE)
    BY <1>1 DEF OptFork
  <2>2. RP!SetFork(TRUE)
    BY <2>1 DEF R!SetFork, RP!SetFork
  <2> QED
    BY <2>2 DEF RP!Next, RunMoves
<1>2. CASE ~OptFork
  <2>1. RunStays
    BY <1>2
    DEF Handle, OptCommand, Prepares, OptChdir, OptUmask, OptBadUmask,
        OptClearenv, OptEnv, OptBadEnv, OptRedirect, OptOpenFails,
        OptDupFails, OptCloseFrom, OptCloseFromFails, OptWrong, OptHelp,
        Exit, RunStays
  <2> QED
    BY <2>1, StaysMoves
<1> QED
  BY <1>1, <1>2

LEMMA CallMoves ==
  ASSUME R!Call
  PROVE  RunMoves
BY DEF R!Call, RP!Call, R!cmdVars, RP!cmdVars, RP!Next, RunMoves

LEMMA RunStepMoves ==
  ASSUME R!RunStep
  PROVE  RunMoves
<1>1. RP!RunStep
  BY DEF R!RunStep, R!Fork, R!ForkFails, R!Exec, R!ExecFails, R!WaitReaps,
         R!WaitHasNoChild, R!WaitInterrupted, R!WaitReturns, R!WaitReturnsIf,
         R!Unreaped, R!Pids, R!Forked, R!cmdVars, R!Exited, R!WIFEXITED,
         R!WIFSIGNALED,
         RP!RunStep, RP!Fork, RP!ForkFails, RP!Exec, RP!ExecFails,
         RP!WaitReaps, RP!WaitHasNoChild, RP!WaitInterrupted, RP!WaitReturns,
         RP!WaitReturnsIf, RP!Unreaped, RP!Pids, RP!Forked, RP!cmdVars,
         RP!Exited, RP!WIFEXITED, RP!WIFSIGNALED
<1> QED
  BY <1>1 DEF RP!Next, RunMoves

LEMMA ChildMoves ==
  ASSUME NEW p \in R!Pids, R!ChildStep(p) \/ R!ProgramStep(p)
  PROVE  RunMoves
<1>1. RP!ChildStep(p) \/ RP!ProgramStep(p)
  BY DEF R!ChildStep, R!ProgramStep, R!ChildExecs, R!ChildExecFails,
         R!ProgramExits, R!Killed, R!Dies, R!cmdVars, R!Exited, R!Signaled,
         RP!ChildStep, RP!ProgramStep, RP!ChildExecs, RP!ChildExecFails,
         RP!ProgramExits, RP!Killed, RP!Dies, RP!cmdVars, RP!Exited,
         RP!Signaled
<1>2. p \in RP!Pids
  BY DEF R!Pids, R!Forked, RP!Pids, RP!Forked
<1> QED
  BY <1>1, <1>2 DEF RP!Next, RunMoves

LEMMA NextMoves ==
  ASSUME [Next]_vars
  PROVE  RunMoves
<1>1. CASE Enter
  <2>1. CASE R!NextCall
    <3>1. RP!NextCall
      BY <2>1 DEF R!NextCall, RP!NextCall, R!cmdVars, RP!cmdVars
    <3> QED
      BY <3>1 DEF RP!Next, RunMoves
  <2>2. CASE RunStays
    BY <2>2, StaysMoves
  <2> QED
    BY <1>1, <2>1, <2>2 DEF Enter, RunStays
<1>2. CASE Handle
  BY <1>2, HandleMoves
<1>3. CASE Proceed
  <2>1. CASE RunCommand \/ RunScript
    BY <2>1, CallMoves DEF RunCommand, RunScript
  <2>2. CASE Running
    <3>1. R!RunStep \/ \E p \in R!Pids : R!ChildStep(p)
      BY <2>2 DEF Running
    <3> QED
      BY <3>1, RunStepMoves, ChildMoves
  <2>3. CASE OptionErrors \/ NoCommandName \/ IoErrorSeen \/ OpenScriptFails
             \/ OpenScript \/ ScriptErrors \/ ScriptWithoutCommand
             \/ EndOfLines \/ NothingToRun \/ ReadFails \/ Return
    <3>1. RunStays
      BY <2>3
      DEF OptionErrors, NoCommandName, IoErrorSeen, OpenScriptFails,
          OpenScript, ScriptErrors, ScriptWithoutCommand, EndOfLines,
          NothingToRun, ReadFails, Return, Returns, Exit, RunStays
    <3> QED
      BY <3>1, StaysMoves
  <2> QED
    BY <1>3, <2>1, <2>2, <2>3 DEF Proceed
<1>4. CASE ProgramRuns
  <2>1. PICK p \in R!Pids : R!ProgramStep(p)
    BY <1>4 DEF ProgramRuns
  <2> QED
    BY <2>1, ChildMoves
<1>5. CASE UNCHANGED vars
  BY <1>5, StaysMoves DEF vars, RunStays
<1> QED
  BY <1>1, <1>2, <1>3, <1>4, <1>5 DEF Next

\* The invariant of RunProgram, for a process that is alone.
RunInv == RP!StatusInv /\ ~handler

LEMMA RunInvAtFirst ==
  ASSUME Init
  PROVE  RunInv
<1>1. RP!Init
  BY DEF Init, R!Init, RP!Init, R!Pids, R!Forked, RP!Pids, RP!Forked
<1>2. RP!TypeOK
  BY <1>1, RP!TypedAtFirst, Parameters
<1> QED
  BY <1>1, <1>2, RP!ChildrenAtFirst, Parameters DEF Init, RunInv

LEMMA RunInvStays ==
  ASSUME RunInv, RunMoves
  PROVE  RunInv'
<1>1. RP!TypeOK
  BY DEF RunInv, RP!StatusInv
<1>2. RP!TypeOK'
  BY <1>1, RP!StaysTyped, Parameters DEF RunMoves
<1>3. RP!StatusInv'
  BY <1>2, RP!ChildrenStay, Parameters DEF RunInv, RunMoves
<1>4. handler' = handler
  BY DEF RunMoves, RP!Next, RP!SetFork, RP!Call, RP!NextCall, RP!RunStep,
         RP!Fork, RP!ForkFails, RP!Exec, RP!ExecFails, RP!WaitReaps,
         RP!WaitHasNoChild, RP!WaitInterrupted, RP!WaitReturns,
         RP!WaitReturnsIf, RP!ChildStep, RP!ProgramStep, RP!ChildExecs,
         RP!ChildExecFails, RP!ProgramExits, RP!Killed, RP!Dies, RP!runVars
<1> QED
  BY <1>3, <1>4 DEF RunInv

\* Where the child of the current call is, see RunProgram_proofs.
LEMMA Children ==
  ASSUME RunInv
  PROVE  /\ kid \in [1 .. MaxCalls ->
                       {"unborn", "copy", "program", "zombie", "reaped"}]
         /\ wstatus \in [1 .. MaxCalls -> Nat]
         /\ n \in 1 .. MaxCalls /\ rv \in Nat
         /\ pc = "returned" /\ kid[n] # "unborn" =>
              cmd_fork /\ kid[n] = "reaped" /\ rv = wstatus[n]
         /\ pc \in {"idle", "run", "replaced"} => kid[n] = "unborn"
         /\ \A p \in (1 .. MaxCalls) \ {n} : kid[p] \in {"unborn", "reaped"}
BY DEF RunInv, RP!StatusInv, RP!TypeOK, RP!Alone, RP!ChildrenInv,
       RP!CurrentChild, RP!OtherChildren, RP!Pids, RP!Forked

LEMMA OnePid == R!Pids = 1 .. MaxCalls
BY DEF R!Pids, R!Forked

(***************************************************************************)
(* The answer of a call.                                                   *)
(***************************************************************************)
Answer ==
  /\ at = "run" /\ given # None => kid[n] # "unborn"
  /\ at = "out" /\ given # None =>
       /\ pc = "returned" /\ kid[n] # "unborn"
       /\ status = R!WEXITSTATUS(wstatus[n])

\* A call that has not come to its program has no answer to give.
LEMMA NoAnswer ==
  ASSUME given' = None
  PROVE  Answer'
BY DEF Answer

LEMMA ProgramAnswers ==
  ASSUME RunInv, Answer, ProgramRuns
  PROVE  Answer'
<1>1. PICK p \in 1 .. MaxCalls : R!ProgramStep(p)
  BY OnePid DEF ProgramRuns
<1>2. /\ kid[p] \in {"copy", "program"} /\ UNCHANGED <<pc, n>>
      /\ kid' = [kid EXCEPT ![p] = "zombie"]
      /\ \E word : wstatus' = [wstatus EXCEPT ![p] = word]
  BY <1>1
  DEF R!ProgramStep, R!ProgramExits, R!Killed, R!Dies, R!cmdVars
<1>3. UNCHANGED <<at, given, status>>
  BY DEF ProgramRuns, others
<1>4. p = n
  BY <1>2, Children
<1>5. pc # "returned"
  BY <1>2, <1>4, Children
<1>6. kid'[n] = "zombie"
  BY <1>2, <1>4, Children
<1> QED
  BY <1>2, <1>3, <1>5, <1>6 DEF Answer

LEMMA RunningAnswers ==
  ASSUME RunInv, RunInv', Answer, Running
  PROVE  Answer'
<1>1. at = "run" /\ at' \in {"run", "replaced"}
  BY DEF Running
<1>2. CASE R!RunStep
  <2>1. n' = n /\ pc \in {"run", "wait"}
    BY <1>2
    DEF R!RunStep, R!Fork, R!ForkFails, R!Exec, R!ExecFails, R!WaitReaps,
        R!WaitHasNoChild, R!WaitInterrupted, R!WaitReturns, R!WaitReturnsIf,
        R!cmdVars
  <2>2. \A p \in 1 .. MaxCalls : kid[p] # "unborn" => kid'[p] # "unborn"
    BY <1>2, OnePid, Children
    DEF R!RunStep, R!Fork, R!ForkFails, R!Exec, R!ExecFails, R!WaitReaps,
        R!WaitHasNoChild, R!WaitInterrupted
  <2>3. CASE given' = None \/ at' = "replaced"
    BY <1>1, <2>3 DEF Answer
  <2>4. CASE given' # None /\ at' = "run"
    <3>1. ~Started \/ given # None
      <4>1. pc' # "replaced"
        BY <2>4 DEF Running
      <4>2. \A p \in 1 .. MaxCalls : kid[p] = "copy" => kid'[p] # "program"
        BY <1>2, OnePid, Children
        DEF R!RunStep, R!Fork, R!ForkFails, R!Exec, R!ExecFails,
            R!WaitReaps, R!WaitHasNoChild, R!WaitInterrupted
      <4> QED
        BY <4>1, <4>2, OnePid DEF Started
    <3>2. given # None
      BY <2>4, <3>1 DEF Running
    <3>3. kid[n] # "unborn"
      BY <1>1, <3>2 DEF Answer
    <3>4. kid'[n] # "unborn"
      BY <2>2, <3>3, Children
    <3> QED
      BY <2>1, <2>4, <3>4 DEF Answer
  <2> QED
    BY <1>1, <2>3, <2>4
<1>3. ASSUME NEW p \in R!Pids, R!ChildStep(p)
      PROVE  Answer'
  <2>1. /\ kid[p] = "copy" /\ n' = n /\ pc' = pc
        /\ kid' = [kid EXCEPT ![p] = "program"]
             \/ kid' = [kid EXCEPT ![p] = "zombie"]
    BY <1>3
    DEF R!ChildStep, R!ChildExecs, R!ChildExecFails, R!Dies, R!cmdVars
  <2>2. p = n
    BY <2>1, OnePid, Children
  <2>3. kid'[n] # "unborn"
    BY <2>1, <2>2, Children
  <2> QED
    BY <1>1, <2>1, <2>3 DEF Answer
<1> QED
  BY <1>2, <1>3 DEF Running

LEMMA ReturnAnswers ==
  ASSUME RunInv, Answer, Return
  PROVE  Answer'
<1>1. /\ at = "run" /\ pc = "returned" /\ UNCHANGED <<runVars, given>>
      /\ status' = IF cmd_fork THEN R!WEXITSTATUS(rv) ELSE rv
  BY DEF Return, Returns, history
<1>2. UNCHANGED <<pc, kid, n, wstatus>>
  BY <1>1 DEF runVars
<1>3. CASE given = None
  BY <1>1, <1>3, NoAnswer
<1>4. CASE given # None
  <2>1. kid[n] # "unborn"
    BY <1>1, <1>4 DEF Answer
  <2>2. cmd_fork /\ rv = wstatus[n]
    BY <1>1, <2>1, Children
  <2> QED
    BY <1>1, <1>2, <2>1, <2>2 DEF Answer, R!WEXITSTATUS
<1> QED
  BY <1>3, <1>4

LEMMA NextAnswers ==
  ASSUME RunInv, RunInv', Course, Answer, [Next]_vars
  PROVE  Answer'
<1>1. CASE Enter
  BY <1>1, NoAnswer DEF Enter
<1>2. CASE Handle
  <2>1. /\ at \in {"options", "lines"} /\ given' = given
    BY <1>2
    DEF Handle, OptFork, OptCommand, Prepares, OptChdir, OptUmask,
        OptBadUmask, OptClearenv, OptEnv, OptBadEnv, OptRedirect,
        OptOpenFails, OptDupFails, OptCloseFrom, OptCloseFromFails, OptWrong,
        OptHelp, Exit, Option, Reading, history
  <2> QED
    BY <2>1, NoAnswer DEF Course
<1>3. CASE Proceed
  <2>1. CASE Running
    BY <2>1, RunningAnswers
  <2>2. CASE Return
    BY <2>2, ReturnAnswers
  <2>3. CASE ~Running /\ ~Return
    <3>1. at \in {"options", "lines", "args"} /\ given' = given
      BY <1>3, <2>3
      DEF Proceed, OptionErrors, NoCommandName, IoErrorSeen, RunCommand,
          OpenScriptFails, OpenScript, ScriptErrors, ScriptWithoutCommand,
          EndOfLines, NothingToRun, RunScript, ReadFails, Returns, Exit,
          OptionsDone, OpensScript, history
    <3> QED
      BY <3>1, NoAnswer DEF Course
  <2> QED
    BY <2>1, <2>2, <2>3
<1>4. CASE ProgramRuns
  BY <1>4, ProgramAnswers
<1>5. CASE UNCHANGED vars
  BY <1>5 DEF vars, runVars, history, Answer, R!WEXITSTATUS
<1> QED
  BY <1>1, <1>2, <1>3, <1>4, <1>5 DEF Next

LEMMA CourseStays ==
  ASSUME Course, [Next]_vars
  PROVE  Course'
<1>1. CASE Enter
  <2>1. /\ at' = "options" /\ failed' = FALSE /\ err_count' = 0
        /\ given' = None
    BY <1>1 DEF Enter
  <2>2. ~(err_count' > 0) /\ err_count' \in Nat
    BY <2>1
  <2> QED
    BY <2>1, <2>2 DEF Course
<1>2. CASE Handle
  BY <1>2, HandleKeepsCourse
<1>3. CASE Proceed
  BY <1>3, ProceedKeepsCourse
<1>4. CASE ProgramRuns
  BY <1>4 DEF ProgramRuns, others, Course
<1>5. CASE UNCHANGED vars
  BY <1>5 DEF vars, history, Course
<1> QED
  BY <1>1, <1>2, <1>3, <1>4, <1>5 DEF Next

AnswerInv == RunInv /\ Course /\ Answer

LEMMA AnswerHolds == Spec => []AnswerInv
<1>1. Init => AnswerInv
  <2> SUFFICES ASSUME Init
               PROVE  AnswerInv
    OBVIOUS
  <2>1. Course
    BY DEF Init, Course
  <2>2. Answer
    BY DEF Init, Answer
  <2> QED
    BY <2>1, <2>2, RunInvAtFirst DEF AnswerInv
<1>2. AnswerInv /\ [Next]_vars => AnswerInv'
  <2> SUFFICES ASSUME AnswerInv, [Next]_vars
               PROVE  AnswerInv'
    OBVIOUS
  <2>1. RunInv'
    BY NextMoves, RunInvStays DEF AnswerInv
  <2>2. Course' /\ Answer'
    BY <2>1, CourseStays, NextAnswers DEF AnswerInv
  <2> QED
    BY <2>1, <2>2 DEF AnswerInv
<1> QED
  BY <1>1, <1>2, PTL DEF Spec

\* A forking call whose program exits returns the exit code of that program,
\* not the wait status as it is, nor that of an earlier call, whatever options
\* and calls came before (ush.c:441-447, run-program.c:33-52).
THEOREM StatusHonest == Spec => []HonestStatus
<1>1. AnswerInv => HonestStatus
  BY DEF AnswerInv, Answer, HonestStatus
<1> QED
  BY <1>1, AnswerHolds, PTL

-------------------------------------------------------------------------------
(***************************************************************************)
(* The types.  The options of a vector or a script are few, and so are     *)
(* their errors.                                                           *)
(***************************************************************************)
Counted ==
  /\ calls \in 0 .. MaxCalls
  /\ left \in Nat /\ err_count \in Nat /\ left + err_count <= MaxOptions
  /\ at = "options" => err_count <= OptErrLimit + 1
  /\ opt_command \in BOOLEAN
  /\ ioerr \in 0 .. 255
  /\ files \subseteq Dirs \X Names

Places == {"out", "options", "lines", "args", "spinning", "run", "replaced",
           "exited"}

Answered ==
  /\ at \in Places
  /\ status \in Nat
  /\ given # None => given \in AttrValues

TInv == IInv /\ AnswerInv /\ Counted /\ Answered

LEMMA CountTyped ==
  ASSUME Counted, Option, NEW ok \in BOOLEAN, Count(ok)
  PROVE  /\ left' \in Nat /\ err_count' \in Nat
         /\ left' + err_count' <= MaxOptions
         /\ at' = "options" => err_count' <= OptErrLimit + 1
         /\ calls' = calls
BY UshAssumption DEF Counted, Option, Reading, Count

LEMMA HandleCounted ==
  ASSUME IInv, Counted, Handle
  PROVE  Counted'
<1>2. /\ left' \in Nat /\ err_count' \in Nat
      /\ left' + err_count' <= MaxOptions
      /\ at' = "options" => err_count' <= OptErrLimit + 1
      /\ calls' = calls
  <2>1. CASE OptHelp
    BY <2>1 DEF OptHelp, Exit, Counted
  <2>2. CASE Option /\ \E ok \in BOOLEAN : Count(ok)
    BY <2>2, CountTyped
  <2> QED
    BY <2>1, <2>2, Counts
<1>3. opt_command' \in {opt_command, TRUE}
  BY DEF Handle, OptFork, OptCommand, Prepares, OptChdir, OptUmask,
         OptBadUmask, OptClearenv, OptEnv, OptBadEnv, OptRedirect,
         OptOpenFails, OptDupFails, OptCloseFrom, OptCloseFromFails,
         OptWrong, OptHelp, Exit
<1>4. ioerr' \in {ioerr, ENOENT, EINVAL, EEXIST, EMFILE, EACCES, EBUSY}
  BY DEF Handle, OptFork, OptCommand, Prepares, OptChdir, OptUmask,
         OptBadUmask, OptClearenv, OptEnv, OptBadEnv, OptRedirect,
         OptOpenFails, OptDupFails, OptCloseFrom, OptCloseFromFails,
         OptWrong, OptHelp, Exit,
         OpenErrors
<1>5. files' = files \/ \E name \in Names : files' = files \cup {Path(name)}
  BY DEF Handle, OptFork, OptCommand, Prepares, OptChdir, OptUmask,
         OptBadUmask, OptClearenv, OptEnv, OptBadEnv, OptRedirect, OpensAt,
         OptOpenFails, OptDupFails, OptCloseFrom, OptCloseFromFails, OptWrong,
         OptHelp, Exit
<1>6. attr.cwd \in Dirs
  BY TableOf DEF IInv, AttrsOK
<1>7. files' \subseteq Dirs \X Names
  BY <1>5, <1>6 DEF Path, Counted
<1>8. ioerr' \in 0 .. 255
  BY <1>4 DEF Counted, ENOENT, EINVAL, EEXIST, EMFILE, EACCES, EBUSY
<1>9. opt_command' \in BOOLEAN /\ calls' \in 0 .. MaxCalls
  BY <1>2, <1>3 DEF Counted
<1> QED
  BY <1>2, <1>7, <1>8, <1>9 DEF Counted

LEMMA ProceedCounted ==
  ASSUME Counted, Proceed
  PROVE  Counted'
<1>1. UNCHANGED <<calls, opt_command, ioerr, files>>
  BY DEF Proceed, OptionErrors, NoCommandName, IoErrorSeen, RunCommand,
         OpenScriptFails, OpenScript, ScriptErrors, ScriptWithoutCommand,
         EndOfLines, NothingToRun, RunScript, ReadFails, Running, others,
         Return, Returns, Exit
<1>2. left' = left /\ err_count' \in {err_count, 0}
  BY DEF Proceed, OptionErrors, NoCommandName, IoErrorSeen, RunCommand,
         OpenScriptFails, OpenScript, ScriptErrors, ScriptWithoutCommand,
         EndOfLines, NothingToRun, RunScript, ReadFails, Running, others,
         Return, Returns, Exit
<1>3. at' # "options"
  BY DEF Proceed, OptionErrors, NoCommandName, IoErrorSeen, RunCommand,
         OpenScriptFails, OpenScript, ScriptErrors, ScriptWithoutCommand,
         EndOfLines, NothingToRun, RunScript, ReadFails, Running,
         Return, Returns, Exit
<1>4. /\ left' \in Nat /\ err_count' \in Nat
      /\ left' + err_count' <= MaxOptions
  <2>1. left \in Nat /\ err_count \in Nat /\ left + err_count <= MaxOptions
    BY DEF Counted
  <2>2. CASE err_count' = err_count
    BY <1>2, <2>1, <2>2
  <2>3. CASE err_count' = 0
    BY <1>2, <2>1, <2>3, UshAssumption
  <2> QED
    BY <1>2, <2>2, <2>3
<1> QED
  BY <1>1, <1>3, <1>4 DEF Counted

LEMMA NextCounted ==
  ASSUME IInv, Counted, [Next]_vars
  PROVE  Counted'
<1>1. CASE Enter
  <2>1. calls' \in 0 .. MaxCalls
    BY <1>1, UshAssumption DEF Enter, Counted
  <2>2. /\ left' \in Nat /\ err_count' \in Nat
        /\ left' + err_count' <= MaxOptions
        /\ err_count' <= OptErrLimit + 1
    BY <1>1, UshAssumption DEF Enter, Counted
  <2> QED
    BY <1>1, <2>1, <2>2 DEF Enter, Counted
<1>2. CASE Handle
  BY <1>2, HandleCounted
<1>3. CASE Proceed
  BY <1>3, ProceedCounted
<1>4. CASE ProgramRuns
  BY <1>4 DEF ProgramRuns, others, Counted
<1>5. CASE UNCHANGED vars
  BY <1>5 DEF vars, Counted
<1> QED
  BY <1>1, <1>2, <1>3, <1>4, <1>5 DEF Next

LEMMA ReturnsNat ==
  ASSUME NEW value \in Nat, Returns(value)
  PROVE  status' \in Nat
<1>1. (value \div 256) % 256 \in Nat
  OBVIOUS
<1> QED
  BY <1>1 DEF Returns, R!WEXITSTATUS

LEMMA NextAnswered ==
  ASSUME IInv, RunInv, Answered, [Next]_vars
  PROVE  Answered'
<1>1. CASE Enter
  BY <1>1 DEF Enter, Answered, Places
<1>2. CASE Handle
  <2>1. given' = given
    BY <1>2
    DEF Handle, OptFork, OptCommand, Prepares, OptChdir, OptUmask,
        OptBadUmask, OptClearenv, OptEnv, OptBadEnv, OptRedirect,
        OptOpenFails, OptDupFails, OptCloseFrom, OptCloseFromFails,
        OptWrong, OptHelp, Exit, Option,
        history
  <2>2. at' \in {at, "exited"} /\ status' \in {status, 0}
    BY <1>2
    DEF Handle, OptFork, OptCommand, Prepares, OptChdir, OptUmask,
        OptBadUmask, OptClearenv, OptEnv, OptBadEnv, OptRedirect,
        OptOpenFails, OptDupFails, OptCloseFrom, OptCloseFromFails,
        OptWrong, OptHelp, Exit, Option
  <2> QED
    BY <2>1, <2>2 DEF Answered, Places
<1>3. CASE Proceed
  <2>1. at' \in Places
    BY <1>3
    DEF Proceed, OptionErrors, NoCommandName, IoErrorSeen, RunCommand,
        OpenScriptFails, OpenScript, ScriptErrors, ScriptWithoutCommand,
        EndOfLines, NothingToRun, RunScript, ReadFails, Running, Return,
        Returns, Exit, Answered, Places
  <2>2. given' \in {given, attr}
    BY <1>3
    DEF Proceed, OptionErrors, NoCommandName, IoErrorSeen, RunCommand,
        OpenScriptFails, OpenScript, ScriptErrors, ScriptWithoutCommand,
        EndOfLines, NothingToRun, RunScript, ReadFails, Running, Return,
        Returns, Exit, history
  <2>3. \/ status' \in {status, 1, 2}
        \/ \E value \in {ENOENT, EACCES, EISDIR, EMFILE, EFAULT, 0, rv} :
             Returns(value)
    BY <1>3
    DEF Proceed, OptionErrors, NoCommandName, IoErrorSeen, RunCommand,
        OpenScriptFails, OpenScript, ScriptErrors, ScriptWithoutCommand,
        EndOfLines, NothingToRun, RunScript, ReadFails, Running, others,
        Return, Exit
  <2>4. rv \in Nat
    BY Children
  <2>5. status' \in Nat
    BY <2>3, <2>4, ReturnsNat
    DEF Answered, ENOENT, EACCES, EISDIR, EMFILE, EFAULT
  <2> QED
    BY <2>1, <2>2, <2>5 DEF Answered, IInv, AttrsOK
<1>4. CASE ProgramRuns
  BY <1>4 DEF ProgramRuns, others, Answered
<1>5. CASE UNCHANGED vars
  BY <1>5 DEF vars, history, Answered
<1> QED
  BY <1>1, <1>2, <1>3, <1>4, <1>5 DEF Next

\* Every variable has its type, whatever calls the process makes: at most one
\* script is open, and none when a call begins or has returned.
THEOREM Typed == Spec => []TypeOK
<1>1. Init => TInv
  <2> SUFFICES ASSUME Init
               PROVE  TInv
    OBVIOUS
  <2>1. AnswerInv
    <3>1. Course /\ Answer
      BY DEF Init, Course, Answer
    <3> QED
      BY <3>1, RunInvAtFirst DEF AnswerInv
  <2>2. Counted
    <3>1. /\ calls = 0 /\ left = MaxOptions /\ err_count = 0
          /\ opt_command = FALSE /\ ioerr = 0 /\ at = "out"
          /\ files \in SUBSET (Dirs \X Names)
      BY DEF Init
    <3>2. 0 \in 0 .. MaxCalls /\ MaxOptions \in Nat
      BY UshAssumption
    <3>3. files \subseteq Dirs \X Names
      BY <3>1
    <3>4. calls \in 0 .. MaxCalls /\ ioerr \in 0 .. 255
      BY <3>1, <3>2
    <3>5. left \in Nat /\ err_count \in Nat /\ left + err_count <= MaxOptions
      BY <3>1, <3>2
    <3> QED
      BY <3>1, <3>3, <3>4, <3>5 DEF Counted
  <2>3. Answered
    BY DEF Init, Answered, Places
  <2> QED
    BY <2>1, <2>2, <2>3, InitIInv DEF TInv
<1>2. TInv /\ [Next]_vars => TInv'
  <2> SUFFICES ASSUME TInv, [Next]_vars
               PROVE  TInv'
    OBVIOUS
  <2>1. RunInv'
    BY NextMoves, RunInvStays DEF TInv, AnswerInv
  <2>2. AnswerInv'
    BY <2>1, CourseStays, NextAnswers DEF TInv, AnswerInv
  <2> QED
    BY <2>2, NextKeepsIInv, NextCounted, NextAnswered DEF TInv, AnswerInv
<1>3. TInv => TypeOK
  <2> SUFFICES ASSUME TInv
               PROVE  TypeOK
    OBVIOUS
  <2>1. R!TypeOK
    BY SameTypes DEF TInv, AnswerInv, RunInv, RP!StatusInv
  <2>2. /\ script \in Fds \cup {-1}
        /\ at \in {"out", "options"} => script = -1
        /\ attr \in AttrValues /\ before \in AttrValues
    BY DEF TInv, IInv, AttrsOK, ScriptOpen
  <2>3. left \in 0 .. MaxOptions /\ err_count \in 0 .. MaxOptions
    BY UshAssumption DEF TInv, Counted
  <2>4. failed \in BOOLEAN
    BY DEF TInv, AnswerInv, Course
  <2> QED
    BY <2>1, <2>2, <2>3, <2>4
    DEF TInv, Counted, Answered, Places, TypeOK, AttrValues
<1> QED
  BY <1>1, <1>2, <1>3, PTL DEF Spec
===============================================================================
