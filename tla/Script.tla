-------------------------------- MODULE Script --------------------------------
(***************************************************************************)
(* run_interpret_linebuf() of libush/run-interpret.c, which turns a script *)
(* into the argument vector of a program, with the growing vector of       *)
(* strings of libcscript/strv.c in which it does so.  A process may run    *)
(* several scripts, one a call; --replace and --append-argv are static     *)
(* variables of ush.c and survive a call.                                  *)
(*                                                                         *)
(* A line is a string.  Options other than --replace and --append-argv     *)
(* only succeed or fail here (module Ush has their effects), and reading a *)
(* line only yields it or the end of the file (module Reader).             *)
(***************************************************************************)
EXTENDS Integers, SequencesExt

CONSTANTS
  Scripts,   \* [lines, whole]: is the last line ended by a newline?
  Operands,  \* vectors of the operands after the name of the script
  Given,     \* arguments of --replace on the command line
  Comments,  \* lines that begin with '#'
  Meaning,   \* [does, text] of the lines that begin with '-', but for "--"
  Grow,      \* 100 in run_interpret_linebuf()
  MayFail,   \* may realloc() fail?
  MaxCalls,  \* how many scripts are run (a bound)
  NULL,      \* no string
  Lost       \* what memory holds that was not written or has been freed

EFAULT == 14

ASSUME ScriptAssumption ==
  /\ Scripts \subseteq [lines : Seq(STRING), whole : BOOLEAN]
  /\ Operands \subseteq Seq(STRING)
  /\ Given \subseteq STRING /\ Comments \subseteq STRING
  /\ \A line \in DOMAIN Meaning :
       Meaning[line] \in [does : {"replace", "append", "other", "fail"},
                          text : STRING]
  /\ "--" \notin DOMAIN Meaning
  /\ Grow \in Nat \ {0}
  /\ MayFail \in BOOLEAN
  /\ MaxCalls \in Nat
  /\ {NULL, Lost} \cap STRING = {} /\ NULL # Lost

VARIABLES
  pc,            \* where the call is, or "caller"
  calls,         \* how many scripts have been begun
  script, pos,   \* the script, and how many of its lines have been read
  operands,      \* cmd->argv, without the name of the script
  err_count, in_argv,
  replace,       \* a string, NULL or Lost
  borrowed,      \* does replace point into the buffer of the line?
  opt_append_argv,
  strv,          \* slots up to the capacity
  strc,
  cmd_argc,
  rv,

  live,          \* history: how many strings of strdup() are not freed
  asked          \* history: what --replace said last

strvVars == <<strv, strc, cmd_argc, live>>
optionVars == <<replace, borrowed, opt_append_argv, asked>>
fileVars == <<script, operands>>
vars == <<pc, calls, fileVars, pos, err_count, in_argv, rv, strvVars,
          optionVars>>

NoScript == [lines |-> <<>>, whole |-> TRUE]

Init ==
  /\ pc = "caller"
  /\ calls = 0
  /\ script = NoScript /\ pos = 0
  /\ operands = <<>>
  /\ err_count = 0 /\ in_argv = FALSE
  /\ replace = NULL /\ borrowed = FALSE /\ asked = NULL
  /\ opt_append_argv = FALSE
  /\ strv = <<>> /\ strc = 0 /\ cmd_argc = 0
  /\ rv = 0
  /\ live = 0

\* A call of ush with the name of a script and operands, perhaps with --replace
\* and --append-argv; the statics keep what earlier calls have left in them.
Call ==
  /\ pc = "caller"
  /\ calls < MaxCalls
  /\ calls' = calls + 1
  /\ script' \in Scripts
  /\ operands' \in Operands
  /\ \/ UNCHANGED <<replace, borrowed, asked>>
     \/ \E r \in Given : replace' = r /\ borrowed' = FALSE /\ asked' = r
  /\ opt_append_argv' \in {opt_append_argv, TRUE}
  /\ pc' = "lines"
  /\ UNCHANGED <<pos, err_count, in_argv, rv, strvVars>>

(***************************************************************************)
(* fgetline(): the buffer of the line before is freed first, and with it   *)
(* what --replace has kept of it.  A last line that is not ended counts as *)
(* the end of the file.                                                    *)
(***************************************************************************)
Ended == IF script.whole THEN Len(script.lines) ELSE Len(script.lines) - 1
Line == script.lines[pos + 1]

FreeLine ==
  /\ replace' = IF borrowed THEN Lost ELSE replace
  /\ borrowed' = FALSE

Read ==
  /\ pos < Ended
  /\ calls' = calls

\* A mutant: the end is not seen until it has been passed.
EofPassed ==
  /\ pos > Ended
  /\ FreeLine
  /\ UNCHANGED <<calls, opt_append_argv, asked>>

Eof ==
  /\ pos >= Ended
  /\ FreeLine
  /\ UNCHANGED <<calls, opt_append_argv, asked>>

(***************************************************************************)
(* The options of the script.                                              *)
(***************************************************************************)
ReadOption ==
  /\ pc = "lines"
  /\ Read
  /\ pos' = pos + 1
  /\ UNCHANGED <<pc, fileVars, in_argv, rv, strvVars>>

\* A blank line, a comment, or a line that does not begin with '-'.
LineIgnored ==
  /\ ReadOption
  /\ Line \notin DOMAIN Meaning \cup {"--"}
  /\ FreeLine
  /\ UNCHANGED <<err_count, opt_append_argv, asked>>

OptionIs(does) ==
  /\ ReadOption
  /\ Line \in DOMAIN Meaning
  /\ Meaning[Line].does = does

OptReplace ==
  /\ OptionIs("replace")
  /\ replace' = Meaning[Line].text
  /\ borrowed' = TRUE
  /\ asked' = Meaning[Line].text
  /\ UNCHANGED <<err_count, opt_append_argv>>

OptAppendArgv ==
  /\ OptionIs("append")
  /\ FreeLine
  /\ opt_append_argv' = TRUE
  /\ UNCHANGED <<err_count, asked>>

OptOther ==
  /\ OptionIs("other")
  /\ FreeLine
  /\ UNCHANGED <<err_count, opt_append_argv, asked>>

OptFails ==
  /\ OptionIs("fail")
  /\ FreeLine
  /\ err_count' = err_count + 1
  /\ UNCHANGED <<opt_append_argv, asked>>

\* The call returns, and its variables are gone.
Return(value) ==
  /\ pc' = "caller"
  /\ rv' = value
  /\ script' = NoScript /\ pos' = 0 /\ operands' = <<>>
  /\ err_count' = 0 /\ in_argv' = FALSE
  /\ strv' = <<>> /\ strc' = 0 /\ cmd_argc' = 0

\* Errors are reported when all options have been carried out.
DashDashAfterErrors ==
  /\ pc = "lines"
  /\ Read
  /\ Line = "--"
  /\ err_count > 0
  /\ FreeLine
  /\ Return(EFAULT)
  /\ UNCHANGED <<live, opt_append_argv, asked>>

NoDashDash ==
  /\ pc = "lines"
  /\ Eof
  /\ Return(EFAULT)
  /\ live' = live

DashDash ==
  /\ pc = "lines"
  /\ Read
  /\ Line = "--"
  /\ err_count = 0
  /\ FreeLine
  /\ pos' = pos + 1
  /\ pc' = "args"
  /\ UNCHANGED <<fileVars, err_count, in_argv, opt_append_argv, asked, rv,
                 strvVars>>

(***************************************************************************)
(* strv_alloc() and strv_grow().                                           *)
(***************************************************************************)
\* A mutant: the slots asked for are rounded down to a multiple of Grow.
RoundedDown(n) == (n \div Grow) * Grow

Rounded(n) == ((n + Grow - 1) \div Grow) * Grow

Room(n) == strv # <<>> /\ strc + n <= Len(strv)

Grown(n) == strv \o [i \in 1 .. Rounded(n) |-> Lost]

Allocated(n) == IF Room(n) THEN strv ELSE Grown(n)

\* strv_alloc() for the texts, and a copy of each to the end of cmd_argv.
Push(texts) ==
  /\ strv' = [i \in DOMAIN Allocated(Len(texts)) |->
                IF i \in cmd_argc + 1 .. cmd_argc + Len(texts)
                  THEN texts[i - cmd_argc]
                  ELSE Allocated(Len(texts))[i]]
  /\ strc' = strc + Len(texts)

PushStrings(texts) ==
  /\ Push(texts)
  /\ cmd_argc' = cmd_argc + Len(texts)
  /\ live' = live + Len(texts)

\* strv_alloc() does not tell that strv_grow() has failed.  The caller goes on
\* to write beyond the capacity, and what becomes of that is undefined.
Overruns(n) ==
  /\ MayFail
  /\ ~Room(n)
  /\ pc' = "overrun"
  /\ UNCHANGED <<calls, fileVars, pos, err_count, in_argv, rv, strvVars,
                 optionVars>>

(***************************************************************************)
(* The arguments.                                                          *)
(***************************************************************************)
Blank(line) == line = "" \/ line \in Comments

ReadArg ==
  /\ pc = "args"
  /\ Read
  /\ pos' = pos + 1
  /\ FreeLine
  /\ UNCHANGED <<pc, fileVars, err_count, rv, opt_append_argv, asked>>

\* A mutant: in_argv is not looked at.
BlankIgnored ==
  /\ ReadArg
  /\ Blank(Line)
  /\ UNCHANGED <<in_argv, strvVars>>

LeadingIgnored ==
  /\ ReadArg
  /\ ~in_argv
  /\ Blank(Line)
  /\ UNCHANGED <<in_argv, strvVars>>

IsArg == in_argv \/ ~Blank(Line)

\* strcmp() with memory that has been freed may come out in any way.
ArgReplaced ==
  /\ ReadArg
  /\ IsArg
  /\ in_argv' = TRUE
  /\ replace' \in {Line, Lost}
  /\ IF operands = <<>> THEN UNCHANGED strvVars ELSE PushStrings(operands)

ArgCopied ==
  /\ ReadArg
  /\ IsArg
  /\ in_argv' = TRUE
  /\ replace' # Line
  /\ PushStrings(<<Line>>)

ArgOverruns ==
  /\ pc = "args"
  /\ pos < Ended
  /\ IsArg
  /\ \/ replace \in {Line, Lost} /\ operands # <<>> /\ Overruns(Len(operands))
     \/ replace # Line /\ Overruns(1)

ArgsEnd ==
  /\ pc = "args"
  /\ Eof
  /\ pc' = "append"
  /\ UNCHANGED <<fileVars, pos, err_count, in_argv, rv, strvVars>>

Unchanged ==
  UNCHANGED <<calls, fileVars, pos, err_count, in_argv, optionVars>>

AppendArgv ==
  /\ pc = "append"
  /\ pc' = "seal"
  /\ IF opt_append_argv /\ operands # <<>>
       THEN PushStrings(operands)
       ELSE UNCHANGED strvVars
  /\ rv' = rv
  /\ Unchanged

AppendOverruns ==
  /\ pc = "append"
  /\ opt_append_argv
  /\ operands # <<>>
  /\ Overruns(Len(operands))

NothingToRun ==
  /\ pc = "seal"
  /\ cmd_argc = 0
  /\ Return(0)
  /\ UNCHANGED <<calls, optionVars, live>>

\* A mutant: no slot is asked for the NULL at the end.
SealUnasked ==
  /\ pc = "seal"
  /\ cmd_argc # 0
  /\ pc' = "run"
  /\ strv' = [i \in DOMAIN strv |->
                IF i = cmd_argc + 1 THEN NULL ELSE strv[i]]
  /\ UNCHANGED <<strc, cmd_argc, live, rv>>
  /\ Unchanged

Seal ==
  /\ pc = "seal"
  /\ cmd_argc # 0
  /\ pc' = "run"
  /\ Push(<<NULL>>)
  /\ UNCHANGED <<cmd_argc, live, rv>>
  /\ Unchanged

SealOverruns ==
  /\ pc = "seal"
  /\ cmd_argc # 0
  /\ Overruns(1)

\* run_program() (module RunProgram): the process becomes the program, or it
\* returns the status of the program or an errno of fork() or exec().
Replaced ==
  /\ pc = "run"
  /\ pc' = "replaced"
  /\ UNCHANGED <<rv, strvVars>>
  /\ Unchanged

RunReturns ==
  /\ pc = "run"
  /\ pc' = "free"
  /\ rv' \in {0, 2}
  /\ UNCHANGED strvVars
  /\ Unchanged

\* A mutant: only the strings of the script are freed.
FreeOwn ==
  /\ pc = "free"
  /\ live' = live - (cmd_argc - Len(operands))
  /\ Return(rv)
  /\ UNCHANGED <<calls, optionVars>>

\* A mutant: the NULL at the end is taken for a string.
FreeNull ==
  /\ pc = "free"
  /\ live' = live - strc
  /\ Return(rv)
  /\ UNCHANGED <<calls, optionVars>>

\* strv_free_strings() and strv_free()
Free ==
  /\ pc = "free"
  /\ live' = live - Cardinality({i \in 1 .. strc : strv[i] # NULL})
  /\ Return(rv)
  /\ UNCHANGED <<calls, optionVars>>

Step ==
  \/ LineIgnored \/ OptReplace \/ OptAppendArgv \/ OptOther \/ OptFails
  \/ DashDashAfterErrors \/ NoDashDash \/ DashDash
  \/ LeadingIgnored \/ ArgReplaced \/ ArgCopied \/ ArgsEnd \/ AppendArgv
  \/ NothingToRun \/ Seal \/ RunReturns \/ Replaced \/ Free

Overrun == ArgOverruns \/ AppendOverruns \/ SealOverruns

Next == Call \/ Step \/ Overrun

Spec == Init /\ [][Next]_vars /\ WF_vars(Step)
-------------------------------------------------------------------------------
(***************************************************************************)
(* Properties.                                                             *)
(***************************************************************************)

\* Every variable has its type.
FileTypes ==
  /\ script \in Scripts \cup {NoScript}
  /\ operands \in Operands \cup {<<>>}

OptionTypes ==
  /\ replace \in STRING \cup {NULL, Lost}
  /\ asked \in STRING \cup {NULL}
  /\ borrowed \in BOOLEAN /\ opt_append_argv \in BOOLEAN

StrvTypes ==
  /\ strv \in Seq(STRING \cup {NULL, Lost})
  /\ strc \in Nat /\ cmd_argc \in Nat /\ live \in Nat

CallTypes ==
  /\ pc \in {"caller", "lines", "args", "append", "seal", "run", "free",
             "replaced", "overrun"}
  /\ calls \in 0 .. MaxCalls
  /\ pos \in Nat /\ err_count \in Nat /\ in_argv \in BOOLEAN
  /\ rv \in Nat

TypeOK == FileTypes /\ OptionTypes /\ StrvTypes /\ CallTypes

\* Unless realloc() fails, what is written lies in the vector: it has grown
\* enough for all that has been asked of it, whatever comes in what portions,
\* and its slots are filled without a gap, so that only strings are freed and
\* exec() finds the NULL where the arguments end.
InCapacity ==
  /\ strc <= Len(strv)
  /\ \A i \in 1 .. cmd_argc : strv[i] \in STRING
  /\ IF pc \in {"run", "free", "replaced"}
       THEN strc = cmd_argc + 1 /\ strv[strc] = NULL
       ELSE strc = cmd_argc

\* The argument vector that README promises: the lines after the first "--",
\* less blank lines and comments before the first of them, the operands in
\* place of each line that --replace names, and after all of them, if
\* --append-argv has been given.
Promised(named) ==
  LET lines == SubSeq(script.lines, 1, Ended)
      dashes == SelectInSeq(lines, LAMBDA line : line = "--")
      after == SubSeq(lines, dashes + 1, Len(lines))
      first == SelectInSeq(after, LAMBDA line : ~Blank(line))
      args == IF first = 0 THEN <<>> ELSE SubSeq(after, first, Len(after))
      spliced == [i \in DOMAIN args |->
                    IF args[i] = named THEN operands ELSE <<args[i]>>]
  IN  FlattenSeq(spliced) \o (IF opt_append_argv THEN operands ELSE <<>>)

\* A program that is run gets these arguments and no others, a line that is
\* not complete left out, unless --replace was given in a script.
ArgsRight ==
  pc = "run" /\ replace # Lost =>
    SubSeq(strv, 1, cmd_argc) = Promised(replace)

\* A call that returns has freed every string that it has copied, on every
\* path, and none that it has not.
StringsFreed == pc = "caller" => live = 0

\* A script is read to its end, and its call returns or the process becomes
\* the program.
ScriptEnds == pc = "lines" ~> pc \in {"caller", "replaced", "overrun"}

\* README: "If any argument in a script exactly matches the given string, then
\* splice in all the remaining non-option arguments", which a --replace in the
\* script itself does not do: what it has kept is freed with its line.
ReplaceAsGiven ==
  pc = "run" => SubSeq(strv, 1, cmd_argc) = Promised(asked)
===============================================================================
