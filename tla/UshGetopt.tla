------------------------------ MODULE UshGetopt ------------------------------
(***************************************************************************)
(* ush_getopt() of libush/ush.c: the loop that has module Getopt parse the *)
(* options of ush, and carries out each before it asks for the next, with  *)
(* the arguments that cmd-umask.c and cmd-env.c take apart.                *)
(*                                                                         *)
(* Module Ush has what the options do to a process.  Here they are told    *)
(* apart by their arguments; --chdir, the redirections and --close-from    *)
(* are just recorded, and fail if their argument is one of Unusable.       *)
(***************************************************************************)
EXTENDS Getopt

CONSTANTS
  Unusable,    \* arguments with which a system call fails
  Masks,       \* umasks of the process
  OptErrLimit  \* 10: more errors end the loop

Long(name, has, val) ==
  [name |-> name, has |-> has, flag |-> FALSE, val |-> val]

\* static struct option long_options[]; what is no letter stands for OPT_...
long_options ==
  <<Long(<<"h", "elp">>, 0, "h"),
    Long(<<"v", "er", "sion">>, 0, "V"),
    Long(<<"v", "er", "bose">>, 0, "v"),
    Long(<<"d", "ebug">>, 0, "d"),
    Long(<<"c", "ommand">>, 0, "c"),
    Long(<<"append-argv">>, 0, "append-argv"),
    Long(<<"s", "h", "ow-argv">>, 0, "show-argv"),
    Long(<<"fork">>, 0, "fork"),
    Long(<<"s", "td", "in">>, 1, "stdin"),
    Long(<<"s", "td", "out">>, 1, "stdout"),
    Long(<<"s", "td", "out", "-append">>, 1, "stdout-append"),
    Long(<<"s", "td", "out", "-new">>, 1, "stdout-new"),
    Long(<<"s", "td", "err">>, 1, "stderr"),
    Long(<<"s", "td", "err", "-append">>, 1, "stderr-append"),
    Long(<<"s", "td", "err", "-new">>, 1, "stderr-new"),
    Long(<<"c", "hdir">>, 1, "chdir"),
    Long(<<"c", "l", "earenv">>, 0, "clearenv"),
    Long(<<"e", "n", "v">>, 1, "env"),
    Long(<<"umask">>, 1, "umask"),
    Long(<<"c", "l", "ose-from">>, 1, "close-from"),
    Long(<<"replace">>, 1, "replace"),
    Long(<<"e", "n", "coding">>, 1, "encoding")>>

\* "+hVdvc"
ush_table ==
  [lead |-> "+", colon |-> FALSE, posix |-> FALSE, long_only |-> FALSE,
   shorts |-> [c \in {"h", "V", "d", "v", "c"} |-> ""], longs |-> long_options]

\* Options that are carried out by a system call here.
Recorded ==
  {"chdir", "stdin", "stdout", "stdout-append", "stdout-new", "stderr",
   "stderr-append", "stderr-new", "close-from"}

ASSUME UshGetoptAssumption ==
  /\ Masks \subseteq 0 .. 511
  /\ OptErrLimit \in Nat

VARIABLES
  at,         \* "loop", "parsing" (in a call of cs_getopt_internal_r()),
              \* "returned" or "exited"
  err_count,
  cmd,        \* fork, verbose, debug and argv
  statics,    \* debug, verbose, opt_command, opt_append_argv, opt_show_argv,
              \* script_encoding, replace
  mask, env,  \* of the process
  status,     \* of exit()
  done,       \* history: the options of Recorded that were carried out
  old,        \* history: mask at first
  asked       \* history: what the vector asks for, read as a whole (see
              \* Getopt!Documented), and the words that are left

ushVars == <<at, err_count, cmd, statics, mask, env, status, done, old,
             asked>>
allVars == <<vars, ushVars>>

UshInit ==
  /\ Init
  /\ conf = ush_table
  /\ at = "loop"
  /\ err_count = 0
  /\ cmd = [fork |-> FALSE, verbose |-> FALSE, debug |-> FALSE, argv |-> <<>>]
  /\ statics = [debug |-> FALSE, verbose |-> FALSE, command |-> FALSE,
                append_argv |-> FALSE, show_argv |-> FALSE,
                encoding |-> "text", replace |-> <<>>]
  /\ mask \in Masks /\ env = [name \in {} |-> <<>>]
  /\ status = 0
  /\ done = <<>>
  /\ old = mask
  /\ asked = Documented(argv)

(***************************************************************************)
(* cmd-umask.c                                                             *)
(***************************************************************************)
Digits == <<"0", "1", "2", "3", "4", "5", "6", "7">>
DigitOf(c) == SelectInSeq(Digits, LAMBDA d : d = c) - 1

is_octal(text) == text # <<>> /\ ToSet(text) \subseteq ToSet(Digits)

OctalOf(text) ==
  LET value[i \in 0 .. Len(text)] ==
        IF i = 0 THEN 0 ELSE 8 * value[i - 1] + DigitOf(text[i])
  IN  value[Len(text)]

\* A turn of the loops of parse_umask(): in front of a class, of '=', or of a
\* permission of which.
BitOf == [r |-> 4, w |-> 2, x |-> 1]

\* A mutant: a permission may be given twice, and adds its bit each time.
TurnTwice(at_, c) ==
  CASE at_.before = "class" /\ c \in DOMAIN at_.bits /\ at_.bits[c] = 0 ->
         [at_ EXCEPT !.before = "=", !.which = c]
    [] at_.before = "=" /\ c = "=" -> [at_ EXCEPT !.before = "permission"]
    [] at_.before = "permission" /\ c = "," -> [at_ EXCEPT !.before = "class"]
    [] at_.before = "permission" /\ c \in DOMAIN BitOf ->
         [at_ EXCEPT !.bits[at_.which] = (@ + BitOf[c]) % 8,
                     !.set = @ \cup {<<at_.which, c>>}]
    [] OTHER -> [at_ EXCEPT !.before = "error"]

Turn(at_, c) ==
  CASE at_.before = "class" /\ c \in DOMAIN at_.bits /\ at_.bits[c] = 0 ->
         [at_ EXCEPT !.before = "=", !.which = c]
    [] at_.before = "=" /\ c = "=" -> [at_ EXCEPT !.before = "permission"]
    [] at_.before = "permission" /\ c = "," -> [at_ EXCEPT !.before = "class"]
    [] /\ at_.before = "permission" /\ c \in DOMAIN BitOf
       /\ <<at_.which, c>> \notin at_.set ->
         [at_ EXCEPT !.bits[at_.which] = @ + BitOf[c],
                     !.set = @ \cup {<<at_.which, c>>}]
    [] OTHER -> [at_ EXCEPT !.before = "error"]

parse_umask(text) ==
  LET turns[i \in 0 .. Len(text)] ==
        IF i = 0 THEN [before |-> "class", which |-> "", set |-> {},
                       bits |-> [u |-> 0, g |-> 0, o |-> 0]]
        ELSE Turn(turns[i - 1], text[i])
  IN  turns[Len(text)]

\* The mask an argument of --umask means, or none.
UmaskOf(text) ==
  IF is_octal(text) THEN {OctalOf(text)} \cap 0 .. 511
  ELSE LET end == parse_umask(text)
       IN  IF end.before \in {"class", "permission"}
           THEN {64 * end.bits.u + 8 * end.bits.g + end.bits.o}
           ELSE {}

(***************************************************************************)
(* cmd-env.c; all tokens but digits and these are letters, or '_'.         *)
(***************************************************************************)
is_ident(c) == c \notin {"-", "=", ",", "/"}
is_ident_start(c) == is_ident(c) /\ c \notin ToSet(Digits)

\* A mutant: the first character is not looked at on its own.
IsAnyAssignment(text) ==
  /\ \A i \in 1 .. NameLength(text) : is_ident(text[i])
  /\ HasValue(text)

IsAssignment(text) ==
  /\ \A i \in 1 .. NameLength(text) : is_ident(text[i])
  /\ NameLength(text) # 0 /\ is_ident_start(text[1])
  /\ HasValue(text)

(***************************************************************************)
(* The loop.                                                               *)
(***************************************************************************)
\* A mutant: one error too many.
AskOnceMore ==
  /\ at = "loop"
  /\ err_count <= OptErrLimit + 1
  /\ Call
  /\ at' = "parsing"
  /\ UNCHANGED <<err_count, cmd, statics, mask, env, status, done, old, asked>>

Ask ==
  /\ at = "loop"
  /\ err_count <= OptErrLimit
  /\ Call
  /\ at' = "parsing"
  /\ UNCHANGED <<err_count, cmd, statics, mask, env, status, done, old, asked>>

Parse ==
  /\ at = "parsing"
  /\ Step
  /\ UNCHANGED ushVars

TooManyErrors ==
  /\ at = "loop"
  /\ err_count > OptErrLimit
  /\ at' = "returned"
  /\ UNCHANGED <<vars, err_count, cmd, statics, mask, env, status, done, old,
                 asked>>

\* A call has returned one of codes.
Returned(codes) == at = "parsing" /\ pc = "caller" /\ optc \in codes

IsHelp == optc = "h" \/ (optc = "?" /\ optopt = "?")

\* The option has been carried out, and the loop goes on.
Handled(ok) ==
  /\ at' = "loop"
  /\ err_count' = IF ok THEN err_count ELSE err_count + 1
  /\ UNCHANGED <<vars, status, old, asked>>

Exits ==
  /\ Returned({"h", "V", "?"})
  /\ IsHelp \/ optc = "V"
  /\ at' = "exited"
  /\ status' = 0
  /\ UNCHANGED <<vars, err_count, cmd, statics, mask, env, done, old, asked>>

Sets(field, value) ==
  /\ statics' = [statics EXCEPT ![field] = value]
  /\ Handled(TRUE)
  /\ UNCHANGED <<cmd, mask, env, done>>

OptDebug == Returned({"d"}) /\ Sets("debug", TRUE)
OptVerbose == Returned({"v"}) /\ Sets("verbose", TRUE)
OptCommand == Returned({"c"}) /\ Sets("command", TRUE)
OptAppendArgv == Returned({"append-argv"}) /\ Sets("append_argv", TRUE)
OptShowArgv == Returned({"show-argv"}) /\ Sets("show_argv", TRUE)
OptReplace == Returned({"replace"}) /\ Sets("replace", optarg)

parse_encoding(text) ==
  CASE text = <<"text">> -> "text"
    [] text = <<"x", "nn">> -> "xnn"
    [] text = <<"quoted-printable">> -> "qp"
    [] text = <<"qp">> -> "qp"
    [] text = <<"null">> -> "null"
    [] OTHER -> "invalid"

OptEncoding ==
  /\ Returned({"encoding"})
  /\ Sets("encoding", parse_encoding(optarg[1]))

OptFork ==
  /\ Returned({"fork"})
  /\ cmd' = [cmd EXCEPT !.fork = TRUE]
  /\ Handled(TRUE)
  /\ UNCHANGED <<statics, mask, env, done>>

OptRecorded ==
  /\ Returned(Recorded)
  /\ done' = Append(done, <<optc, optarg[1]>>)
  /\ Handled(optarg[1] \notin Unusable)
  /\ UNCHANGED <<cmd, statics, mask, env>>

OptBadUmask ==
  /\ Returned({"umask"})
  /\ UmaskOf(optarg[1]) = {}
  /\ Handled(FALSE)
  /\ UNCHANGED <<cmd, statics, mask, env, done>>

\* umask() returns the old mask, and so does cmd_umask().
OptUmask ==
  /\ Returned({"umask"})
  /\ mask' \in UmaskOf(optarg[1])
  /\ Handled(mask = 0)
  /\ UNCHANGED <<cmd, statics, env, done>>

OptClearenv ==
  /\ Returned({"clearenv"})
  /\ env' = [name \in {} |-> <<>>]
  /\ Handled(TRUE)
  /\ UNCHANGED <<cmd, statics, mask, done>>

\* The environment after putenv().
WithValue(values, new, value) ==
  [name \in DOMAIN values \cup {new} |->
     IF name = new THEN value ELSE values[name]]

OptEnv ==
  /\ Returned({"env"})
  /\ env' = IF IsAssignment(optarg[1])
              THEN WithValue(env, NameOf(optarg[1]), ValueOf(optarg[1]))
              ELSE env
  /\ Handled(IsAssignment(optarg[1]))
  /\ UNCHANGED <<cmd, statics, mask, done>>

OptWrong ==
  /\ Returned({"?"})
  /\ ~IsHelp
  /\ Handled(FALSE)
  /\ UNCHANGED <<cmd, statics, mask, env, done>>

\* A mutant: --debug does not imply --verbose.
LoopEndsQuietly ==
  /\ Returned({"end"})
  /\ at' = "returned"
  /\ cmd' = IF err_count > 0 THEN cmd
            ELSE [cmd EXCEPT !.verbose = statics.verbose,
                             !.debug = statics.debug,
                             !.argv = SubSeq(argv, optind, Len(argv))]
  /\ UNCHANGED <<vars, statics, err_count, mask, env, status, done, old,
                 asked>>

\* All options are carried out; what is left is the program or the script.
LoopEnds ==
  /\ Returned({"end"})
  /\ at' = "returned"
  /\ LET verbose == statics.verbose \/ statics.debug
     IN  IF err_count > 0 THEN UNCHANGED <<cmd, statics>>
         ELSE /\ statics' = [statics EXCEPT !.verbose = verbose,
                                            !.show_argv = @ \/ verbose]
              /\ cmd' = [cmd EXCEPT !.verbose = verbose,
                                    !.debug = statics.debug,
                                    !.argv = SubSeq(argv, optind, Len(argv))]
  /\ UNCHANGED <<vars, err_count, mask, env, status, done, old, asked>>

Turns ==
  \/ Ask \/ Parse \/ TooManyErrors \/ Exits \/ LoopEnds
  \/ OptDebug \/ OptVerbose \/ OptCommand \/ OptAppendArgv \/ OptShowArgv
  \/ OptReplace \/ OptEncoding \/ OptFork \/ OptRecorded
  \/ OptBadUmask \/ OptUmask \/ OptClearenv \/ OptEnv \/ OptWrong

UshSpec == UshInit /\ [][Turns]_allVars
-------------------------------------------------------------------------------
(***************************************************************************)
(* Properties.                                                             *)
(***************************************************************************)

\* Every variable has its type.
UshTypeOK ==
  /\ TypeOK
  /\ at \in {"loop", "parsing", "returned", "exited"}
  /\ err_count \in 0 .. OptErrLimit + 1
  /\ cmd.fork \in BOOLEAN /\ cmd.verbose \in BOOLEAN /\ cmd.debug \in BOOLEAN
  /\ cmd.argv \in Seq(Seq(Tokens))
  /\ statics.encoding \in {"text", "xnn", "qp", "null", "invalid"}
  /\ mask \in 0 .. 511
  /\ \A name \in DOMAIN env : env[name] \in Seq(Tokens)
  /\ status \in Nat

(***************************************************************************)
(* What the vector asks for, option by option.                             *)
(***************************************************************************)
Asked == asked[1]

Given(outs, c) == {i \in DOMAIN outs : outs[i].c = c}
ArgOf(outs, i) == outs[i].arg[1]

\* A symbolic mask is clauses separated by commas, one perhaps at the end; a
\* clause is a class, '=' and permissions, none twice; a class that has got
\* permissions does not come again.
Clauses(text) ==
  LET Commas == {i \in DOMAIN text : text[i] = ","}
      Starts == ({1} \cup {i + 1 : i \in Commas}) \ {Len(text) + 1}
      End(a) == Min({i \in Commas \cup {Len(text) + 1} : i >= a}) - 1
  IN  {<<a, SubSeq(text, a, End(a))>> : a \in Starts}

Permissions(clause) == SubSeq(clause, 3, Len(clause))

IsSymbolic(text) ==
  /\ \A c \in Clauses(text) :
       /\ Len(c[2]) >= 2
       /\ c[2][1] \in {"u", "g", "o"}
       /\ c[2][2] = "="
       /\ ToSet(Permissions(c[2])) \subseteq {"r", "w", "x"}
       /\ IsInjective(Permissions(c[2]))
  /\ \A c, d \in Clauses(text) :
       c[1] < d[1] /\ c[2][1] = d[2][1] => Len(c[2]) = 2

\* What the clauses of a class give it, and the octal digit of permissions.
RightsOf(text, class) ==
  UNION {ToSet(Permissions(c[2])) :
           c \in {d \in Clauses(text) : d[2][1] = class}}

OctalDigit(rights) ==
  (IF "r" \in rights THEN 4 ELSE 0) + (IF "w" \in rights THEN 2 ELSE 0)
    + (IF "x" \in rights THEN 1 ELSE 0)

\* An octal mask has at most three digits that count, behind any zeros: DigitAt
\* is the k-th from the right, counted from zero.
DigitAt(text, k) == IF k < Len(text) THEN DigitOf(text[Len(text) - k]) ELSE 0

IsOctalMask(text) ==
  \A i \in DOMAIN text : i + 3 <= Len(text) => text[i] = "0"

\* The mask an argument asks for: the bits of a symbolic one are taken away
\* from what the program creates, as cmd-umask.c has it (MaskAsReported is what
\* README has).
MeantMask(text) ==
  IF is_octal(text) /\ ~IsOctalMask(text) THEN {}
  ELSE IF is_octal(text)
    THEN {64 * DigitAt(text, 2) + 8 * DigitAt(text, 1) + DigitAt(text, 0)}
  ELSE IF ~IsSymbolic(text) THEN {}
  ELSE {64 * OctalDigit(RightsOf(text, "u"))
          + 8 * OctalDigit(RightsOf(text, "g"))
          + OctalDigit(RightsOf(text, "o"))}

\* A later --umask takes the place of an earlier one, and those that are not
\* valid of none.  An octal mask is the number written, a symbolic one the bits
\* that are named (cmd-umask.c:106).
ValidMasks(outs) ==
  {i \in Given(outs, "umask") : MeantMask(ArgOf(outs, i)) # {}}

MasksAsked(outs) ==
  IF ValidMasks(outs) = {} THEN {old}
  ELSE MeantMask(ArgOf(outs, Max(ValidMasks(outs))))

MaskRight == at = "returned" /\ optc = "end" => mask \in MasksAsked(Asked)

\* What umask -S reports of a class: the rights that the mask leaves.
Left(class) ==
  LET taken == CASE class = "u" -> mask \div 64
                 [] class = "g" -> (mask \div 8) % 8
                 [] class = "o" -> mask % 8
  IN  {right \in DOMAIN BitOf : (taken \div BitOf[right]) % 2 = 0}

\* README.md:178-181: "Symbolic values for mask are like those reported by the
\* command, `umask -S`": where the last valid --umask is symbolic, umask -S
\* then reports of the classes it names what it says of them.  It does not:
\* cmd-umask.c:106 makes a mask of the rights, which takes them away.  (Where
\* no error was counted: then the program is run.)
MaskAsReported ==
  at = "returned" /\ optc = "end" /\ err_count = 0 /\ ValidMasks(Asked) # {} =>
    LET text == ArgOf(Asked, Max(ValidMasks(Asked)))
    IN  IsSymbolic(text) =>
          \A c \in Clauses(text) : Left(c[2][1]) = RightsOf(text, c[2][1])

\* README: the environment is what the assignments after the last --clearenv
\* have made of it, the last one of each name, and a name is an identifier.
IsIdentifier(name) ==
  /\ name # <<>>
  /\ \A k \in DOMAIN name : is_ident(name[k])
  /\ name[1] \notin ToSet(Digits)

EnvAsked(outs) ==
  LET cleared == Max(Given(outs, "clearenv") \cup {0})
      Named(i) == NameOf(ArgOf(outs, i))
      sets == {i \in Given(outs, "env") :
                 /\ i > cleared
                 /\ HasValue(ArgOf(outs, i))
                 /\ IsIdentifier(Named(i))}
  IN  [name \in {Named(i) : i \in sets} |->
         ValueOf(ArgOf(outs, Max({i \in sets : Named(i) = name})))]

EnvRight == at = "returned" /\ optc = "end" => env = EnvAsked(Asked)

\* What has been carried out: all that the calls have returned, but for what
\* one has only just returned or what has ended the program.
Carried ==
  IF at \in {"parsing", "exited"} /\ pc = "caller" /\ optc # "end"
    THEN Front(parsed) ELSE parsed

\* Options are carried out one after another in the order of the vector, each
\* once, those behind one that has failed as well, and those in front of the
\* one that ends the program.  None comes from behind the first word: what
\* follows belongs to the program.
Records(out) ==
  IF out.c \in Recorded THEN <<<<out.c, out.arg[1]>>>> ELSE <<>>

InOrder ==
  /\ IsPrefix(parsed, Asked)
  /\ done = FlattenSeq([i \in DOMAIN Carried |-> Records(Carried[i])])

\* The result is 0 only if no option was wrong or has failed.  Then the command
\* holds all that the options have said, the last word on each, and the words
\* from the first on.
CommandRight ==
  at = "returned" /\ err_count = 0 =>
    /\ \A i \in DOMAIN Asked :
         /\ Asked[i].c # "?"
         /\ Asked[i].c \in Recorded => ArgOf(Asked, i) \notin Unusable
    /\ LET Said(c) == Given(Asked, c) # {}
       IN  /\ cmd = [fork |-> Said("fork"),
                     verbose |-> Said("v") \/ Said("d"),
                     debug |-> Said("d"),
                     argv |-> asked[2]]
           /\ statics.show_argv = (cmd.verbose \/ Said("show-argv"))
           /\ statics.command = Said("c")
           /\ statics.append_argv = Said("append-argv")
           /\ statics.replace =
                IF ~Said("replace") THEN <<>>
                ELSE <<ArgOf(Asked, Max(Given(Asked, "replace")))>>
===============================================================================
