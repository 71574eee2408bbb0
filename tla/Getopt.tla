------------------------------- MODULE Getopt -------------------------------
(***************************************************************************)
(* libcscript/cs-getopt.c: cs_getopt_internal_r(), which scans a vector of *)
(* arguments and returns one option a call.  A caller passes its table of  *)
(* options (conf) and calls until the scan has ended; it may then scan the *)
(* same vector, as the scan has permuted it, once more.                    *)
(*                                                                         *)
(* argv leaves out argv[0], so that argc = Len(argv) + 1.  An argument is  *)
(* a sequence of Tokens: "-", "=", letters of short options, syllables of  *)
(* long ones.  No optional pointer but longopts is NULL, and a NULL        *)
(* longopts is a table of no long options.  Error messages are left out.   *)
(***************************************************************************)
EXTENDS Integers, SequencesExt

CONSTANTS
  Tokens,   \* what arguments and options are made of
  Uses,     \* what callers pass: a table, see IsConfig, and a vector
  MaxScans  \* how many times a caller scans a vector (a bound)


\* A table: lead is the first character of optstring, if it is '-' or '+',
\* colon whether a ':' follows; shorts maps a letter of optstring to what
\* follows it there; longs is longopts.  No option is one of Marks, which are
\* what a call returns besides options.
Marks == {"end", "word", "?", ":"}
Results == Tokens \cup {"", "0"} \cup Marks

ConfigFields == {"lead", "colon", "posix", "long_only", "shorts", "longs"}

IsConfig(c) ==
  /\ DOMAIN c = ConfigFields
  /\ c.lead \in {"", "-", "+"}
  /\ c.colon \in BOOLEAN /\ c.posix \in BOOLEAN /\ c.long_only \in BOOLEAN
  /\ DOMAIN c.shorts \subseteq Tokens \ Marks
  /\ \A letter \in DOMAIN c.shorts :
       \/ c.shorts[letter] \in {"", ":", "::"}
       \/ letter = "W" /\ c.shorts[letter] = ";"
  /\ c.longs \in Seq([name : Seq(Tokens), has : 0 .. 2, flag : BOOLEAN,
                      val : Tokens \ Marks])

ASSUME UsesAssumption ==
  /\ MaxScans \in Nat \ {0}
  /\ \A use \in Uses : IsConfig(use[1]) /\ use[2] \in Seq(Seq(Tokens))

VARIABLES
  conf,         \* optstring, longopts, long_only, posixly_correct
  argv,
  optind, first_nonopt, last_nonopt, nextchar, initialized, \* of *d
  optarg,       \* of *d: the empty sequence for NULL, else one argument
  optopt,       \* of *d: an option, "" for 0
  optc,         \* what the last call returned
  pc,           \* where the call is, or "caller"
  bottom, middle, top, \* of exchange()
  then,         \* where a call goes on after exchange()
  scans,        \* how many scans the caller has begun
  original,     \* history: argv when this scan began
  before,       \* history: argv when exchange() was called
  parsed,       \* history: what the calls of this scan returned
  lost          \* history: has an argument been skipped unseen?

nonopts == <<first_nonopt, last_nonopt>>
exchangeVars == <<bottom, middle, top, then, before>>
callerVars == <<conf, scans, original>>
vars == <<argv, optind, nonopts, nextchar, initialized, optarg, optopt, optc,
          pc, exchangeVars, callerVars, parsed, lost>>

argc == Len(argv) + 1

(***************************************************************************)
(* The table of the caller.                                                *)
(***************************************************************************)
Ordering ==
  IF conf.lead = "-" THEN "return in order"
  ELSE IF conf.lead = "+" \/ conf.posix THEN "require order"
  ELSE "permute"

HasLongs == conf.longs # <<>>
HasShort(letter) == letter \in DOMAIN conf.shorts

\* NONOPTION_P: the argument does not begin with '-', or is "-".
IsWord(arg) == Len(arg) < 2 \/ arg[1] # "-"
DoubleDash == <<"-", "-">>

NameLength(text) ==
  LET ends == {i \in DOMAIN text : text[i] = "="}
  IN  IF ends = {} THEN Len(text) ELSE Min(ends) - 1

NameOf(text) == SubSeq(text, 1, NameLength(text))
HasValue(text) == NameLength(text) < Len(text)
ValueOf(text) == SubSeq(text, NameLength(text) + 2, Len(text))

\* strncmp() over the table, in its order: an exact match ends the search, and
\* otherwise the first match counts and later ones must mean the same.
Matches(text) ==
  LET name == NameOf(text)
  IN  {i \in DOMAIN conf.longs : IsPrefix(name, conf.longs[i].name)}

ExactMatches(text) ==
  LET name == NameOf(text)
  IN  {i \in DOMAIN conf.longs : conf.longs[i].name = name}

Best(text) ==
  LET exact == ExactMatches(text)
  IN  IF exact # {} THEN exact ELSE Matches(text)

Found(text) ==
  LET best == Best(text)
  IN  conf.longs[Min(best)]

SameMeaning(o, p) == o.has = p.has /\ o.flag = p.flag /\ o.val = p.val

\* A mutant: an exact match does not settle the matter.
IsAmbiguousDespiteExact(text) ==
  LET matches == Matches(text)
      first == conf.longs[Min(matches)]
  IN  \E i \in matches :
        /\ i > Min(matches)
        /\ conf.long_only \/ ~SameMeaning(conf.longs[i], first)

IsAmbiguous(text) ==
  LET matches == Matches(text)
      first == conf.longs[Min(matches)]
  IN  /\ ExactMatches(text) = {}
      /\ \E i \in matches :
           /\ i > Min(matches)
           /\ conf.long_only \/ ~SameMeaning(conf.longs[i], first)

(***************************************************************************)
(* The caller.                                                             *)
(***************************************************************************)
Init ==
  /\ \E use \in Uses : conf = use[1] /\ argv = use[2]
  /\ optind = 1
  /\ first_nonopt = 0 /\ last_nonopt = 0
  /\ nextchar = <<>>
  /\ initialized = FALSE
  /\ optarg = <<>> /\ optopt = "" /\ optc = ""
  /\ pc = "caller"
  /\ bottom = 0 /\ middle = 0 /\ top = 0 /\ then = "skip"
  /\ scans = 1
  /\ original = argv
  /\ before = argv
  /\ parsed = <<>>
  /\ lost = FALSE

\* A scan that has ended may be begun again: optind is set to 0, or back to 1.
Rescan ==
  /\ pc = "caller"
  /\ optc = "end"
  /\ scans < MaxScans
  /\ scans' = scans + 1
  /\ optind' \in {0, 1}
  /\ optc' = ""
  /\ original' = argv
  /\ parsed' = <<>>
  /\ UNCHANGED <<argv, nonopts, nextchar, initialized, optarg, optopt, pc,
                 exchangeVars, conf, lost>>

\* _getopt_initialize() at the first call, or if optind is 0.  What a call does
\* whose optind is beyond argc, see WAmbiguous, is undefined and left out.
Call ==
  /\ pc = "caller"
  /\ optc # "end"
  /\ optind <= argc
  /\ optarg' = <<>>
  /\ IF optind = 0 \/ ~initialized
       THEN /\ optind' = IF optind = 0 THEN 1 ELSE optind
            /\ first_nonopt' = optind' /\ last_nonopt' = optind'
            /\ nextchar' = <<>>
       ELSE UNCHANGED <<optind, nonopts, nextchar>>
  /\ initialized' = TRUE
  /\ pc' = IF nextchar' = <<>> THEN "advance" ELSE "decode"
  /\ UNCHANGED <<argv, optopt, optc, exchangeVars, callerVars, parsed, lost>>

\* A call returns c; a caller that gets '?' or ':' may look at optopt.
ReturnFor(c, opt) ==
  /\ pc' = "caller"
  /\ optc' = c
  /\ parsed' = IF c = "end" THEN parsed
               ELSE Append(parsed, [c |-> c, arg |-> optarg', opt |-> opt])

Return(c) ==
  /\ ReturnFor(c, IF c \in {"?", ":"} THEN optopt' ELSE "")
  /\ lost' = lost

\* What never changes in the course of a scan but in exchange().
Scanning == UNCHANGED <<argv, initialized, exchangeVars, callerVars>>

(***************************************************************************)
(* Advance to the next element of argv.                                    *)
(***************************************************************************)
\* optind may have been moved back by the caller.
Advance ==
  /\ pc = "advance"
  /\ last_nonopt' = Min({last_nonopt, optind})
  /\ first_nonopt' = Min({first_nonopt, optind})
  /\ pc' = IF Ordering = "permute" THEN "settle" ELSE "element"
  /\ Scanning
  /\ UNCHANGED <<optind, nextchar, optarg, optopt, optc, parsed, lost>>

ExchangeThen(end, next) ==
  /\ bottom' = first_nonopt /\ middle' = last_nonopt /\ top' = end
  /\ before' = argv
  /\ then' = next
  /\ pc' = "exchange"
  /\ UNCHANGED nonopts

\* Options have been processed since the last words were skipped.
Settle ==
  /\ pc = "settle"
  /\ IF first_nonopt # last_nonopt /\ last_nonopt # optind
       THEN ExchangeThen(optind, "skip")
       ELSE /\ first_nonopt' =
                 IF last_nonopt # optind THEN optind ELSE first_nonopt
            /\ pc' = "skip"
            /\ UNCHANGED <<last_nonopt, exchangeVars>>
  /\ UNCHANGED <<argv, optind, nextchar, initialized, optarg, optopt, optc,
                 callerVars, parsed, lost>>

\* exchange(): while neither segment is empty, the shorter one is swapped with
\* the far end of the longer one.
Swapped(low, high, count) ==
  [i \in DOMAIN argv |->
     IF i \in low .. low + count - 1 THEN argv[i - low + high]
     ELSE IF i \in high .. high + count - 1 THEN argv[i - high + low]
     ELSE argv[i]]

Exchanging == pc = "exchange" /\ bottom < middle /\ middle < top

inExchange == <<optind, nonopts, nextchar, initialized, optarg, optopt, optc,
                pc, then, before, callerVars, parsed, lost>>

\* A mutant: the end of the top segment is not where its far end was.
SwapBottomOff ==
  /\ Exchanging
  /\ top - middle > middle - bottom
  /\ argv' = Swapped(bottom, middle, middle - bottom)
  /\ top' = top - (middle - bottom)
  /\ UNCHANGED <<bottom, middle, inExchange>>

SwapBottom ==
  /\ Exchanging
  /\ top - middle > middle - bottom
  /\ argv' = Swapped(bottom, top - (middle - bottom), middle - bottom)
  /\ top' = top - (middle - bottom)
  /\ UNCHANGED <<bottom, middle, inExchange>>

\* A mutant: the segment that has been moved is not excluded.
SwapTopStuck ==
  /\ Exchanging
  /\ top - middle <= middle - bottom
  /\ argv' = Swapped(bottom, middle, top - middle)
  /\ UNCHANGED <<bottom, middle, top, inExchange>>

SwapTop ==
  /\ Exchanging
  /\ top - middle <= middle - bottom
  /\ argv' = Swapped(bottom, middle, top - middle)
  /\ bottom' = bottom + (top - middle)
  /\ UNCHANGED <<middle, top, inExchange>>

\* A mutant: the record of the words moves the wrong way.
ExchangeEndsBackwards ==
  /\ pc = "exchange"
  /\ ~Exchanging
  /\ first_nonopt' = first_nonopt - (optind - last_nonopt)
  /\ last_nonopt' = optind
  /\ pc' = then
  /\ Scanning
  /\ UNCHANGED <<optind, nextchar, optarg, optopt, optc, parsed, lost>>

ExchangeEnds ==
  /\ pc = "exchange"
  /\ ~Exchanging
  /\ first_nonopt' = first_nonopt + (optind - last_nonopt)
  /\ last_nonopt' = optind
  /\ pc' = then
  /\ Scanning
  /\ UNCHANGED <<optind, nextchar, optarg, optopt, optc, parsed, lost>>

\* Skip words; they extend the range of those skipped before.
Skip ==
  /\ pc = "skip"
  /\ optind' = Min({i \in optind .. argc : i = argc \/ ~IsWord(argv[i])})
  /\ last_nonopt' = optind'
  /\ pc' = "element"
  /\ Scanning
  /\ UNCHANGED <<first_nonopt, nextchar, optarg, optopt, optc, parsed, lost>>

\* "--" ends the options; it is skipped like one.
DoubleDashEnds ==
  /\ pc = "element"
  /\ optind < argc
  /\ argv[optind] = DoubleDash
  /\ optind' = optind + 1
  /\ IF first_nonopt # last_nonopt /\ last_nonopt # optind'
       THEN ExchangeThen(optind', "finish")
       ELSE /\ first_nonopt' =
                 IF first_nonopt = last_nonopt THEN optind' ELSE first_nonopt
            /\ pc' = "finish"
            /\ UNCHANGED <<last_nonopt, exchangeVars>>
  /\ UNCHANGED <<argv, nextchar, initialized, optarg, optopt, optc, callerVars,
                 parsed, lost>>

\* Everything after "--" is skipped like a word.
Finish ==
  /\ pc = "finish"
  /\ last_nonopt' = argc
  /\ optind' = argc
  /\ pc' = "element"
  /\ Scanning
  /\ UNCHANGED <<first_nonopt, nextchar, optarg, optopt, optc, parsed, lost>>

\* All elements are done: back over the words that have been skipped.
ScanEnds ==
  /\ pc = "element"
  /\ optind = argc
  /\ optind' = IF first_nonopt # last_nonopt THEN first_nonopt ELSE optind
  /\ Return("end")
  /\ Scanning
  /\ UNCHANGED <<nonopts, nextchar, optarg, optopt>>

AtElement ==
  /\ pc = "element"
  /\ optind < argc
  /\ argv[optind] # DoubleDash

WordStops ==
  /\ AtElement
  /\ IsWord(argv[optind])
  /\ Ordering = "require order"
  /\ Return("end")
  /\ Scanning
  /\ UNCHANGED <<optind, nonopts, nextchar, optarg, optopt>>

WordIsReturned ==
  /\ AtElement
  /\ IsWord(argv[optind])
  /\ Ordering # "require order"
  /\ optarg' = <<argv[optind]>>
  /\ optind' = optind + 1
  /\ Return("word")
  /\ Scanning
  /\ UNCHANGED <<nonopts, nextchar, optopt>>

OptionElement ==
  /\ AtElement
  /\ ~IsWord(argv[optind])
  /\ LET start == IF HasLongs /\ argv[optind][2] = "-" THEN 3 ELSE 2
     IN  nextchar' = SubSeq(argv[optind], start, Len(argv[optind]))
  /\ pc' = "decode"
  /\ Scanning
  /\ UNCHANGED <<optind, nonopts, optarg, optopt, optc, parsed, lost>>

(***************************************************************************)
(* Decode a long option.                                                   *)
(***************************************************************************)
Decoding == pc = "decode" /\ Scanning /\ UNCHANGED nonopts

IsLong ==
  /\ HasLongs
  /\ \/ argv[optind][2] = "-"
     \/ conf.long_only /\ (Len(argv[optind]) > 2 \/ ~HasShort(argv[optind][2]))

MissingArgument == IF conf.colon THEN ":" ELSE "?"

LongAmbiguous ==
  /\ Decoding
  /\ IsLong
  /\ IsAmbiguous(nextchar)
  /\ nextchar' = <<>>
  /\ optind' = optind + 1
  /\ optopt' = ""
  /\ optarg' = optarg
  /\ Return("?")

LongFound ==
  /\ Decoding
  /\ IsLong
  /\ ~IsAmbiguous(nextchar)
  /\ Matches(nextchar) # {}
  /\ nextchar' = <<>>

LongTakesNoArgument ==
  /\ LongFound
  /\ HasValue(nextchar)
  /\ Found(nextchar).has = 0
  /\ optind' = optind + 1
  /\ optopt' = Found(nextchar).val
  /\ optarg' = optarg
  /\ Return("?")

LongLacksArgument ==
  /\ LongFound
  /\ ~HasValue(nextchar)
  /\ Found(nextchar).has = 1
  /\ optind + 1 = argc
  /\ optind' = optind + 1
  /\ optopt' = Found(nextchar).val
  /\ optarg' = optarg
  /\ Return(MissingArgument)

Value(o) == IF o.flag THEN "0" ELSE o.val

LongAlone ==
  /\ LongFound
  /\ ~HasValue(nextchar)
  /\ Found(nextchar).has # 1
  /\ optind' = optind + 1
  /\ UNCHANGED <<optarg, optopt>>
  /\ Return(Value(Found(nextchar)))

LongWithValue ==
  /\ LongFound
  /\ HasValue(nextchar)
  /\ Found(nextchar).has # 0
  /\ optind' = optind + 1
  /\ optarg' = <<ValueOf(nextchar)>>
  /\ optopt' = optopt
  /\ Return(Value(Found(nextchar)))

LongWithNext ==
  /\ LongFound
  /\ ~HasValue(nextchar)
  /\ Found(nextchar).has = 1
  /\ optind + 1 < argc
  /\ optind' = optind + 2
  /\ optarg' = <<argv[optind + 1]>>
  /\ optopt' = optopt
  /\ Return(Value(Found(nextchar)))

\* With long_only an unknown name may still be a group of short options.
IsShortAfterAll == argv[optind][2] # "-" /\ HasShort(nextchar[1])

LongUnknown ==
  /\ Decoding
  /\ IsLong
  /\ Matches(nextchar) = {}
  /\ ~IsShortAfterAll
  /\ nextchar' = <<>>
  /\ optind' = optind + 1
  /\ optopt' = ""
  /\ optarg' = optarg
  /\ Return("?")

(***************************************************************************)
(* Decode the next short option.                                           *)
(***************************************************************************)
Letter == nextchar[1]
Rest == Tail(nextchar)

\* optind is increased when the last letter of the element is reached.
After == IF Rest = <<>> THEN optind + 1 ELSE optind

Short ==
  /\ Decoding
  /\ ~IsLong \/ (Matches(nextchar) = {} /\ IsShortAfterAll)

ShortUnknown ==
  /\ Short
  /\ ~HasShort(Letter)
  /\ nextchar' = Rest
  /\ optind' = After
  /\ optopt' = Letter
  /\ optarg' = optarg
  /\ Return("?")

ShortIs(follows) == Short /\ HasShort(Letter) /\ conf.shorts[Letter] = follows

\* A mutant: the letters behind the option are dropped.
ShortCutOff ==
  /\ ShortIs("")
  /\ nextchar' = <<>>
  /\ optind' = After
  /\ UNCHANGED <<optarg, optopt>>
  /\ Return(Letter)

ShortAlone ==
  /\ ShortIs("")
  /\ nextchar' = Rest
  /\ optind' = After
  /\ UNCHANGED <<optarg, optopt>>
  /\ Return(Letter)

ShortOptional ==
  /\ ShortIs("::")
  /\ optarg' = IF Rest # <<>> THEN <<Rest>> ELSE <<>>
  /\ optind' = optind + 1
  /\ nextchar' = <<>>
  /\ optopt' = optopt
  /\ Return(Letter)

ShortWithRest ==
  /\ ShortIs(":")
  /\ Rest # <<>>
  /\ optarg' = <<Rest>>
  /\ optind' = optind + 1
  /\ nextchar' = <<>>
  /\ optopt' = optopt
  /\ Return(Letter)

ShortWithNext ==
  /\ ShortIs(":")
  /\ Rest = <<>>
  /\ After < argc
  /\ optarg' = <<argv[After]>>
  /\ optind' = optind + 2
  /\ nextchar' = <<>>
  /\ optopt' = optopt
  /\ Return(Letter)

\* A mutant: an argument that is not there is skipped.
ShortLacksAndSkips ==
  /\ ShortIs(":") \/ (ShortIs(";") /\ HasLongs)
  /\ Rest = <<>>
  /\ After = argc
  /\ optind' = optind + 2
  /\ nextchar' = <<>>
  /\ optopt' = Letter
  /\ optarg' = optarg
  /\ Return(MissingArgument)

\* Of a short option or, with "W;", of -W.
ShortLacksArgument ==
  /\ ShortIs(":") \/ (ShortIs(";") /\ HasLongs)
  /\ Rest = <<>>
  /\ After = argc
  /\ optind' = optind + 1
  /\ nextchar' = <<>>
  /\ optopt' = Letter
  /\ optarg' = optarg
  /\ Return(MissingArgument)

(***************************************************************************)
(* "W;" in optstring: -W foo is --foo.                                     *)
(***************************************************************************)
\* The argument of -W, and optind after it.
IsLongW == ShortIs(";") /\ HasLongs /\ (Rest # <<>> \/ After < argc)
TextW == IF Rest # <<>> THEN Rest ELSE argv[After]
AfterW == IF Rest # <<>> THEN optind + 1 ELSE optind + 2

\* Without long options, or if none is meant, -W is left to the caller.
WIsReturned ==
  /\ \/ ShortIs(";") /\ ~HasLongs /\ optind' = After /\ optarg' = optarg
     \/ /\ IsLongW /\ Matches(TextW) = {}
        /\ optind' = AfterW /\ optarg' = <<TextW>>
  /\ nextchar' = <<>>
  /\ optopt' = optopt
  /\ Return(Letter)

ReturnW(c) ==
  /\ ReturnFor(c, "")
  /\ nextchar' = <<>>
  /\ optopt' = optopt

\* optind is past the argument already, and is increased once more.
WAmbiguous ==
  /\ IsLongW
  /\ IsAmbiguous(TextW)
  /\ optarg' = <<TextW>>
  /\ optind' = AfterW + 1
  /\ ReturnW("?")
  /\ lost' = TRUE

WFound ==
  /\ IsLongW
  /\ ~IsAmbiguous(TextW)
  /\ Matches(TextW) # {}
  /\ lost' = lost

WTakesNoArgument ==
  /\ WFound
  /\ HasValue(TextW)
  /\ Found(TextW).has = 0
  /\ optarg' = <<TextW>>
  /\ optind' = AfterW
  /\ ReturnW("?")

WLacksArgument ==
  /\ WFound
  /\ ~HasValue(TextW)
  /\ Found(TextW).has = 1
  /\ AfterW = argc
  /\ optarg' = <<TextW>>
  /\ optind' = AfterW
  /\ ReturnW(MissingArgument)

WTaken ==
  /\ WFound
  /\ \/ /\ HasValue(TextW)
        /\ Found(TextW).has # 0
        /\ optarg' = <<ValueOf(TextW)>>
        /\ optind' = AfterW
     \/ /\ ~HasValue(TextW)
        /\ Found(TextW).has = 1
        /\ AfterW < argc
        /\ optarg' = <<argv[AfterW]>>
        /\ optind' = AfterW + 1
     \/ /\ ~HasValue(TextW)
        /\ Found(TextW).has # 1
        /\ optarg' = <<>>
        /\ optind' = AfterW
  /\ ReturnW(Value(Found(TextW)))

(***************************************************************************)
(* A call, and the whole.                                                  *)
(***************************************************************************)
Step ==
  \/ Advance \/ Settle \/ SwapBottom \/ SwapTop \/ ExchangeEnds \/ Skip
  \/ DoubleDashEnds \/ Finish \/ ScanEnds \/ WordStops \/ WordIsReturned
  \/ OptionElement
  \/ LongAmbiguous \/ LongTakesNoArgument \/ LongLacksArgument \/ LongAlone
  \/ LongWithValue \/ LongWithNext \/ LongUnknown
  \/ ShortUnknown \/ ShortAlone \/ ShortOptional \/ ShortWithRest
  \/ ShortWithNext \/ ShortLacksArgument
  \/ WIsReturned \/ WAmbiguous \/ WTakesNoArgument \/ WLacksArgument \/ WTaken

Next == Rescan \/ Call \/ Step

\* A call runs to its end, and a caller calls until the scan has ended.
Spec == Init /\ [][Next]_vars /\ WF_vars(Call \/ Step)
-------------------------------------------------------------------------------
(***************************************************************************)
(* Properties.                                                             *)
(***************************************************************************)

\* Every variable has its type.
TypeOK ==
  /\ IsConfig(conf)
  /\ argv \in Seq(Seq(Tokens))
  /\ optind \in Nat /\ first_nonopt \in Nat /\ last_nonopt \in Nat
  /\ nextchar \in Seq(Tokens)
  /\ initialized \in BOOLEAN
  /\ optarg = <<>> \/ (Len(optarg) = 1 /\ optarg[1] \in Seq(Tokens))
  /\ optopt \in Tokens \cup {""} /\ optc \in Results
  /\ pc \in {"caller", "advance", "settle", "exchange", "skip", "element",
             "finish", "decode"}
  /\ bottom \in Nat /\ middle \in Nat /\ top \in Nat
  /\ then \in {"skip", "finish"}
  /\ scans \in 1 .. MaxScans
  /\ lost \in BOOLEAN

\* No call looks beyond the vector: an element that is read is there, and what
\* is recorded of the words that have been skipped lies before optind, also
\* after the caller has moved optind back, unless an ambiguous -W has made the
\* scan skip an argument.
InBounds ==
  \/ lost
  \/ /\ optind <= argc
     /\ pc = "decode" => optind < argc /\ nextchar # <<>>
     /\ pc \notin {"caller", "advance"} =>
          /\ first_nonopt \in 1 .. optind
          /\ last_nonopt \in 1 .. optind
     /\ pc \notin {"caller", "advance", "skip", "finish"} =>
          first_nonopt <= last_nonopt

\* exchange() puts the words behind the options that followed them, both in
\* the order in which they were, and leaves the rest alone, whichever segment
\* is the longer one.
Rotated(v, b, m, t) ==
  [i \in DOMAIN v |->
     IF i \in b .. b + (t - m) - 1 THEN v[i + (m - b)]
     ELSE IF i \in b + (t - m) .. t - 1 THEN v[i - (t - m)]
     ELSE v[i]]

ExchangeRotates ==
  pc = "exchange" /\ ~Exchanging =>
    argv = Rotated(before, first_nonopt, last_nonopt, optind)

(***************************************************************************)
(* What the comments in cs-getopt.c say a scan returns, element by element *)
(* and not call by call: the options, and the words that are left.         *)
(***************************************************************************)
Out(c, arg, opt) == [c |-> c, arg |-> arg, opt |-> opt]

Meaning(o) == [has |-> o.has, flag |-> o.flag, c |-> Value(o), val |-> o.val]

\* A name means the first option it is equal to, or else one it abbreviates.
Meant(text) ==
  LET exact == ExactMatches(text)
  IN  {Meaning(conf.longs[i]) :
         i \in IF exact = {} THEN Matches(text) ELSE {Min(exact)}}

IsUnique(text) ==
  /\ \E o \in Meant(text) : Meant(text) = {o}
  /\ \/ ~conf.long_only
     \/ ExactMatches(text) # {}
     \/ Cardinality(Matches(text)) = 1

\* What is returned for an option, and how many further elements it takes.
LongOut(text, more) ==
  IF ~IsUnique(text) THEN <<Out("?", <<>>, ""), 0>>
  ELSE LET o == CHOOSE o \in Meant(text) : TRUE
           given == IF HasValue(text) THEN <<ValueOf(text)>> ELSE <<>>
       IN  IF o.has = 0 /\ given # <<>> THEN <<Out("?", <<>>, o.val), 0>>
           ELSE IF o.has # 1 \/ given # <<>> THEN <<Out(o.c, given, ""), 0>>
           ELSE IF more = <<>> THEN <<Out(MissingArgument, <<>>, o.val), 0>>
           ELSE <<Out(o.c, <<more[1]>>, ""), 1>>

WOut(text, more) ==
  LET out == LongOut(text, more)
  IN  IF Matches(text) = {} THEN <<Out("W", <<text>>, ""), 0>>
      ELSE IF out[1].c \in {"?", ":"} THEN <<Out(out[1].c, <<text>>, ""), 0>>
      ELSE out

\* A letter that takes no argument, and one that does, with the rest of its
\* group behind it.
Takes(letter) == HasShort(letter) /\ conf.shorts[letter] # ""

PlainOut(letter) ==
  IF HasShort(letter) THEN Out(letter, <<>>, "") ELSE Out("?", <<>>, letter)

TakerOut(c, rest, more) ==
  LET args == IF rest = <<>> THEN more ELSE <<rest>> \o more
      taken == IF rest = <<>> THEN 1 ELSE 0
      w == WOut(args[1], Tail(args))
  IN  IF conf.shorts[c] = "::"
        THEN <<Out(c, IF rest = <<>> THEN <<>> ELSE <<rest>>, ""), 0>>
      ELSE IF conf.shorts[c] = ";" /\ ~HasLongs THEN <<Out(c, <<>>, ""), 0>>
      ELSE IF args = <<>> THEN <<Out(MissingArgument, <<>>, c), 0>>
      ELSE IF conf.shorts[c] = ":" THEN <<Out(c, <<args[1]>>, ""), taken>>
      ELSE <<w[1], w[2] + taken>>

\* The letters of a group up to the first that takes an argument.
GroupOut(letters, more) ==
  LET takers == {i \in DOMAIN letters : Takes(letters[i])}
      k == Min(takers)
      last == TakerOut(letters[k], SubSeq(letters, k + 1, Len(letters)), more)
      plain(n) == [i \in 1 .. n |-> PlainOut(letters[i])]
  IN  IF takers = {} THEN <<plain(Len(letters)), 0>>
      ELSE <<Append(plain(k - 1), last[1]), last[2]>>

ElementOut(arg, more) ==
  LET text == SubSeq(arg, IF arg[2] = "-" THEN 3 ELSE 2, Len(arg))
      out == LongOut(text, more)
  IN  IF /\ HasLongs
         /\ \/ arg[2] = "-"
            \/ /\ conf.long_only
               /\ Matches(text) # {} \/ ~HasShort(arg[2])
               /\ Len(arg) > 2 \/ ~HasShort(arg[2])
      THEN <<<<out[1]>>, out[2]>>
      ELSE GroupOut(Tail(arg), more)

\* <<what the calls return, the words that are left>> from the element i on,
\* where later has it from the ones behind it on.
OutFrom(v, later, i) ==
  IF i > Len(v) THEN <<<<>>, <<>>>>
  ELSE IF v[i] = DoubleDash THEN <<<<>>, SubSeq(v, i + 1, Len(v))>>
  ELSE IF ~IsWord(v[i]) THEN
    LET e == ElementOut(v[i], SubSeq(v, i + 1, Len(v)))
    IN  <<e[1] \o later[i + 1 + e[2]][1], later[i + 1 + e[2]][2]>>
  ELSE IF Ordering = "require order"
    THEN <<<<>>, SubSeq(v, i, Len(v))>>
  ELSE IF Ordering = "permute"
    THEN <<later[i + 1][1], <<v[i]>> \o later[i + 1][2]>>
  ELSE <<<<Out("word", <<v[i]>>, "")>> \o later[i + 1][1], later[i + 1][2]>>

Documented(v) ==
  LET out[i \in 1 .. Len(v) + 1] == OutFrom(v, out, i)
  IN  out[1]

\* Whatever the order of options and words, the calls of a scan return the
\* options and arguments that the comments promise, in their order, and leave
\* the remaining words, in their order, at the end of the vector from optind
\* on; also those of a second scan, which finds the vector permuted and the
\* state of the parser as the first scan has left it.
ParsedRight ==
  optc = "end" /\ ~lost =>
    <<parsed, SubSeq(argv, optind, Len(argv))>> = Documented(original)

\* A caller that goes on calling comes to the end of its vector.
ScanReturns == <>(optc = "end" \/ lost)
===============================================================================
