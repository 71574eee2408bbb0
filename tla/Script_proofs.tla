--------------------------- MODULE Script_proofs ---------------------------
(***************************************************************************)
(* For every set of scripts and operands and every amount to grow by, the  *)
(* vector has room for what is written, its strings are freed, and the     *)
(* arguments are those that README promises.                               *)
(***************************************************************************)
EXTENDS Script, SeqLemmas

\* strv_alloc() rounds up: never fewer slots than were asked for.
LEMMA RoundedUp ==
  ASSUME NEW n \in Nat
  PROVE  Rounded(n) \in Nat /\ Rounded(n) >= n
<1>1. Grow \in Nat \ {0}
  BY ScriptAssumption
<1>2. PICK q \in Nat : q = (n + Grow - 1) \div Grow
  BY <1>1
<1>3. q * Grow \in Nat /\ q * Grow > n - 1
  BY <1>1, <1>2
<1> QED
  BY <1>1, <1>2, <1>3 DEF Rounded

Slot == STRING \cup {NULL, Lost}

\* What strv_alloc() returns has room for the texts, and begins with what was
\* there.
LEMMA AllocatedHasRoom ==
  ASSUME strv \in Seq(Slot), strc \in Nat, strc <= Len(strv),
         NEW n \in Nat \ {0}
  PROVE  /\ Allocated(n) \in Seq(Slot)
         /\ strc + n <= Len(Allocated(n))
         /\ \A i \in 1 .. Len(strv) : Allocated(n)[i] = strv[i]
<1>1. CASE Room(n)
  BY <1>1 DEF Allocated, Room
<1>2. CASE ~Room(n)
  <2> DEFINE new == [i \in 1 .. Rounded(n) |-> Lost]
  <2>1. Rounded(n) \in Nat /\ Rounded(n) >= n
    BY RoundedUp
  <2>2. new \in Seq(Slot) /\ Len(new) = Rounded(n)
    BY <2>1 DEF Slot
  <2>3. Allocated(n) = strv \o new
    BY <1>2 DEF Allocated, Grown
  <2> HIDE DEF new
  <2> QED
    BY <2>1, <2>2, <2>3
<1> QED
  BY <1>1, <1>2

\* The texts follow the strings that are there.
LEMMA PushStores ==
  ASSUME strv \in Seq(Slot), strc \in Nat, strc <= Len(strv),
         cmd_argc = strc,
         NEW texts \in Seq(STRING \cup {NULL}), Len(texts) # 0,
         Push(texts)
  PROVE  /\ strv' \in Seq(Slot)
         /\ strc' = strc + Len(texts)
         /\ strc' <= Len(strv')
         /\ \A i \in 1 .. cmd_argc : strv'[i] = strv[i]
         /\ \A i \in 1 .. Len(texts) : strv'[cmd_argc + i] = texts[i]
<1> DEFINE all == Allocated(Len(texts))
<1>1. Len(texts) \in Nat \ {0}
  OBVIOUS
<1>2. /\ all \in Seq(Slot)
      /\ strc + Len(texts) <= Len(all)
      /\ \A i \in 1 .. Len(strv) : all[i] = strv[i]
  BY <1>1, AllocatedHasRoom
<1>3. /\ strc' = strc + Len(texts)
      /\ strv' = [i \in DOMAIN all |->
                    IF i \in cmd_argc + 1 .. cmd_argc + Len(texts)
                      THEN texts[i - cmd_argc] ELSE all[i]]
  BY DEF Push
<1> HIDE DEF all
<1>4. DOMAIN all = 1 .. Len(all) /\ Len(all) \in Nat
  BY <1>2
<1>5. \A i \in 1 .. Len(all) : strv'[i] \in Slot
  BY <1>1, <1>2, <1>3, <1>4 DEF Slot
<1>6. strv' \in Seq(Slot) /\ Len(strv') = Len(all)
  BY <1>3, <1>4, <1>5
<1> QED
  BY <1>1, <1>2, <1>3, <1>4, <1>6

LEMMA PushStringsStores ==
  ASSUME strv \in Seq(Slot), strc \in Nat, strc <= Len(strv),
         cmd_argc = strc, live = cmd_argc,
         \A i \in 1 .. cmd_argc : strv[i] \in STRING,
         NEW texts \in Seq(STRING), Len(texts) # 0,
         PushStrings(texts)
  PROVE  /\ strv' \in Seq(Slot)
         /\ strc' \in Nat /\ strc' <= Len(strv')
         /\ cmd_argc' = strc' /\ live' = cmd_argc'
         /\ \A i \in 1 .. cmd_argc' : strv'[i] \in STRING
<1>1. texts \in Seq(STRING \cup {NULL}) /\ Push(texts)
  BY DEF PushStrings
<1>2. cmd_argc' = cmd_argc + Len(texts) /\ live' = live + Len(texts)
  BY DEF PushStrings
<1>3. /\ strv' \in Seq(Slot)
      /\ strc' = strc + Len(texts)
      /\ strc' <= Len(strv')
      /\ \A i \in 1 .. cmd_argc : strv'[i] = strv[i]
      /\ \A i \in 1 .. Len(texts) : strv'[cmd_argc + i] = texts[i]
  BY <1>1, PushStores
<1>4. ASSUME NEW i \in 1 .. cmd_argc' PROVE strv'[i] \in STRING
  <2>1. CASE i <= cmd_argc
    BY <1>3, <2>1
  <2>2. CASE i > cmd_argc
    <3>1. i - cmd_argc \in 1 .. Len(texts)
      BY <1>2, <2>2
    <3>2. strv'[cmd_argc + (i - cmd_argc)] = texts[i - cmd_argc]
      BY <1>3, <3>1
    <3> QED
      BY <3>1, <3>2
  <2> QED
    BY <2>1, <2>2
<1> QED
  BY <1>2, <1>3, <1>4

(***************************************************************************)
(* The invariant: every string that is live is in its slot, and before the *)
(* arguments and after the call there is no vector.                        *)
(***************************************************************************)
IInv ==
  /\ TypeOK
  /\ InCapacity
  /\ live = cmd_argc
  /\ pc \in {"caller", "lines"} => strv = <<>> /\ cmd_argc = 0

\* Parts of the assumption.
LEMMA ScriptTypes ==
  /\ \A s \in Scripts \cup {NoScript} :
       s.lines \in Seq(STRING) /\ s.whole \in BOOLEAN
  /\ \A o \in Operands \cup {<<>>} : o \in Seq(STRING)
  /\ \A r \in Given : r \in STRING
  /\ \A line \in DOMAIN Meaning : Meaning[line].text \in STRING
<1>1. Scripts \subseteq [lines : Seq(STRING), whole : BOOLEAN]
  BY ScriptAssumption
<1>2. /\ Operands \subseteq Seq(STRING) /\ Given \subseteq STRING
      /\ \A line \in DOMAIN Meaning :
           Meaning[line] \in [does : {"replace", "append", "other", "fail"},
                              text : STRING]
  BY ScriptAssumption
<1>3. \A s \in Scripts : s.lines \in Seq(STRING) /\ s.whole \in BOOLEAN
  BY <1>1
<1>4. NoScript.lines \in Seq(STRING) /\ NoScript.whole \in BOOLEAN
  BY DEF NoScript
<1>5. \A line \in DOMAIN Meaning : Meaning[line].text \in STRING
  BY <1>2
<1>6. <<>> \in Seq(STRING)
  OBVIOUS
<1>7. \A o \in Operands \cup {<<>>} : o \in Seq(STRING)
  BY <1>2, <1>6
<1> QED
  BY <1>2, <1>3, <1>4, <1>5, <1>7

LEMMA ScriptsAre ==
  ASSUME TypeOK
  PROVE  /\ script.lines \in Seq(STRING)
         /\ script.whole \in BOOLEAN
         /\ Ended \in Int /\ Ended <= Len(script.lines)
         /\ operands \in Seq(STRING)
<1>1. script.lines \in Seq(STRING) /\ script.whole \in BOOLEAN
  BY ScriptTypes DEF TypeOK, FileTypes
<1>2. operands \in Seq(STRING)
  BY ScriptTypes DEF TypeOK, FileTypes
<1> QED
  BY <1>1, <1>2 DEF Ended

LEMMA LineIsText ==
  ASSUME TypeOK, pos < Ended
  PROVE  Line \in STRING
<1>1. pos + 1 \in 1 .. Len(script.lines)
  BY ScriptsAre DEF TypeOK, CallTypes
<1> QED
  BY <1>1, ScriptsAre DEF Line

\* An action that leaves the vector alone and stays on its side of Seal.
LEMMA VectorUnchanged ==
  ASSUME IInv, UNCHANGED strvVars,
         pc' \in {"run", "free", "replaced"} <=>
           pc \in {"run", "free", "replaced"},
         pc' \in {"caller", "lines"} => pc \in {"caller", "lines"}
  PROVE  /\ StrvTypes' /\ InCapacity' /\ live' = cmd_argc'
         /\ pc' \in {"caller", "lines"} => strv' = <<>> /\ cmd_argc' = 0
BY DEF IInv, InCapacity, strvVars, TypeOK, StrvTypes

THEOREM InitIInv == Init => IInv
<1> SUFFICES ASSUME Init PROVE IInv
  OBVIOUS
<1>1. FileTypes /\ OptionTypes
  BY DEF Init, FileTypes, OptionTypes
<1>2. StrvTypes
  BY DEF Init, StrvTypes
<1>3. CallTypes
  <2>1. MaxCalls \in Nat
    BY ScriptAssumption
  <2>2. calls \in 0 .. MaxCalls
    BY <2>1 DEF Init
  <2> QED
    BY <2>2 DEF Init, CallTypes
<1>4. InCapacity /\ live = cmd_argc /\ strv = <<>> /\ cmd_argc = 0
  BY DEF Init, InCapacity
<1> QED
  BY <1>1, <1>2, <1>3, <1>4 DEF IInv, TypeOK

LEMMA CallKeeps ==
  ASSUME IInv, Call
  PROVE  IInv'
<1>1. UNCHANGED strvVars /\ pc = "caller" /\ pc' = "lines"
  BY DEF Call
<1>2. FileTypes'
  BY DEF Call, FileTypes
<1>3. OptionTypes'
  <2>1. replace' \in {replace} \cup STRING /\ asked' \in {asked} \cup STRING
    BY ScriptTypes DEF Call
  <2>2. borrowed' \in {borrowed, FALSE}
        /\ opt_append_argv' \in {opt_append_argv, TRUE}
    BY DEF Call
  <2> QED
    BY <2>1, <2>2 DEF IInv, TypeOK, OptionTypes
<1>4. CallTypes'
  BY ScriptAssumption DEF Call, IInv, TypeOK, CallTypes
<1> QED
  BY <1>1, <1>2, <1>3, <1>4, VectorUnchanged DEF IInv, TypeOK

\* What FreeLine leaves of the options.
LEMMA OptionsFreed ==
  ASSUME OptionTypes, FreeLine, opt_append_argv' \in {opt_append_argv, TRUE},
         asked' = asked
  PROVE  OptionTypes'
<1>1. replace' \in {replace, Lost} /\ borrowed' = FALSE
  BY DEF FreeLine
<1> QED
  BY <1>1 DEF OptionTypes

\* A step among the options.
LEMMA OptionKeeps ==
  ASSUME IInv,
         LineIgnored \/ OptReplace \/ OptAppendArgv \/ OptOther \/ OptFails
  PROVE  IInv'
<1>1. ReadOption
  BY DEF LineIgnored, OptReplace, OptAppendArgv, OptOther, OptFails, OptionIs
<1>2. UNCHANGED strvVars /\ pc' = pc /\ UNCHANGED fileVars
  BY <1>1 DEF ReadOption
<1>3. OptionTypes'
  <2>1. CASE OptReplace
    BY <2>1, ScriptTypes DEF IInv, TypeOK, OptionTypes, OptReplace, OptionIs
  <2>2. CASE ~OptReplace
    BY <2>2, OptionsFreed DEF IInv, TypeOK, LineIgnored, OptAppendArgv,
       OptOther, OptFails
  <2> QED
    BY <2>1, <2>2
<1>4. CallTypes'
  BY <1>1 DEF IInv, TypeOK, CallTypes, ReadOption, Read, LineIgnored,
     OptReplace, OptAppendArgv, OptOther, OptFails
<1>5. FileTypes'
  BY <1>2 DEF IInv, TypeOK, FileTypes, fileVars
<1> QED
  BY <1>2, <1>3, <1>4, <1>5, VectorUnchanged DEF IInv, TypeOK

\* A step among the arguments.
LEMMA ArgKeeps ==
  ASSUME IInv, LeadingIgnored \/ ArgReplaced \/ ArgCopied
  PROVE  IInv'
<1>1. /\ ReadArg /\ pos < Ended /\ pc = "args" /\ pc' = "args"
      /\ UNCHANGED fileVars
  BY DEF LeadingIgnored, ArgReplaced, ArgCopied, ReadArg, Read
<1>2. OptionTypes'
  BY <1>1, OptionsFreed DEF ReadArg, IInv, TypeOK
<1>3. CallTypes'
  <2>1. in_argv' \in BOOLEAN
    BY DEF LeadingIgnored, ArgReplaced, ArgCopied, IInv, TypeOK, CallTypes
  <2>2. UNCHANGED <<calls, err_count, rv>> /\ pos' = pos + 1
    BY <1>1 DEF ReadArg, Read
  <2>3. calls' \in 0 .. MaxCalls
    BY <2>2 DEF IInv, TypeOK, CallTypes
  <2>4. pos' \in Nat /\ err_count' \in Nat /\ rv' \in Nat
    BY <2>2 DEF IInv, TypeOK, CallTypes
  <2> QED
    BY <1>1, <2>1, <2>3, <2>4 DEF CallTypes
<1>4. FileTypes'
  BY <1>1 DEF IInv, TypeOK, FileTypes, fileVars
<1>5. CASE UNCHANGED strvVars
  BY <1>1, <1>2, <1>3, <1>4, <1>5, VectorUnchanged DEF IInv, TypeOK
<1>6. ASSUME NEW texts \in Seq(STRING), Len(texts) # 0, PushStrings(texts)
      PROVE  IInv'
  <2>1. /\ strv \in Seq(Slot) /\ strc \in Nat /\ strc <= Len(strv)
        /\ cmd_argc = strc /\ live = cmd_argc
        /\ \A i \in 1 .. cmd_argc : strv[i] \in STRING
    BY <1>1 DEF IInv, TypeOK, StrvTypes, InCapacity, Slot
  <2>2. /\ strv' \in Seq(Slot)
        /\ strc' \in Nat /\ strc' <= Len(strv')
        /\ cmd_argc' = strc' /\ live' = cmd_argc'
        /\ \A i \in 1 .. cmd_argc' : strv'[i] \in STRING
    BY <1>6, <2>1, PushStringsStores
  <2>3. StrvTypes' /\ InCapacity'
    BY <1>1, <2>2 DEF StrvTypes, InCapacity, Slot
  <2> QED
    BY <1>1, <1>2, <1>3, <1>4, <2>2, <2>3 DEF IInv, TypeOK
<1>7. CASE LeadingIgnored
  BY <1>5, <1>7 DEF LeadingIgnored
<1>8. CASE ArgReplaced
  <2>1. CASE operands = <<>>
    BY <1>5, <1>8, <2>1 DEF ArgReplaced
  <2>2. CASE operands # <<>>
    <3>1. operands \in Seq(STRING) /\ Len(operands) # 0
      BY <2>2, ScriptsAre DEF IInv
    <3> QED
      BY <1>6, <1>8, <2>2, <3>1 DEF ArgReplaced
  <2> QED
    BY <2>1, <2>2
<1>9. CASE ArgCopied
  <2>1. <<Line>> \in Seq(STRING) /\ Len(<<Line>>) # 0
    BY <1>1, LineIsText DEF IInv
  <2> QED
    BY <1>6, <1>9, <2>1 DEF ArgCopied
<1> QED
  BY <1>7, <1>8, <1>9

\* An action by which the call returns.
LEMMA ReturnKeeps ==
  ASSUME IInv, NEW value \in Nat, Return(value), live' = 0,
         UNCHANGED <<calls, opt_append_argv, asked>>,
         FreeLine \/ UNCHANGED <<replace, borrowed>>
  PROVE  IInv'
<1>1. FileTypes'
  BY DEF Return, FileTypes
<1>2. OptionTypes'
  <2>1. CASE FreeLine
    BY <2>1, OptionsFreed DEF IInv, TypeOK
  <2>2. CASE UNCHANGED <<replace, borrowed>>
    BY <2>2 DEF IInv, TypeOK, OptionTypes
  <2> QED
    BY <2>1, <2>2
<1>3. StrvTypes'
  BY DEF Return, StrvTypes
<1>4. CallTypes'
  BY DEF Return, IInv, TypeOK, CallTypes
<1>5. InCapacity' /\ live' = cmd_argc' /\ strv' = <<>> /\ cmd_argc' = 0
  BY DEF Return, InCapacity
<1> QED
  BY <1>1, <1>2, <1>3, <1>4, <1>5 DEF IInv, TypeOK

\* A step after the arguments that neither returns nor fails to grow.
LEMMA EndKeeps ==
  ASSUME IInv,
         DashDash \/ ArgsEnd \/ AppendArgv \/ Seal \/ RunReturns \/ Replaced
  PROVE  IInv'
<1>1. UNCHANGED fileVars /\ UNCHANGED <<calls, err_count, in_argv>>
      /\ pos' \in {pos, pos + 1}
  BY DEF DashDash, ArgsEnd, AppendArgv, Seal, RunReturns, Replaced, Unchanged,
     Eof, Read
<1>2. FileTypes'
  BY <1>1 DEF IInv, TypeOK, FileTypes, fileVars
<1>3. OptionTypes'
  <2>1. CASE DashDash \/ ArgsEnd
    BY <2>1, OptionsFreed DEF DashDash, ArgsEnd, Eof, IInv, TypeOK
  <2>2. CASE AppendArgv \/ Seal \/ RunReturns \/ Replaced
    BY <2>2 DEF AppendArgv, Seal, RunReturns, Replaced, Unchanged, optionVars,
       IInv, TypeOK, OptionTypes
  <2> QED
    BY <2>1, <2>2
<1>4. CallTypes'
  <2>1. rv' \in Nat
    BY DEF DashDash, ArgsEnd, AppendArgv, Seal, RunReturns, Replaced, IInv,
       TypeOK, CallTypes
  <2>2. pc' \in {"args", "append", "seal", "run", "free", "replaced"}
    BY DEF DashDash, ArgsEnd, AppendArgv, Seal, RunReturns, Replaced
  <2> QED
    BY <1>1, <2>1, <2>2 DEF IInv, TypeOK, CallTypes
<1>5. CASE UNCHANGED strvVars /\ ~Seal
  <2>1. /\ pc' \in {"run", "free", "replaced"} <=>
             pc \in {"run", "free", "replaced"}
        /\ pc' \notin {"caller", "lines"}
    BY <1>5 DEF DashDash, ArgsEnd, AppendArgv, RunReturns, Replaced
  <2> QED
    BY <1>2, <1>3, <1>4, <1>5, <2>1, VectorUnchanged DEF IInv, TypeOK
<1>6. CASE AppendArgv /\ PushStrings(operands) /\ operands # <<>>
  <2>1. /\ strv \in Seq(Slot) /\ strc \in Nat /\ strc <= Len(strv)
        /\ cmd_argc = strc /\ live = cmd_argc
        /\ \A i \in 1 .. cmd_argc : strv[i] \in STRING
    BY <1>6 DEF IInv, TypeOK, StrvTypes, InCapacity, Slot, AppendArgv
  <2>2. operands \in Seq(STRING) /\ Len(operands) # 0
    BY <1>6, ScriptsAre DEF IInv
  <2>3. /\ strv' \in Seq(Slot)
        /\ strc' \in Nat /\ strc' <= Len(strv')
        /\ cmd_argc' = strc' /\ live' = cmd_argc'
        /\ \A i \in 1 .. cmd_argc' : strv'[i] \in STRING
    BY <1>6, <2>1, <2>2, PushStringsStores
  <2>4. pc' = "seal"
    BY <1>6 DEF AppendArgv
  <2>5. StrvTypes' /\ InCapacity'
    BY <2>3, <2>4 DEF StrvTypes, InCapacity, Slot
  <2> QED
    BY <1>2, <1>3, <1>4, <2>3, <2>4, <2>5 DEF IInv, TypeOK
<1>7. CASE Seal
  <2>1. /\ strv \in Seq(Slot) /\ strc \in Nat /\ strc <= Len(strv)
        /\ cmd_argc = strc /\ live = cmd_argc
        /\ \A i \in 1 .. cmd_argc : strv[i] \in STRING
    BY <1>7 DEF IInv, TypeOK, StrvTypes, InCapacity, Slot, Seal
  <2>2. /\ pc' = "run" /\ Push(<<NULL>>)
        /\ cmd_argc' = cmd_argc /\ live' = live
    BY <1>7 DEF Seal
  <2>3. PICK texts \in Seq(STRING \cup {NULL}) :
          texts = <<NULL>> /\ Len(texts) = 1 /\ texts[1] = NULL
    <3>1. /\ <<NULL>> \in Seq(STRING \cup {NULL}) /\ Len(<<NULL>>) = 1
          /\ <<NULL>>[1] = NULL
      OBVIOUS
    <3> QED
      BY <3>1
  <2>4. Push(texts) /\ Len(texts) # 0
    BY <2>2, <2>3
  <2>5. /\ strv' \in Seq(Slot)
        /\ strc' = strc + Len(texts) /\ strc' <= Len(strv')
        /\ \A i \in 1 .. cmd_argc : strv'[i] = strv[i]
        /\ \A i \in 1 .. Len(texts) : strv'[cmd_argc + i] = texts[i]
    BY <2>1, <2>4, PushStores
  <2>6. strc' = strc + 1 /\ strv'[strc'] = NULL
    BY <2>1, <2>3, <2>5
  <2>7. StrvTypes' /\ InCapacity'
    BY <2>1, <2>2, <2>5, <2>6 DEF StrvTypes, InCapacity, Slot
  <2> QED
    BY <1>2, <1>3, <1>4, <2>1, <2>2, <2>7 DEF IInv, TypeOK
<1> QED
  BY <1>5, <1>6, <1>7 DEF DashDash, ArgsEnd, AppendArgv, RunReturns, Replaced

\* The strings that strv_free_strings() frees are those that are live.
LEMMA FreeCounts ==
  ASSUME IInv, pc = "free"
  PROVE  Cardinality({i \in 1 .. strc : strv[i] # NULL}) = cmd_argc
<1>1. /\ cmd_argc \in Nat /\ strc = cmd_argc + 1 /\ strv[strc] = NULL
      /\ \A i \in 1 .. cmd_argc : strv[i] \in STRING
  BY DEF IInv, TypeOK, StrvTypes, InCapacity
<1>2. NULL \notin STRING
  BY ScriptAssumption
<1>3. {i \in 1 .. strc : strv[i] # NULL} = 1 .. cmd_argc
  BY <1>1, <1>2
<1>4. Cardinality(1 .. cmd_argc) = cmd_argc
  <2>1. Cardinality(1 .. cmd_argc) =
          IF 1 > cmd_argc THEN 0 ELSE cmd_argc - 1 + 1
    BY <1>1, FS_Interval
  <2> QED
    BY <1>1, <2>1
<1> QED
  BY <1>3, <1>4

THEOREM NextIInv == IInv /\ [Next]_vars => IInv'
<1> SUFFICES ASSUME IInv, [Next]_vars PROVE IInv'
  OBVIOUS
<1>1. CASE Call
  BY <1>1, CallKeeps
<1>2. CASE LineIgnored \/ OptReplace \/ OptAppendArgv \/ OptOther \/ OptFails
  BY <1>2, OptionKeeps
<1>3. CASE LeadingIgnored \/ ArgReplaced \/ ArgCopied
  BY <1>3, ArgKeeps
<1>4. CASE DashDash \/ ArgsEnd \/ AppendArgv \/ Seal \/ RunReturns \/ Replaced
  BY <1>4, EndKeeps
<1>5. CASE DashDashAfterErrors \/ NoDashDash
  <2>1. /\ EFAULT \in Nat /\ Return(EFAULT) /\ live' = live /\ FreeLine
        /\ UNCHANGED <<calls, opt_append_argv, asked>> /\ pc = "lines"
    BY <1>5 DEF DashDashAfterErrors, NoDashDash, Eof, Read, EFAULT
  <2> QED
    BY <2>1, ReturnKeeps DEF IInv
<1>6. CASE NothingToRun
  <2>1. /\ Return(0) /\ live' = live /\ cmd_argc = 0
        /\ UNCHANGED <<calls, optionVars>>
    BY <1>6 DEF NothingToRun
  <2> QED
    BY <2>1, ReturnKeeps DEF IInv, optionVars
<1>7. CASE Free
  <2>1. /\ Return(rv) /\ UNCHANGED <<calls, optionVars>>
        /\ live' = live - Cardinality({i \in 1 .. strc : strv[i] # NULL})
        /\ pc = "free"
    BY <1>7 DEF Free
  <2>2. live' = 0 /\ rv \in Nat
    BY <2>1, FreeCounts DEF IInv, TypeOK, StrvTypes, CallTypes
  <2> QED
    BY <2>1, <2>2, ReturnKeeps DEF optionVars
<1>8. CASE Overrun
  <2>1. /\ pc \in {"args", "append", "seal"} /\ pc' = "overrun"
        /\ UNCHANGED <<calls, fileVars, pos, err_count, in_argv, rv, strvVars,
                       optionVars>>
    BY <1>8 DEF Overrun, ArgOverruns, AppendOverruns, SealOverruns, Overruns
  <2>2. FileTypes' /\ OptionTypes' /\ CallTypes'
    BY <2>1 DEF IInv, TypeOK, FileTypes, OptionTypes, CallTypes, fileVars,
       optionVars
  <2> QED
    BY <2>1, <2>2, VectorUnchanged DEF IInv, TypeOK
<1>9. CASE UNCHANGED vars
  <2>1. UNCHANGED <<pc, calls, fileVars, pos, err_count, in_argv, rv, strvVars,
                    optionVars>>
    BY <1>9 DEF vars
  <2>2. FileTypes' /\ OptionTypes' /\ CallTypes'
    BY <2>1 DEF IInv, TypeOK, FileTypes, OptionTypes, CallTypes, fileVars,
       optionVars
  <2> QED
    BY <2>1, <2>2, VectorUnchanged DEF IInv, TypeOK
<1> QED
  BY <1>1, <1>2, <1>3, <1>4, <1>5, <1>6, <1>7, <1>8, <1>9 DEF Next, Step

LEMMA IInvHolds == Spec => []IInv
<1> QED
  BY InitIInv, NextIInv, PTL DEF Spec

\* strv.c and run_interpret_linebuf(): every slot that is written lies in the
\* vector, whatever is pushed in what portions and by whatever sv_grow the
\* vector grows, and only strings and the last NULL are there to be freed.
THEOREM CapacityKept == Spec => []InCapacity
<1>1. IInv => InCapacity
  BY DEF IInv
<1> QED
  BY <1>1, IInvHolds, PTL

\* run_interpret_linebuf(): no path of a call that returns leaks a copy.
THEOREM CopiesFreed == Spec => []StringsFreed
<1>1. IInv => StringsFreed
  BY DEF IInv, StringsFreed
<1> QED
  BY <1>1, IInvHolds, PTL

\* The types of the variables.
THEOREM Typed == Spec => []TypeOK
<1>1. IInv => TypeOK
  BY DEF IInv
<1> QED
  BY <1>1, IInvHolds, PTL

(***************************************************************************)
(* The arguments: what has been pushed is what the lines that have been    *)
(* read stand for.                                                         *)
(***************************************************************************)
Pushed == SubSeq(strv, 1, cmd_argc)

\* The first "--" is line d.
DashAt(d) ==
  /\ d \in 1 .. pos
  /\ script.lines[d] = "--"
  /\ \A i \in 1 .. d - 1 : script.lines[i] # "--"

\* The arguments begin with line f, or, if none has been seen, with the next.
ArgsFrom(d, f) ==
  /\ f \in d + 1 .. pos + 1
  /\ \A i \in d + 1 .. f - 1 : Blank(script.lines[i])
  /\ IF in_argv THEN f <= pos /\ ~Blank(script.lines[f]) ELSE f = pos + 1

Strings(line) == IF line = replace THEN operands ELSE <<line>>

Spliced(f) == [i \in 1 .. pos - f + 1 |-> Strings(script.lines[f + i - 1])]

Appended == IF pc \in {"seal", "run"} /\ opt_append_argv THEN operands ELSE <<>>

\* The first "--" and the first argument are lines d and f, and all that has
\* been spliced in has been pushed.
Found(d, f) ==
  /\ d \in 1 .. pos /\ f \in 1 .. pos + 1
  /\ DashAt(d) /\ ArgsFrom(d, f)
  /\ replace # Lost => Pushed = FlattenSeq(Spliced(f)) \o Appended

AfterDashes == pc \in {"args", "append", "seal", "run"}

Course ==
  /\ pc \in {"caller", "lines"} => ~in_argv
  /\ pc = "caller" => pos = 0
  /\ pc = "lines" => \A i \in 1 .. pos : script.lines[i] # "--"
  /\ AfterDashes =>
       /\ ~borrowed
       /\ pos <= Ended /\ (pc = "args" \/ pos = Ended)
       /\ \E d \in 1 .. pos, f \in 1 .. pos + 1 : Found(d, f)

LEMMA StringsAre ==
  ASSUME TypeOK, NEW j \in Nat \ {0}, j <= Ended
  PROVE  Strings(script.lines[j]) \in Seq(STRING)
<1>1. j \in 1 .. Len(script.lines)
  BY ScriptsAre
<1>2. script.lines[j] \in STRING
  BY <1>1, ScriptsAre
<1>3. ASSUME NEW line \in STRING PROVE Strings(line) \in Seq(STRING)
  <2>1. <<line>> \in Seq(STRING) /\ operands \in Seq(STRING)
    BY ScriptsAre
  <2> QED
    BY <2>1 DEF Strings
<1> QED
  BY <1>2, <1>3

LEMMA SplicedIs ==
  ASSUME TypeOK, NEW f \in 1 .. pos + 1, pos <= Ended
  PROVE  /\ Spliced(f) \in Seq(Seq(STRING))
         /\ Len(Spliced(f)) = pos - f + 1
         /\ \A i \in 1 .. pos - f + 1 :
              Spliced(f)[i] = Strings(script.lines[f + i - 1])
<1> DEFINE S == Seq(STRING)
           n == pos - f + 1
           v == Spliced(f)
<1>1. n \in Nat /\ pos \in Nat /\ Ended \in Int
  BY ScriptsAre DEF TypeOK, CallTypes
<1>2. ASSUME NEW i \in 1 .. n
      PROVE  Strings(script.lines[f + i - 1]) \in S
  <2>1. f + i - 1 \in Nat \ {0} /\ f + i - 1 <= Ended
    BY <1>1
  <2> QED
    BY <2>1, StringsAre
<1>3. v = [i \in 1 .. n |-> Strings(script.lines[f + i - 1])]
  BY DEF Spliced
<1> HIDE DEF S, n, v
<1>4. v = [i \in 1 .. n |-> v[i]] /\ \A i \in 1 .. n : v[i] \in S
  BY <1>2, <1>3
<1>5. v \in Seq(S) /\ Len(v) = n
  BY <1>1, <1>4, FunctionIsSeq
<1> QED
  BY <1>3, <1>5 DEF S, n, v

\* At the end of the file, what has been spliced is what README promises.
LEMMA PromisedIs ==
  ASSUME TypeOK, pos = Ended,
         NEW d \in 1 .. pos, NEW f \in 1 .. pos + 1, DashAt(d), ArgsFrom(d, f)
  PROVE  Promised(replace) =
           FlattenSeq(Spliced(f)) \o
             (IF opt_append_argv THEN operands ELSE <<>>)
<1> DEFINE lines == SubSeq(script.lines, 1, Ended)
           dashes == SelectInSeq(lines, LAMBDA line : line = "--")
           after == SubSeq(lines, d + 1, Len(lines))
           first == SelectInSeq(after, LAMBDA line : ~Blank(line))
           args == IF first = 0 THEN <<>> ELSE SubSeq(after, first, Len(after))
           spliced == [i \in DOMAIN args |->
                         IF args[i] = replace THEN operands ELSE <<args[i]>>]
<1>1. /\ pos \in Nat /\ pos <= Len(script.lines)
      /\ \A i \in 1 .. pos : script.lines[i] \in STRING
      /\ in_argv \in BOOLEAN
  BY ScriptsAre DEF TypeOK, CallTypes
<1>2. /\ lines \in Seq(STRING) /\ Len(lines) = pos
      /\ \A i \in 1 .. pos : lines[i] = script.lines[i]
  BY <1>1, SubSeqProperties
<1> HIDE DEF lines
<1>3. dashes = d
  <2> DEFINE I == {i \in 1 .. Len(lines) : lines[i] = "--"}
  <2>1. dashes = IF I # {} THEN Min(I) ELSE 0
    BY DEF SelectInSeq
  <2>2. I \in SUBSET Nat /\ d \in I /\ \A i \in I : d <= i
    BY <1>1, <1>2 DEF DashAt
  <2>3. Min(I) = d
    BY <2>2, MinIs
  <2> QED
    BY <2>1, <2>2, <2>3
<1>4. /\ after \in Seq(STRING) /\ Len(after) = pos - d
      /\ \A i \in 1 .. pos - d : after[i] = script.lines[d + i]
  <2>1. \A i \in d + 1 .. pos : lines[i] \in STRING
    BY <1>1, <1>2
  <2>2. /\ SubSeq(lines, d + 1, pos) \in Seq(STRING)
        /\ Len(SubSeq(lines, d + 1, pos)) =
             IF d + 1 <= pos THEN pos - (d + 1) + 1 ELSE 0
        /\ \A i \in 1 .. pos - (d + 1) + 1 :
             SubSeq(lines, d + 1, pos)[i] = lines[d + 1 + i - 1]
    <3> DEFINE m == d + 1
    <3>1. m \in Int /\ pos \in Int /\ \A i \in m .. pos : lines[i] \in STRING
      BY <1>1, <2>1
    <3> HIDE DEF m
    <3>2. /\ SubSeq(lines, m, pos) \in Seq(STRING)
          /\ Len(SubSeq(lines, m, pos)) = IF m <= pos THEN pos - m + 1 ELSE 0
          /\ \A i \in 1 .. pos - m + 1 :
               SubSeq(lines, m, pos)[i] = lines[m + i - 1]
      BY <3>1, SubSeqProperties
    <3> QED
      BY <3>2 DEF m
  <2>3. ASSUME NEW i \in 1 .. pos - d
        PROVE  SubSeq(lines, d + 1, pos)[i] = script.lines[d + i]
    <3>1. d + 1 + i - 1 = d + i /\ d + i \in 1 .. pos
          /\ i \in 1 .. pos - (d + 1) + 1
      BY <1>1
    <3> QED
      BY <1>2, <2>2, <3>1
  <2> QED
    BY <1>1, <1>2, <2>2, <2>3
<1> HIDE DEF after
<1>5. /\ args \in Seq(STRING) /\ Len(args) = pos - f + 1
      /\ \A i \in 1 .. pos - f + 1 : args[i] = script.lines[f + i - 1]
  <2> DEFINE I == {i \in 1 .. Len(after) : ~Blank(after[i])}
  <2>1. first = IF I # {} THEN Min(I) ELSE 0
    BY DEF SelectInSeq
  <2>2. CASE in_argv
    <3> DEFINE k == f - d
    <3>1. f \in d + 1 .. pos /\ ~Blank(script.lines[f])
          /\ \A i \in d + 1 .. f - 1 : Blank(script.lines[i])
      BY <1>1, <2>2 DEF ArgsFrom
    <3>2. k \in 1 .. Len(after) /\ after[k] = script.lines[f]
      BY <1>1, <1>4, <3>1
    <3>3. ASSUME NEW i \in 1 .. Len(after), i < k PROVE Blank(after[i])
      <4>1. d + i \in d + 1 .. f - 1 /\ i \in 1 .. pos - d
        BY <1>1, <1>4, <3>1, <3>3
      <4> QED
        BY <1>4, <3>1, <4>1
    <3>4. I \in SUBSET Nat /\ k \in I /\ \A i \in I : k <= i
      BY <1>4, <3>1, <3>2, <3>3
    <3>6. Min(I) = k
      <4> HIDE DEF I, k
      <4> QED
        BY <3>4, MinIs
    <3>7. first = k /\ k # 0
      BY <2>1, <3>2, <3>4, <3>6
    <3>8. args = SubSeq(after, k, Len(after))
      BY <3>7
    <3> HIDE DEF args
    <3>9. /\ args \in Seq(STRING) /\ Len(args) = Len(after) - k + 1
          /\ \A i \in 1 .. Len(after) - k + 1 : args[i] = after[k + i - 1]
      <4>1. k \in Int /\ Len(after) \in Int /\ k <= Len(after)
            /\ \A i \in k .. Len(after) : after[i] \in STRING
        BY <1>4, <3>2
      <4> HIDE DEF k
      <4> QED
        BY <3>8, <4>1, SubSeqProperties
    <3>10. ASSUME NEW i \in 1 .. pos - f + 1
           PROVE  args[i] = script.lines[f + i - 1]
      <4>1. /\ i \in 1 .. Len(after) - k + 1 /\ k + i - 1 \in 1 .. pos - d
            /\ d + (k + i - 1) = f + i - 1
        BY <1>1, <1>4, <3>1
      <4>2. args[i] = after[k + i - 1]
        BY <3>9, <4>1
      <4>3. after[k + i - 1] = script.lines[d + (k + i - 1)]
        BY <1>4, <4>1
      <4> QED
        BY <4>1, <4>2, <4>3
    <3>11. Len(after) - k + 1 = pos - f + 1
      BY <1>1, <1>4, <3>1
    <3> QED
      BY <3>9, <3>10, <3>11
  <2>3. CASE ~in_argv
    <3>1. f = pos + 1 /\ \A i \in d + 1 .. f - 1 : Blank(script.lines[i])
      BY <2>3 DEF ArgsFrom
    <3>2. ASSUME NEW i \in 1 .. Len(after) PROVE Blank(after[i])
      <4>1. d + i \in d + 1 .. f - 1 /\ i \in 1 .. pos - d
        BY <1>1, <1>4, <3>1
      <4> QED
        BY <1>4, <3>1, <4>1
    <3>3. first = 0
      BY <2>1, <3>2
    <3> QED
      BY <1>1, <3>1, <3>3
  <2> QED
    BY <1>1, <2>2, <2>3
<1> HIDE DEF args
<1>6. spliced = Spliced(f)
  <2>1. DOMAIN args = 1 .. pos - f + 1
    BY <1>5
  <2> QED
    BY <1>5, <2>1 DEF Spliced, Strings
<1>7. Promised(replace) =
        FlattenSeq(spliced) \o (IF opt_append_argv THEN operands ELSE <<>>)
  <2>1. SelectInSeq(lines, LAMBDA line : line = "--") = d
    BY <1>3
  <2> QED
    BY <2>1 DEF Promised, lines, after, args
<1> QED
  BY <1>6, <1>7

LEMMA PrefixIs ==
  ASSUME NEW v, NEW n \in Nat, \A i \in 1 .. n : v[i] \in STRING
  PROVE  /\ SubSeq(v, 1, n) \in Seq(STRING) /\ Len(SubSeq(v, 1, n)) = n
         /\ \A i \in 1 .. n : SubSeq(v, 1, n)[i] = v[i]
BY SubSeqProperties

LEMMA PushedIs ==
  ASSUME IInv
  PROVE  /\ cmd_argc \in Nat
         /\ Pushed \in Seq(STRING) /\ Len(Pushed) = cmd_argc
         /\ \A i \in 1 .. cmd_argc : Pushed[i] = strv[i]
<1>1. cmd_argc \in Nat /\ \A i \in 1 .. cmd_argc : strv[i] \in STRING
  BY DEF IInv, InCapacity, TypeOK, StrvTypes
<1> QED
  BY <1>1, SubSeqProperties DEF Pushed

LEMMA NextPushedIs ==
  ASSUME IInv'
  PROVE  /\ cmd_argc' \in Nat
         /\ Pushed' \in Seq(STRING) /\ Len(Pushed') = cmd_argc'
         /\ \A i \in 1 .. cmd_argc' : Pushed'[i] = strv'[i]
<1>1. cmd_argc' \in Nat /\ \A i \in 1 .. cmd_argc' : strv'[i] \in STRING
  BY DEF IInv, InCapacity, TypeOK, StrvTypes
<1>2. Pushed' = SubSeq(strv', 1, cmd_argc')
  BY DEF Pushed
<1> DEFINE v == strv'
           n == cmd_argc'
           w == Pushed'
<1> HIDE DEF v, n, w
<1>3. n \in Nat /\ w = SubSeq(v, 1, n) /\ \A i \in 1 .. n : v[i] \in STRING
  BY <1>1, <1>2 DEF v, n, w
<1>4. w \in Seq(STRING) /\ Len(w) = n /\ \A i \in 1 .. n : w[i] = v[i]
  BY <1>3, PrefixIs
<1> QED
  BY <1>1, <1>4 DEF v, n, w

LEMMA PushedStays ==
  ASSUME IInv, IInv', cmd_argc' = cmd_argc,
         \A i \in 1 .. cmd_argc : strv'[i] = strv[i]
  PROVE  Pushed' = Pushed
<1>1. /\ cmd_argc \in Nat
      /\ Pushed \in Seq(STRING) /\ Len(Pushed) = cmd_argc
      /\ \A i \in 1 .. cmd_argc : Pushed[i] = strv[i]
  BY PushedIs
<1>2. /\ Pushed' \in Seq(STRING) /\ Len(Pushed') = cmd_argc'
      /\ \A i \in 1 .. cmd_argc' : Pushed'[i] = strv'[i]
  BY NextPushedIs
<1> QED
  BY <1>1, <1>2, SeqEqual

\* What is pushed follows what has been.
LEMMA PushedGrows ==
  ASSUME IInv, IInv', pc \in {"args", "append"},
         NEW texts \in Seq(STRING), Len(texts) # 0, PushStrings(texts)
  PROVE  Pushed' = Pushed \o texts
<1> DEFINE both == Pushed \o texts
           old == Pushed
           new == Pushed'
<1>1. /\ cmd_argc \in Nat
      /\ old \in Seq(STRING) /\ Len(old) = cmd_argc
      /\ \A i \in 1 .. cmd_argc : old[i] = strv[i]
  BY PushedIs
<1>2. /\ new \in Seq(STRING) /\ Len(new) = cmd_argc'
      /\ \A i \in 1 .. cmd_argc' : new[i] = strv'[i]
  BY NextPushedIs
<1>3. /\ both \in Seq(STRING) /\ Len(both) = cmd_argc + Len(texts)
      /\ \A i \in 1 .. cmd_argc + Len(texts) :
           both[i] = IF i <= cmd_argc THEN old[i] ELSE texts[i - cmd_argc]
  BY <1>1, ConcatProperties
<1>4. /\ cmd_argc' = cmd_argc + Len(texts)
      /\ \A i \in 1 .. cmd_argc : strv'[i] = strv[i]
      /\ \A i \in 1 .. Len(texts) : strv'[cmd_argc + i] = texts[i]
  <2>1. /\ strv \in Seq(Slot) /\ strc \in Nat /\ strc <= Len(strv)
        /\ cmd_argc = strc
    BY DEF IInv, TypeOK, StrvTypes, InCapacity, Slot
  <2>2. texts \in Seq(STRING \cup {NULL}) /\ Push(texts)
        /\ cmd_argc' = cmd_argc + Len(texts)
    BY DEF PushStrings
  <2> QED
    BY <2>1, <2>2, PushStores
<1> HIDE DEF both, old, new
<1>5. ASSUME NEW i \in 1 .. cmd_argc + Len(texts)
      PROVE  new[i] = both[i]
  <2>1. new[i] = strv'[i]
    BY <1>2, <1>4
  <2>2. CASE i <= cmd_argc
    <3>1. i \in 1 .. cmd_argc
      BY <1>1, <2>2
    <3> QED
      BY <1>1, <1>3, <1>4, <2>1, <2>2, <3>1
  <2>3. CASE ~(i <= cmd_argc)
    <3> DEFINE k == i - cmd_argc
    <3>1. k \in 1 .. Len(texts) /\ i = cmd_argc + k
      BY <1>1, <2>3
    <3>2. both[i] = texts[k]
      BY <1>3, <2>3
    <3> HIDE DEF k
    <3>3. strv'[i] = texts[k]
      BY <1>4, <3>1
    <3> QED
      BY <2>1, <3>2, <3>3
  <2> QED
    BY <2>2, <2>3
<1>6. new = both
  BY <1>2, <1>3, <1>4, <1>5, SeqEqual
<1> QED
  BY <1>6 DEF new, both

\* An argument more.
LEMMA SplicedGrows ==
  ASSUME TypeOK, TypeOK', UNCHANGED fileVars, replace' = replace,
         pos < Ended, pos' = pos + 1, NEW f \in 1 .. pos + 1
  PROVE  Spliced(f)' = Append(Spliced(f), Strings(Line))
<1> DEFINE old == Spliced(f)
           new == Spliced(f)'
           last == Strings(Line)
           S == Seq(STRING)
           longer == Append(old, last)
           n == pos - f + 1
<1>1. /\ pos \in Nat /\ pos <= Ended /\ pos' <= Ended' /\ f \in 1 .. pos' + 1
      /\ n \in Nat
  <2>1. Ended' = Ended
    BY DEF fileVars, Ended
  <2> QED
    BY <2>1, ScriptsAre DEF TypeOK, CallTypes
<1>2. /\ old \in Seq(S) /\ Len(old) = n
      /\ \A i \in 1 .. n : old[i] = Strings(script.lines[f + i - 1])
  BY <1>1, SplicedIs
<1>3. /\ new \in Seq(S) /\ Len(new) = n + 1
      /\ \A i \in 1 .. n + 1 : new[i] = Strings(script.lines[f + i - 1])
  <2>1. \A i : Strings(script.lines[f + i - 1])' =
                 Strings(script.lines[f + i - 1])
    BY DEF Strings, fileVars
  <2>2. new = [i \in 1 .. pos' - f + 1 |-> Strings(script.lines[f + i - 1])']
    BY DEF Spliced
  <2>3. pos' - f + 1 = n + 1 /\ n + 1 \in Nat
    BY <1>1
  <2>4. new = [i \in 1 .. n + 1 |-> Strings(script.lines[f + i - 1])]
    <3> HIDE DEF new, n
    <3> QED
      BY <2>1, <2>2, <2>3
  <2>5. ASSUME NEW i \in 1 .. n + 1
        PROVE  Strings(script.lines[f + i - 1]) \in S
    <3>1. f + i - 1 \in Nat \ {0} /\ f + i - 1 <= Ended
      BY <1>1, ScriptsAre
    <3> QED
      BY <3>1, StringsAre
  <2> HIDE DEF new, n, S
  <2>6. \A i \in 1 .. n + 1 : new[i] = Strings(script.lines[f + i - 1])
    BY <2>4
  <2>7. new = [i \in 1 .. n + 1 |-> new[i]] /\ \A i \in 1 .. n + 1 : new[i] \in S
    BY <2>4, <2>5
  <2> QED
    BY <2>3, <2>6, <2>7, FunctionIsSeq
<1>4. new[n + 1] = last
  <2>1. f + (n + 1) - 1 = pos + 1 /\ n + 1 \in 1 .. n + 1
    BY <1>1
  <2> DEFINE k == n + 1
  <2>2. f + k - 1 = pos + 1 /\ k \in 1 .. n + 1
    BY <2>1
  <2> HIDE DEF k
  <2>3. new[k] = Strings(script.lines[pos + 1])
    BY <1>3, <2>2
  <2> QED
    BY <2>3 DEF k, Line
<1> HIDE DEF old, new, last, S, n
<1>5. last \in S
  <2>1. n + 1 \in 1 .. Len(new)
    BY <1>1, <1>3
  <2> QED
    BY <1>3, <1>4, <2>1, ElementOfSeq
<1>6. /\ longer \in Seq(S) /\ Len(longer) = n + 1 /\ longer[n + 1] = last
      /\ \A i \in 1 .. n : longer[i] = old[i]
  BY <1>2, <1>5, AppendProperties
<1> HIDE DEF longer
<1>7. \A i \in 1 .. n + 1 : new[i] = longer[i]
  <2>1. \A i \in 1 .. n + 1 : i \in 1 .. n \/ i = n + 1
    BY <1>1
  <2> QED
    BY <1>2, <1>3, <1>4, <1>6, <2>1
<1>8. new = longer
  BY <1>3, <1>6, <1>7, SeqEqual
<1> QED
  BY <1>8 DEF new, longer, old, last

LEMMA InitCourse == Init => Course
<1> SUFFICES ASSUME Init PROVE Course
  OBVIOUS
<1> QED
  BY DEF Init, Course, AfterDashes

LEMMA SomeFound ==
  ASSUME IInv, Course, AfterDashes
  PROVE  /\ ~borrowed /\ pos <= Ended /\ (pc = "args" \/ pos = Ended)
         /\ \E d, f \in Nat : Found(d, f)
<1>1. pos \in Nat
  BY DEF IInv, TypeOK, CallTypes
<1>2. \E d \in 1 .. pos, f \in 1 .. pos + 1 : Found(d, f)
  BY DEF Course
<1>3. \E d, f \in Nat : Found(d, f)
  BY <1>1, <1>2
<1> QED
  BY <1>3 DEF Course

\* What Course says of a state after the first "--".
LEMMA CourseFrom ==
  ASSUME AfterDashes', ~borrowed', pos' <= Ended', pc' = "args" \/ pos' = Ended',
         NEW d \in Nat, NEW f \in Nat, Found(d, f)'
  PROVE  Course'
BY DEF Course, AfterDashes, Found

LEMMA FoundStays ==
  ASSUME UNCHANGED <<fileVars, pos, in_argv, replace>>,
         NEW d \in Nat, NEW f \in Nat, Found(d, f),
         replace # Lost => Pushed' = FlattenSeq(Spliced(f)) \o Appended'
  PROVE  Found(d, f)'
<1>1. /\ DashAt(d)' /\ ArgsFrom(d, f)'
      /\ d \in 1 .. pos' /\ f \in 1 .. pos' + 1
  BY DEF Found, DashAt, ArgsFrom, Blank, fileVars
<1>2. Spliced(f)' = Spliced(f)
  BY DEF Spliced, Strings, fileVars
<1> QED
  BY <1>1, <1>2 DEF Found

\* A step among the options.
LEMMA OptionCourse ==
  ASSUME IInv, Course,
         LineIgnored \/ OptReplace \/ OptAppendArgv \/ OptOther \/ OptFails
  PROVE  Course'
<1>1. /\ pc = "lines" /\ pc' = "lines" /\ in_argv' = in_argv
      /\ script' = script /\ pos' = pos + 1 /\ pos \in Nat
      /\ Line # "--"
  BY ScriptAssumption DEF LineIgnored, OptReplace, OptAppendArgv, OptOther,
     OptFails, OptionIs, ReadOption, Read, fileVars, IInv, TypeOK, CallTypes
<1>2. ASSUME NEW i \in 1 .. pos' PROVE script'.lines[i] # "--"
  <2>1. i \in 1 .. pos \/ i = pos + 1
    BY <1>1
  <2> QED
    BY <1>1, <2>1 DEF Course, Line
<1> QED
  BY <1>1, <1>2 DEF Course, AfterDashes

\* The first "--".
LEMMA DashDashCourse ==
  ASSUME IInv, IInv', Course, DashDash
  PROVE  Course'
<1>0. PICK d \in Nat, f \in Nat : d = pos + 1 /\ f = pos + 2
  BY DEF IInv, TypeOK, CallTypes
<1>1. /\ pc = "lines" /\ pc' = "args" /\ pos < Ended /\ pos' = d
      /\ Line = "--" /\ UNCHANGED fileVars /\ in_argv' = in_argv
      /\ ~borrowed' /\ cmd_argc' = cmd_argc
  BY <1>0 DEF DashDash, Read, FreeLine, strvVars
<1>2. pos \in Nat /\ ~in_argv' /\ Ended \in Int /\ Ended' = Ended
  BY <1>1, ScriptsAre DEF IInv, TypeOK, CallTypes, Course, fileVars, Ended
<1>3. DashAt(d)'
  <2>1. \A i \in 1 .. d - 1 : script'.lines[i] # "--"
    BY <1>0, <1>1, <1>2 DEF Course, fileVars
  <2>2. script'.lines[d] = "--" /\ d \in 1 .. pos'
    BY <1>0, <1>1, <1>2 DEF fileVars, Line
  <2> QED
    BY <2>1, <2>2 DEF DashAt
<1>4. ArgsFrom(d, f)'
  BY <1>0, <1>1, <1>2 DEF ArgsFrom
<1>5. Pushed' = <<>>
  BY <1>1 DEF Pushed, IInv
<1>6. FlattenSeq(Spliced(f))' = <<>>
  <2>1. Spliced(f)' = [i \in 1 .. pos' - f + 1 |-> Strings(script.lines[f + i - 1])']
    BY DEF Spliced
  <2>2. pos' - f + 1 = 0
    BY <1>0, <1>1, <1>2
  <2>3. Spliced(f)' = <<>>
    BY <2>1, <2>2
  <2> QED
    BY <2>3 DEF FlattenSeq
<1>7. Appended' = <<>>
  BY <1>1 DEF Appended
<1>8. Found(d, f)'
  <2>1. d \in 1 .. pos' /\ f \in 1 .. pos' + 1
    BY <1>0, <1>1, <1>2
  <2>2. <<>> \o <<>> = <<>>
    OBVIOUS
  <2> QED
    BY <1>3, <1>4, <1>5, <1>6, <1>7, <2>1, <2>2 DEF Found
<1>9. pos' <= Ended' /\ AfterDashes'
  BY <1>0, <1>1, <1>2 DEF AfterDashes
<1> QED
  BY <1>1, <1>8, <1>9, CourseFrom

\* A line after it: a blank one before the arguments, or an argument.
LEMMA ArgCourse ==
  ASSUME IInv, IInv', Course, LeadingIgnored \/ ArgReplaced \/ ArgCopied
  PROVE  Course'
<1>1. /\ pc = "args" /\ pc' = "args" /\ pos < Ended /\ pos' = pos + 1
      /\ UNCHANGED fileVars /\ FreeLine /\ ReadArg
  BY DEF LeadingIgnored, ArgReplaced, ArgCopied, ReadArg, Read
<1>2. ~borrowed /\ \E d, f \in Nat : Found(d, f)
  BY <1>1, SomeFound DEF AfterDashes
<1>3. PICK d \in Nat, f \in Nat : Found(d, f)
  BY <1>2
<1>4. /\ pos \in Nat /\ Ended \in Int /\ Ended' = Ended
      /\ replace' = replace /\ ~borrowed'
      /\ in_argv \in BOOLEAN /\ script' = script /\ operands' = operands
  BY <1>1, <1>2, ScriptsAre DEF FreeLine, IInv, TypeOK, CallTypes, fileVars,
     Ended
<1>5. /\ d \in 1 .. pos /\ f \in 1 .. pos + 1
      /\ d \in 1 .. pos' /\ f \in 1 .. pos' + 1
      /\ DashAt(d) /\ ArgsFrom(d, f)
  BY <1>1, <1>3, <1>4 DEF Found
<1>6. DashAt(d)'
  BY <1>4, <1>5 DEF DashAt
<1>7. Appended = <<>> /\ Appended' = <<>>
  BY <1>1 DEF Appended
<1>8. /\ Pushed \in Seq(STRING)
      /\ Spliced(f) \in Seq(Seq(STRING))
      /\ FlattenSeq(Spliced(f)) \in Seq(STRING)
      /\ replace # Lost => Pushed = FlattenSeq(Spliced(f))
  <2>1. Pushed \in Seq(STRING)
    BY PushedIs
  <2>2. Spliced(f) \in Seq(Seq(STRING))
    BY <1>1, <1>4, <1>5, SplicedIs DEF IInv
  <2>3. FlattenSeq(Spliced(f)) \in Seq(STRING)
    BY <2>2, FlattenIs
  <2>4. replace # Lost => Pushed = FlattenSeq(Spliced(f)) \o <<>>
    BY <1>3, <1>7 DEF Found
  <2> DEFINE flat == FlattenSeq(Spliced(f))
  <2>5. flat \o <<>> = flat
    <3>1. flat \in Seq(STRING)
      BY <2>3
    <3> HIDE DEF flat
    <3> QED
      BY <3>1, ConcatEmptySeq
  <2> QED
    BY <2>1, <2>2, <2>3, <2>4, <2>5
<1>9. CASE LeadingIgnored
  <2>1. /\ in_argv = FALSE /\ in_argv' = FALSE /\ Blank(script.lines[pos + 1])
        /\ cmd_argc' = cmd_argc /\ strv' = strv
    BY <1>4, <1>9 DEF LeadingIgnored, strvVars, Line
  <2>2. f = pos + 1 /\ \A i \in d + 1 .. f - 1 : Blank(script.lines[i])
    BY <1>5, <2>1 DEF ArgsFrom
  <2>3. PICK g \in Nat : g = f + 1
    OBVIOUS
  <2>4. ArgsFrom(d, g)'
    <3>1. ASSUME NEW i \in d + 1 .. g - 1 PROVE Blank(script.lines[i])'
      <4>1. i \in d + 1 .. f - 1 \/ i = pos + 1
        BY <1>4, <2>2, <2>3
      <4> QED
        BY <1>4, <2>1, <2>2, <4>1 DEF Blank
    <3>2. g \in d + 1 .. pos' + 1 /\ g = pos' + 1
      BY <1>1, <1>4, <1>5, <2>2, <2>3
    <3> QED
      BY <2>1, <3>1, <3>2 DEF ArgsFrom
  <2>5. Pushed' = Pushed
    BY <2>1 DEF Pushed
  <2>6. Spliced(f) = <<>> /\ Spliced(g)' = <<>>
    <3>1. /\ Spliced(f) = [i \in 1 .. pos - f + 1 |-> Strings(script.lines[f + i - 1])]
          /\ Spliced(g)' = [i \in 1 .. pos' - g + 1 |-> Strings(script.lines[g + i - 1])']
      BY DEF Spliced
    <3>2. pos - f + 1 = 0 /\ pos' - g + 1 = 0
      BY <1>1, <1>4, <2>2, <2>3
    <3> QED
      BY <3>1, <3>2
  <2>7. FlattenSeq(Spliced(g))' = <<>> /\ FlattenSeq(Spliced(f)) = <<>>
    BY <2>6 DEF FlattenSeq
  <2>8. Found(d, g)'
    <3>1. g \in 1 .. pos' + 1
      BY <1>1, <1>4, <2>2, <2>3
    <3>2. <<>> \o <<>> = <<>>
      OBVIOUS
    <3> QED
      BY <1>4, <1>5, <1>6, <1>7, <1>8, <2>4, <2>5, <2>7, <3>1, <3>2 DEF Found
  <2> QED
    BY <1>1, <1>4, <2>8, CourseFrom DEF AfterDashes
<1>10. CASE ArgReplaced \/ ArgCopied
  <2>1. IsArg /\ in_argv' = TRUE
    BY <1>10 DEF ArgReplaced, ArgCopied
  <2>2. ArgsFrom(d, f)'
    <3>1. f <= pos' /\ ~Blank(script.lines[f])
      BY <1>1, <1>4, <1>5, <2>1 DEF ArgsFrom, IsArg, Line
    <3>2. f \in d + 1 .. pos' + 1
          /\ \A i \in d + 1 .. f - 1 : Blank(script.lines[i])
      BY <1>1, <1>4, <1>5 DEF ArgsFrom
    <3> QED
      BY <1>4, <2>1, <3>1, <3>2 DEF ArgsFrom, Blank
  <2>3. replace # Lost => Pushed' = Pushed \o Strings(Line)
    <3>1. ASSUME NEW texts \in Seq(STRING), Len(texts) # 0, PushStrings(texts)
          PROVE  Pushed' = Pushed \o texts
      BY <1>1, <3>1, PushedGrows
    <3>2. CASE ArgCopied
      <4>1. <<Line>> \in Seq(STRING) /\ Len(<<Line>>) # 0
        BY <1>1, LineIsText DEF IInv
      <4>2. PushStrings(<<Line>>) /\ Strings(Line) = <<Line>>
        BY <1>4, <3>2 DEF ArgCopied, Strings
      <4> QED
        BY <3>1, <4>1, <4>2
    <3>3. CASE ArgReplaced /\ replace # Lost
      <4>1. Strings(Line) = operands /\ operands \in Seq(STRING)
        BY <1>4, <3>3, ScriptsAre DEF ArgReplaced, Strings, IInv
      <4>2. CASE operands = <<>>
        <5>1. Pushed' = Pushed
          BY <3>3, <4>2 DEF ArgReplaced, strvVars, Pushed
        <5>2. Pushed \o <<>> = Pushed
          BY <1>8, ConcatEmptySeq
        <5> QED
          BY <4>1, <4>2, <5>1, <5>2
      <4>3. CASE operands # <<>>
        <5>1. Len(operands) # 0 /\ PushStrings(operands)
          BY <3>3, <4>1, <4>3 DEF ArgReplaced
        <5> QED
          BY <3>1, <4>1, <5>1
      <4> QED
        BY <4>2, <4>3
    <3> QED
      BY <1>10, <3>2, <3>3
  <2>4. FlattenSeq(Spliced(f)') = FlattenSeq(Spliced(f)) \o Strings(Line)
    <3>1. Spliced(f)' = Append(Spliced(f), Strings(Line))
      BY <1>1, <1>4, <1>5, SplicedGrows DEF IInv
    <3>2. Strings(Line) \in Seq(STRING)
      <4>1. pos + 1 \in Nat \ {0} /\ pos + 1 <= Ended
        BY <1>1, <1>4
      <4> QED
        BY <4>1, StringsAre DEF IInv, Line
    <3> QED
      BY <1>8, <3>1, <3>2, FlattenAppend
  <2>5. FlattenSeq(Spliced(f)') \o <<>> = FlattenSeq(Spliced(f)')
    <3> DEFINE flat == FlattenSeq(Spliced(f)')
    <3>1. flat = FlattenSeq(Spliced(f)) \o Strings(Line)
          /\ Strings(Line) \in Seq(STRING)
      <4>1. pos + 1 \in Nat \ {0} /\ pos + 1 <= Ended
        BY <1>1, <1>4
      <4> QED
        BY <2>4, <4>1, StringsAre DEF IInv, Line
    <3>2. flat \in Seq(STRING)
      <4> HIDE DEF flat
      <4> QED
        BY <1>8, <3>1, ConcatProperties
    <3> HIDE DEF flat
    <3> QED
      BY <3>2, ConcatEmptySeq
  <2>6. Found(d, f)'
    <3>1. replace' # Lost => Pushed' = FlattenSeq(Spliced(f)') \o <<>>
      BY <1>4, <1>8, <2>3, <2>4, <2>5
    <3> QED
      BY <1>5, <1>6, <1>7, <2>2, <3>1 DEF Found
  <2> QED
    BY <1>1, <1>4, <2>6, CourseFrom DEF AfterDashes
<1> QED
  BY <1>9, <1>10

\* The end of the file.
LEMMA ArgsEndCourse ==
  ASSUME IInv, Course, ArgsEnd
  PROVE  Course'
<1>1. /\ pc = "args" /\ pc' = "append" /\ pos >= Ended
      /\ UNCHANGED <<fileVars, pos, in_argv, strvVars>> /\ FreeLine
  BY DEF ArgsEnd, Eof
<1>2. ~borrowed /\ pos <= Ended /\ \E d, f \in Nat : Found(d, f)
  BY <1>1, SomeFound DEF AfterDashes
<1>3. PICK d \in Nat, f \in Nat : Found(d, f)
  BY <1>2
<1>4. /\ replace' = replace /\ ~borrowed'
      /\ pos' <= Ended' /\ pos' = Ended'
  <2>1. Ended' = Ended
    BY <1>1 DEF fileVars, Ended
  <2>2. pos \in Nat /\ Ended \in Int
    BY ScriptsAre DEF IInv, TypeOK, CallTypes
  <2> QED
    BY <1>1, <1>2, <2>1, <2>2 DEF FreeLine
<1>5. Pushed' = Pushed /\ Appended' = <<>> /\ Appended = <<>>
  BY <1>1 DEF Pushed, Appended, strvVars
<1>6. Found(d, f)'
  <2>1. replace # Lost => Pushed' = FlattenSeq(Spliced(f)) \o Appended'
    BY <1>3, <1>5 DEF Found
  <2> QED
    BY <1>1, <1>3, <1>4, <2>1, FoundStays
<1> QED
  BY <1>1, <1>4, <1>6, CourseFrom DEF AfterDashes

\* --append-argv, and the NULL at the end.
LEMMA AppendCourse ==
  ASSUME IInv, IInv', Course, AppendArgv
  PROVE  Course'
<1>1. /\ pc = "append" /\ pc' = "seal"
      /\ UNCHANGED <<fileVars, pos, in_argv, replace, borrowed, opt_append_argv>>
  BY DEF AppendArgv, Unchanged, optionVars
<1>2. ~borrowed /\ pos = Ended /\ \E d, f \in Nat : Found(d, f)
  BY <1>1, SomeFound DEF AfterDashes
<1>3. PICK d \in Nat, f \in Nat : Found(d, f)
  BY <1>2
<1>4. pos' = Ended' /\ pos' <= Ended'
  BY <1>1, <1>2 DEF fileVars, Ended, IInv, TypeOK, CallTypes
<1>5. Pushed' = Pushed \o Appended'
  <2>1. Pushed \in Seq(STRING)
    BY PushedIs
  <2>2. Pushed \o <<>> = Pushed
    BY <2>1, ConcatEmptySeq
  <2>3. CASE opt_append_argv /\ operands # <<>>
    <3>1. operands \in Seq(STRING) /\ Len(operands) # 0
      BY <2>3, ScriptsAre DEF IInv
    <3>2. PushStrings(operands) /\ Appended' = operands
      BY <1>1, <2>3 DEF AppendArgv, Appended, fileVars
    <3> QED
      BY <1>1, <3>1, <3>2, PushedGrows
  <2>4. CASE ~(opt_append_argv /\ operands # <<>>)
    <3>1. Pushed' = Pushed
      BY <2>4 DEF AppendArgv, strvVars, Pushed
    <3>2. Appended' = <<>>
      BY <1>1, <2>4 DEF Appended, fileVars
    <3> QED
      BY <2>2, <3>1, <3>2
  <2> QED
    BY <2>3, <2>4
<1>6. replace # Lost => Pushed = FlattenSeq(Spliced(f))
  <2> DEFINE flat == FlattenSeq(Spliced(f))
  <2>1. flat \in Seq(STRING)
    <3>1. f \in 1 .. pos + 1
      BY <1>3 DEF Found
    <3>2. pos <= Ended
      BY <1>2 DEF IInv, TypeOK, CallTypes
    <3>3. Spliced(f) \in Seq(Seq(STRING))
      BY <3>1, <3>2, SplicedIs DEF IInv
    <3> QED
      BY <3>3, FlattenIs
  <2>2. Appended = <<>>
    BY <1>1 DEF Appended
  <2>3. replace # Lost => Pushed = flat \o <<>>
    BY <1>3, <2>2 DEF Found
  <2> HIDE DEF flat
  <2>4. flat \o <<>> = flat
    BY <2>1, ConcatEmptySeq
  <2>5. replace # Lost => Pushed = flat
    BY <2>3, <2>4
  <2> QED
    BY <2>5 DEF flat
<1>7. Found(d, f)'
  <2>1. replace # Lost => Pushed' = FlattenSeq(Spliced(f)) \o Appended'
    BY <1>5, <1>6
  <2> QED
    BY <1>1, <1>3, <2>1, FoundStays
<1> QED
  BY <1>1, <1>2, <1>4, <1>7, CourseFrom DEF AfterDashes

LEMMA SealCourse ==
  ASSUME IInv, IInv', Course, Seal
  PROVE  Course'
<1>1. /\ pc = "seal" /\ pc' = "run" /\ Push(<<NULL>>) /\ cmd_argc' = cmd_argc
      /\ UNCHANGED <<fileVars, pos, in_argv, replace, borrowed, opt_append_argv>>
  BY DEF Seal, Unchanged, optionVars
<1>2. ~borrowed /\ pos = Ended /\ \E d, f \in Nat : Found(d, f)
  BY <1>1, SomeFound DEF AfterDashes
<1>3. PICK d \in Nat, f \in Nat : Found(d, f)
  BY <1>2
<1>4. pos' = Ended' /\ pos' <= Ended'
  BY <1>1, <1>2 DEF fileVars, Ended, IInv, TypeOK, CallTypes
<1>5. Pushed' = Pushed
  <2>1. /\ strv \in Seq(Slot) /\ strc \in Nat /\ strc <= Len(strv)
        /\ cmd_argc = strc
    BY <1>1 DEF IInv, TypeOK, StrvTypes, InCapacity, Slot
  <2>2. PICK texts \in Seq(STRING \cup {NULL}) :
          texts = <<NULL>> /\ Len(texts) = 1
    <3>1. <<NULL>> \in Seq(STRING \cup {NULL}) /\ Len(<<NULL>>) = 1
      OBVIOUS
    <3> QED
      BY <3>1
  <2>3. Push(texts) /\ Len(texts) # 0
    BY <1>1, <2>2
  <2>4. \A i \in 1 .. cmd_argc : strv'[i] = strv[i]
    BY <2>1, <2>3, PushStores
  <2> QED
    BY <1>1, <2>4, PushedStays
<1>6. Appended' = Appended
  BY <1>1 DEF Appended, fileVars
<1>7. Found(d, f)'
  <2>1. replace # Lost => Pushed' = FlattenSeq(Spliced(f)) \o Appended'
    BY <1>3, <1>5, <1>6 DEF Found
  <2> QED
    BY <1>1, <1>3, <2>1, FoundStays
<1> QED
  BY <1>1, <1>2, <1>4, <1>7, CourseFrom DEF AfterDashes

LEMMA StutterCourse ==
  ASSUME IInv, Course, UNCHANGED vars
  PROVE  Course'
<1>1. UNCHANGED <<pc, fileVars, pos, in_argv, replace, borrowed,
                  opt_append_argv, strvVars>>
  BY DEF vars, optionVars
<1>2. CASE ~AfterDashes
  BY <1>1, <1>2 DEF Course, AfterDashes, fileVars
<1>3. CASE AfterDashes
  <2>1. /\ ~borrowed /\ pos <= Ended /\ (pc = "args" \/ pos = Ended)
        /\ \E d, f \in Nat : Found(d, f)
    BY <1>3, SomeFound
  <2>2. PICK d \in Nat, f \in Nat : Found(d, f)
    BY <2>1
  <2>3. Pushed' = Pushed /\ Appended' = Appended
    BY <1>1 DEF Pushed, Appended, strvVars, fileVars
  <2>4. Found(d, f)'
    <3>1. replace # Lost => Pushed' = FlattenSeq(Spliced(f)) \o Appended'
      BY <2>2, <2>3 DEF Found
    <3> QED
      BY <1>1, <2>2, <3>1, FoundStays
  <2>5. AfterDashes' /\ Ended' = Ended
    BY <1>1, <1>3 DEF AfterDashes, Ended, fileVars
  <2> QED
    BY <1>1, <2>1, <2>4, <2>5, CourseFrom
<1> QED
  BY <1>2, <1>3

LEMMA NextCourse ==
  ASSUME IInv, IInv', Course, [Next]_vars
  PROVE  Course'
<1>1. CASE Call
  <2>1. /\ pc = "caller" /\ pc' = "lines" /\ UNCHANGED <<pos, in_argv>>
    BY <1>1 DEF Call
  <2>2. pos' = 0 /\ ~in_argv'
    BY <2>1 DEF Course
  <2> QED
    BY <2>1, <2>2 DEF Course, AfterDashes
<1>2. CASE LineIgnored \/ OptReplace \/ OptAppendArgv \/ OptOther \/ OptFails
  BY <1>2, OptionCourse
<1>3. CASE DashDash
  BY <1>3, DashDashCourse
<1>4. CASE LeadingIgnored \/ ArgReplaced \/ ArgCopied
  BY <1>4, ArgCourse
<1>5. CASE ArgsEnd
  BY <1>5, ArgsEndCourse
<1>6. CASE AppendArgv
  BY <1>6, AppendCourse
<1>7. CASE Seal
  BY <1>7, SealCourse
<1>8. CASE DashDashAfterErrors \/ NoDashDash \/ NothingToRun \/ Free
  <2>1. pc' = "caller" /\ pos' = 0 /\ in_argv' = FALSE
    BY <1>8 DEF DashDashAfterErrors, NoDashDash, NothingToRun, Free, Return
  <2> QED
    BY <2>1 DEF Course, AfterDashes
<1>9. CASE RunReturns \/ Replaced \/ Overrun
  <2>1. pc' \in {"free", "replaced", "overrun"}
    BY <1>9 DEF RunReturns, Replaced, Overrun, ArgOverruns, AppendOverruns,
       SealOverruns, Overruns
  <2> QED
    BY <2>1 DEF Course, AfterDashes
<1>10. CASE UNCHANGED vars
  BY <1>10, StutterCourse
<1> QED
  BY <1>1, <1>2, <1>3, <1>4, <1>5, <1>6, <1>7, <1>8, <1>9, <1>10
     DEF Next, Step

LEMMA CourseImplies ==
  ASSUME IInv, Course
  PROVE  ArgsRight
<1> SUFFICES ASSUME pc = "run", replace # Lost
             PROVE  SubSeq(strv, 1, cmd_argc) = Promised(replace)
  BY DEF ArgsRight
<1>1. pos = Ended /\ \E d, f \in Nat : Found(d, f)
  BY SomeFound DEF AfterDashes
<1>2. PICK d \in Nat, f \in Nat : Found(d, f)
  BY <1>1
<1>3. /\ d \in 1 .. pos /\ f \in 1 .. pos + 1 /\ DashAt(d) /\ ArgsFrom(d, f)
      /\ Pushed = FlattenSeq(Spliced(f)) \o Appended
  BY <1>2 DEF Found
<1>4. Promised(replace) = FlattenSeq(Spliced(f)) \o
                            (IF opt_append_argv THEN operands ELSE <<>>)
  BY <1>1, <1>3, PromisedIs DEF IInv
<1>5. Appended = IF opt_append_argv THEN operands ELSE <<>>
  BY DEF Appended
<1> QED
  BY <1>3, <1>4, <1>5 DEF Pushed

\* run_interpret_linebuf(): whatever the script, the operands and the amount to
\* grow by, a program is run with the arguments that README promises, unless
\* the string of --replace was freed with its line.
THEOREM ArgumentsRight == Spec => []ArgsRight
<1>1. Init => IInv /\ Course
  BY InitIInv, InitCourse
<1>2. (IInv /\ Course) /\ [Next]_vars => (IInv /\ Course)'
  <2> SUFFICES ASSUME IInv, Course, [Next]_vars PROVE IInv' /\ Course'
    OBVIOUS
  <2>1. IInv'
    BY NextIInv
  <2> QED
    BY <2>1, NextCourse
<1>3. IInv /\ Course => ArgsRight
  BY CourseImplies
<1> QED
  BY <1>1, <1>2, <1>3, PTL DEF Spec
=============================================================================
