---------------------------- MODULE Getopt_proofs ----------------------------
(***************************************************************************)
(* For every table of options and every vector of arguments: a scan stays  *)
(* within the vector, exchange() moves words and options as a whole, and   *)
(* the calls of a scan return what the comments of cs-getopt.c promise;    *)
(* and the loop of ush_getopt() carries out what they return, in order, so *)
(* that a command, a umask and an environment come out as asked.           *)
(***************************************************************************)
EXTENDS UshGetopt, SeqLemmas

(***************************************************************************)
(* exchange()                                                              *)
(***************************************************************************)
LEMMA SwapsBottom ==
  ASSUME NEW b \in Nat, NEW m \in Nat, NEW t \in Nat,
         argv \in Seq(Seq(Tokens)),
         1 <= b, b < m, m < t, t <= Len(argv) + 1, t - m > m - b,
         NEW v, v = Swapped(b, t - (m - b), m - b)
  PROVE  /\ v \in Seq(Seq(Tokens)) /\ Len(v) = Len(argv)
         /\ Rotated(v, b, m, t - (m - b)) = Rotated(argv, b, m, t)
<1>1. DOMAIN argv = 1 .. Len(argv) /\ Len(argv) \in Nat
  OBVIOUS
<1>2. DOMAIN v = DOMAIN argv
  BY DEF Swapped
<1>3. ASSUME NEW i \in 1 .. Len(argv)
      PROVE  v[i] = IF i \in b .. m - 1 THEN argv[i - b + t - (m - b)]
                    ELSE IF i \in t - (m - b) .. t - 1
                         THEN argv[i - (t - (m - b)) + b]
                    ELSE argv[i]
  BY <1>1 DEF Swapped
<1>4. ASSUME NEW i \in 1 .. Len(argv)
      PROVE  v[i] \in Seq(Tokens)
  <2>1. \A k \in 1 .. Len(argv) : argv[k] \in Seq(Tokens)
    OBVIOUS
  <2>2. CASE i \in b .. m - 1
    <3>1. i - b + t - (m - b) \in 1 .. Len(argv)
      BY <1>1, <2>2
    <3> QED
      BY <1>3, <2>1, <2>2, <3>1
  <2>3. CASE i \in t - (m - b) .. t - 1
    <3>1. i - (t - (m - b)) + b \in 1 .. Len(argv)
      BY <1>1, <2>3
    <3>2. i \notin b .. m - 1
      BY <2>3
    <3> QED
      BY <1>3, <2>1, <2>3, <3>1, <3>2
  <2> QED
    BY <1>3, <2>1, <2>2, <2>3
<1>5. v \in Seq(Seq(Tokens)) /\ Len(v) = Len(argv)
  BY <1>1, <1>2, <1>4, FunctionIsSeq DEF Swapped
<1>6. ASSUME NEW i \in 1 .. Len(argv)
      PROVE  Rotated(v, b, m, t - (m - b))[i] = Rotated(argv, b, m, t)[i]
  <2> DEFINE n == t - (m - b)
             R == Rotated(v, b, m, n)
  <2>1. R[i] = IF i \in b .. b + (n - m) - 1 THEN v[i + (m - b)]
               ELSE IF i \in b + (n - m) .. n - 1 THEN v[i - (n - m)]
               ELSE v[i]
    BY <1>1, <1>2 DEF Rotated
  <2>2. Rotated(argv, b, m, t)[i] =
          IF i \in b .. b + (t - m) - 1 THEN argv[i + (m - b)]
          ELSE IF i \in b + (t - m) .. t - 1 THEN argv[i - (t - m)]
          ELSE argv[i]
    BY <1>1 DEF Rotated
  <2> HIDE DEF R
  <2>3. CASE i \in b .. b + (n - m) - 1
    <3>1. /\ i + (m - b) \in 1 .. Len(argv)
          /\ i + (m - b) \notin b .. m - 1
          /\ i + (m - b) \notin n .. t - 1
          /\ i \in b .. b + (t - m) - 1
      BY <1>1, <2>3
    <3>2. v[i + (m - b)] = argv[i + (m - b)]
      BY <1>3, <3>1
    <3> QED
      BY <2>1, <2>2, <2>3, <3>1, <3>2 DEF R
  <2>4. CASE i \in b + (n - m) .. n - 1
    <3>1. /\ i - (n - m) \in 1 .. Len(argv)
          /\ i - (n - m) \in b .. m - 1
          /\ i \notin b .. b + (n - m) - 1
          /\ i \in b .. b + (t - m) - 1
          /\ i - (n - m) - b + n = i + (m - b)
      BY <1>1, <2>4
    <3>2. v[i - (n - m)] = argv[i + (m - b)]
      BY <1>3, <3>1
    <3> QED
      BY <2>1, <2>2, <2>4, <3>1, <3>2 DEF R
  <2>5. CASE i \in n .. t - 1
    <3>1. /\ i \notin b .. m - 1
          /\ i \notin b .. b + (n - m) - 1
          /\ i \notin b + (n - m) .. n - 1
          /\ i \notin b .. b + (t - m) - 1
          /\ i \in b + (t - m) .. t - 1
          /\ i - n + b = i - (t - m)
      BY <1>1, <2>5
    <3>2. v[i] = argv[i - (t - m)]
      BY <1>3, <2>5, <3>1
    <3> QED
      BY <2>1, <2>2, <3>1, <3>2 DEF R
  <2>6. CASE i \notin b .. t - 1
    <3>1. /\ i \notin b .. m - 1
          /\ i \notin n .. t - 1
          /\ i \notin b .. b + (n - m) - 1
          /\ i \notin b + (n - m) .. n - 1
          /\ i \notin b .. b + (t - m) - 1
          /\ i \notin b + (t - m) .. t - 1
      BY <1>1, <2>6
    <3> QED
      BY <1>3, <2>1, <2>2, <3>1 DEF R
  <2>7. \/ i \in b .. b + (n - m) - 1 \/ i \in b + (n - m) .. n - 1
        \/ i \in n .. t - 1 \/ i \notin b .. t - 1
    BY <1>1
  <2> QED
    BY <2>3, <2>4, <2>5, <2>6, <2>7 DEF R
<1> QED
  BY <1>1, <1>2, <1>5, <1>6 DEF Rotated

LEMMA SwapsTop ==
  ASSUME NEW b \in Nat, NEW m \in Nat, NEW t \in Nat,
         argv \in Seq(Seq(Tokens)),
         1 <= b, b < m, m < t, t <= Len(argv) + 1, t - m <= m - b,
         NEW v, v = Swapped(b, m, t - m)
  PROVE  /\ v \in Seq(Seq(Tokens)) /\ Len(v) = Len(argv)
         /\ Rotated(v, b + (t - m), m, t) = Rotated(argv, b, m, t)
<1>1. DOMAIN argv = 1 .. Len(argv) /\ Len(argv) \in Nat
  OBVIOUS
<1>2. DOMAIN v = DOMAIN argv
  BY DEF Swapped
<1>3. ASSUME NEW i \in 1 .. Len(argv)
      PROVE  v[i] = IF i \in b .. b + (t - m) - 1 THEN argv[i - b + m]
                    ELSE IF i \in m .. t - 1 THEN argv[i - m + b]
                    ELSE argv[i]
  BY <1>1 DEF Swapped
<1>4. ASSUME NEW i \in 1 .. Len(argv), i \in m .. t - 1
      PROVE  v[i] = argv[i - m + b]
  <2>1. i \notin b .. b + (t - m) - 1
    BY <1>4
  <2> QED
    BY <1>3, <1>4, <2>1
<1>5. ASSUME NEW i \in 1 .. Len(argv),
             i \notin b .. b + (t - m) - 1, i \notin m .. t - 1
      PROVE  v[i] = argv[i]
  BY <1>3, <1>5
<1>6. ASSUME NEW i \in 1 .. Len(argv)
      PROVE  v[i] \in Seq(Tokens)
  <2>1. \A k \in 1 .. Len(argv) : argv[k] \in Seq(Tokens)
    OBVIOUS
  <2>2. CASE i \in b .. b + (t - m) - 1
    <3>1. i - b + m \in 1 .. Len(argv)
      BY <1>1, <2>2
    <3> QED
      BY <1>3, <2>1, <2>2, <3>1
  <2>3. CASE i \in m .. t - 1
    <3>1. i - m + b \in 1 .. Len(argv)
      BY <1>1, <2>3
    <3>2. i \notin b .. b + (t - m) - 1
      BY <2>3
    <3> QED
      BY <1>3, <2>1, <2>3, <3>1, <3>2
  <2> QED
    BY <1>3, <2>1, <2>2, <2>3
<1>7. v \in Seq(Seq(Tokens)) /\ Len(v) = Len(argv)
  BY <1>1, <1>2, <1>6, FunctionIsSeq DEF Swapped
<1>8. ASSUME NEW i \in 1 .. Len(argv)
      PROVE  Rotated(v, b + (t - m), m, t)[i] = Rotated(argv, b, m, t)[i]
  <2> DEFINE k == t - m
             n == b + k
             R == Rotated(v, n, m, t)
  <2>1. R[i] = IF i \in n .. n + k - 1 THEN v[i + (m - n)]
               ELSE IF i \in n + k .. t - 1 THEN v[i - k]
               ELSE v[i]
    BY <1>1, <1>2 DEF Rotated
  <2>2. Rotated(argv, b, m, t)[i] =
          IF i \in b .. n - 1 THEN argv[i + (m - b)]
          ELSE IF i \in n .. t - 1 THEN argv[i - k]
          ELSE argv[i]
    BY <1>1 DEF Rotated
  <2> HIDE DEF R
  <2>3. CASE i \in b .. n - 1
    <3>1. /\ i \notin n .. n + k - 1
          /\ i \notin n + k .. t - 1
          /\ i - b + m = i + (m - b)
      BY <1>1, <2>3
    <3>2. v[i] = argv[i + (m - b)]
      BY <1>3, <2>3, <3>1
    <3> QED
      BY <2>1, <2>2, <2>3, <3>1, <3>2 DEF R
  <2>4. CASE i \in n .. n + k - 1
    <3>1. /\ i + (m - n) \in 1 .. Len(argv)
          /\ i + (m - n) \notin b .. n - 1
          /\ i + (m - n) \in m .. t - 1
          /\ i \notin b .. n - 1
          /\ i \in n .. t - 1
          /\ i + (m - n) - m + b = i - k
      BY <1>1, <2>4
    <3>2. PICK j \in 1 .. Len(argv) : j = i + (m - n)
      BY <3>1
    <3>3. v[j] = argv[j - m + b] /\ j - m + b = i - k
      BY <1>4, <3>1, <3>2
    <3> QED
      BY <2>1, <2>2, <2>4, <3>1, <3>2, <3>3 DEF R
  <2>5. CASE i \in n + k .. t - 1
    <3>1. /\ i - k \in 1 .. Len(argv)
          /\ i - k \notin b .. n - 1
          /\ i - k \notin m .. t - 1
          /\ i \notin n .. n + k - 1
          /\ i \notin b .. n - 1
          /\ i \in n .. t - 1
      BY <1>1, <2>5
    <3>2. v[i - k] = argv[i - k]
      BY <1>5, <3>1
    <3> QED
      BY <2>1, <2>2, <2>5, <3>1, <3>2 DEF R
  <2>6. CASE i \notin b .. t - 1
    <3>1. /\ i \notin b .. n - 1
          /\ i \notin m .. t - 1
          /\ i \notin n .. n + k - 1
          /\ i \notin n + k .. t - 1
          /\ i \notin n .. t - 1
      BY <1>1, <2>6
    <3> QED
      BY <1>3, <2>1, <2>2, <3>1 DEF R
  <2>7. \/ i \in b .. n - 1 \/ i \in n .. n + k - 1
        \/ i \in n + k .. t - 1 \/ i \notin b .. t - 1
    BY <1>1
  <2> QED
    BY <2>3, <2>4, <2>5, <2>6, <2>7 DEF R
<1> QED
  BY <1>1, <1>2, <1>7, <1>8 DEF Rotated

\* Nothing is left to exchange if one of the segments is empty.
LEMMA RotatedNothing ==
  ASSUME NEW v \in Seq(Seq(Tokens)),
         NEW b \in Nat, NEW m \in Nat, NEW t \in Nat, b <= m, m <= t,
         b = m \/ m = t
  PROVE  Rotated(v, b, m, t) = v
<1>1. \A i \in DOMAIN v : Rotated(v, b, m, t)[i] = v[i]
  BY DEF Rotated
<1> QED
  BY <1>1 DEF Rotated

(***************************************************************************)
(* The inductive invariant.                                                *)
(***************************************************************************)
\* A call has initialized the parser, and has moved optind from 0.
Begun ==
  /\ pc # "caller" => initialized /\ optind >= 1
  /\ initialized => first_nonopt >= 1 /\ last_nonopt >= 1
  /\ initialized /\ pc \notin {"skip", "finish"} =>
       first_nonopt <= last_nonopt

\* Only an ambiguous -W can leave optind beyond argc.
Inside ==
  /\ optind <= argc \/ (pc = "caller" /\ lost)
  /\ pc \notin {"caller", "advance"} \/ nextchar # <<>> =>
       first_nonopt <= optind /\ last_nonopt <= optind

\* What is left of an element belongs to the element at optind, and a scan that
\* has ended leaves nothing.
Pending ==
  /\ pc = "decode" => nextchar # <<>>
  /\ nextchar # <<>> =>
       /\ pc \in {"caller", "decode"}
       /\ initialized
       /\ optind \in 1 .. argc - 1
       /\ optc # "end" \/ pc # "caller"

\* What is left to exchange gives what was to be exchanged.
HalfWay ==
  pc = "exchange" =>
    /\ before \in Seq(Seq(Tokens))
    /\ first_nonopt <= bottom /\ bottom <= middle
    /\ middle = last_nonopt /\ middle <= top /\ top <= optind
    /\ Rotated(argv, bottom, middle, top) =
         Rotated(before, first_nonopt, last_nonopt, optind)

IInv == TypeOK /\ Begun /\ Inside /\ Pending /\ HalfWay

(***************************************************************************)
(* The table.                                                              *)
(***************************************************************************)
LEMMA TextOK ==
  ASSUME NEW text \in Seq(Tokens)
  PROVE  HasValue(text) => ValueOf(text) \in Seq(Tokens)
<1> DEFINE ends == {i \in DOMAIN text : text[i] = "="}
<1>1. Len(text) \in Nat /\ ends \subseteq Nat /\ ends \subseteq 1 .. Len(text)
  OBVIOUS
<1>2. NameLength(text) \in Nat
  <2>1. CASE ends = {}
    BY <1>1, <2>1 DEF NameLength
  <2>2. CASE ends # {}
    <3>1. Min(ends) \in 1 .. Len(text)
      BY <1>1, <2>2, MinOf
    <3> QED
      BY <2>2, <3>1 DEF NameLength
  <2> QED
    BY <2>1, <2>2
<1>3. \A i \in NameLength(text) + 2 .. Len(text) : text[i] \in Tokens
  BY <1>1, <1>2
<1> QED
  BY <1>1, <1>2, <1>3, SubSeqProperties DEF ValueOf

LEMMA FoundOK ==
  ASSUME IsConfig(conf), NEW text, Matches(text) # {}
  PROVE  /\ Found(text).val \in Tokens
         /\ Value(Found(text)) \in Results \ {"end", "word"}
<1> DEFINE Options == [name : Seq(Tokens), has : 0 .. 2, flag : BOOLEAN,
                       val : Tokens \ Marks]
           o == Found(text)
<1>1. conf.longs \in Seq(Options)
  BY DEF IsConfig
<1>2. Best(text) \subseteq DOMAIN conf.longs /\ Best(text) # {}
  BY DEF Best, ExactMatches, Matches
<1>3. DOMAIN conf.longs = 1 .. Len(conf.longs) /\ Len(conf.longs) \in Nat
  BY <1>1, LenProperties
<1>4. Min(Best(text)) \in 1 .. Len(conf.longs)
  BY <1>2, <1>3, MinOf
<1>5. o \in Options
  <2> HIDE DEF Options
  <2>1. conf.longs[Min(Best(text))] \in Options
    BY <1>1, <1>4, ElementOfSeq
  <2> QED
    BY <2>1 DEF Found
<1>6. o.val \in Tokens \ Marks
  BY <1>5
<1>7. "0" \in Results \ {"end", "word"} /\ Tokens \subseteq Results
  BY DEF Results, Marks
<1> HIDE DEF o
<1>8. Value(o) \in Results \ {"end", "word"}
  BY <1>6, <1>7 DEF Value, Results, Marks
<1> QED
  BY <1>6, <1>8 DEF o

(***************************************************************************)
(* The two halves of the type invariant.                                   *)
(***************************************************************************)
Optarg(arg) == arg = <<>> \/ (Len(arg) = 1 /\ arg[1] \in Seq(Tokens))

TextsOK ==
  /\ IsConfig(conf)
  /\ argv \in Seq(Seq(Tokens))
  /\ nextchar \in Seq(Tokens)
  /\ Optarg(optarg)
  /\ optopt \in Tokens \cup {""}
  /\ optc \in Results

PlacesOK ==
  /\ optind \in Nat /\ first_nonopt \in Nat /\ last_nonopt \in Nat
  /\ initialized \in BOOLEAN
  /\ pc \in {"caller", "advance", "settle", "exchange", "skip", "element",
             "finish", "decode"}
  /\ bottom \in Nat /\ middle \in Nat /\ top \in Nat
  /\ then \in {"skip", "finish"}
  /\ scans \in 1 .. MaxScans
  /\ lost \in BOOLEAN

LEMMA TypeParts ==
  /\ TypeOK <=> TextsOK /\ PlacesOK
  /\ TypeOK' <=> TextsOK' /\ PlacesOK'
<1>1. TypeOK => TextsOK
  BY DEF TypeOK, TextsOK, Optarg
<1>2. TypeOK => PlacesOK
  BY DEF TypeOK, PlacesOK
<1>3. TextsOK /\ PlacesOK => TypeOK
  BY DEF TypeOK, TextsOK, PlacesOK, Optarg
<1>4. TypeOK' => TextsOK'
  BY DEF TypeOK, TextsOK, Optarg
<1>5. TypeOK' => PlacesOK'
  BY DEF TypeOK, PlacesOK
<1>6. TextsOK' /\ PlacesOK' => TypeOK'
  BY DEF TypeOK, TextsOK, PlacesOK, Optarg
<1> QED
  BY <1>1, <1>2, <1>3, <1>4, <1>5, <1>6

(***************************************************************************)
(* A call returns.                                                         *)
(***************************************************************************)
\* What a step that ends a call makes true.
Returns ==
  /\ Scanning /\ UNCHANGED nonopts
  /\ pc' = "caller"
  /\ optind' \in Nat
  /\ optind' <= argc \/ lost'
  /\ nextchar' \in Seq(Tokens)
  /\ nextchar' # <<>> => optind' \in optind .. argc - 1 /\ optc' # "end"
  /\ Optarg(optarg')
  /\ optopt' \in Tokens \cup {""}
  /\ optc' \in Results
  /\ lost' \in BOOLEAN

LEMMA NaturalsOK ==
  ASSUME TypeOK
  PROVE  /\ argc \in Nat /\ Len(argv) \in Nat /\ argc = Len(argv) + 1
         /\ optind \in Nat /\ first_nonopt \in Nat /\ last_nonopt \in Nat
<1>1. argv \in Seq(Seq(Tokens))
  BY TypeParts DEF TextsOK
<1>2. Len(argv) \in Nat
  BY <1>1, LenProperties
<1>3. argc = Len(argv) + 1
  BY DEF argc
<1>4. optind \in Nat /\ first_nonopt \in Nat /\ last_nonopt \in Nat
  BY TypeParts DEF PlacesOK
<1> QED
  BY <1>2, <1>3, <1>4

LEMMA ReturnsKeeps ==
  ASSUME IInv, pc \in {"element", "decode"}, Returns
  PROVE  IInv'
<1>1. /\ argv' = argv /\ initialized' = initialized
      /\ first_nonopt' = first_nonopt /\ last_nonopt' = last_nonopt
      /\ pc' = "caller"
      /\ optind' <= argc \/ lost'
      /\ nextchar' # <<>> => optind' \in optind .. argc - 1 /\ optc' # "end"
  BY DEF Returns, Scanning, nonopts
<1>2. /\ argc \in Nat /\ optind \in Nat /\ optind' \in Nat
      /\ first_nonopt \in Nat /\ last_nonopt \in Nat
  BY NaturalsOK DEF IInv, Returns
<1>3. argc' = argc
  BY <1>1 DEF argc
<1>4. TypeOK'
  <2>1. TextsOK'
    BY TypeParts DEF IInv, TextsOK, Returns, Scanning, callerVars
  <2>2. PlacesOK'
    BY TypeParts DEF IInv, PlacesOK, Returns, Scanning, nonopts,
                     exchangeVars, callerVars
  <2> QED
    BY <2>1, <2>2, TypeParts
<1>5. Begun'
  BY <1>1 DEF IInv, Begun
<1>6. Inside'
  <2>1. first_nonopt <= optind /\ last_nonopt <= optind
    BY DEF IInv, Inside
  <2>2. optind' <= argc' \/ lost'
    BY <1>1, <1>3
  <2>3. nextchar' # <<>> =>
          first_nonopt' <= optind' /\ last_nonopt' <= optind'
    BY <1>1, <1>2, <2>1
  <2> QED
    BY <1>1, <2>2, <2>3 DEF Inside
<1>7. Pending'
  <2>1. initialized /\ optind >= 1
    BY DEF IInv, Begun
  <2>2. nextchar' # <<>> =>
          optind' \in 1 .. argc' - 1 /\ initialized' /\ optc' # "end"
    BY <1>1, <1>2, <1>3, <2>1
  <2> QED
    BY <1>1, <2>2 DEF Pending
<1>8. HalfWay'
  BY <1>1 DEF HalfWay
<1> QED
  BY <1>4, <1>5, <1>6, <1>7, <1>8 DEF IInv

(***************************************************************************)
(* The steps that do not end a call.                                       *)
(***************************************************************************)
LEMMA InitIInv ==
  ASSUME Init
  PROVE  IInv
<1>1. PICK use \in Uses : conf = use[1] /\ argv = use[2]
  BY DEF Init
<1>2. IsConfig(conf) /\ argv \in Seq(Seq(Tokens))
  BY <1>1, UsesAssumption
<1>3. TypeOK
  <2>1. <<>> \in Seq(Tokens) /\ "" \in Results
    BY EmptySeq DEF Results
  <2>2. TextsOK
    BY <1>2, <2>1 DEF Init, TextsOK, Optarg
  <2>3. 1 \in 1 .. MaxScans
    BY UsesAssumption
  <2>4. scans \in 1 .. MaxScans
    BY <2>3 DEF Init
  <2>5. PlacesOK
    BY <2>4 DEF Init, PlacesOK
  <2> QED
    BY <2>2, <2>5, TypeParts
<1>4. optind = 1 /\ pc = "caller" /\ nextchar = <<>> /\ ~initialized
  BY DEF Init
<1>5. 1 <= argc
  BY <1>3, NaturalsOK
<1>6. Begun /\ Inside /\ Pending /\ HalfWay
  BY <1>4, <1>5 DEF Begun, Inside, Pending, HalfWay
<1> QED
  BY <1>3, <1>6 DEF IInv

LEMMA RescanKeeps ==
  ASSUME IInv, Rescan
  PROVE  IInv'
<1>1. /\ argv' = argv /\ initialized' = initialized
      /\ first_nonopt' = first_nonopt /\ last_nonopt' = last_nonopt
      /\ pc = "caller" /\ pc' = "caller"
      /\ optind' \in {0, 1} /\ nextchar' = nextchar
      /\ optc = "end"
  BY DEF Rescan, nonopts
<1>2. nextchar = <<>>
  BY <1>1 DEF IInv, Pending
<1>3. TypeOK'
  <2>1. "" \in Results
    BY DEF Results
  <2>2. TextsOK'
    BY <2>1, TypeParts DEF IInv, TextsOK, Rescan
  <2>3. scans \in 1 .. MaxScans /\ scans < MaxScans /\ scans' = scans + 1
    BY TypeParts DEF IInv, PlacesOK, Rescan
  <2>4. MaxScans \in Nat
    BY UsesAssumption
  <2>5. scans' \in 1 .. MaxScans
    BY <2>3, <2>4
  <2>6. PlacesOK'
    <3>1. PlacesOK /\ optind' \in Nat
      BY <1>1, TypeParts DEF IInv
    <3>2. /\ pc' = pc /\ initialized' = initialized /\ lost' = lost
          /\ bottom' = bottom /\ middle' = middle /\ top' = top
          /\ then' = then
          /\ first_nonopt' = first_nonopt /\ last_nonopt' = last_nonopt
      BY DEF Rescan, nonopts, exchangeVars
    <3> QED
      BY <2>5, <3>1, <3>2 DEF PlacesOK
  <2> QED
    BY <2>2, <2>6, TypeParts
<1>4. Begun'
  BY <1>1 DEF IInv, Begun
<1>5. Inside'
  BY <1>1, <1>2, <1>3, NaturalsOK DEF IInv, Inside, argc
<1>6. Pending' /\ HalfWay'
  BY <1>1, <1>2 DEF Pending, HalfWay
<1> QED
  BY <1>3, <1>4, <1>5, <1>6 DEF IInv

LEMMA CallKeeps ==
  ASSUME IInv, Call
  PROVE  IInv'
<1>1. /\ argv' = argv /\ initialized' = TRUE /\ pc = "caller"
      /\ optind <= argc /\ optc # "end" /\ optc' = optc
      /\ pc' = IF nextchar' = <<>> THEN "advance" ELSE "decode"
      /\ IF optind = 0 \/ ~initialized
           THEN /\ optind' = IF optind = 0 THEN 1 ELSE optind
                /\ first_nonopt' = optind' /\ last_nonopt' = optind'
                /\ nextchar' = <<>>
           ELSE /\ optind' = optind /\ first_nonopt' = first_nonopt
                /\ last_nonopt' = last_nonopt /\ nextchar' = nextchar
  BY DEF Call, nonopts
<1>2. /\ argc \in Nat /\ argc >= 1 /\ argc' = argc /\ optind \in Nat
      /\ first_nonopt \in Nat /\ last_nonopt \in Nat
  BY <1>1, NaturalsOK DEF IInv, argc
<1>3. TypeOK'
  <2>1. <<>> \in Seq(Tokens)
    BY EmptySeq
  <2>2. TextsOK'
    BY <1>1, <2>1, TypeParts DEF IInv, TextsOK, Optarg, Call, callerVars
  <2>3. PlacesOK'
    BY <1>1, TypeParts DEF IInv, PlacesOK, Call, exchangeVars, callerVars
  <2> QED
    BY <2>2, <2>3, TypeParts
<1>4. Begun'
  BY <1>1, <1>2 DEF IInv, Begun
<1>5. Inside'
  BY <1>1, <1>2 DEF IInv, Inside
<1>6. Pending'
  BY <1>1, <1>2 DEF IInv, Pending
<1>7. HalfWay'
  BY <1>1 DEF HalfWay
<1> QED
  BY <1>3, <1>4, <1>5, <1>6, <1>7 DEF IInv

LEMMA AdvanceKeeps ==
  ASSUME IInv, Advance
  PROVE  IInv'
<1>1. /\ argv' = argv /\ initialized' = initialized /\ pc = "advance"
      /\ optind' = optind /\ nextchar' = nextchar
      /\ pc' \in {"settle", "element"}
      /\ last_nonopt' = Min({last_nonopt, optind})
      /\ first_nonopt' = Min({first_nonopt, optind})
  BY DEF Advance, Scanning
<1>2. /\ argc \in Nat /\ argc' = argc /\ optind \in Nat
      /\ first_nonopt \in Nat /\ last_nonopt \in Nat
  BY <1>1, NaturalsOK DEF IInv, argc
<1>3. /\ initialized /\ optind >= 1
      /\ first_nonopt >= 1 /\ last_nonopt >= 1
      /\ first_nonopt <= last_nonopt
      /\ optind <= argc
      /\ nextchar = <<>>
  BY <1>1 DEF IInv, Begun, Inside, Pending
<1>4. /\ last_nonopt' \in {last_nonopt, optind}
      /\ last_nonopt' <= last_nonopt /\ last_nonopt' <= optind
      /\ first_nonopt' \in {first_nonopt, optind}
      /\ first_nonopt' <= first_nonopt /\ first_nonopt' <= optind
  <2>1. /\ {last_nonopt, optind} \subseteq Nat
        /\ {first_nonopt, optind} \subseteq Nat
    BY <1>2
  <2> QED
    BY <1>1, <2>1, MinOf
<1>5. TypeOK'
  <2>1. TextsOK'
    BY TypeParts DEF IInv, TextsOK, Advance, Scanning, callerVars
  <2>2. PlacesOK'
    BY <1>1, <1>2, <1>4, TypeParts
       DEF IInv, PlacesOK, Advance, Scanning, exchangeVars, callerVars
  <2> QED
    BY <2>1, <2>2, TypeParts
<1>6. Begun'
  BY <1>1, <1>2, <1>3, <1>4 DEF Begun
<1>7. Inside'
  BY <1>1, <1>2, <1>3, <1>4 DEF Inside
<1>8. Pending' /\ HalfWay'
  BY <1>1, <1>3 DEF Pending, HalfWay
<1> QED
  BY <1>5, <1>6, <1>7, <1>8 DEF IInv

\* What Settle and DoubleDashEnds start, if there are words to be moved.
LEMMA ExchangeStarts ==
  ASSUME IInv, pc \in {"settle", "element"}, nextchar' = nextchar,
         NEW end \in Nat, end = optind', optind <= end, end <= argc,
         NEW next \in {"skip", "finish"}, ExchangeThen(end, next),
         argv' = argv, initialized' = initialized, optarg' = optarg,
         optopt' = optopt, optc' = optc, UNCHANGED callerVars, lost' = lost
  PROVE  IInv'
<1>1. /\ pc' = "exchange" /\ before' = argv /\ then' = next
      /\ bottom' = first_nonopt /\ middle' = last_nonopt /\ top' = end
      /\ first_nonopt' = first_nonopt /\ last_nonopt' = last_nonopt
  BY DEF ExchangeThen, nonopts
<1>2. TextsOK /\ PlacesOK
  BY TypeParts DEF IInv
<1>3. /\ argc \in Nat /\ argc' = argc /\ optind \in Nat
      /\ first_nonopt \in Nat /\ last_nonopt \in Nat
  BY NaturalsOK DEF IInv, argc
<1>4. /\ initialized /\ optind >= 1
      /\ first_nonopt >= 1 /\ last_nonopt >= 1
      /\ first_nonopt <= last_nonopt
      /\ first_nonopt <= optind /\ last_nonopt <= optind
      /\ nextchar = <<>>
  BY DEF IInv, Begun, Inside, Pending
<1>5. TypeOK'
  <2>1. TextsOK'
    BY <1>2 DEF TextsOK, callerVars
  <2>2. PlacesOK'
    BY <1>1, <1>2, <1>3 DEF PlacesOK, callerVars
  <2> QED
    BY <2>1, <2>2, TypeParts
<1>6. Begun'
  BY <1>1, <1>3, <1>4 DEF Begun
<1>7. Inside'
  BY <1>1, <1>3, <1>4 DEF Inside
<1>8. Pending'
  BY <1>1, <1>4 DEF Pending
<1>9. HalfWay'
  <2>1. argv \in Seq(Seq(Tokens))
    BY <1>2 DEF TextsOK
  <2>2. Rotated(argv, bottom, middle, top)'
          = Rotated(before, first_nonopt, last_nonopt, optind)'
    BY <1>1
  <2> QED
    BY <1>1, <1>3, <1>4, <2>1, <2>2 DEF HalfWay
<1> QED
  BY <1>5, <1>6, <1>7, <1>8, <1>9 DEF IInv

\* A step from one element to the next that moves no words.
LEMMA StepKeeps ==
  ASSUME IInv, pc \in {"settle", "exchange", "skip", "element", "finish"},
         pc' \in {"skip", "element", "finish"}, Scanning,
         nextchar' = nextchar, optarg' = optarg, optopt' = optopt,
         optc' = optc, lost' = lost,
         optind' \in optind .. argc,
         first_nonopt' \in 1 .. optind', last_nonopt' \in 1 .. optind',
         pc' = "element" => first_nonopt' <= last_nonopt'
  PROVE  IInv'
<1>1. /\ argv' = argv /\ initialized' = initialized
      /\ UNCHANGED exchangeVars /\ UNCHANGED callerVars
  BY DEF Scanning
<1>2. TextsOK /\ PlacesOK
  BY TypeParts DEF IInv
<1>3. argc \in Nat /\ argc' = argc /\ optind \in Nat
  BY <1>1, NaturalsOK DEF IInv, argc
<1>4. initialized /\ optind >= 1 /\ nextchar = <<>>
  BY DEF IInv, Begun, Pending
<1>5. TypeOK'
  <2>1. TextsOK'
    BY <1>1, <1>2 DEF TextsOK, callerVars
  <2>2. optind' \in Nat /\ first_nonopt' \in Nat /\ last_nonopt' \in Nat
    BY <1>3
  <2>3. PlacesOK'
    BY <1>1, <1>2, <2>2 DEF PlacesOK, exchangeVars, callerVars
  <2> QED
    BY <2>1, <2>3, TypeParts
<1>6. Begun'
  BY <1>1, <1>3, <1>4 DEF Begun
<1>7. Inside'
  BY <1>3 DEF Inside
<1>8. Pending' /\ HalfWay'
  BY <1>4 DEF Pending, HalfWay
<1> QED
  BY <1>5, <1>6, <1>7, <1>8 DEF IInv

\* What the invariant says of a state between two elements.
LEMMA AtStep ==
  ASSUME IInv, pc \notin {"caller", "advance"}
  PROVE  /\ argc \in Nat /\ argc = Len(argv) + 1 /\ Len(argv) \in Nat
         /\ optind \in 1 .. argc
         /\ first_nonopt \in 1 .. optind /\ last_nonopt \in 1 .. optind
         /\ pc \notin {"skip", "finish"} => first_nonopt <= last_nonopt
<1>1. /\ argc \in Nat /\ argc = Len(argv) + 1 /\ Len(argv) \in Nat
      /\ optind \in Nat /\ first_nonopt \in Nat /\ last_nonopt \in Nat
  BY NaturalsOK DEF IInv
<1>2. /\ initialized /\ optind >= 1
      /\ first_nonopt >= 1 /\ last_nonopt >= 1
      /\ pc \notin {"skip", "finish"} => first_nonopt <= last_nonopt
  BY DEF IInv, Begun
<1>3. optind <= argc /\ first_nonopt <= optind /\ last_nonopt <= optind
  BY DEF IInv, Inside
<1> QED
  BY <1>1, <1>2, <1>3

LEMMA SettleKeeps ==
  ASSUME IInv, Settle
  PROVE  IInv'
<1>1. /\ pc = "settle"
      /\ UNCHANGED <<argv, optind, nextchar, initialized, optarg, optopt, optc,
                     callerVars, lost>>
  BY DEF Settle
<1>2. /\ argc \in Nat /\ optind \in 1 .. argc
      /\ first_nonopt \in 1 .. optind /\ last_nonopt \in 1 .. optind
  BY <1>1, AtStep
<1>3. CASE first_nonopt # last_nonopt /\ last_nonopt # optind
  <2>1. ExchangeThen(optind, "skip")
    BY <1>3 DEF Settle
  <2>2. optind \in Nat /\ optind = optind' /\ optind <= argc
    BY <1>1, <1>2
  <2> QED
    BY <1>1, <2>1, <2>2, ExchangeStarts
<1>4. CASE ~(first_nonopt # last_nonopt /\ last_nonopt # optind)
  <2>1. /\ first_nonopt' =
             IF last_nonopt # optind THEN optind ELSE first_nonopt
        /\ pc' = "skip" /\ last_nonopt' = last_nonopt
        /\ UNCHANGED exchangeVars
    BY <1>4 DEF Settle
  <2>2. /\ optind' \in optind .. argc /\ last_nonopt' \in 1 .. optind'
        /\ first_nonopt' \in 1 .. optind'
    BY <1>1, <1>2, <2>1
  <2>3. Scanning
    BY <1>1, <2>1 DEF Scanning
  <2> QED
    BY <1>1, <2>1, <2>2, <2>3, StepKeeps
<1> QED
  BY <1>3, <1>4

LEMMA DoubleDashKeeps ==
  ASSUME IInv, DoubleDashEnds
  PROVE  IInv'
<1>1. /\ pc = "element" /\ optind < argc /\ optind' = optind + 1
      /\ UNCHANGED <<argv, nextchar, initialized, optarg, optopt, optc,
                     callerVars, lost>>
  BY DEF DoubleDashEnds
<1>2. /\ argc \in Nat /\ optind \in 1 .. argc
      /\ first_nonopt \in 1 .. optind /\ last_nonopt \in 1 .. optind
  BY <1>1, AtStep
<1>3. CASE first_nonopt # last_nonopt /\ last_nonopt # optind'
  <2>1. ExchangeThen(optind', "finish")
    BY <1>3 DEF DoubleDashEnds
  <2>2. PICK end \in Nat : end = optind'
    BY <1>1, <1>2
  <2>3. optind <= end /\ end <= argc /\ ExchangeThen(end, "finish")
    BY <1>1, <1>2, <2>1, <2>2
  <2> QED
    BY <1>1, <2>2, <2>3, ExchangeStarts
<1>4. CASE ~(first_nonopt # last_nonopt /\ last_nonopt # optind')
  <2>1. /\ first_nonopt' \in {optind', first_nonopt}
        /\ pc' = "finish" /\ last_nonopt' = last_nonopt
        /\ UNCHANGED exchangeVars
    BY <1>4 DEF DoubleDashEnds
  <2>2. /\ optind' \in optind .. argc /\ last_nonopt' \in 1 .. optind'
        /\ first_nonopt' \in 1 .. optind'
    BY <1>1, <1>2, <2>1
  <2>3. Scanning
    BY <1>1, <2>1 DEF Scanning
  <2> QED
    BY <1>1, <2>1, <2>2, <2>3, StepKeeps
<1> QED
  BY <1>3, <1>4

LEMMA SkipKeeps ==
  ASSUME IInv, Skip
  PROVE  IInv'
<1> DEFINE Ends == {i \in optind .. argc : i = argc \/ ~IsWord(argv[i])}
<1>1. /\ pc = "skip" /\ pc' = "element" /\ Scanning
      /\ optind' = Min(Ends) /\ last_nonopt' = optind'
      /\ UNCHANGED <<first_nonopt, nextchar, optarg, optopt, optc, lost>>
  BY DEF Skip
<1>2. /\ argc \in Nat /\ optind \in 1 .. argc
      /\ first_nonopt \in 1 .. optind
  BY <1>1, AtStep
<1>3. Ends \in SUBSET Nat /\ argc \in Ends
  BY <1>2
<1>4. optind' \in optind .. argc
  <2>1. Min(Ends) \in Ends
    BY <1>3, MinOf
  <2> QED
    BY <1>1, <2>1
<1>5. /\ first_nonopt' \in 1 .. optind' /\ last_nonopt' \in 1 .. optind'
      /\ first_nonopt' <= last_nonopt'
  BY <1>1, <1>2, <1>4
<1> QED
  BY <1>1, <1>4, <1>5, StepKeeps

LEMMA FinishKeeps ==
  ASSUME IInv, Finish
  PROVE  IInv'
<1>1. /\ pc = "finish" /\ pc' = "element" /\ Scanning
      /\ optind' = argc /\ last_nonopt' = argc
      /\ UNCHANGED <<first_nonopt, nextchar, optarg, optopt, optc, lost>>
  BY DEF Finish
<1>2. /\ argc \in Nat /\ optind \in 1 .. argc
      /\ first_nonopt \in 1 .. optind
  BY <1>1, AtStep
<1>3. /\ optind' \in optind .. argc
      /\ first_nonopt' \in 1 .. optind' /\ last_nonopt' \in 1 .. optind'
      /\ first_nonopt' <= last_nonopt'
  BY <1>1, <1>2
<1> QED
  BY <1>1, <1>3, StepKeeps

LEMMA ExchangeEndsKeeps ==
  ASSUME IInv, ExchangeEnds
  PROVE  IInv'
<1>1. /\ pc = "exchange" /\ pc' = then /\ Scanning
      /\ first_nonopt' = first_nonopt + (optind - last_nonopt)
      /\ last_nonopt' = optind
      /\ UNCHANGED <<optind, nextchar, optarg, optopt, optc, lost>>
  BY DEF ExchangeEnds
<1>2. then \in {"skip", "finish"}
  BY TypeParts DEF IInv, PlacesOK
<1>3. /\ argc \in Nat /\ optind \in 1 .. argc
      /\ first_nonopt \in 1 .. optind /\ last_nonopt \in 1 .. optind
      /\ first_nonopt <= last_nonopt
  BY <1>1, AtStep
<1>4. /\ optind' \in optind .. argc
      /\ first_nonopt' \in 1 .. optind' /\ last_nonopt' \in 1 .. optind'
  BY <1>1, <1>3
<1> QED
  BY <1>1, <1>2, <1>4, StepKeeps

\* A turn of the loop of exchange() leaves the rest to be exchanged.
LEMMA SwapKeeps ==
  ASSUME IInv, SwapBottom \/ SwapTop
  PROVE  IInv'
<1>1. /\ pc = "exchange" /\ bottom < middle /\ middle < top
      /\ UNCHANGED <<optind, first_nonopt, last_nonopt, nextchar, initialized,
                     optarg, optopt, optc, pc, before, conf, lost>>
      /\ UNCHANGED <<then, scans>> /\ middle' = middle
  BY DEF SwapBottom, SwapTop, Exchanging, inExchange, nonopts, callerVars
<1>2. TextsOK /\ PlacesOK
  BY TypeParts DEF IInv
<1>3. /\ argc \in Nat /\ argc = Len(argv) + 1 /\ Len(argv) \in Nat
      /\ optind \in 1 .. argc /\ first_nonopt \in 1 .. optind
  BY <1>1, AtStep
<1>4. /\ before \in Seq(Seq(Tokens))
      /\ first_nonopt <= bottom /\ bottom <= middle
      /\ middle = last_nonopt /\ middle <= top /\ top <= optind
      /\ Rotated(argv, bottom, middle, top) =
           Rotated(before, first_nonopt, last_nonopt, optind)
  BY <1>1 DEF IInv, HalfWay
<1>5. bottom \in Nat /\ middle \in Nat /\ top \in Nat
  BY <1>2 DEF PlacesOK
<1>6. /\ argv \in Seq(Seq(Tokens))
      /\ 1 <= bottom /\ top <= Len(argv) + 1
  <2>1. argv \in Seq(Seq(Tokens))
    BY <1>2 DEF TextsOK
  <2>2. 1 <= bottom /\ top <= Len(argv) + 1
    BY <1>3, <1>4, <1>5
  <2> QED
    BY <2>1, <2>2
<1>7. /\ argv' \in Seq(Seq(Tokens)) /\ Len(argv') = Len(argv)
      /\ Rotated(argv', bottom', middle, top') =
           Rotated(argv, bottom, middle, top)
      /\ bottom' \in Nat /\ top' \in Nat
      /\ bottom <= bottom' /\ bottom' <= middle
      /\ middle <= top' /\ top' <= top
  <2>1. CASE SwapBottom
    <3>1. /\ top - middle > middle - bottom
          /\ argv' = Swapped(bottom, top - (middle - bottom), middle - bottom)
          /\ top' = top - (middle - bottom) /\ bottom' = bottom
      BY <2>1 DEF SwapBottom
    <3>2. /\ bottom' \in Nat /\ top' \in Nat
          /\ bottom <= bottom' /\ bottom' <= middle
          /\ middle <= top' /\ top' <= top
      BY <1>1, <1>5, <3>1
    <3>3. /\ argv' \in Seq(Seq(Tokens)) /\ Len(argv') = Len(argv)
          /\ Rotated(argv', bottom, middle, top - (middle - bottom)) =
               Rotated(argv, bottom, middle, top)
      BY <1>1, <1>5, <1>6, <3>1, SwapsBottom
    <3> QED
      BY <3>1, <3>2, <3>3
  <2>2. CASE SwapTop
    <3>1. /\ top - middle <= middle - bottom
          /\ argv' = Swapped(bottom, middle, top - middle)
          /\ bottom' = bottom + (top - middle) /\ top' = top
      BY <2>2 DEF SwapTop
    <3>2. /\ bottom' \in Nat /\ top' \in Nat
          /\ bottom <= bottom' /\ bottom' <= middle
          /\ middle <= top' /\ top' <= top
      BY <1>1, <1>5, <3>1
    <3>3. /\ argv' \in Seq(Seq(Tokens)) /\ Len(argv') = Len(argv)
          /\ Rotated(argv', bottom + (top - middle), middle, top) =
               Rotated(argv, bottom, middle, top)
      BY <1>1, <1>5, <1>6, <3>1, SwapsTop
    <3> QED
      BY <3>1, <3>2, <3>3
  <2> QED
    BY <2>1, <2>2
<1>8. argc' = argc
  BY <1>7 DEF argc
<1>9. TypeOK'
  <2>1. TextsOK'
    BY <1>1, <1>2, <1>7 DEF TextsOK
  <2>2. PlacesOK'
    BY <1>1, <1>2, <1>7 DEF PlacesOK
  <2> QED
    BY <2>1, <2>2, TypeParts
<1>10. Begun' /\ Inside' /\ Pending'
  BY <1>1, <1>8 DEF IInv, Begun, Inside, Pending
<1>11. HalfWay'
  <2>1. (Rotated(argv, bottom, middle, top) =
           Rotated(before, first_nonopt, last_nonopt, optind))'
    BY <1>1, <1>4, <1>7
  <2>2. (/\ first_nonopt <= bottom /\ bottom <= middle
         /\ middle = last_nonopt /\ middle <= top /\ top <= optind)'
    BY <1>1, <1>3, <1>4, <1>5, <1>7
  <2> QED
    BY <1>1, <1>4, <2>1, <2>2 DEF HalfWay
<1> QED
  BY <1>9, <1>10, <1>11 DEF IInv

LEMMA OptionElementKeeps ==
  ASSUME IInv, OptionElement
  PROVE  IInv'
<1> DEFINE arg == argv[optind]
           start == IF HasLongs /\ arg[2] = "-" THEN 3 ELSE 2
<1>1. /\ pc = "element" /\ pc' = "decode" /\ Scanning
      /\ optind < argc /\ arg # DoubleDash /\ ~IsWord(arg)
      /\ nextchar' = SubSeq(arg, start, Len(arg))
      /\ UNCHANGED <<optind, nonopts, optarg, optopt, optc, lost>>
  BY DEF OptionElement, AtElement
<1>2. TextsOK /\ PlacesOK
  BY TypeParts DEF IInv
<1>3. /\ argc \in Nat /\ argc = Len(argv) + 1 /\ Len(argv) \in Nat
      /\ optind \in 1 .. argc
      /\ first_nonopt \in 1 .. optind /\ last_nonopt \in 1 .. optind
      /\ first_nonopt <= last_nonopt
  BY <1>1, AtStep
<1>4. arg \in Seq(Tokens)
  <2>1. argv \in Seq(Seq(Tokens))
    BY <1>2 DEF TextsOK
  <2>2. optind \in 1 .. Len(argv)
    BY <1>1, <1>3
  <2> QED
    BY <2>1, <2>2, ElementOfSeq
<1>5. Len(arg) \in Nat /\ Len(arg) >= 2 /\ arg[1] = "-"
  BY <1>1, <1>4, LenProperties DEF IsWord
<1>6. start \in 2 .. Len(arg)
  <2>1. CASE Len(arg) = 2
    <3>1. arg[2] # "-"
      <4>1. DoubleDash = <<"-", "-">> /\ Len(DoubleDash) = 2
        BY DEF DoubleDash
      <4>2. ASSUME arg[2] = "-" PROVE FALSE
        <5>1. "-" \in Tokens
          BY <1>4, <1>5, ElementOfSeq
        <5>2. DoubleDash \in Seq(Tokens)
          BY <5>1 DEF DoubleDash
        <5>3. \A i \in 1 .. Len(arg) : arg[i] = DoubleDash[i]
          BY <1>5, <2>1, <4>2 DEF DoubleDash
        <5>4. arg = DoubleDash
          BY <1>4, <2>1, <4>1, <5>2, <5>3, SeqEqual
        <5> QED
          BY <1>1, <5>4
      <4> QED
        BY <4>2
    <3> QED
      BY <2>1, <3>1
  <2>2. CASE Len(arg) # 2
    <3>1. start \in {2, 3}
      OBVIOUS
    <3> HIDE DEF start, arg
    <3> QED
      BY SMTT(30), <1>5, <2>2, <3>1
  <2> QED
    BY <2>1, <2>2
<1>7. nextchar' \in Seq(Tokens) /\ nextchar' # <<>>
  <2> HIDE DEF start, arg
  <2>1. \A i \in start .. Len(arg) : arg[i] \in Tokens
    BY <1>4, <1>5, <1>6, ElementOfSeq
  <2>2. /\ SubSeq(arg, start, Len(arg)) \in Seq(Tokens)
        /\ Len(SubSeq(arg, start, Len(arg))) = Len(arg) - start + 1
    BY <1>5, <1>6, <2>1, SubSeqProperties
  <2>3. Len(arg) - start + 1 # 0
    BY <1>5, <1>6
  <2>4. Len(<<>>) = 0
    BY EmptySeq
  <2> QED
    BY <1>1, <2>2, <2>3, <2>4
<1> HIDE DEF start, arg
<1>8. /\ argv' = argv /\ argc' = argc /\ initialized' = initialized
      /\ first_nonopt' = first_nonopt /\ last_nonopt' = last_nonopt
      /\ optind' = optind
  BY <1>1 DEF Scanning, nonopts, argc
<1>9. TypeOK'
  <2>1. TextsOK'
    BY <1>1, <1>2, <1>7, <1>8 DEF TextsOK, Scanning, callerVars
  <2>2. PlacesOK'
    BY <1>1, <1>2, <1>8 DEF PlacesOK, Scanning, exchangeVars, callerVars
  <2> QED
    BY <2>1, <2>2, TypeParts
<1>10. initialized
  BY <1>1 DEF IInv, Begun
<1>11. Begun' /\ Inside'
  BY <1>1, <1>3, <1>8, <1>10 DEF Begun, Inside
<1>12. Pending'
  BY <1>1, <1>3, <1>7, <1>8, <1>10 DEF Pending
<1>13. HalfWay'
  BY <1>1 DEF HalfWay
<1> QED
  BY <1>9, <1>11, <1>12, <1>13 DEF IInv

(***************************************************************************)
(* The steps that end a call.                                              *)
(***************************************************************************)
LEMMA ResultsOK ==
  /\ {"?", ":", "end", "word"} \subseteq Results
  /\ MissingArgument \in Results \ {"end", "word"}
  /\ "?" \in Results \ {"end", "word"}
BY DEF Results, Marks, MissingArgument

\* A call that ends between two elements leaves nothing of an element.
LEMMA ElementReturns ==
  ASSUME IInv, ScanEnds \/ WordStops \/ WordIsReturned
  PROVE  Returns
<1>1. /\ pc = "element" /\ pc' = "caller" /\ Scanning /\ UNCHANGED nonopts
      /\ nextchar' = nextchar /\ optopt' = optopt /\ lost' = lost
      /\ optc' \in {"end", "word"}
  BY DEF ScanEnds, WordStops, WordIsReturned, AtElement, Return, ReturnFor
<1>2. TextsOK /\ PlacesOK
  BY TypeParts DEF IInv
<1>3. /\ argc \in Nat /\ argc = Len(argv) + 1 /\ Len(argv) \in Nat
      /\ optind \in 1 .. argc
      /\ first_nonopt \in 1 .. optind
  BY <1>1, AtStep
<1>4. nextchar = <<>>
  BY <1>1 DEF IInv, Pending
<1>5. optind' \in 1 .. argc /\ Optarg(optarg')
  <2>1. CASE ScanEnds \/ WordStops
    <3>1. optind' \in {first_nonopt, optind} /\ optarg' = optarg
      BY <2>1 DEF ScanEnds, WordStops
    <3>2. Optarg(optarg')
      BY <1>2, <3>1 DEF TextsOK
    <3> QED
      BY <1>3, <3>1, <3>2
  <2>2. CASE WordIsReturned
    <3>1. /\ optind < argc /\ optind' = optind + 1
          /\ optarg' = <<argv[optind]>>
      BY <2>2 DEF WordIsReturned, AtElement
    <3>2. argv \in Seq(Seq(Tokens))
      BY <1>2 DEF TextsOK
    <3>3. argv[optind] \in Seq(Tokens)
      BY <1>3, <3>1, <3>2, ElementOfSeq
    <3>4. Optarg(optarg')
      BY <3>1, <3>3 DEF Optarg
    <3> QED
      BY <1>3, <3>1, <3>4
  <2> QED
    BY <2>1, <2>2
<1>6. optc' \in Results
  BY <1>1, ResultsOK
<1>7. /\ nextchar' \in Seq(Tokens) /\ optopt' \in Tokens \cup {""}
      /\ lost' \in BOOLEAN
  BY <1>1, <1>2 DEF TextsOK, PlacesOK
<1>8. optind' \in Nat /\ optind' <= argc
  BY <1>3, <1>5
<1> QED
  BY <1>1, <1>4, <1>5, <1>6, <1>7, <1>8 DEF Returns

\* What the invariant says of a state in which an option is decoded.
LEMMA AtOption ==
  ASSUME IInv, pc = "decode"
  PROVE  /\ TextsOK /\ PlacesOK
         /\ argc \in Nat /\ optind \in 1 .. argc - 1
         /\ \A i \in 1 .. argc - 1 : Optarg(<<argv[i]>>)
         /\ \A i \in 1 .. argc - 1 : argv[i] \in Seq(Tokens)
         /\ Letter \in Tokens /\ Rest \in Seq(Tokens)
         /\ Rest = <<>> => After = optind + 1
         /\ Rest # <<>> => After = optind
<1>1. TextsOK /\ PlacesOK
  BY TypeParts DEF IInv
<1>2. argc \in Nat /\ argc = Len(argv) + 1 /\ Len(argv) \in Nat
  BY AtStep
<1>3. nextchar # <<>> /\ optind \in 1 .. argc - 1
  BY DEF IInv, Pending
<1>4. nextchar \in Seq(Tokens) /\ argv \in Seq(Seq(Tokens))
  BY <1>1 DEF TextsOK
<1>5. \A i \in 1 .. argc - 1 : argv[i] \in Seq(Tokens)
  BY <1>2, <1>4, ElementOfSeq
<1>6. \A i \in 1 .. argc - 1 : Optarg(<<argv[i]>>)
  BY <1>5 DEF Optarg
<1>7. Letter \in Tokens /\ Rest \in Seq(Tokens)
  BY <1>3, <1>4 DEF Letter, Rest
<1> QED
  BY <1>1, <1>2, <1>3, <1>5, <1>6, <1>7 DEF After

\* A call that has consumed the element.
LEMMA OptionReturns ==
  ASSUME IInv, pc = "decode", pc' = "caller", Scanning, UNCHANGED nonopts,
         nextchar' = <<>>,
         optind' \in Nat, optind' <= argc \/ lost', Optarg(optarg'),
         optopt' \in Tokens \cup {""}, optc' \in Results, lost' \in BOOLEAN
  PROVE  Returns
<1>1. nextchar' \in Seq(Tokens)
  BY EmptySeq
<1> QED
  BY <1>1 DEF Returns

LEMMA LongReturns ==
  ASSUME IInv,
         \/ LongAmbiguous \/ LongTakesNoArgument \/ LongLacksArgument
         \/ LongAlone \/ LongWithValue \/ LongWithNext \/ LongUnknown
  PROVE  Returns
<1>1. /\ pc = "decode" /\ pc' = "caller" /\ Scanning /\ UNCHANGED nonopts
      /\ nextchar' = <<>> /\ lost' = lost
  BY DEF LongAmbiguous, LongTakesNoArgument, LongLacksArgument, LongAlone,
         LongWithValue, LongWithNext, LongUnknown, LongFound, Decoding, Return,
         ReturnFor
<1>2. /\ TextsOK /\ PlacesOK
      /\ argc \in Nat /\ optind \in 1 .. argc - 1
      /\ \A i \in 1 .. argc - 1 : Optarg(<<argv[i]>>)
  BY <1>1, AtOption
<1>3. /\ IsConfig(conf) /\ nextchar \in Seq(Tokens)
      /\ Optarg(optarg) /\ optopt \in Tokens \cup {""} /\ lost \in BOOLEAN
  BY <1>2 DEF TextsOK, PlacesOK
<1>4. CASE LongAmbiguous \/ LongUnknown
  <2>0. optind' = optind + 1
    BY <1>4 DEF LongAmbiguous, LongUnknown
  <2>1. optarg' = optarg /\ optopt' = "" /\ optc' = "?"
    BY <1>4 DEF LongAmbiguous, LongUnknown, Return, ReturnFor
  <2>2. optind' \in Nat /\ optind' <= argc
    BY <1>2, <2>0
  <2> QED
    BY <1>1, <1>3, <2>1, <2>2, ResultsOK, OptionReturns
<1>5. CASE LongTakesNoArgument \/ LongLacksArgument
  <2>0. optind' = optind + 1
    BY <1>5 DEF LongTakesNoArgument, LongLacksArgument
  <2>1. /\ optarg' = optarg
        /\ optopt' = Found(nextchar).val /\ Matches(nextchar) # {}
        /\ optc' \in {"?", MissingArgument}
    BY <1>5 DEF LongTakesNoArgument, LongLacksArgument, LongFound, Return,
                ReturnFor
  <2>2. Found(nextchar).val \in Tokens
    BY <1>3, <2>1, FoundOK
  <2>3. optind' \in Nat /\ optind' <= argc
    BY <1>2, <2>0
  <2> QED
    BY <1>1, <1>3, <2>1, <2>2, <2>3, ResultsOK, OptionReturns
<1>6. CASE LongAlone \/ LongWithValue
  <2>1. /\ optind' = optind + 1 /\ optopt' = optopt
        /\ Matches(nextchar) # {}
        /\ optc' = Value(Found(nextchar))
        /\ \/ optarg' = optarg
           \/ HasValue(nextchar) /\ optarg' = <<ValueOf(nextchar)>>
    BY <1>6 DEF LongAlone, LongWithValue, LongFound, Return, ReturnFor
  <2>2. optc' \in Results
    BY <1>3, <2>1, FoundOK
  <2>3. Optarg(optarg')
    <3>1. HasValue(nextchar) => Optarg(<<ValueOf(nextchar)>>)
      BY <1>3, TextOK DEF Optarg
    <3> QED
      BY <1>3, <2>1, <3>1
  <2>4. optind' \in Nat /\ optind' <= argc
    BY <1>2, <2>1
  <2> QED
    BY <1>1, <1>3, <2>1, <2>2, <2>3, <2>4, OptionReturns
<1>7. CASE LongWithNext
  <2>1. /\ optind' = optind + 2 /\ optopt' = optopt /\ optind + 1 < argc
        /\ Matches(nextchar) # {}
        /\ optc' = Value(Found(nextchar))
        /\ optarg' = <<argv[optind + 1]>>
    BY <1>7 DEF LongWithNext, LongFound, Return, ReturnFor
  <2>2. optc' \in Results
    BY <1>3, <2>1, FoundOK
  <2>3. optind + 1 \in 1 .. argc - 1 /\ optind' \in Nat /\ optind' <= argc
    BY <1>2, <2>1
  <2>4. Optarg(optarg')
    BY <1>2, <2>1, <2>3
  <2> QED
    BY <1>1, <1>3, <2>1, <2>2, <2>3, <2>4, OptionReturns
<1> QED
  BY <1>4, <1>5, <1>6, <1>7

LEMMA ShortReturns ==
  ASSUME IInv,
         \/ ShortUnknown \/ ShortAlone \/ ShortOptional \/ ShortWithRest
         \/ ShortWithNext \/ ShortLacksArgument
  PROVE  Returns
<1>1. /\ pc = "decode" /\ pc' = "caller" /\ Scanning /\ UNCHANGED nonopts
      /\ lost' = lost
  BY DEF ShortUnknown, ShortAlone, ShortOptional, ShortWithRest, ShortWithNext,
         ShortLacksArgument, ShortIs, Short, Decoding, Return, ReturnFor
<1>2. /\ TextsOK /\ PlacesOK
      /\ argc \in Nat /\ optind \in 1 .. argc - 1
      /\ \A i \in 1 .. argc - 1 : Optarg(<<argv[i]>>)
      /\ Letter \in Tokens /\ Rest \in Seq(Tokens)
      /\ Rest = <<>> => After = optind + 1
      /\ Rest # <<>> => After = optind
  BY <1>1, AtOption
<1>3. /\ IsConfig(conf)
      /\ Optarg(optarg) /\ optopt \in Tokens \cup {""} /\ lost \in BOOLEAN
  BY <1>2 DEF TextsOK, PlacesOK
<1>4. HasShort(Letter) => Letter \in Results \ {"end", "word"}
  BY <1>3 DEF IsConfig, HasShort, Results, Marks
<1>5. Optarg(<<Rest>>) /\ Optarg(<<>>)
  BY <1>2 DEF Optarg
<1>6. CASE ShortUnknown \/ ShortAlone
  <2>1. /\ nextchar' = Rest /\ optind' = After /\ optarg' = optarg
        /\ optopt' \in {optopt, Letter}
        /\ optc' = "?" \/ (HasShort(Letter) /\ optc' = Letter)
    BY <1>6 DEF ShortUnknown, ShortAlone, ShortIs, Return, ReturnFor
  <2>2. optc' \in Results \ {"end", "word"}
    BY <1>4, <2>1, ResultsOK
  <2>3. optind' \in Nat /\ optind' <= argc
    BY <1>2, <2>1
  <2>4. nextchar' # <<>> => optind' \in optind .. argc - 1
    BY <1>2, <2>1
  <2>5. optc' # "end" /\ optc' \in Results
    BY <2>2 DEF Marks
  <2>6. optopt' \in Tokens \cup {""} /\ nextchar' \in Seq(Tokens)
    BY <1>2, <1>3, <2>1
  <2> QED
    BY <1>1, <1>3, <2>1, <2>3, <2>4, <2>5, <2>6 DEF Returns
<1>7. CASE ShortOptional \/ ShortWithRest
  <2>1. /\ nextchar' = <<>> /\ optind' = optind + 1 /\ optopt' = optopt
        /\ optarg' \in {<<Rest>>, <<>>}
        /\ HasShort(Letter) /\ optc' = Letter
    BY <1>7 DEF ShortOptional, ShortWithRest, ShortIs, Return, ReturnFor
  <2>2. optind' \in Nat /\ optind' <= argc
    BY <1>2, <2>1
  <2> QED
    BY <1>1, <1>3, <1>4, <1>5, <2>1, <2>2, OptionReturns
<1>8. CASE ShortWithNext
  <2>1. /\ nextchar' = <<>> /\ optind' = optind + 2 /\ optopt' = optopt
        /\ Rest = <<>> /\ After < argc /\ optarg' = <<argv[After]>>
        /\ HasShort(Letter) /\ optc' = Letter
    BY <1>8 DEF ShortWithNext, ShortIs, Return, ReturnFor
  <2>2. After \in 1 .. argc - 1 /\ optind' \in Nat /\ optind' <= argc
    BY <1>2, <2>1
  <2>3. Optarg(optarg')
    BY <1>2, <2>1, <2>2
  <2> QED
    BY <1>1, <1>3, <1>4, <2>1, <2>2, <2>3, OptionReturns
<1>9. CASE ShortLacksArgument
  <2>1. /\ nextchar' = <<>> /\ optind' = optind + 1 /\ optopt' = Letter
        /\ optarg' = optarg /\ optc' = MissingArgument
    BY <1>9 DEF ShortLacksArgument, Return, ReturnFor
  <2>2. optind' \in Nat /\ optind' <= argc
    BY <1>2, <2>1
  <2> QED
    BY <1>1, <1>2, <1>3, <2>1, <2>2, ResultsOK, OptionReturns
<1> QED
  BY <1>6, <1>7, <1>8, <1>9

LEMMA WReturns ==
  ASSUME IInv,
         \/ WIsReturned \/ WAmbiguous
         \/ WTakesNoArgument \/ WLacksArgument \/ WTaken
  PROVE  Returns
<1>1. /\ pc = "decode" /\ pc' = "caller" /\ Scanning /\ UNCHANGED nonopts
      /\ nextchar' = <<>> /\ optopt' = optopt
      /\ HasShort(Letter)
      /\ lost' = lost \/ lost' = TRUE
  BY DEF WIsReturned, WAmbiguous, WTakesNoArgument, WLacksArgument, WTaken,
         WFound, IsLongW, ReturnW, ShortIs, Short, Decoding, Return, ReturnFor
<1>2. /\ TextsOK /\ PlacesOK
      /\ argc \in Nat /\ optind \in 1 .. argc - 1
      /\ \A i \in 1 .. argc - 1 : Optarg(<<argv[i]>>)
      /\ \A i \in 1 .. argc - 1 : argv[i] \in Seq(Tokens)
      /\ Letter \in Tokens /\ Rest \in Seq(Tokens)
      /\ Rest = <<>> => After = optind + 1
      /\ Rest # <<>> => After = optind
  BY <1>1, AtOption
<1>3. /\ IsConfig(conf)
      /\ Optarg(optarg) /\ optopt \in Tokens \cup {""} /\ lost \in BOOLEAN
  BY <1>2 DEF TextsOK, PlacesOK
<1>4. Letter \in Results
  BY <1>2 DEF Results
<1>5. ASSUME IsLongW
      PROVE  TextW \in Seq(Tokens) /\ AfterW \in Nat /\ AfterW <= argc
  <2>1. CASE Rest # <<>>
    BY <1>2, <2>1 DEF TextW, AfterW
  <2>2. CASE Rest = <<>>
    <3>1. After < argc /\ After = optind + 1
      BY <1>2, <1>5, <2>2 DEF IsLongW
    <3>2. After \in 1 .. argc - 1 /\ optind + 2 \in Nat /\ optind + 2 <= argc
      BY <1>2, <3>1
    <3> QED
      BY <1>2, <2>2, <3>2 DEF TextW, AfterW
  <2> QED
    BY <2>1, <2>2
<1>6. CASE WIsReturned
  <2>1. /\ optc' = Letter /\ lost' = lost
        /\ \/ optind' = After /\ optarg' = optarg
           \/ IsLongW /\ optind' = AfterW /\ optarg' = <<TextW>>
    BY <1>6 DEF WIsReturned, Return, ReturnFor
  <2>2. CASE optind' = After /\ optarg' = optarg
    <3>1. optind' \in Nat /\ optind' <= argc
      BY <1>2, <2>2
    <3> QED
      BY <1>1, <1>3, <1>4, <2>1, <2>2, <3>1, OptionReturns
  <2>3. CASE IsLongW /\ optind' = AfterW /\ optarg' = <<TextW>>
    <3>1. optind' \in Nat /\ optind' <= argc /\ Optarg(optarg')
      BY <1>5, <2>3 DEF Optarg
    <3> QED
      BY <1>1, <1>3, <1>4, <2>1, <3>1, OptionReturns
  <2> QED
    BY <2>1, <2>2, <2>3
<1>7. CASE WAmbiguous
  <2>1. /\ IsLongW /\ optind' = AfterW + 1 /\ lost' = TRUE
        /\ optarg' = <<TextW>> /\ optc' = "?"
    BY <1>7 DEF WAmbiguous, ReturnW, ReturnFor
  <2>2. optind' \in Nat /\ Optarg(optarg')
    BY <1>5, <2>1 DEF Optarg
  <2> QED
    BY <1>1, <1>3, <2>1, <2>2, ResultsOK, OptionReturns
<1>8. CASE WTakesNoArgument \/ WLacksArgument
  <2>1. /\ IsLongW /\ optind' = AfterW /\ lost' = lost
        /\ optarg' = <<TextW>> /\ optc' \in {"?", MissingArgument}
    BY <1>8 DEF WTakesNoArgument, WLacksArgument, WFound, ReturnW, ReturnFor
  <2>2. optind' \in Nat /\ optind' <= argc /\ Optarg(optarg')
    BY <1>5, <2>1 DEF Optarg
  <2> QED
    BY <1>1, <1>3, <2>1, <2>2, ResultsOK, OptionReturns
<1>9. CASE WTaken
  <2>1. /\ IsLongW /\ lost' = lost /\ Matches(TextW) # {}
        /\ optc' = Value(Found(TextW))
        /\ \/ /\ HasValue(TextW)
              /\ optarg' = <<ValueOf(TextW)>> /\ optind' = AfterW
           \/ /\ AfterW < argc
              /\ optarg' = <<argv[AfterW]>> /\ optind' = AfterW + 1
           \/ optarg' = <<>> /\ optind' = AfterW
    BY <1>9 DEF WTaken, WFound, ReturnW, ReturnFor
  <2>2. TextW \in Seq(Tokens) /\ AfterW \in Nat /\ AfterW <= argc
    BY <1>5, <2>1
  <2>3. AfterW >= 1
    BY <1>2 DEF AfterW
  <2>4. optc' \in Results
    BY <1>3, <2>1, FoundOK
  <2>5. Optarg(<<>>) /\ (HasValue(TextW) => Optarg(<<ValueOf(TextW)>>))
    BY <2>2, TextOK DEF Optarg
  <2>6. AfterW < argc => Optarg(<<argv[AfterW]>>)
    BY <1>2, <2>2, <2>3
  <2>7. Optarg(optarg')
    BY <2>1, <2>5, <2>6
  <2>8. optind' \in Nat /\ optind' <= argc
    BY <1>2, <2>1, <2>2
  <2> QED
    BY <1>1, <1>3, <2>1, <2>4, <2>7, <2>8, OptionReturns
<1> QED
  BY <1>6, <1>7, <1>8, <1>9

(***************************************************************************)
(* The theorems.                                                           *)
(***************************************************************************)
LEMMA StepKeepsIInv ==
  ASSUME IInv, Step
  PROVE  IInv'
<1>1. CASE Advance
  BY <1>1, AdvanceKeeps
<1>2. CASE Settle
  BY <1>2, SettleKeeps
<1>3. CASE SwapBottom \/ SwapTop
  BY <1>3, SwapKeeps
<1>4. CASE ExchangeEnds
  BY <1>4, ExchangeEndsKeeps
<1>5. CASE Skip
  BY <1>5, SkipKeeps
<1>6. CASE DoubleDashEnds
  BY <1>6, DoubleDashKeeps
<1>7. CASE Finish
  BY <1>7, FinishKeeps
<1>8. CASE OptionElement
  BY <1>8, OptionElementKeeps
<1>9. CASE ScanEnds \/ WordStops \/ WordIsReturned
  <2>1. pc = "element"
    BY <1>9 DEF ScanEnds, WordStops, WordIsReturned, AtElement
  <2> QED
    BY <1>9, <2>1, ElementReturns, ReturnsKeeps
<1>10. CASE \/ LongAmbiguous \/ LongTakesNoArgument \/ LongLacksArgument
            \/ LongAlone \/ LongWithValue \/ LongWithNext \/ LongUnknown
  <2>1. pc = "decode"
    BY <1>10 DEF LongAmbiguous, LongTakesNoArgument, LongLacksArgument,
                 LongAlone, LongWithValue, LongWithNext, LongUnknown,
                 LongFound, Decoding
  <2> QED
    BY <1>10, <2>1, LongReturns, ReturnsKeeps
<1>11. CASE \/ ShortUnknown \/ ShortAlone \/ ShortOptional \/ ShortWithRest
            \/ ShortWithNext \/ ShortLacksArgument
  <2>1. pc = "decode"
    BY <1>11 DEF ShortUnknown, ShortAlone, ShortOptional, ShortWithRest,
                 ShortWithNext, ShortLacksArgument, ShortIs, Short, Decoding
  <2> QED
    BY <1>11, <2>1, ShortReturns, ReturnsKeeps
<1>12. CASE WIsReturned \/ WAmbiguous \/ WTakesNoArgument \/ WLacksArgument
            \/ WTaken
  <2>1. pc = "decode"
    BY <1>12 DEF WIsReturned, WAmbiguous, WTakesNoArgument, WLacksArgument,
                 WTaken, WFound, IsLongW, ShortIs, Short, Decoding
  <2> QED
    BY <1>12, <2>1, WReturns, ReturnsKeeps
<1> QED
  BY <1>1, <1>2, <1>3, <1>4, <1>5, <1>6, <1>7, <1>8, <1>9, <1>10, <1>11,
     <1>12 DEF Step

\* Where a call is, what is left of an element and what is recorded of the
\* words that have been skipped stay in step, whatever the table and the
\* vector, and however often a vector is scanned again.
THEOREM Invariance == Spec => []IInv
<1>1. Init => IInv
  BY InitIInv
<1>2. IInv /\ [Next]_vars => IInv'
  <2> SUFFICES ASSUME IInv, [Next]_vars
               PROVE  IInv'
    OBVIOUS
  <2>1. CASE Rescan
    BY <2>1, RescanKeeps
  <2>2. CASE Call
    BY <2>2, CallKeeps
  <2>3. CASE Step
    BY <2>3, StepKeepsIInv
  <2>4. CASE UNCHANGED vars
    <3>1. UNCHANGED <<conf, argv, optind, first_nonopt, last_nonopt, nextchar,
                      initialized, optarg, optopt, optc, pc, bottom, middle,
                      top, then, before, scans, lost>>
      BY <2>4 DEF vars, nonopts, exchangeVars, callerVars
    <3>2. TypeOK'
      BY <3>1 DEF IInv, TypeOK
    <3>3. argc' = argc
      BY <3>1 DEF argc
    <3>4. Begun' /\ Inside' /\ Pending' /\ HalfWay'
      BY <3>1, <3>3 DEF IInv, Begun, Inside, Pending, HalfWay
    <3> QED
      BY <3>2, <3>4 DEF IInv
  <2> QED
    BY <2>1, <2>2, <2>3, <2>4 DEF Next
<1> QED
  BY <1>1, <1>2, PTL DEF Spec

\* Every variable of the parser keeps its type: whatever is returned comes
\* from the table or the vector.
THEOREM Typed == Spec => []TypeOK
<1>1. IInv => TypeOK
  BY DEF IInv
<1> QED
  BY <1>1, Invariance, PTL

\* No call of cs_getopt_internal_r() looks beyond the vector, for every table
\* and every vector, unless an ambiguous -W has skipped an argument.
THEOREM WithinBounds == Spec => []InBounds
<1>1. IInv => InBounds
  <2> SUFFICES ASSUME IInv, ~lost
               PROVE  InBounds
    BY DEF InBounds
  <2>1. optind <= argc
    BY DEF IInv, Inside
  <2>2. pc = "decode" => optind < argc /\ nextchar # <<>>
    BY AtOption DEF IInv, Pending
  <2>3. pc \notin {"caller", "advance"} =>
          first_nonopt \in 1 .. optind /\ last_nonopt \in 1 .. optind
    BY AtStep
  <2>4. pc \notin {"caller", "advance", "skip", "finish"} =>
          first_nonopt <= last_nonopt
    BY AtStep
  <2> QED
    BY <2>1, <2>2, <2>3, <2>4 DEF InBounds
<1> QED
  BY <1>1, Invariance, PTL

\* exchange() moves the words that have been skipped behind the options after
\* them, both as they were, however many there are of either.
THEOREM ExchangeRight == Spec => []ExchangeRotates
<1>1. IInv => ExchangeRotates
  <2> SUFFICES ASSUME IInv, pc = "exchange", ~Exchanging
               PROVE  argv = Rotated(before, first_nonopt, last_nonopt, optind)
    BY DEF ExchangeRotates
  <2>1. /\ bottom <= middle /\ middle <= top
        /\ Rotated(argv, bottom, middle, top) =
             Rotated(before, first_nonopt, last_nonopt, optind)
    BY DEF IInv, HalfWay
  <2>2. bottom \in Nat /\ middle \in Nat /\ top \in Nat
    BY TypeParts DEF IInv, PlacesOK
  <2>3. argv \in Seq(Seq(Tokens))
    BY TypeParts DEF IInv, TextsOK
  <2>4. bottom = middle \/ middle = top
    BY <2>1, <2>2 DEF Exchanging
  <2> QED
    BY <2>1, <2>2, <2>3, <2>4, RotatedNothing
<1> QED
  BY <1>1, Invariance, PTL

(***************************************************************************)
(* What is documented, as a function of the table and the vector alone.    *)
(***************************************************************************)
\* What the table means does not change as long as the table does not.
LEMMA SameLongOut ==
  ASSUME conf' = conf, NEW text, NEW more
  PROVE  /\ Matches(text)' = Matches(text)
         /\ LongOut(text, more)' = LongOut(text, more)
<1>1. Matches(text)' = Matches(text)
  BY DEF Matches
<1>2. LongOut(text, more)' = LongOut(text, more)
  BY DEF LongOut, IsUnique, Meant, Matches, ExactMatches, HasLongs, HasShort,
         MissingArgument, Meaning, Value
<1> QED
  BY <1>1, <1>2

LEMMA SameGroupOut ==
  ASSUME conf' = conf, NEW letters, NEW more
  PROVE  GroupOut(letters, more)' = GroupOut(letters, more)
<1>1. ASSUME NEW text, NEW left
      PROVE  WOut(text, left)' = WOut(text, left)
  BY SameLongOut DEF WOut
<1>2. ASSUME NEW c, NEW rest
      PROVE  TakerOut(c, rest, more)' = TakerOut(c, rest, more)
  BY <1>1 DEF TakerOut, HasLongs, MissingArgument
<1>3. ASSUME NEW c
      PROVE  Takes(c)' = Takes(c) /\ PlainOut(c)' = PlainOut(c)
  BY DEF Takes, PlainOut, HasShort
<1> DEFINE takers == {i \in DOMAIN letters : Takes(letters[i])}
           plain(n) == [i \in 1 .. n |-> PlainOut(letters[i])]
           last == TakerOut(letters[Min(takers)],
                            SubSeq(letters, Min(takers) + 1, Len(letters)),
                            more)
           group == IF takers = {} THEN <<plain(Len(letters)), 0>>
                    ELSE <<Append(plain(Min(takers) - 1), last[1]), last[2]>>
<1>4. takers' = takers
  BY <1>3
<1>5. ASSUME NEW n PROVE plain(n)' = plain(n)
  BY <1>3
<1>6. last' = last
  BY <1>2, <1>4
<1> HIDE DEF takers, plain, last
<1>7. group' = group
  BY <1>4, <1>5, <1>6
<1>8. GroupOut(letters, more) = group
  BY DEF GroupOut, takers, plain, last
<1>9. GroupOut(letters, more)' = group'
  BY DEF GroupOut, takers, plain, last
<1> QED
  BY <1>7, <1>8, <1>9

LEMMA SameOut ==
  ASSUME conf' = conf, NEW v, NEW later, NEW i
  PROVE  OutFrom(v, later, i)' = OutFrom(v, later, i)
<1>1. ASSUME NEW arg, NEW more
      PROVE  ElementOut(arg, more)' = ElementOut(arg, more)
  BY SameLongOut, SameGroupOut DEF ElementOut, HasLongs, HasShort
<1> QED
  BY <1>1 DEF OutFrom, Ordering

Options == [name : Seq(Tokens), has : 0 .. 2, flag : BOOLEAN,
            val : Tokens \ Marks]

LEMMA OptionsOK ==
  ASSUME IsConfig(conf), NEW text
  PROVE  /\ Matches(text) \in SUBSET Nat
         /\ ExactMatches(text) \subseteq Matches(text)
         /\ \A i \in Matches(text) : conf.longs[i] \in Options
<1>1. conf.longs \in Seq(Options)
  BY DEF IsConfig, Options
<1>2. DOMAIN conf.longs = 1 .. Len(conf.longs) /\ Len(conf.longs) \in Nat
  BY <1>1, LenProperties
<1>3. \A i \in DOMAIN conf.longs : conf.longs[i] \in Options
  BY <1>1, <1>2, ElementOfSeq
<1>4. Matches(text) \subseteq DOMAIN conf.longs
  BY DEF Matches
<1>5. ASSUME NEW i \in ExactMatches(text) PROVE i \in Matches(text)
  <2>1. i \in DOMAIN conf.longs /\ conf.longs[i].name = NameOf(text)
    BY DEF ExactMatches
  <2>2. conf.longs[i].name \in Seq(Tokens)
    BY <1>3, <2>1 DEF Options
  <2>3. Len(NameOf(text)) \in Nat
    BY <2>1, <2>2, LenProperties
  <2>4. IsPrefix(NameOf(text), conf.longs[i].name)
    BY <2>1, <2>3 DEF IsPrefix
  <2> QED
    BY <2>1, <2>4 DEF Matches
<1> QED
  BY <1>2, <1>3, <1>4, <1>5

\* The option that is found is the one that is meant, and it is unless the
\* search finds an ambiguity.
LEMMA FoundIsMeant ==
  ASSUME IsConfig(conf), NEW text
  PROVE  /\ ~conf.long_only =>
              (IsUnique(text) <=> Matches(text) # {} /\ ~IsAmbiguous(text))
         /\ IsUnique(text) =>
              /\ Matches(text) # {} /\ Found(text) \in Options
              /\ (CHOOSE o \in Meant(text) : TRUE) = Meaning(Found(text))
<1> DEFINE first == Min(Best(text))
<1>1. /\ Matches(text) \in SUBSET Nat
      /\ ExactMatches(text) \subseteq Matches(text)
      /\ \A i \in Matches(text) : conf.longs[i] \in Options
  BY OptionsOK
<1>2. Found(text) = conf.longs[first]
  BY DEF Found
<1>3. CASE ExactMatches(text) # {}
  <2>1. Best(text) = ExactMatches(text)
    BY <1>3 DEF Best
  <2>2. first \in ExactMatches(text)
    BY <1>1, <1>3, <2>1, MinOf
  <2>3. Meant(text) = {Meaning(conf.longs[first])}
    BY <1>3, <2>1 DEF Meant
  <2>4. IsUnique(text) /\ ~IsAmbiguous(text)
    BY <1>3, <2>3 DEF IsUnique, IsAmbiguous
  <2> HIDE DEF first
  <2> QED
    BY <1>1, <1>2, <2>2, <2>3, <2>4
<1>4. CASE ExactMatches(text) = {}
  <2>1. Best(text) = Matches(text)
    BY <1>4 DEF Best
  <2>2. Meant(text) = {Meaning(conf.longs[i]) : i \in Matches(text)}
    BY <1>4 DEF Meant
  <2>3. CASE Matches(text) = {}
    BY <2>2, <2>3 DEF IsUnique
  <2>4. CASE Matches(text) # {}
    <3>1. first \in Matches(text) /\ \A i \in Matches(text) : first <= i
      BY <1>1, <2>1, <2>4, MinOf
    <3>2. ASSUME IsUnique(text)
          PROVE  Meant(text) = {Meaning(conf.longs[first])}
      <4> HIDE DEF first
      <4> QED
        BY <2>2, <3>1, <3>2 DEF IsUnique
    <3>3. ASSUME NEW i \in Matches(text)
          PROVE  Meaning(conf.longs[i]) = Meaning(conf.longs[first]) <=>
                   SameMeaning(conf.longs[i], conf.longs[first])
      BY DEF Meaning, SameMeaning, Value
    <3>4. ASSUME ~conf.long_only
          PROVE  IsUnique(text) <=>
                   \A i \in Matches(text) :
                     Meaning(conf.longs[i]) = Meaning(conf.longs[first])
      <4> HIDE DEF first
      <4> QED
        BY <2>2, <3>1, <3>4 DEF IsUnique
    <3>5. ASSUME ~conf.long_only
          PROVE  IsAmbiguous(text) <=>
                   \E i \in Matches(text) :
                     ~SameMeaning(conf.longs[i], conf.longs[first])
      <4>1. SameMeaning(conf.longs[first], conf.longs[first])
        BY DEF SameMeaning
      <4>2. \A i \in Matches(text) : i \in Nat
        BY <1>1
      <4>3. Min(Matches(text)) = first
        BY <2>1
      <4> HIDE DEF first
      <4> QED
        BY <1>4, <3>1, <3>5, <4>1, <4>2, <4>3 DEF IsAmbiguous
    <3> HIDE DEF first
    <3> QED
      BY <1>1, <1>2, <2>4, <3>1, <3>2, <3>3, <3>4, <3>5
  <2> QED
    BY <2>3, <2>4
<1> QED
  BY <1>3, <1>4

\* What is returned for a long option, case by case.
LEMMA LongOutIs ==
  ASSUME IsConfig(conf), NEW text, NEW more
  PROVE  LET o == Found(text)
         IN  LongOut(text, more) =
               IF ~IsUnique(text) THEN <<Out("?", <<>>, ""), 0>>
               ELSE IF HasValue(text) THEN
                 IF o.has = 0 THEN <<Out("?", <<>>, o.val), 0>>
                 ELSE <<Out(Value(o), <<ValueOf(text)>>, ""), 0>>
               ELSE IF o.has # 1 THEN <<Out(Value(o), <<>>, ""), 0>>
               ELSE IF more = <<>> THEN <<Out(MissingArgument, <<>>, o.val), 0>>
               ELSE <<Out(Value(o), <<more[1]>>, ""), 1>>
<1>1. CASE ~IsUnique(text)
  BY <1>1 DEF LongOut
<1>2. CASE IsUnique(text)
  <2> DEFINE o == Found(text)
             p == CHOOSE p \in Meant(text) : TRUE
             given == IF HasValue(text) THEN <<ValueOf(text)>> ELSE <<>>
  <2>1. p = Meaning(o)
    BY <1>2, FoundIsMeant
  <2>2. given = <<>> <=> ~HasValue(text)
    OBVIOUS
  <2> HIDE DEF o, p
  <2>3. p.has = o.has /\ p.val = o.val /\ p.c = Value(o)
    BY <2>1 DEF Meaning
  <2>4. LongOut(text, more) =
          IF p.has = 0 /\ given # <<>> THEN <<Out("?", <<>>, p.val), 0>>
          ELSE IF p.has # 1 \/ given # <<>> THEN <<Out(p.c, given, ""), 0>>
          ELSE IF more = <<>> THEN <<Out(MissingArgument, <<>>, p.val), 0>>
          ELSE <<Out(p.c, <<more[1]>>, ""), 1>>
    BY <1>2 DEF LongOut, p
  <2> QED
    BY <1>2, <2>2, <2>3, <2>4 DEF o
<1> QED
  BY <1>1, <1>2

\* What a call returns, and what is returned for one option together with how
\* many of n further elements it takes.
OutSet == [c : Results, arg : Seq(Seq(Tokens)), opt : Tokens \cup {""}]
TakesOf(out, n) == out[1] \in OutSet /\ out[2] \in 0 .. n

LEMMA PairOK ==
  ASSUME NEW n \in Nat, NEW out \in OutSet, NEW k \in 0 .. n
  PROVE  TakesOf(<<out, k>>, n)
BY DEF TakesOf

LEMMA OutOK ==
  ASSUME NEW c \in Results, NEW arg \in Seq(Seq(Tokens)),
         NEW opt \in Tokens \cup {""}
  PROVE  Out(c, arg, opt) \in OutSet
BY DEF Out, OutSet

LEMMA OneArg ==
  ASSUME NEW arg \in Seq(Tokens)
  PROVE  <<arg>> \in Seq(Seq(Tokens))
OBVIOUS

LEMMA NoArg == <<>> \in Seq(Seq(Tokens)) /\ <<>> \in Seq(OutSet)
OBVIOUS

LEMMA MarksOK ==
  /\ "?" \in Results /\ MissingArgument \in Results /\ "word" \in Results
  /\ Tokens \subseteq Results /\ "" \in Tokens \cup {""}
BY DEF Results, Marks, MissingArgument

LEMMA LongOutOK ==
  ASSUME IsConfig(conf), NEW text \in Seq(Tokens),
         NEW more \in Seq(Seq(Tokens))
  PROVE  TakesOf(LongOut(text, more), Len(more))
<1> DEFINE o == Found(text)
<1>1. Len(more) \in Nat /\ (more # <<>> => Len(more) >= 1)
  OBVIOUS
<1>2. CASE ~IsUnique(text)
  <2>1. LongOut(text, more) = <<Out("?", <<>>, ""), 0>>
    BY <1>2, LongOutIs
  <2>2. Out("?", <<>>, "") \in OutSet
    BY OutOK, NoArg, MarksOK
  <2>3. 0 \in 0 .. Len(more)
    BY <1>1
  <2> QED
    BY <1>1, <2>1, <2>2, <2>3, PairOK
<1>3. CASE IsUnique(text)
  <2>1. o \in Options /\ Matches(text) # {}
    BY <1>3, FoundIsMeant
  <2>2. o.val \in Tokens /\ Value(o) \in Results
    BY <2>1, FoundOK
  <2>3. HasValue(text) => <<ValueOf(text)>> \in Seq(Seq(Tokens))
    BY TextOK
  <2>4. more # <<>> => <<more[1]>> \in Seq(Seq(Tokens))
    OBVIOUS
  <2> HIDE DEF o
  <2>5. /\ Out("?", <<>>, o.val) \in OutSet
        /\ HasValue(text) => Out(Value(o), <<ValueOf(text)>>, "") \in OutSet
        /\ Out(Value(o), <<>>, "") \in OutSet
        /\ Out(MissingArgument, <<>>, o.val) \in OutSet
        /\ more # <<>> => Out(Value(o), <<more[1]>>, "") \in OutSet
    BY <2>2, <2>3, <2>4, OutOK, NoArg, MarksOK
  <2>6. LongOut(text, more) =
          IF HasValue(text) THEN
            IF o.has = 0 THEN <<Out("?", <<>>, o.val), 0>>
            ELSE <<Out(Value(o), <<ValueOf(text)>>, ""), 0>>
          ELSE IF o.has # 1 THEN <<Out(Value(o), <<>>, ""), 0>>
          ELSE IF more = <<>> THEN <<Out(MissingArgument, <<>>, o.val), 0>>
          ELSE <<Out(Value(o), <<more[1]>>, ""), 1>>
    BY <1>3, LongOutIs DEF o
  <2>7. 0 \in 0 .. Len(more) /\ (more # <<>> => 1 \in 0 .. Len(more))
    BY <1>1
  <2> QED
    BY <1>1, <2>5, <2>6, <2>7, PairOK
<1> QED
  BY <1>2, <1>3

LEMMA TakerOutOK ==
  ASSUME IsConfig(conf), NEW c \in Tokens, Takes(c),
         NEW rest \in Seq(Tokens), NEW more \in Seq(Seq(Tokens))
  PROVE  TakesOf(TakerOut(c, rest, more), Len(more))
<1> DEFINE args == IF rest = <<>> THEN more ELSE <<rest>> \o more
           taken == IF rest = <<>> THEN 1 ELSE 0
           w == WOut(args[1], Tail(args))
<1>1. /\ args \in Seq(Seq(Tokens))
      /\ args # <<>> => /\ args[1] \in Seq(Tokens)
                        /\ Tail(args) \in Seq(Seq(Tokens))
                        /\ Len(Tail(args)) + taken = Len(more)
                        /\ taken \in 0 .. Len(more)
      /\ Len(more) \in Nat
  <2>1. CASE rest = <<>>
    BY <2>1
  <2>2. CASE rest # <<>>
    BY <2>2
  <2> QED
    BY <2>1, <2>2
<1>2. <<rest>> \in Seq(Seq(Tokens))
  BY OneArg
<1>3. c \in Results
  BY MarksOK
<1> HIDE DEF args, taken
<1>4. ASSUME args # <<>>, "W" \in Tokens
      PROVE  TakesOf(w, Len(Tail(args)))
  <2>1. /\ args[1] \in Seq(Tokens) /\ Tail(args) \in Seq(Seq(Tokens))
        /\ <<args[1]>> \in Seq(Seq(Tokens)) /\ Len(Tail(args)) \in Nat
    BY <1>1, <1>4, OneArg
  <2>2. TakesOf(LongOut(args[1], Tail(args)), Len(Tail(args)))
    BY <2>1, LongOutOK
  <2>3. /\ Out("W", <<args[1]>>, "") \in OutSet
        /\ Out("?", <<args[1]>>, "") \in OutSet
        /\ Out(":", <<args[1]>>, "") \in OutSet
    <3>1. {"W", "?", ":"} \subseteq Results
      BY <1>4, MarksOK, ResultsOK
    <3> QED
      BY <2>1, <3>1, OutOK, MarksOK
  <2> HIDE DEF w
  <2> DEFINE out == LongOut(args[1], Tail(args))
  <2>4. w = IF Matches(args[1]) = {} THEN <<Out("W", <<args[1]>>, ""), 0>>
            ELSE IF out[1].c \in {"?", ":"}
                 THEN <<Out(out[1].c, <<args[1]>>, ""), 0>>
            ELSE out
    BY DEF w, WOut
  <2> HIDE DEF out
  <2>5. 0 \in 0 .. Len(Tail(args))
    BY <2>1
  <2>6. CASE Matches(args[1]) = {}
    BY <2>1, <2>3, <2>4, <2>5, <2>6, PairOK
  <2>7. CASE Matches(args[1]) # {} /\ out[1].c \in {"?", ":"}
    BY <2>1, <2>3, <2>4, <2>5, <2>7, PairOK
  <2>8. CASE Matches(args[1]) # {} /\ out[1].c \notin {"?", ":"}
    <3>1. w = out
      BY <2>4, <2>8
    <3> QED
      BY <2>2, <3>1 DEF out
  <2> QED
    BY <2>6, <2>7, <2>8
<1>5. conf.shorts[c] = ";" => "W" \in Tokens
  BY DEF IsConfig, HasShort, Takes
<1>6. conf.shorts[c] \in {"::", ";", ":"}
  BY DEF IsConfig, HasShort, Takes
<1>7. /\ Out(c, <<>>, "") \in OutSet
      /\ Out(c, <<rest>>, "") \in OutSet
      /\ Out(MissingArgument, <<>>, c) \in OutSet
      /\ args # <<>> => Out(c, <<args[1]>>, "") \in OutSet
  BY <1>1, <1>2, <1>3, OutOK, NoArg, OneArg, MarksOK
<1>8. /\ 0 \in 0 .. Len(more)
      /\ args # <<>> => taken \in 0 .. Len(more)
      /\ args # <<>> /\ "W" \in Tokens =>
           w[1] \in OutSet /\ w[2] + taken \in 0 .. Len(more)
  <2>1. taken \in 0 .. 1
    BY DEF taken
  <2>2. args # <<>> /\ "W" \in Tokens =>
          w[1] \in OutSet /\ w[2] \in 0 .. Len(Tail(args))
    BY <1>4 DEF TakesOf
  <2>3. args # <<>> => Len(Tail(args)) \in Nat
    BY <1>1
  <2> HIDE DEF w
  <2> QED
    BY <1>1, <2>1, <2>2, <2>3
<1>9. TakerOut(c, rest, more) =
        IF conf.shorts[c] = "::"
          THEN <<Out(c, IF rest = <<>> THEN <<>> ELSE <<rest>>, ""), 0>>
        ELSE IF conf.shorts[c] = ";" /\ ~HasLongs
          THEN <<Out(c, <<>>, ""), 0>>
        ELSE IF args = <<>> THEN <<Out(MissingArgument, <<>>, c), 0>>
        ELSE IF conf.shorts[c] = ":" THEN <<Out(c, <<args[1]>>, ""), taken>>
        ELSE <<w[1], w[2] + taken>>
  BY DEF TakerOut, args, taken
<1> HIDE DEF w
<1> QED
  BY <1>1, <1>5, <1>6, <1>7, <1>8, <1>9, PairOK

\* The first n letters of a group, when they take no argument.
Plain(letters, n) == [i \in 1 .. n |-> PlainOut(letters[i])]
Takers(letters) == {i \in DOMAIN letters : Takes(letters[i])}

LEMMA PlainOK ==
  ASSUME NEW letters \in Seq(Tokens), NEW n \in 0 .. Len(letters),
         IsConfig(conf)
  PROVE  /\ Plain(letters, n) \in Seq(OutSet) /\ Len(Plain(letters, n)) = n
         /\ \A i \in 1 .. n : Plain(letters, n)[i] = PlainOut(letters[i])
<1>1. n \in Nat /\ \A i \in 1 .. n : letters[i] \in Tokens
  OBVIOUS
<1>2. \A i \in 1 .. n : PlainOut(letters[i]) \in OutSet
  BY <1>1, MarksOK, NoArg, OutOK DEF PlainOut
<1>3. \A i \in 1 .. n : Plain(letters, n)[i] = PlainOut(letters[i])
  BY DEF Plain
<1>4. Plain(letters, n) = [i \in 1 .. n |-> Plain(letters, n)[i]]
  BY <1>3 DEF Plain
<1> QED
  BY <1>1, <1>2, <1>3, <1>4, FunctionIsSeq

LEMMA GroupIs ==
  ASSUME NEW letters \in Seq(Tokens), NEW more
  PROVE  LET k == Min(Takers(letters))
             last == TakerOut(letters[k],
                              SubSeq(letters, k + 1, Len(letters)), more)
         IN  GroupOut(letters, more) =
               IF Takers(letters) = {} THEN <<Plain(letters, Len(letters)), 0>>
               ELSE <<Append(Plain(letters, k - 1), last[1]), last[2]>>
BY DEF GroupOut, Takers, Plain

\* The rest of a sequence behind its element k, and the rest from it on.
LEMMA RestOK ==
  ASSUME NEW T, NEW s \in Seq(T), NEW k \in 1 .. Len(s)
  PROVE  /\ SubSeq(s, k + 1, Len(s)) \in Seq(T)
         /\ Len(SubSeq(s, k + 1, Len(s))) = Len(s) - k
         /\ \A i \in 1 .. Len(s) - k : SubSeq(s, k + 1, Len(s))[i] = s[k + i]
         /\ SubSeq(s, k, Len(s)) \in Seq(T)
<1>1. \A i \in k .. Len(s) : s[i] \in T
  OBVIOUS
<1>2. /\ k \in Nat /\ k + 1 \in Nat /\ Len(s) \in Nat /\ k <= Len(s)
      /\ k + 1 <= Len(s) + 1
  OBVIOUS
<1>0. SubSeq(s, k, Len(s)) \in Seq(T)
  BY <1>1, <1>2, SubSeqProperties
<1> DEFINE m == k + 1
           rest == SubSeq(s, m, Len(s))
<1>3. /\ rest \in Seq(T)
      /\ Len(rest) = Len(s) - m + 1
      /\ \A i \in 1 .. Len(s) - m + 1 : rest[i] = s[m + i - 1]
  <2>1. /\ m \in Nat /\ Len(s) \in Nat /\ m <= Len(s) + 1
        /\ \A i \in m .. Len(s) : s[i] \in T
    BY <1>1, <1>2
  <2> HIDE DEF m
  <2> QED
    BY <2>1, SubSeqProperties
<1> HIDE DEF rest
<1>4. Len(s) - m + 1 = Len(s) - k
  BY <1>2
<1>5. \A i \in 1 .. Len(s) - k : m + i - 1 = k + i
  BY <1>2
<1>6. \A i \in 1 .. Len(s) - k : rest[i] = s[k + i]
  BY <1>3, <1>4, <1>5
<1> QED
  BY <1>0, <1>3, <1>4, <1>6 DEF rest

LEMMA GroupOK ==
  ASSUME IsConfig(conf), NEW letters \in Seq(Tokens),
         NEW more \in Seq(Seq(Tokens))
  PROVE  /\ GroupOut(letters, more)[1] \in Seq(OutSet)
         /\ GroupOut(letters, more)[2] \in 0 .. Len(more)
<1> DEFINE k == Min(Takers(letters))
           rest == SubSeq(letters, k + 1, Len(letters))
           last == TakerOut(letters[k], rest, more)
<1>0. Len(letters) \in 0 .. Len(letters) /\ 0 \in 0 .. Len(more)
  OBVIOUS
<1>1. CASE Takers(letters) = {}
  BY <1>0, <1>1, GroupIs, PlainOK
<1>2. CASE Takers(letters) # {}
  <2>1. Takers(letters) \in SUBSET Nat
    BY DEF Takers
  <2>2. k \in 1 .. Len(letters) /\ letters[k] \in Tokens /\ Takes(letters[k])
    <3>1. k \in Takers(letters)
      BY <1>2, <2>1, MinOf
    <3> HIDE DEF k
    <3> QED
      BY <3>1 DEF Takers
  <2> HIDE DEF k
  <2>3. rest \in Seq(Tokens)
    BY <2>2, RestOK
  <2>4. TakesOf(last, Len(more))
    BY <2>2, <2>3, TakerOutOK
  <2>5. k - 1 \in 0 .. Len(letters)
    BY <2>2
  <2>6. Plain(letters, k - 1) \in Seq(OutSet)
    BY <2>5, PlainOK
  <2>7. GroupOut(letters, more)
          = <<Append(Plain(letters, k - 1), last[1]), last[2]>>
    BY <1>2, GroupIs DEF k
  <2> HIDE DEF last
  <2> QED
    BY <2>4, <2>6, <2>7 DEF TakesOf
<1> QED
  BY <1>1, <1>2

LEMMA GroupTakes ==
  ASSUME NEW letters \in Seq(Tokens), letters # <<>>, Takes(letters[1]),
         NEW more
  PROVE  LET last == TakerOut(letters[1], Tail(letters), more)
         IN  GroupOut(letters, more) = <<<<last[1]>>, last[2]>>
<1>1. 1 \in Takers(letters) /\ Takers(letters) \in SUBSET Nat
  BY DEF Takers
<1>2. \A i \in Takers(letters) : 1 <= i
  BY DEF Takers
<1>3. Min(Takers(letters)) = 1
  BY <1>1, <1>2, MinIs
<1>4. SubSeq(letters, 1 + 1, Len(letters)) = Tail(letters)
  <2>1. 1 \in 1 .. Len(letters)
    OBVIOUS
  <2> DEFINE a == SubSeq(letters, 1 + 1, Len(letters))
             b == Tail(letters)
  <2>2. /\ a \in Seq(Tokens) /\ Len(a) = Len(letters) - 1
        /\ \A i \in 1 .. Len(letters) - 1 : a[i] = letters[1 + i]
    BY <2>1, RestOK
  <2>3. /\ b \in Seq(Tokens) /\ Len(b) = Len(letters) - 1
        /\ \A i \in 1 .. Len(letters) - 1 : b[i] = letters[1 + i]
    OBVIOUS
  <2> HIDE DEF a, b
  <2>4. a = b
    BY <2>2, <2>3, SeqEqual
  <2> QED
    BY <2>4 DEF a, b
<1>5. \A x : Append(Plain(letters, 1 - 1), x) = <<x>>
  <2>1. Plain(letters, 1 - 1) = <<>>
    BY DEF Plain
  <2>2. \A x : Append(<<>>, x) = <<x>>
    OBVIOUS
  <2> QED
    BY <2>1, <2>2
<1> DEFINE last == TakerOut(letters[1], Tail(letters), more)
<1>6. GroupOut(letters, more)
        = <<Append(Plain(letters, 1 - 1), last[1]), last[2]>>
  <2>1. Takers(letters) # {}
    BY <1>1
  <2> QED
    BY <1>3, <1>4, <2>1, GroupIs
<1> HIDE DEF last
<1> QED
  BY <1>5, <1>6 DEF last

LEMMA GroupPeels ==
  ASSUME IsConfig(conf), NEW letters \in Seq(Tokens), letters # <<>>,
         ~Takes(letters[1]), NEW more \in Seq(Seq(Tokens))
  PROVE  LET rest == GroupOut(Tail(letters), more)
         IN  GroupOut(letters, more) =
               <<<<PlainOut(letters[1])>> \o rest[1], rest[2]>>
<1> DEFINE n == Len(letters)
           tail == Tail(letters)
           T == Takers(letters)
           U == Takers(tail)
           x == PlainOut(letters[1])
<1>1. /\ n \in Nat /\ n >= 1
      /\ tail \in Seq(Tokens) /\ Len(tail) = n - 1
      /\ \A i \in 1 .. n - 1 : tail[i] = letters[i + 1]
      /\ letters[1] \in Tokens
  OBVIOUS
<1>2. T \in SUBSET Nat /\ U \in SUBSET Nat
  BY DEF Takers
<1>3. \A i \in T : i - 1 \in U /\ i \in 2 .. n
  <2> TAKE i \in T
  <2>1. i \in 1 .. n /\ Takes(letters[i])
    BY DEF Takers
  <2>2. i # 1
    BY <2>1
  <2>3. i - 1 \in 1 .. n - 1 /\ i - 1 + 1 = i
    BY <1>1, <2>1, <2>2
  <2>4. i - 1 \in DOMAIN tail /\ tail[i - 1] = letters[i]
    BY <1>1, <2>3
  <2> HIDE DEF tail
  <2> QED
    BY <1>1, <2>1, <2>2, <2>4 DEF Takers
<1>4. \A i \in U : i + 1 \in T /\ i \in 1 .. n - 1
  <2> TAKE i \in U
  <2> HIDE DEF tail
  <2>1. i \in 1 .. n - 1 /\ Takes(tail[i])
    BY <1>1 DEF Takers
  <2>2. i + 1 \in 1 .. n /\ tail[i] = letters[i + 1]
    BY <1>1, <2>1
  <2> QED
    BY <2>1, <2>2 DEF Takers
<1>5. x \in OutSet
  BY <1>1, MarksOK, NoArg, OutOK DEF PlainOut
<1>6. ASSUME NEW m \in 1 .. n
      PROVE  Plain(letters, m) = <<x>> \o Plain(tail, m - 1)
  <2> DEFINE a == Plain(letters, m)
             b == Plain(tail, m - 1)
             c == <<x>> \o b
  <2>1. m \in 0 .. n /\ m - 1 \in 0 .. n - 1
    BY <1>1
  <2>2. /\ a \in Seq(OutSet) /\ Len(a) = m
        /\ \A i \in 1 .. m : a[i] = PlainOut(letters[i])
    BY <2>1, PlainOK
  <2>3. /\ b \in Seq(OutSet) /\ Len(b) = m - 1
        /\ \A i \in 1 .. m - 1 : b[i] = PlainOut(tail[i])
    <3> HIDE DEF tail
    <3> QED
      BY <1>1, <2>1, PlainOK
  <2> HIDE DEF a, b, x, tail
  <2>4. /\ c \in Seq(OutSet) /\ Len(c) = m
        /\ c[1] = x /\ \A i \in 2 .. m : c[i] = b[i - 1]
    BY <1>5, <2>1, <2>3
  <2> HIDE DEF c
  <2>5. \A i \in 1 .. m : a[i] = c[i]
    <3> TAKE i \in 1 .. m
    <3>1. CASE i = 1
      BY <2>2, <2>4, <3>1 DEF x
    <3>2. CASE i # 1
      <4>1. i \in 2 .. m /\ i - 1 \in 1 .. m - 1 /\ i - 1 \in 1 .. n - 1
            /\ i - 1 + 1 = i
        BY <1>1, <3>2
      <4>2. c[i] = PlainOut(tail[i - 1]) /\ tail[i - 1] = letters[i]
        BY <1>1, <2>3, <2>4, <4>1
      <4> QED
        BY <2>2, <4>1, <4>2
    <3> QED
      BY <3>1, <3>2
  <2>6. a = c
    BY <2>2, <2>4, <2>5, SeqEqual
  <2> QED
    BY <2>6 DEF a, b, c
<1>7. CASE T = {}
  <2>1. U = {}
    BY <1>4, <1>7
  <2>2. GroupOut(letters, more) = <<Plain(letters, n), 0>>
    BY <1>7, GroupIs
  <2>3. GroupOut(tail, more) = <<Plain(tail, n - 1), 0>>
    <3> HIDE DEF tail
    <3> QED
      BY <1>1, <2>1, GroupIs
  <2>4. Plain(letters, n) = <<x>> \o Plain(tail, n - 1)
    BY <1>1, <1>6
  <2> HIDE DEF x, tail
  <2> QED
    BY <2>2, <2>3, <2>4 DEF x, tail
<1>8. CASE T # {}
  <2> DEFINE m == Min(U)
             last == TakerOut(tail[m], SubSeq(tail, m + 1, Len(tail)), more)
  <2>1. U # {}
    BY <1>3, <1>8
  <2>2. m \in U /\ \A i \in U : m <= i
    <3> HIDE DEF U
    <3> QED
      BY <1>2, <2>1, MinOf
  <2> HIDE DEF m
  <2>3. m \in 1 .. n - 1 /\ m + 1 \in T
    BY <1>4, <2>2
  <2>4. Min(T) = m + 1
    <3>1. ASSUME NEW i \in T PROVE m + 1 <= i
      <4>1. i - 1 \in U /\ i \in Nat /\ m \in Nat
        BY <1>2, <1>3, <2>3
      <4>2. m <= i - 1
        BY <2>2, <4>1
      <4> QED
        BY <4>1, <4>2
    <3> HIDE DEF T
    <3> QED
      BY <1>2, <2>3, <3>1, MinIs
  <2>5. SubSeq(letters, m + 1 + 1, n) = SubSeq(tail, m + 1, n - 1)
    <3> DEFINE a == SubSeq(letters, m + 1 + 1, n)
               b == SubSeq(tail, m + 1, n - 1)
    <3>1. m + 1 \in 1 .. n /\ m \in 1 .. n - 1
      BY <1>1, <2>3
    <3>2. /\ a \in Seq(Tokens) /\ Len(a) = n - (m + 1)
          /\ \A i \in 1 .. n - (m + 1) : a[i] = letters[m + 1 + i]
      BY <3>1, RestOK
    <3>3. /\ b \in Seq(Tokens) /\ Len(b) = n - 1 - m
          /\ \A i \in 1 .. n - 1 - m : b[i] = tail[m + i]
      <4> HIDE DEF tail
      <4> QED
        BY <1>1, <3>1, RestOK
    <3> HIDE DEF a, b, tail
    <3>4. \A i \in 1 .. n - 1 - m : tail[m + i] = letters[m + 1 + i]
      <4> TAKE i \in 1 .. n - 1 - m
      <4>1. m + i \in 1 .. n - 1 /\ m + i + 1 = m + 1 + i
        BY <1>1, <3>1
      <4> QED
        BY <1>1, <4>1
    <3>5. n - (m + 1) = n - 1 - m
      BY <1>1, <3>1
    <3>6. Len(a) = Len(b) /\ \A i \in 1 .. Len(a) : a[i] = b[i]
      BY <3>2, <3>3, <3>4, <3>5
    <3>7. a \in Seq(Tokens) /\ b \in Seq(Tokens)
      BY <3>2, <3>3
    <3>8. a = b
      BY <3>6, <3>7, SeqEqual
    <3> QED
      BY <3>8 DEF a, b
  <2>6. letters[m + 1] = tail[m]
    BY <1>1, <2>3
  <2> HIDE DEF tail, x
  <2>7. GroupOut(letters, more)
          = <<Append(Plain(letters, m), last[1]), last[2]>>
    <3>1. m + 1 - 1 = m
      BY <2>3
    <3> DEFINE k == Min(T)
               end == TakerOut(letters[k], SubSeq(letters, k + 1, n), more)
    <3>2. GroupOut(letters, more)
            = <<Append(Plain(letters, k - 1), end[1]), end[2]>>
      BY <1>8, GroupIs
    <3>3. k = m + 1
      BY <2>4
    <3>4. end = last
      <4> HIDE DEF k
      <4> QED
        BY <1>1, <2>5, <2>6, <3>3
    <3>5. k - 1 = m
      <4> HIDE DEF k
      <4>1. m \in Nat
        BY <1>1, <2>3
      <4> QED
        BY <3>3, <4>1
    <3> HIDE DEF k, end, last
    <3> QED
      BY <3>2, <3>4, <3>5
  <2>8. GroupOut(tail, more)
          = <<Append(Plain(tail, m - 1), last[1]), last[2]>>
    BY <1>1, <2>1, GroupIs DEF m
  <2>9. Plain(letters, m) = <<x>> \o Plain(tail, m - 1)
    <3>1. m \in 1 .. n
      BY <1>1, <2>3
    <3> QED
      BY <1>6, <3>1
  <2>10. Append(Plain(letters, m), last[1])
           = <<x>> \o Append(Plain(tail, m - 1), last[1])
    <3>1. tail[m] \in Tokens /\ Takes(tail[m])
          /\ SubSeq(tail, m + 1, Len(tail)) \in Seq(Tokens)
      BY <1>1, <2>2, <2>3, RestOK DEF Takers
    <3>2. last[1] \in OutSet
      BY <3>1, TakerOutOK DEF TakesOf
    <3>3. m - 1 \in 0 .. Len(tail)
      BY <1>1, <2>3
    <3>4. Plain(tail, m - 1) \in Seq(OutSet)
      BY <1>1, <3>3, PlainOK
    <3> DEFINE b == Plain(tail, m - 1)
               y == last[1]
    <3>5. ASSUME NEW s \in Seq(OutSet), NEW z \in OutSet
          PROVE  Append(<<x>> \o s, z) = <<x>> \o Append(s, z)
      BY <1>5, <3>5
    <3> QED
      BY <2>9, <3>2, <3>4, <3>5
  <2> HIDE DEF last
  <2>11. /\ GroupOut(tail, more)[1] = Append(Plain(tail, m - 1), last[1])
         /\ GroupOut(tail, more)[2] = last[2]
    BY <2>8
  <2>12. GroupOut(letters, more)
           = <<<<x>> \o GroupOut(tail, more)[1], GroupOut(tail, more)[2]>>
    BY <2>7, <2>10, <2>11
  <2> QED
    BY <2>12 DEF x, tail
<1> QED
  BY <1>7, <1>8

LEMMA ElementOK ==
  ASSUME IsConfig(conf), NEW arg \in Seq(Tokens), Len(arg) >= 2,
         NEW more \in Seq(Seq(Tokens))
  PROVE  /\ ElementOut(arg, more)[1] \in Seq(OutSet)
         /\ ElementOut(arg, more)[2] \in 0 .. Len(more)
<1> DEFINE start == IF arg[2] = "-" THEN 3 ELSE 2
           text == SubSeq(arg, start, Len(arg))
           out == LongOut(text, more)
           group == GroupOut(Tail(arg), more)
<1>1. text \in Seq(Tokens)
  <2>1. start - 1 \in 1 .. Len(arg) /\ start - 1 + 1 = start
    <3>1. start \in {2, 3} /\ Len(arg) \in Nat
      OBVIOUS
    <3> HIDE DEF start
    <3> QED
      BY <3>1
  <2> HIDE DEF start
  <2> DEFINE k == start - 1
  <2>2. SubSeq(arg, k + 1, Len(arg)) \in Seq(Tokens)
    <3> HIDE DEF k
    <3>1. k \in 1 .. Len(arg)
      BY <2>1 DEF k
    <3> QED
      BY <3>1, RestOK
  <2> QED
    BY <2>1, <2>2
<1>2. TakesOf(out, Len(more))
  BY <1>1, LongOutOK
<1>3. group[1] \in Seq(OutSet) /\ group[2] \in 0 .. Len(more)
  <2>1. Tail(arg) \in Seq(Tokens)
    OBVIOUS
  <2> QED
    BY <2>1, GroupOK
<1>4. ElementOut(arg, more) \in {<<<<out[1]>>, out[2]>>, group}
  BY DEF ElementOut
<1> HIDE DEF out, group
<1>5. <<out[1]>> \in Seq(OutSet) /\ out[2] \in 0 .. Len(more)
  BY <1>2 DEF TakesOf
<1>6. CASE ElementOut(arg, more) = group
  BY <1>3, <1>6
<1>7. CASE ElementOut(arg, more) = <<<<out[1]>>, out[2]>>
  BY <1>5, <1>7
<1> QED
  BY <1>4, <1>6, <1>7

(***************************************************************************)
(* What the comments say of a vector, from each of its elements on.        *)
(***************************************************************************)
Remainders == Seq(OutSet) \X Seq(Seq(Tokens))

IsOut(F, v) ==
  /\ F \in [1 .. Len(v) + 1 -> Remainders]
  /\ \A i \in 1 .. Len(v) + 1 : F[i] = OutFrom(v, F, i)

Behind(v, i) == SubSeq(v, i + 1, Len(v))

LEMMA BehindOK ==
  ASSUME NEW v \in Seq(Seq(Tokens)), NEW i \in 1 .. Len(v)
  PROVE  /\ Behind(v, i) \in Seq(Seq(Tokens)) /\ Len(Behind(v, i)) = Len(v) - i
         /\ \A k \in 1 .. Len(v) - i : Behind(v, i)[k] = v[i + k]
         /\ SubSeq(v, i, Len(v)) \in Seq(Seq(Tokens))
<1> DEFINE U == Seq(Tokens)
<1>1. v \in Seq(U)
  OBVIOUS
<1> HIDE DEF U
<1>2. /\ Behind(v, i) \in Seq(U) /\ Len(Behind(v, i)) = Len(v) - i
      /\ \A k \in 1 .. Len(v) - i : Behind(v, i)[k] = v[i + k]
      /\ SubSeq(v, i, Len(v)) \in Seq(U)
  BY <1>1, RestOK DEF Behind
<1> QED
  BY <1>2 DEF U

LEMMA ConcatOK ==
  ASSUME NEW T, NEW a \in Seq(T), NEW b \in Seq(T)
  PROVE  a \o b \in Seq(T)
OBVIOUS

LEMMA RemainderOK ==
  ASSUME NEW a \in Seq(OutSet), NEW b \in Seq(Seq(Tokens))
  PROVE  <<a, b>> \in Remainders
BY DEF Remainders

\* What is said from an element on, case by case.
LEMMA OutOfDashes ==
  ASSUME NEW v \in Seq(Seq(Tokens)), NEW f, NEW i \in 1 .. Len(v),
         v[i] = DoubleDash
  PROVE  OutFrom(v, f, i) = <<<<>>, Behind(v, i)>>
BY DEF OutFrom, Behind

LEMMA OutOfOption ==
  ASSUME NEW v \in Seq(Seq(Tokens)), NEW f, NEW i \in 1 .. Len(v),
         v[i] # DoubleDash, ~IsWord(v[i]),
         NEW e, e = ElementOut(v[i], Behind(v, i))
  PROVE  OutFrom(v, f, i) = <<e[1] \o f[i + 1 + e[2]][1], f[i + 1 + e[2]][2]>>
<1>1. ~(i > Len(v))
  OBVIOUS
<1> QED
  BY <1>1 DEF OutFrom, Behind

LEMMA OutOfWord ==
  ASSUME NEW v \in Seq(Seq(Tokens)), NEW f, NEW i \in 1 .. Len(v),
         v[i] # DoubleDash, IsWord(v[i])
  PROVE  OutFrom(v, f, i) =
           IF Ordering = "require order" THEN <<<<>>, SubSeq(v, i, Len(v))>>
           ELSE IF Ordering = "permute"
             THEN <<f[i + 1][1], <<v[i]>> \o f[i + 1][2]>>
           ELSE <<<<Out("word", <<v[i]>>, "")>> \o f[i + 1][1], f[i + 1][2]>>
<1>1. ~(i > Len(v))
  OBVIOUS
<1> QED
  BY <1>1 DEF OutFrom

LEMMA OneOf ==
  ASSUME NEW T, NEW x \in T
  PROVE  <<x>> \in Seq(T)
OBVIOUS

\* What is said from an element on has its type, and depends only on what is
\* said from the later ones on.
LEMMA OutFromOK ==
  ASSUME IsConfig(conf), NEW v \in Seq(Seq(Tokens)), NEW f,
         NEW i \in 1 .. Len(v) + 1,
         \A k \in i + 1 .. Len(v) + 1 : f[k] \in Remainders
  PROVE  OutFrom(v, f, i) \in Remainders
<1>1. Len(v) \in Nat
  OBVIOUS
<1>2. CASE i > Len(v)
  BY <1>2, NoArg DEF OutFrom, Remainders
<1>3. CASE i <= Len(v)
  <2>1. /\ i \in 1 .. Len(v) /\ v[i] \in Seq(Tokens)
        /\ i + 1 \in i + 1 .. Len(v) + 1
    BY <1>1, <1>3
  <2>2. Behind(v, i) \in Seq(Seq(Tokens)) /\ Len(Behind(v, i)) = Len(v) - i
        /\ SubSeq(v, i, Len(v)) \in Seq(Seq(Tokens))
    BY <2>1, BehindOK
  <2>3. /\ f[i + 1][1] \in Seq(OutSet)
        /\ f[i + 1][2] \in Seq(Seq(Tokens))
    BY <2>1 DEF Remainders
  <2>4. CASE v[i] = DoubleDash
    BY <2>1, <2>2, <2>4, NoArg, OutOfDashes, RemainderOK
  <2>5. CASE v[i] # DoubleDash /\ ~IsWord(v[i])
    <3> DEFINE e == ElementOut(v[i], Behind(v, i))
    <3>1. Len(v[i]) >= 2
      BY <2>1, <2>5 DEF IsWord
    <3>2. e[1] \in Seq(OutSet) /\ e[2] \in 0 .. Len(v) - i
      BY <2>1, <2>2, <3>1, ElementOK
    <3> HIDE DEF e
    <3>3. i + 1 + e[2] \in i + 1 .. Len(v) + 1
      BY <1>1, <2>1, <3>2
    <3> DEFINE j == i + 1 + e[2]
    <3>4. f[j][1] \in Seq(OutSet) /\ f[j][2] \in Seq(Seq(Tokens))
      BY <3>3 DEF Remainders
    <3>5. OutFrom(v, f, i) = <<e[1] \o f[j][1], f[j][2]>>
      BY <2>1, <2>5, OutOfOption, ZenonT(30) DEF e
    <3> HIDE DEF j
    <3> QED
      BY <3>2, <3>4, <3>5, ConcatOK, RemainderOK
  <2>6. CASE v[i] # DoubleDash /\ IsWord(v[i])
    <3>1. Out("word", <<v[i]>>, "") \in OutSet
      BY <2>1, OneArg, MarksOK, OutOK
    <3>2. <<v[i]>> \in Seq(Seq(Tokens))
      BY <2>1, OneArg
    <3>3. OutFrom(v, f, i) \in
            {<<<<>>, SubSeq(v, i, Len(v))>>,
             <<f[i + 1][1], <<v[i]>> \o f[i + 1][2]>>,
             <<<<Out("word", <<v[i]>>, "")>> \o f[i + 1][1], f[i + 1][2]>>}
      BY <2>1, <2>6, OutOfWord
    <3>4. /\ <<v[i]>> \o f[i + 1][2] \in Seq(Seq(Tokens))
          /\ <<Out("word", <<v[i]>>, "")>> \o f[i + 1][1] \in Seq(OutSet)
      <4>1. <<Out("word", <<v[i]>>, "")>> \in Seq(OutSet)
        BY <3>1, OneOf
      <4> QED
        BY <2>3, <3>2, <4>1, ConcatOK
    <3> QED
      BY <2>2, <2>3, <3>3, <3>4, NoArg, RemainderOK
  <2> QED
    BY <2>4, <2>5, <2>6
<1> QED
  BY <1>1, <1>2, <1>3

Agree(f, g, i, n) == \A k \in i + 1 .. n + 1 : f[k] = g[k]

LEMMA OutFromBelow ==
  ASSUME IsConfig(conf), NEW v \in Seq(Seq(Tokens)), NEW f, NEW g,
         NEW i \in 1 .. Len(v) + 1,
         Agree(f, g, i, Len(v))
  PROVE  OutFrom(v, f, i) = OutFrom(v, g, i)
<1>1. Len(v) \in Nat
  OBVIOUS
<1>2. CASE i > Len(v)
  BY <1>2 DEF OutFrom
<1>3. CASE i <= Len(v)
  <2>1. /\ i \in 1 .. Len(v) /\ v[i] \in Seq(Tokens)
        /\ i + 1 \in i + 1 .. Len(v) + 1
    BY <1>1, <1>3
  <2>2. f[i + 1] = g[i + 1]
    BY <2>1 DEF Agree
  <2>5. CASE v[i] # DoubleDash /\ ~IsWord(v[i])
    <3>0. PICK e : e = ElementOut(v[i], Behind(v, i))
      OBVIOUS
    <3>1. Len(v[i]) >= 2
      BY <2>1, <2>5 DEF IsWord
    <3>2. e[2] \in 0 .. Len(v) - i
      BY <2>1, <3>0, <3>1, BehindOK, ElementOK
    <3>3. i + 1 + e[2] \in i + 1 .. Len(v) + 1
      BY <1>1, <2>1, <3>2
    <3> DEFINE j == i + 1 + e[2]
    <3>4. f[j] = g[j]
      BY <3>3 DEF Agree
    <3>5. OutFrom(v, f, i) = <<e[1] \o f[j][1], f[j][2]>>
      BY <2>1, <2>5, <3>0, OutOfOption, ZenonT(30)
    <3>6. OutFrom(v, g, i) = <<e[1] \o g[j][1], g[j][2]>>
      BY <2>1, <2>5, <3>0, OutOfOption, ZenonT(30)
    <3> HIDE DEF j
    <3> QED
      BY <3>4, <3>5, <3>6
  <2>3. CASE v[i] = DoubleDash
    BY <2>1, <2>3, OutOfDashes, ZenonT(30)
  <2>4. CASE v[i] # DoubleDash /\ IsWord(v[i])
    BY <2>1, <2>2, <2>4, OutOfWord
  <2> QED
    BY <2>3, <2>4, <2>5
<1> QED
  BY <1>1, <1>2, <1>3

(***************************************************************************)
(* What is documented is defined, and only once.                           *)
(***************************************************************************)
\* What Documented() computes.
Outs(v) == CHOOSE f : f = [i \in 1 .. Len(v) + 1 |-> OutFrom(v, f, i)]

LEMMA OutsOK ==
  ASSUME IsConfig(conf), NEW v \in Seq(Seq(Tokens))
  PROVE  IsOut(Outs(v), v) /\ Documented(v) = Outs(v)[1]
<1> DEFINE n == Len(v)
           D == 1 .. n + 1
           rank == [i \in D |-> n + 1 - i]
           G == [p \in [D -> Remainders] \X D |-> OutFrom(v, p[1], p[2])]
           F == Outs(v)
<1>1. n \in Nat /\ <<<<>>, <<>>>> \in Remainders /\ rank \in [D -> 0 .. n]
  <2>1. n \in Nat
    OBVIOUS
  <2>2. <<<<>>, <<>>>> \in Remainders
    BY NoArg, RemainderOK
  <2>3. \A i \in D : n + 1 - i \in 0 .. n
    BY <2>1
  <2> HIDE DEF n, D
  <2> QED
    BY <2>1, <2>2, <2>3
<1>2. ASSUME NEW f \in [D -> Remainders], NEW i \in D
      PROVE  OutFrom(v, f, i) \in Remainders
  <2>1. \A k \in i + 1 .. n + 1 : k \in D
    BY <1>1
  <2>2. \A k \in i + 1 .. n + 1 : f[k] \in Remainders
    BY <2>1
  <2> QED
    BY <2>2, OutFromOK
<1>3. LooksBelow(G, D, Remainders, rank, n)
  <2>1. G \in [[D -> Remainders] \X D -> Remainders]
    <3> HIDE DEF D
    <3> QED
      BY <1>2
  <2>2. ASSUME NEW i \in D, NEW g \in [D -> Remainders],
               NEW h \in [D -> Remainders],
               \A j \in D : rank[j] < rank[i] => g[j] = h[j]
        PROVE  OutFrom(v, g, i) = OutFrom(v, h, i)
    <3>1. ASSUME NEW j \in i + 1 .. n + 1 PROVE g[j] = h[j]
      <4>1. j \in D /\ n + 1 - j < n + 1 - i
        BY <1>1
      <4> QED
        BY <2>2, <4>1
    <3>2. Agree(g, h, i, n)
      BY <3>1 DEF Agree
    <3> QED
      BY <3>2, OutFromBelow
  <2>3. ASSUME NEW f \in [D -> Remainders], NEW i \in D
        PROVE  G[<<f, i>>] = OutFrom(v, f, i)
    <3> HIDE DEF D
    <3> QED
      OBVIOUS
  <2> HIDE DEF n, D, rank, G
  <2>4. ASSUME NEW i \in D, NEW g \in [D -> Remainders],
               NEW h \in [D -> Remainders],
               \A j \in D : rank[j] < rank[i] => g[j] = h[j]
        PROVE  G[<<g, i>>] = G[<<h, i>>]
    BY <2>2, <2>3, <2>4
  <2> QED
    BY <1>1, <2>1, <2>4 DEF LooksBelow
<1>4. PICK f : Solves(f, G, D, Remainders)
  <2> HIDE DEF D, G, rank, n
  <2> QED
    BY <1>3, RecursionExists
<1>5. f \in [D -> Remainders] /\ \A i \in D : f[i] = OutFrom(v, f, i)
  <2> HIDE DEF D
  <2> QED
    BY <1>4 DEF Solves
<1>6. f = [i \in D |-> OutFrom(v, f, i)]
  <2> HIDE DEF D
  <2> QED
    BY <1>5
<1>7. F = [i \in D |-> OutFrom(v, F, i)]
  BY <1>6 DEF Outs
<1>8. \A i \in D : F[i] = OutFrom(v, F, i)
  <2> HIDE DEF D, F
  <2> QED
    BY <1>7
<1> HIDE DEF F, D
<1>9. ASSUME NEW m \in Nat
      PROVE  \A i \in D : i >= n + 1 - m => F[i] \in Remainders
  <2> DEFINE Is == {k \in Nat :
                      \A i \in D : i >= n + 1 - k => F[i] \in Remainders}
  <2>1. 0 \in Is
    <3>1. ASSUME NEW i \in D, i >= n + 1 - 0 PROVE F[i] \in Remainders
      <4>1. i \in 1 .. n + 1 /\ \A k \in i + 1 .. n + 1 : FALSE
        BY <1>1, <3>1 DEF D
      <4>2. OutFrom(v, F, i) \in Remainders
        BY <4>1, OutFromOK
      <4> QED
        BY <1>8, <4>2
    <3> QED
      BY <3>1
  <2>2. ASSUME NEW k \in Nat, k \in Is PROVE k + 1 \in Is
    <3>1. ASSUME NEW i \in D, i >= n + 1 - (k + 1) PROVE F[i] \in Remainders
      <4>1. i \in 1 .. n + 1
        BY DEF D
      <4>2. ASSUME NEW j \in i + 1 .. n + 1 PROVE F[j] \in Remainders
        <5>1. j \in D /\ j >= n + 1 - k
          BY <1>1, <3>1, <4>1 DEF D
        <5> QED
          BY <2>2, <5>1
      <4>3. OutFrom(v, F, i) \in Remainders
        BY <4>1, <4>2, OutFromOK
      <4> QED
        BY <1>8, <4>3
    <3> QED
      BY <3>1
  <2> HIDE DEF Is
  <2>3. m \in Is
    BY <2>1, <2>2, Induction
  <2> QED
    BY <2>3 DEF Is
<1>10. \A i \in D : F[i] \in Remainders
  <2> TAKE i \in D
  <2>1. i >= n + 1 - n
    BY <1>1 DEF D
  <2> QED
    BY <1>1, <1>9, <2>1
<1>11. F \in [D -> Remainders]
  <2>1. F = [i \in D |-> F[i]]
    BY <1>7, <1>8
  <2> QED
    BY <1>10, <2>1
<1>12. Documented(v) = F[1]
  BY DEF Documented, F, Outs
<1> QED
  BY <1>8, <1>11, <1>12 DEF IsOut, F, D

(***************************************************************************)
(* Parts of a vector.                                                      *)
(***************************************************************************)
LEMMA SliceOK ==
  ASSUME NEW T, NEW v \in Seq(T), NEW a \in 1 .. Len(v) + 1,
         NEW b \in a - 1 .. Len(v)
  PROVE  /\ SubSeq(v, a, b) \in Seq(T) /\ Len(SubSeq(v, a, b)) = b - a + 1
         /\ \A i \in 1 .. b - a + 1 : SubSeq(v, a, b)[i] = v[a + i - 1]
<1>1. /\ a \in Nat /\ b \in Nat /\ a <= b + 1 /\ Len(v) \in Nat
      /\ \A i \in a .. b : v[i] \in T
  OBVIOUS
<1> QED
  BY <1>1, SubSeqProperties

LEMMA SliceEmpty ==
  ASSUME NEW v, NEW a \in Nat, NEW b \in Nat, b <= a
  PROVE  SubSeq(v, a, b - 1) = <<>>
OBVIOUS

LEMMA SliceSame ==
  ASSUME NEW T, NEW v \in Seq(T), NEW w \in Seq(T), Len(v) = Len(w),
         NEW a \in 1 .. Len(v) + 1, NEW b \in a - 1 .. Len(v),
         \A i \in a .. b : v[i] = w[i]
  PROVE  SubSeq(v, a, b) = SubSeq(w, a, b)
<1> DEFINE x == SubSeq(v, a, b)
           y == SubSeq(w, a, b)
<1>1. /\ x \in Seq(T) /\ Len(x) = b - a + 1
      /\ \A i \in 1 .. b - a + 1 : x[i] = v[a + i - 1]
  BY SliceOK
<1>2. /\ y \in Seq(T) /\ Len(y) = b - a + 1
      /\ \A i \in 1 .. b - a + 1 : y[i] = w[a + i - 1]
  BY SliceOK
<1>3. \A i \in 1 .. b - a + 1 : a + i - 1 \in a .. b
  OBVIOUS
<1> HIDE DEF x, y
<1>4. \A i \in 1 .. b - a + 1 : x[i] = y[i]
  BY <1>1, <1>2, <1>3
<1>5. x = y
  BY <1>1, <1>2, <1>4, SeqEqual
<1> QED
  BY <1>5 DEF x, y

LEMMA SliceJoin ==
  ASSUME NEW T, NEW v \in Seq(T), NEW a \in 1 .. Len(v) + 1,
         NEW m \in a .. Len(v) + 1, NEW b \in m - 1 .. Len(v)
  PROVE  SubSeq(v, a, m - 1) \o SubSeq(v, m, b) = SubSeq(v, a, b)
<1> DEFINE x == SubSeq(v, a, m - 1)
           y == SubSeq(v, m, b)
           z == SubSeq(v, a, b)
<1>1. /\ a \in Nat /\ m \in Nat /\ b \in Nat /\ Len(v) \in Nat
      /\ m - 1 \in a - 1 .. Len(v) /\ m \in 1 .. Len(v) + 1
      /\ b \in a - 1 .. Len(v)
  OBVIOUS
<1>2. /\ x \in Seq(T) /\ Len(x) = m - a
      /\ \A i \in 1 .. m - a : x[i] = v[a + i - 1]
  <2> DEFINE c == m - 1
  <2>1. c \in a - 1 .. Len(v) /\ c - a + 1 = m - a
    BY <1>1
  <2> HIDE DEF c
  <2>2. /\ SubSeq(v, a, c) \in Seq(T) /\ Len(SubSeq(v, a, c)) = c - a + 1
        /\ \A i \in 1 .. c - a + 1 : SubSeq(v, a, c)[i] = v[a + i - 1]
    BY <2>1, SliceOK
  <2> QED
    BY <2>1, <2>2 DEF c
<1>3. /\ y \in Seq(T) /\ Len(y) = b - m + 1
      /\ \A i \in 1 .. b - m + 1 : y[i] = v[m + i - 1]
  BY <1>1, SliceOK
<1>4. /\ z \in Seq(T) /\ Len(z) = b - a + 1
      /\ \A i \in 1 .. b - a + 1 : z[i] = v[a + i - 1]
  BY <1>1, SliceOK
<1> HIDE DEF x, y, z
<1>5. /\ x \o y \in Seq(T) /\ Len(x \o y) = b - a + 1
      /\ \A i \in 1 .. b - a + 1 :
           (x \o y)[i] = IF i <= m - a THEN x[i] ELSE y[i - (m - a)]
  <2>1. /\ x \o y \in Seq(T) /\ Len(x \o y) = Len(x) + Len(y)
        /\ \A i \in 1 .. Len(x) + Len(y) :
             (x \o y)[i] = IF i <= Len(x) THEN x[i] ELSE y[i - Len(x)]
    BY <1>2, <1>3, ConcatProperties
  <2>2. Len(x) + Len(y) = b - a + 1
    BY <1>1, <1>2, <1>3
  <2> QED
    BY <1>2, <2>1, <2>2
<1>6. \A i \in 1 .. b - a + 1 : (x \o y)[i] = z[i]
  <2> TAKE i \in 1 .. b - a + 1
  <2>1. CASE i <= m - a
    BY <1>1, <1>2, <1>4, <1>5, <2>1
  <2>2. CASE ~(i <= m - a)
    <3>1. i - (m - a) \in 1 .. b - m + 1 /\ m + (i - (m - a)) - 1 = a + i - 1
      BY <1>1, <2>2
    <3>2. y[i - (m - a)] = v[a + i - 1]
      BY <1>3, <3>1
    <3> QED
      BY <1>4, <1>5, <2>2, <3>2
  <2> QED
    BY <2>1, <2>2
<1>7. x \o y = z
  BY <1>4, <1>5, <1>6, SeqEqual
<1> QED
  BY <1>7 DEF x, y, z

LEMMA SliceOne ==
  ASSUME NEW T, NEW v \in Seq(T), NEW a \in 1 .. Len(v)
  PROVE  SubSeq(v, a, a) = <<v[a]>>
<1> DEFINE x == SubSeq(v, a, a)
           y == <<v[a]>>
<1>1. a \in 1 .. Len(v) + 1 /\ a \in a - 1 .. Len(v) /\ a - a + 1 = 1
      /\ a + 1 - 1 = a
  OBVIOUS
<1>2. x \in Seq(T) /\ Len(x) = 1 /\ x[1] = v[a]
  <2>1. /\ x \in Seq(T) /\ Len(x) = a - a + 1
        /\ \A i \in 1 .. a - a + 1 : x[i] = v[a + i - 1]
    BY <1>1, SliceOK
  <2> HIDE DEF x
  <2> QED
    BY <1>1, <2>1
<1>3. y \in Seq(T) /\ Len(y) = 1 /\ y[1] = v[a]
  OBVIOUS
<1> HIDE DEF x, y
<1>4. \A i \in 1 .. Len(x) : x[i] = y[i]
  BY <1>2, <1>3
<1>5. x = y
  BY <1>2, <1>3, <1>4, SeqEqual
<1> QED
  BY <1>5 DEF x, y

\* What exchange() has done to the segments and to what is behind them.
LEMMA RotatedParts ==
  ASSUME NEW T, NEW v \in Seq(T), NEW w \in Seq(T),
         NEW f \in Nat, NEW m \in Nat, NEW t \in Nat,
         1 <= f, f <= m, m <= t, t <= Len(v) + 1, w = Rotated(v, f, m, t)
  PROVE  /\ Len(w) = Len(v)
         /\ \A i \in t .. Len(v) : w[i] = v[i]
         /\ SubSeq(w, t, Len(w)) = SubSeq(v, t, Len(v))
         /\ SubSeq(w, f + (t - m), t - 1) = SubSeq(v, f, m - 1)
<1>1. /\ f \in Nat /\ m \in Nat /\ t \in Nat /\ Len(v) \in Nat
      /\ 1 <= f /\ f <= m /\ m <= t /\ t <= Len(v) + 1
  OBVIOUS
<1>2. DOMAIN w = DOMAIN v
  BY DEF Rotated
<1>3. Len(w) = Len(v)
  BY <1>1, <1>2, LenProperties
<1>4. ASSUME NEW i \in 1 .. Len(v)
      PROVE  w[i] = IF i \in f .. f + (t - m) - 1 THEN v[i + (m - f)]
                    ELSE IF i \in f + (t - m) .. t - 1 THEN v[i - (t - m)]
                    ELSE v[i]
  <2>1. i \in DOMAIN v
    OBVIOUS
  <2>2. Rotated(v, f, m, t)[i] =
          IF i \in f .. f + (t - m) - 1 THEN v[i + (m - f)]
          ELSE IF i \in f + (t - m) .. t - 1 THEN v[i - (t - m)]
          ELSE v[i]
    BY <2>1 DEF Rotated
  <2> QED
    BY <2>2
<1>5. ASSUME NEW i \in t .. Len(v) PROVE w[i] = v[i]
  <2>1. /\ i \in 1 .. Len(v) /\ i \notin f .. f + (t - m) - 1
        /\ i \notin f + (t - m) .. t - 1
    BY <1>1
  <2> QED
    BY <1>4, <2>1
<1>6. SubSeq(w, t, Len(w)) = SubSeq(v, t, Len(v))
  <2>1. t \in 1 .. Len(v) + 1 /\ Len(v) \in t - 1 .. Len(v)
    BY <1>1
  <2>2. SubSeq(w, t, Len(v)) = SubSeq(v, t, Len(v))
    BY <1>3, <1>5, <2>1, SliceSame
  <2> QED
    BY <1>3, <2>2
<1>7. SubSeq(w, f + (t - m), t - 1) = SubSeq(v, f, m - 1)
  <2> DEFINE a == f + (t - m)
             b == t - 1
             c == m - 1
             x == SubSeq(w, a, b)
             y == SubSeq(v, f, c)
  <2>1. /\ a \in 1 .. Len(v) + 1 /\ b \in a - 1 .. Len(v)
        /\ c \in f - 1 .. Len(v) /\ b - a + 1 = m - f /\ c - f + 1 = m - f
        /\ a \in Nat
    BY <1>1
  <2>2. \A i \in 1 .. m - f :
          /\ a + i - 1 \in 1 .. Len(v)
          /\ a + i - 1 \notin f .. f + (t - m) - 1
          /\ a + i - 1 \in f + (t - m) .. t - 1
          /\ a + i - 1 - (t - m) = f + i - 1
    BY <1>1
  <2>3. \A i \in 1 .. m - f : w[a + i - 1] = v[f + i - 1]
    <3> HIDE DEF a
    <3> TAKE i \in 1 .. m - f
    <3> DEFINE j == a + i - 1
    <3>0. /\ j \in 1 .. Len(v) /\ j \notin f .. f + (t - m) - 1
          /\ j \in f + (t - m) .. t - 1 /\ j - (t - m) = f + i - 1
      BY <1>1, <2>1, <2>2
    <3> HIDE DEF j
    <3>1. PICK k \in 1 .. Len(v) : k = j
      BY <3>0
    <3>2. /\ k \notin f .. f + (t - m) - 1 /\ k \in f + (t - m) .. t - 1
          /\ k - (t - m) = f + i - 1
      BY <3>0, <3>1
    <3>3. w[k] = v[k - (t - m)]
      BY <1>4, <3>2
    <3> QED
      BY <3>1, <3>2, <3>3 DEF j
  <2> HIDE DEF a, b, c
  <2>4. /\ x \in Seq(T) /\ Len(x) = m - f
        /\ \A i \in 1 .. m - f : x[i] = w[a + i - 1]
    BY <1>3, <2>1, SliceOK
  <2>5. /\ y \in Seq(T) /\ Len(y) = m - f
        /\ \A i \in 1 .. m - f : y[i] = v[f + i - 1]
    BY <2>1, SliceOK
  <2> HIDE DEF x, y
  <2>6. \A i \in 1 .. m - f : x[i] = y[i]
    BY <2>3, <2>4, <2>5
  <2>7. x = y
    BY <2>4, <2>5, <2>6, SeqEqual
  <2> QED
    BY <2>7 DEF x, y, a, b, c
<1> QED
  BY <1>3, <1>5, <1>6, <1>7

LEMMA Parts ==
  ASSUME NEW p, NEW a, NEW b, p = <<a, b>>
  PROVE  p[1] = a /\ p[2] = b
OBVIOUS

LEMMA WordIsNoDashes ==
  ASSUME NEW w, IsWord(w)
  PROVE  w # DoubleDash
BY DEF IsWord, DoubleDash

LEMMA OutTyped ==
  ASSUME NEW v \in Seq(Seq(Tokens)), NEW F, IsOut(F, v),
         NEW i \in 1 .. Len(v) + 1
  PROVE  /\ F[i] = OutFrom(v, F, i)
         /\ F[i] = <<F[i][1], F[i][2]>>
         /\ F[i][1] \in Seq(OutSet) /\ F[i][2] \in Seq(Seq(Tokens))
<1>1. F[i] \in Remainders /\ F[i] = OutFrom(v, F, i)
  BY DEF IsOut
<1> QED
  BY <1>1 DEF Remainders

LEMMA OutAtEnd ==
  ASSUME NEW v \in Seq(Seq(Tokens)), NEW F, IsOut(F, v)
  PROVE  F[Len(v) + 1] = <<<<>>, <<>>>>
<1>1. Len(v) + 1 \in 1 .. Len(v) + 1 /\ Len(v) + 1 > Len(v)
  OBVIOUS
<1>2. F[Len(v) + 1] = OutFrom(v, F, Len(v) + 1)
  BY <1>1 DEF IsOut
<1> QED
  BY <1>1, <1>2 DEF OutFrom

\* There is one solution.
LEMMA OutUnique ==
  ASSUME IsConfig(conf), NEW v \in Seq(Seq(Tokens)),
         NEW F, IsOut(F, v), NEW G, IsOut(G, v)
  PROVE  F[1] = G[1]
<1> DEFINE n == Len(v)
           Is == {k \in Nat :
                    \A i \in 1 .. n + 1 : i >= n + 1 - k => F[i] = G[i]}
<1>1. n \in Nat
  OBVIOUS
<1>2. 0 \in Is
  <2>1. \A i \in 1 .. n + 1 : i >= n + 1 - 0 => i = n + 1
    BY <1>1
  <2>2. F[n + 1] = G[n + 1]
    BY OutAtEnd
  <2> HIDE DEF n
  <2> QED
    BY <2>1, <2>2
<1>3. ASSUME NEW k \in Nat, k \in Is PROVE k + 1 \in Is
  <2>1. ASSUME NEW i \in 1 .. n + 1, i >= n + 1 - (k + 1) PROVE F[i] = G[i]
    <3>1. ASSUME NEW j \in i + 1 .. n + 1 PROVE F[j] = G[j]
      <4>1. j \in 1 .. n + 1 /\ j >= n + 1 - k
        BY <1>1, <2>1
      <4> QED
        BY <1>3, <4>1
    <3>2. OutFrom(v, F, i) = OutFrom(v, G, i)
      <4>1. Agree(F, G, i, n)
        BY <3>1 DEF Agree
      <4> QED
        BY <4>1, OutFromBelow
    <3> QED
      BY <3>2, OutTyped
  <2> QED
    BY <2>1
<1>4. n \in Is
  <2> HIDE DEF Is
  <2> QED
    BY <1>1, <1>2, <1>3, Induction
<1>5. 1 \in 1 .. n + 1 /\ 1 >= n + 1 - n
  BY <1>1
<1> QED
  BY <1>4, <1>5

AllWords(v, a, b) == \A i \in a .. b - 1 : IsWord(v[i])

Leaves(F, v, a, b) == F[a] = <<F[b][1], SubSeq(v, a, b - 1) \o F[b][2]>>

\* Words that are skipped are left, in their order.
LEMMA OutOfWords ==
  ASSUME NEW v \in Seq(Seq(Tokens)), NEW F, IsOut(F, v),
         Ordering = "permute",
         NEW a \in Nat, NEW b \in Nat, 1 <= a, a <= b, b <= Len(v) + 1,
         AllWords(v, a, b)
  PROVE  Leaves(F, v, a, b)
<1> DEFINE From(c) == F[c] = <<F[b][1], SubSeq(v, c, b - 1) \o F[b][2]>>
           Is == {k \in Nat : \A c \in a .. b : c = b - k => From(c)}
<1>1. /\ a \in Nat /\ b \in Nat /\ Len(v) \in Nat
      /\ 1 <= a /\ a <= b /\ b <= Len(v) + 1 /\ b \in 1 .. Len(v) + 1
  OBVIOUS
<1>2. /\ F[b] = <<F[b][1], F[b][2]>>
      /\ F[b][1] \in Seq(OutSet) /\ F[b][2] \in Seq(Seq(Tokens))
  BY <1>1, OutTyped
<1>3. 0 \in Is
  <2>1. SubSeq(v, b, b - 1) = <<>>
    BY <1>1, SliceEmpty
  <2>2. <<>> \o F[b][2] = F[b][2]
    BY <1>2, ConcatEmptySeq
  <2>3. From(b)
    BY <1>2, <2>1, <2>2
  <2>4. b - 0 = b
    BY <1>1
  <2> HIDE DEF From
  <2> QED
    BY <2>3, <2>4
<1>4. ASSUME NEW k \in Nat, k \in Is PROVE k + 1 \in Is
  <2>1. ASSUME NEW c \in a .. b, c = b - (k + 1) PROVE From(c)
    <3>1. c \in 1 .. Len(v) /\ c + 1 \in a .. b /\ c + 1 = b - k
          /\ c \in a .. b - 1 /\ c \in 1 .. Len(v) + 1 /\ b - 1 \in c .. Len(v)
          /\ c + 1 \in c .. Len(v) + 1
      BY <1>1, <2>1
    <3>2. From(c + 1)
      <4> HIDE DEF From
      <4> QED
        BY <1>4, <3>1
    <3>3. IsWord(v[c]) /\ v[c] # DoubleDash /\ v[c] \in Seq(Tokens)
      BY <3>1, WordIsNoDashes DEF AllWords
    <3>4. F[c] = OutFrom(v, F, c)
      BY <3>1, OutTyped
    <3>5. F[c] = <<F[c + 1][1], <<v[c]>> \o F[c + 1][2]>>
      BY <3>1, <3>3, <3>4, OutOfWord
    <3>6. /\ F[c + 1][1] = F[b][1]
          /\ F[c + 1][2] = SubSeq(v, c + 1, b - 1) \o F[b][2]
      <4> DEFINE p == F[c + 1]
                 x == F[b][1]
                 y == SubSeq(v, c + 1, b - 1) \o F[b][2]
      <4>1. p = <<x, y>>
        BY <3>2
      <4> HIDE DEF p, x, y
      <4>2. p[1] = x /\ p[2] = y
        BY <4>1, Parts
      <4> QED
        BY <4>2 DEF p, x, y
    <3>7. SubSeq(v, c, b - 1) = <<v[c]>> \o SubSeq(v, c + 1, b - 1)
      <4> DEFINE m == c + 1
                 e == b - 1
      <4>1. m \in c .. Len(v) + 1 /\ e \in m - 1 .. Len(v) /\ m - 1 = c
            /\ c \in 1 .. Len(v) + 1
        BY <1>1, <3>1
      <4> HIDE DEF m, e
      <4>2. SubSeq(v, c, m - 1) \o SubSeq(v, m, e) = SubSeq(v, c, e)
        BY <4>1, SliceJoin
      <4>3. SubSeq(v, c, c) = <<v[c]>>
        BY <3>1, SliceOne
      <4> QED
        BY <4>1, <4>2, <4>3 DEF m, e
    <3>8. (<<v[c]>> \o SubSeq(v, c + 1, b - 1)) \o F[b][2]
            = <<v[c]>> \o (SubSeq(v, c + 1, b - 1) \o F[b][2])
      <4> DEFINE U == Seq(Tokens)
                 x == <<v[c]>>
                 y == SubSeq(v, c + 1, b - 1)
                 z == F[b][2]
      <4>1. x \in Seq(U) /\ z \in Seq(U)
        BY <1>2, <3>3, OneOf
      <4>2. y \in Seq(U)
        <5> DEFINE m == c + 1
                   e == b - 1
        <5>1. m \in 1 .. Len(v) + 1 /\ e \in m - 1 .. Len(v)
          BY <1>1, <3>1
        <5>2. v \in Seq(U)
          OBVIOUS
        <5> HIDE DEF m, e, U
        <5>3. SubSeq(v, m, e) \in Seq(U)
          BY <5>1, <5>2, SliceOK
        <5> QED
          BY <5>3 DEF m, e
      <4> HIDE DEF U, x, y, z
      <4>3. (x \o y) \o z = x \o (y \o z)
        BY SMTT(30), <4>1, <4>2, Associative
      <4> QED
        BY <4>3 DEF x, y, z
    <3> QED
      BY <3>5, <3>6, <3>7, <3>8
  <2> HIDE DEF From
  <2> QED
    BY <2>1
<1>5. b - a \in Is
  <2>1. b - a \in Nat
    BY <1>1
  <2> HIDE DEF Is
  <2> QED
    BY <1>3, <1>4, <2>1, Induction
<1>6. a \in a .. b /\ a = b - (b - a)
  BY <1>1
<1>7. From(a)
  <2> HIDE DEF From
  <2> QED
    BY <1>5, <1>6
<1> QED
  BY <1>7 DEF Leaves

(***************************************************************************)
(* The course of a scan.                                                   *)
(***************************************************************************)
\* The table has neither of the two features that are not as documented.
Regular ==
  /\ ~conf.long_only
  /\ HasLongs \/ \A letter \in DOMAIN conf.shorts : conf.shorts[letter] # ";"

\* What a scan returns in all, and what it leaves.
InAll(F, returned, left) == F[1] = <<returned, left>>

\* The vector is the one that the scan began with, from optind on.
Ahead(v) ==
  /\ v \in Seq(Seq(Tokens)) /\ Len(v) = Len(original)
  /\ \A i \in optind .. Len(v) : v[i] = original[i]

Skipped(v) == SubSeq(v, first_nonopt, last_nonopt - 1)

\* Only words that are skipped leave a gap, or "--" does.
NoGap ==
  Ordering # "permute" =>
    first_nonopt = last_nonopt \/ (optind = argc /\ last_nonopt = argc)

\* The words in front of optind that are left have been skipped, and what F
\* says from optind on is still to come.
Between(F, v) ==
  /\ Ahead(v)
  /\ InAll(F, parsed \o F[optind][1], Skipped(v) \o F[optind][2])
  /\ NoGap

\* "--" has been found in front of optind.
Dashed(F, v) ==
  /\ v \in Seq(Seq(Tokens)) /\ Len(v) = Len(original)
  /\ InAll(F, parsed, Skipped(v) \o SubSeq(v, optind, Len(v)))

\* What the rest of an element says.
Remnant(arg, text, more) ==
  IF HasLongs /\ arg[2] = "-"
    THEN <<<<LongOut(text, more)[1]>>, LongOut(text, more)[2]>>
    ELSE GroupOut(text, more)

Remains(F, e) ==
  InAll(F, parsed \o (e[1] \o F[optind + 1 + e[2]][1]),
           Skipped(argv) \o F[optind + 1 + e[2]][2])

\* A part of the element at optind is still to come.
Within(F) ==
  /\ Ahead(argv)
  /\ Remains(F, Remnant(argv[optind], nextchar, Behind(argv, optind)))
  /\ NoGap

\* A scan has only begun.
Fresh == optind \in {0, 1} /\ parsed = <<>> /\ argv = original

Ended(F) == InAll(F, parsed, SubSeq(argv, optind, Len(argv)))

\* Where a scan is, as seen from the vector it began with.
AtCaller(F) ==
  IF optc = "end" THEN Ended(F)
  ELSE IF nextchar # <<>> THEN Within(F)
  ELSE \/ Fresh
       \/ /\ initialized /\ optind >= 1 /\ last_nonopt <= optind
          /\ Between(F, argv)

InCall(F) ==
  /\ optarg = <<>> /\ optc # "end"
  /\ pc = "advance" =>
       Fresh \/ (last_nonopt <= optind /\ Between(F, argv))
  /\ pc \in {"settle", "skip", "element"} => Between(F, argv)
  /\ pc \in {"settle", "skip"} => Ordering = "permute"
  /\ pc \in {"skip", "finish"} =>
       first_nonopt = optind \/ last_nonopt = optind
  /\ pc = "element" =>
       /\ first_nonopt = last_nonopt \/ last_nonopt = optind
       /\ Ordering = "permute" /\ optind < argc => ~IsWord(argv[optind])
  /\ pc = "exchange" =>
       IF then = "skip" THEN Between(F, before) /\ Ordering = "permute"
       ELSE Dashed(F, before)
  /\ pc = "finish" => Dashed(F, argv)
  /\ pc = "decode" => Within(F)

Follows(F) == IF pc = "caller" THEN AtCaller(F) ELSE InCall(F)

\* F is what is documented of the vector that this scan began with.
Past(F) ==
  /\ original \in Seq(Seq(Tokens))
  /\ IsOut(F, original)
  /\ parsed \in Seq(OutSet)
  /\ Follows(F)

Course == IInv /\ (Regular /\ ~lost => \E F : Past(F))

\* What the table means does not change as long as the table does not.
LEMMA SameTable ==
  ASSUME conf' = conf
  PROVE  /\ Ordering' = Ordering /\ HasLongs' = HasLongs /\ Regular' = Regular
         /\ \A v, F : IsOut(F, v)' = IsOut(F, v)
         /\ \A arg, text, more :
              Remnant(arg, text, more)' = Remnant(arg, text, more)
<1>1. Ordering' = Ordering /\ HasLongs' = HasLongs /\ Regular' = Regular
  BY DEF Ordering, HasLongs, Regular
<1>2. ASSUME NEW v, NEW F PROVE IsOut(F, v)' = IsOut(F, v)
  <2>1. \A i : OutFrom(v, F, i)' = OutFrom(v, F, i)
    BY SameOut
  <2> QED
    BY <2>1 DEF IsOut
<1>3. ASSUME NEW arg, NEW text, NEW more
      PROVE  Remnant(arg, text, more)' = Remnant(arg, text, more)
  BY <1>1, SameLongOut, SameGroupOut DEF Remnant
<1> QED
  BY <1>1, <1>2, <1>3

\* A step of a scan keeps its course if it keeps up with what is documented.
LEMMA PastKeeps ==
  ASSUME NEW F, Past(F), conf' = conf, original' = original,
         parsed' \in Seq(OutSet), Follows(F)'
  PROVE  Past(F)'
<1>1. PICK v : v = original
  OBVIOUS
<1>2. IsOut(F, v) /\ v = original'
  BY <1>1 DEF Past
<1>3. IsOut(F, v)'
  BY <1>2, SameTable
<1>4. IsOut(F, original)'
  BY <1>2, <1>3
<1> QED
  BY <1>4 DEF Past

\* Nothing that Between speaks of changes.
LEMMA BetweenKeeps ==
  ASSUME NEW F, NEW v, Between(F, v), Len(v) = Len(argv),
         conf' = conf, original' = original, parsed' = parsed,
         optind' = optind, first_nonopt' = first_nonopt,
         last_nonopt' = last_nonopt, Len(argv') = Len(argv)
  PROVE  Between(F, v)'
<1>1. Ahead(v)'
  BY DEF Between, Ahead
<1>2. NoGap'
  BY SameTable DEF Between, NoGap, argc
<1> QED
  BY <1>1, <1>2 DEF Between, InAll, Skipped

(***************************************************************************)
(* The steps between elements keep the course.                             *)
(***************************************************************************)
LEMMA MinOfTwo ==
  ASSUME NEW a \in Nat, NEW b \in Nat
  PROVE  Min({a, b}) = IF a <= b THEN a ELSE b
<1>1. {a, b} \in SUBSET Nat
  OBVIOUS
<1>2. CASE a <= b
  BY <1>1, <1>2, MinIs
<1>3. CASE ~(a <= b)
  <2>1. b <= a
    BY <1>3
  <2>2. Min({a, b}) = b
    BY <1>1, <2>1, MinIs
  <2> QED
    BY <1>3, <2>2
<1> QED
  BY <1>2, <1>3

\* What Call and the steps of a call leave alone.
LEMMA CourseOfAdvance ==
  ASSUME IInv, NEW F, Past(F), Advance
  PROVE  Past(F)'
<1>1. /\ pc = "advance" /\ UNCHANGED <<argv, conf, original, parsed, lost>>
      /\ UNCHANGED <<optind, nextchar, optarg, optopt, optc>>
      /\ last_nonopt' = Min({last_nonopt, optind})
      /\ first_nonopt' = Min({first_nonopt, optind})
      /\ pc' = IF Ordering = "permute" THEN "settle" ELSE "element"
  BY DEF Advance, Scanning, callerVars
<1>2. /\ argv \in Seq(Seq(Tokens)) /\ Len(argv) \in Nat /\ argc = Len(argv) + 1
      /\ optind \in Nat /\ first_nonopt \in Nat /\ last_nonopt \in Nat
      /\ optind >= 1 /\ first_nonopt >= 1 /\ first_nonopt <= last_nonopt
  BY <1>1, NaturalsOK, TypeParts DEF IInv, Begun, TextsOK
<1>3. /\ optarg = <<>> /\ optc # "end"
      /\ Fresh \/ (last_nonopt <= optind /\ Between(F, argv))
      /\ original \in Seq(Seq(Tokens)) /\ IsOut(F, original)
      /\ parsed \in Seq(OutSet)
  BY <1>1 DEF Past, Follows, InCall
<1>4. Ordering' = Ordering
  BY <1>1, SameTable
<1>5. CASE last_nonopt <= optind /\ Between(F, argv)
  <2>1. last_nonopt' = last_nonopt /\ first_nonopt' = first_nonopt
    BY <1>1, <1>2, <1>5, MinOfTwo
  <2>2. Between(F, argv)'
    <3>1. PICK v : v = argv
      OBVIOUS
    <3>2. Between(F, v)'
      BY <1>1, <1>5, <2>1, <3>1, BetweenKeeps
    <3> QED
      BY <1>1, <3>1, <3>2
  <2>3. Ordering # "permute" =>
          first_nonopt = last_nonopt \/ last_nonopt = optind
    BY <1>5 DEF Between, NoGap
  <2>4. Follows(F)'
    BY <1>1, <1>3, <1>4, <2>1, <2>2, <2>3 DEF Follows, InCall
  <2> QED
    BY <1>1, <1>3, <2>4, PastKeeps
<1>6. CASE Fresh
  <2>1. optind = 1 /\ parsed = <<>> /\ argv = original
    BY <1>2, <1>6 DEF Fresh
  <2>2. first_nonopt' = 1 /\ last_nonopt' = 1
    BY <1>1, <1>2, <2>1, MinOfTwo
  <2>3. /\ F[1] = <<F[1][1], F[1][2]>>
        /\ F[1][1] \in Seq(OutSet) /\ F[1][2] \in Seq(Seq(Tokens))
    <3>1. 1 \in 1 .. Len(original) + 1
      BY <1>2, <2>1
    <3> QED
      BY <1>3, <3>1, OutTyped
  <2>4. /\ parsed' \o F[optind'][1] = F[1][1]
        /\ SubSeq(argv', first_nonopt', last_nonopt' - 1) \o F[optind'][2]
             = F[1][2]
    <3> DEFINE a == F[1][1]
               b == F[1][2]
    <3>1. a \in Seq(OutSet) /\ b \in Seq(Seq(Tokens))
      BY <2>3
    <3>2. parsed' = <<>> /\ optind' = 1 /\ first_nonopt' = 1 /\ last_nonopt' = 1
      BY <1>1, <2>1, <2>2
    <3>3. SubSeq(argv', 1, 1 - 1) = <<>>
      BY SliceEmpty
    <3> HIDE DEF a, b
    <3>4. <<>> \o a = a /\ <<>> \o b = b
      BY <3>1, ConcatEmptySeq
    <3> QED
      BY <3>2, <3>3, <3>4 DEF a, b
  <2>5. Between(F, argv)'
    <3>1. Ahead(argv)'
      BY <1>1, <1>2, <2>1 DEF Ahead
    <3>2. NoGap'
      BY <2>2 DEF NoGap
    <3>3. InAll(F, parsed \o F[optind][1], Skipped(argv) \o F[optind][2])'
      BY <2>3, <2>4 DEF InAll, Skipped
    <3> QED
      BY <3>1, <3>2, <3>3 DEF Between
  <2>6. Follows(F)'
    BY <1>1, <1>3, <1>4, <2>2, <2>5 DEF Follows, InCall
  <2> QED
    BY <1>1, <1>3, <2>6, PastKeeps
<1> QED
  BY <1>3, <1>5, <1>6

LEMMA CourseOfSettle ==
  ASSUME IInv, NEW F, Past(F), Settle
  PROVE  Past(F)'
<1>1. /\ pc = "settle"
      /\ UNCHANGED <<argv, conf, original, parsed, lost>>
      /\ UNCHANGED <<optind, nextchar, optarg, optopt, optc>>
  BY DEF Settle, callerVars
<1>2. /\ argv \in Seq(Seq(Tokens)) /\ Len(argv) \in Nat
      /\ optind \in Nat /\ first_nonopt \in Nat /\ last_nonopt \in Nat
      /\ last_nonopt <= optind
  <2>1. /\ Len(argv) \in Nat /\ optind \in Nat /\ first_nonopt \in Nat
        /\ last_nonopt \in Nat
    BY NaturalsOK DEF IInv
  <2>2. last_nonopt \in 1 .. optind
    BY <1>1, AtStep
  <2>3. argv \in Seq(Seq(Tokens))
    BY TypeParts DEF IInv, TextsOK
  <2> QED
    BY <2>1, <2>2, <2>3
<1>3. /\ optarg = <<>> /\ optc # "end" /\ Between(F, argv)
      /\ Ordering = "permute" /\ parsed \in Seq(OutSet)
  BY <1>1 DEF Past, Follows, InCall
<1>4. Ordering' = "permute"
  BY <1>1, <1>3, SameTable
<1>5. PICK v : v = argv
  OBVIOUS
<1>6. CASE first_nonopt # last_nonopt /\ last_nonopt # optind
  <2>1. /\ pc' = "exchange" /\ then' = "skip" /\ before' = argv
        /\ first_nonopt' = first_nonopt /\ last_nonopt' = last_nonopt
    BY <1>6 DEF Settle, ExchangeThen, nonopts
  <2>2. Between(F, v)'
    BY <1>1, <1>3, <1>5, <2>1, BetweenKeeps
  <2>3. Between(F, before)'
    BY <1>5, <2>1, <2>2
  <2>4. Follows(F)'
    BY <1>1, <1>3, <1>4, <2>1, <2>3 DEF Follows, InCall
  <2> QED
    BY <1>1, <1>3, <2>4, PastKeeps
<1>7. CASE ~(first_nonopt # last_nonopt /\ last_nonopt # optind)
  <2>1. /\ pc' = "skip" /\ last_nonopt' = last_nonopt
        /\ first_nonopt' =
             IF last_nonopt # optind THEN optind ELSE first_nonopt
    BY <1>7 DEF Settle
  <2>2. SubSeq(argv', first_nonopt', last_nonopt' - 1)
          = SubSeq(argv, first_nonopt, last_nonopt - 1)
    <3>1. CASE last_nonopt = optind
      BY <1>1, <2>1, <3>1
    <3>2. CASE last_nonopt # optind
      <4>1. first_nonopt = last_nonopt /\ first_nonopt' = optind
        BY <1>7, <2>1, <3>2
      <4> QED
        BY <1>1, <1>2, <2>1, <4>1, SliceEmpty
    <3> QED
      BY <3>1, <3>2
  <2>3. Between(F, argv)'
    <3>1. Ahead(argv)'
      BY <1>1, <1>3 DEF Between, Ahead
    <3>2. NoGap'
      BY <1>4 DEF NoGap
    <3>3. InAll(F, parsed \o F[optind][1], Skipped(argv) \o F[optind][2])'
      BY <1>1, <1>3, <2>2 DEF Between, InAll, Skipped
    <3> QED
      BY <3>1, <3>2, <3>3 DEF Between
  <2>4. Follows(F)'
    BY <1>1, <1>3, <1>4, <2>1, <2>3 DEF Follows, InCall
  <2> QED
    BY <1>1, <1>3, <2>4, PastKeeps
<1> QED
  BY <1>6, <1>7

LEMMA CourseOfSwap ==
  ASSUME IInv, NEW F, Past(F), SwapBottom \/ SwapTop
  PROVE  Past(F)'
<1>1. /\ pc = "exchange"
      /\ UNCHANGED <<conf, original, parsed, lost, pc, then, before>>
      /\ UNCHANGED <<optind, first_nonopt, last_nonopt, optarg, optopt, optc>>
  BY DEF SwapBottom, SwapTop, Exchanging, inExchange, nonopts, callerVars
<1>2. /\ optarg = <<>> /\ optc # "end" /\ parsed \in Seq(OutSet)
      /\ IF then = "skip" THEN Between(F, before) /\ Ordering = "permute"
         ELSE Dashed(F, before)
  BY <1>1 DEF Past, Follows, InCall
<1>3. Ordering' = Ordering
  BY <1>1, SameTable
<1>4. ASSUME then = "skip" PROVE Between(F, before)' /\ Ordering' = "permute"
  <2>1. Ahead(before)'
    BY <1>1, <1>2, <1>4 DEF Between, Ahead
  <2>2. NoGap'
    BY <1>2, <1>3, <1>4 DEF NoGap
  <2> QED
    BY <1>1, <1>2, <1>3, <1>4, <2>1, <2>2 DEF Between, InAll, Skipped
<1>5. ASSUME then # "skip" PROVE Dashed(F, before)'
  BY <1>1, <1>2, <1>5 DEF Dashed, InAll, Skipped
<1>6. Follows(F)'
  BY <1>1, <1>2, <1>4, <1>5 DEF Follows, InCall
<1> QED
  BY <1>1, <1>2, <1>6, PastKeeps

LEMMA RotatedAtEnd ==
  ASSUME IInv, pc = "exchange", ~Exchanging
  PROVE  /\ before \in Seq(Seq(Tokens))
         /\ first_nonopt <= last_nonopt /\ last_nonopt <= optind
         /\ argv = Rotated(before, first_nonopt, last_nonopt, optind)
<1>1. /\ bottom <= middle /\ middle <= top
      /\ before \in Seq(Seq(Tokens))
      /\ Rotated(argv, bottom, middle, top) =
           Rotated(before, first_nonopt, last_nonopt, optind)
  BY DEF IInv, HalfWay
<1>2. bottom \in Nat /\ middle \in Nat /\ top \in Nat
  BY TypeParts DEF IInv, PlacesOK
<1>3. argv \in Seq(Seq(Tokens))
  BY TypeParts DEF IInv, TextsOK
<1>4. bottom = middle \/ middle = top
  BY <1>1, <1>2 DEF Exchanging
<1>5. first_nonopt <= last_nonopt /\ last_nonopt <= optind
  BY AtStep
<1> QED
  BY <1>1, <1>2, <1>3, <1>4, <1>5, RotatedNothing

LEMMA CourseOfExchangeEnds ==
  ASSUME IInv, NEW F, Past(F), ExchangeEnds
  PROVE  Past(F)'
<1>1. /\ pc = "exchange" /\ ~Exchanging /\ pc' = then
      /\ UNCHANGED <<argv, conf, original, parsed, lost>>
      /\ UNCHANGED <<optind, nextchar, optarg, optopt, optc>>
      /\ first_nonopt' = first_nonopt + (optind - last_nonopt)
      /\ last_nonopt' = optind
      /\ then \in {"skip", "finish"}
  BY TypeParts DEF ExchangeEnds, Scanning, callerVars, IInv, PlacesOK
<1>2. /\ optarg = <<>> /\ optc # "end" /\ parsed \in Seq(OutSet)
      /\ IF then = "skip" THEN Between(F, before) /\ Ordering = "permute"
         ELSE Dashed(F, before)
  BY <1>1 DEF Past, Follows, InCall
<1>3. Ordering' = Ordering
  BY <1>1, SameTable
<1>4. /\ argv \in Seq(Seq(Tokens)) /\ before \in Seq(Seq(Tokens))
      /\ Len(argv) = Len(before)
      /\ \A i \in optind .. Len(before) : argv[i] = before[i]
      /\ SubSeq(argv, optind, Len(argv)) = SubSeq(before, optind, Len(before))
      /\ SubSeq(argv, first_nonopt', last_nonopt' - 1)
           = SubSeq(before, first_nonopt, last_nonopt - 1)
  <2> DEFINE U == Seq(Tokens)
  <2>1. /\ before \in Seq(U) /\ argv \in Seq(U)
        /\ argv = Rotated(before, first_nonopt, last_nonopt, optind)
        /\ first_nonopt <= last_nonopt /\ last_nonopt <= optind
    BY <1>1, RotatedAtEnd, TypeParts DEF IInv, TextsOK
  <2>2. /\ Len(argv) \in Nat /\ Len(before) \in Nat
        /\ optind \in 1 .. Len(argv) + 1 /\ first_nonopt \in 1 .. optind
        /\ last_nonopt \in 1 .. optind
    BY <1>1, <2>1, AtStep
  <2>3. Len(argv) = Len(before)
    <3>1. DOMAIN argv = DOMAIN before
      BY <2>1 DEF Rotated
    <3> QED
      BY <2>1, <3>1
  <2>4. /\ first_nonopt \in 1 .. Len(before) + 1
        /\ last_nonopt \in first_nonopt .. Len(before) + 1
        /\ optind \in last_nonopt .. Len(before) + 1
    BY <2>1, <2>2, <2>3
  <2>0. PICK x, y, f, m, t :
          x = argv /\ y = before /\ f = first_nonopt /\ m = last_nonopt /\ t = optind
    OBVIOUS
  <2> HIDE DEF U
  <2>5a. /\ y \in Seq(U) /\ x \in Seq(U) /\ x = Rotated(y, f, m, t)
         /\ f \in Nat /\ m \in Nat /\ t \in Nat
         /\ 1 <= f /\ f <= m /\ m <= t /\ t <= Len(y) + 1
    BY <2>0, <2>1, <2>4
  <2>5b. /\ \A i \in t .. Len(y) : x[i] = y[i]
         /\ SubSeq(x, t, Len(x)) = SubSeq(y, t, Len(y))
         /\ SubSeq(x, f + (t - m), t - 1) = SubSeq(y, f, m - 1)
    <3>1. \A i \in t .. Len(y) : x[i] = y[i]
      BY <2>5a, RotatedParts
    <3>2. SubSeq(x, t, Len(x)) = SubSeq(y, t, Len(y))
      BY <2>5a, RotatedParts
    <3>3. SubSeq(x, f + (t - m), t - 1) = SubSeq(y, f, m - 1)
      BY <2>5a, RotatedParts
    <3> QED
      BY <3>1, <3>2, <3>3
  <2>5. /\ \A i \in optind .. Len(before) : argv[i] = before[i]
        /\ SubSeq(argv, optind, Len(argv)) = SubSeq(before, optind, Len(before))
        /\ SubSeq(argv, first_nonopt + (optind - last_nonopt), optind - 1)
             = SubSeq(before, first_nonopt, last_nonopt - 1)
    BY <2>0, <2>5b
  <2> QED
    BY <1>1, <2>1, <2>3, <2>5 DEF U
<1>5. CASE then = "skip"
  <2>1. Between(F, argv)'
    <3>1. Ahead(argv)'
      BY <1>1, <1>2, <1>4, <1>5 DEF Between, Ahead
    <3>2. NoGap'
      BY <1>2, <1>3, <1>5 DEF NoGap
    <3>3. InAll(F, parsed \o F[optind][1], Skipped(argv) \o F[optind][2])'
      BY <1>1, <1>2, <1>4, <1>5 DEF Between, InAll, Skipped
    <3> QED
      BY <3>1, <3>2, <3>3 DEF Between
  <2>2. Follows(F)'
    BY <1>1, <1>2, <1>3, <1>5, <2>1 DEF Follows, InCall
  <2> QED
    BY <1>1, <1>2, <2>2, PastKeeps
<1>6. CASE then = "finish"
  <2>1. Dashed(F, argv)'
    BY <1>1, <1>2, <1>4, <1>6 DEF Dashed, InAll, Skipped
  <2>2. Follows(F)'
    BY <1>1, <1>2, <1>6, <2>1 DEF Follows, InCall
  <2> QED
    BY <1>1, <1>2, <2>2, PastKeeps
<1> QED
  BY <1>1, <1>5, <1>6

LEMMA CourseBegins ==
  ASSUME IInv, pc = "caller", optc # "end", nextchar = <<>>,
         optind \in {0, 1}, parsed = <<>>, argv = original
  PROVE  \E F : Past(F)
<1>1. IsConfig(conf) /\ argv \in Seq(Seq(Tokens))
  BY TypeParts DEF IInv, TextsOK
<1>2. IsOut(Outs(argv), argv)
  BY <1>1, OutsOK
<1>3. Follows(Outs(argv))
  BY DEF Follows, AtCaller, Fresh
<1> QED
  BY <1>1, <1>2, <1>3 DEF Past

LEMMA CourseOfRescan ==
  ASSUME IInv, IInv', Rescan
  PROVE  (\E F : Past(F))'
<1>1. /\ pc' = "caller" /\ optc' = "" /\ nextchar' = <<>>
      /\ optind' \in {0, 1} /\ parsed' = <<>> /\ argv' = original'
  BY DEF Rescan, IInv, Pending
<1>2. PICK v : v = argv'
  OBVIOUS
<1>3. IsConfig(conf)' /\ v \in Seq(Seq(Tokens))
  BY <1>2, TypeParts DEF IInv, TextsOK
<1>4. conf' = conf /\ IsConfig(conf)
  BY TypeParts DEF Rescan, IInv, TextsOK
<1>5. PICK F : IsOut(F, v)
  BY <1>3, <1>4, OutsOK
<1>6. IsOut(F, v)'
  BY <1>4, <1>5, SameTable
<1>7. IsOut(F, original)'
  BY <1>1, <1>2, <1>6
<1>8. Follows(F)'
  BY <1>1 DEF Follows, AtCaller, Fresh
<1>9. Past(F)'
  BY <1>1, <1>2, <1>3, <1>7, <1>8, NoArg DEF Past
<1> QED
  BY <1>9

LEMMA WithinKeeps ==
  ASSUME NEW F, Within(F), UNCHANGED <<argv, conf, original, parsed>>,
         UNCHANGED <<optind, first_nonopt, last_nonopt, nextchar>>
  PROVE  Within(F)'
<1>1. PICK a, x, m : a = argv[optind] /\ x = nextchar /\ m = Behind(argv, optind)
  OBVIOUS
<1>2. /\ a = argv'[optind'] /\ x = nextchar' /\ m = Behind(argv, optind)'
  BY <1>1 DEF Behind
<1>3. Remnant(a, x, m)' = Remnant(a, x, m)
  BY SameTable
<1>4. Remnant(argv[optind], nextchar, Behind(argv, optind))'
        = Remnant(argv[optind], nextchar, Behind(argv, optind))
  BY <1>1, <1>2, <1>3
<1>5. Remains(F, Remnant(argv[optind], nextchar, Behind(argv, optind)))'
  <2> DEFINE e == Remnant(argv[optind], nextchar, Behind(argv, optind))
  <2>1. e' = e /\ Remains(F, e)
    BY <1>4 DEF Within
  <2> HIDE DEF e
  <2>2. Remains(F, e)'
    BY <2>1 DEF Remains, InAll, Skipped
  <2> QED
    BY <2>2 DEF e
<1>6. Ahead(argv)'
  BY DEF Within, Ahead
<1>7. NoGap'
  BY SameTable DEF Within, NoGap, argc
<1> QED
  BY <1>5, <1>6, <1>7 DEF Within

LEMMA CourseOfCall ==
  ASSUME IInv, NEW F, Past(F), Call
  PROVE  Past(F)'
<1>1. /\ pc = "caller" /\ optc # "end" /\ optc' = optc /\ optarg' = <<>>
      /\ UNCHANGED <<argv, conf, original, parsed>>
      /\ pc' = IF nextchar' = <<>> THEN "advance" ELSE "decode"
      /\ IF optind = 0 \/ ~initialized
           THEN /\ optind' = IF optind = 0 THEN 1 ELSE optind
                /\ nextchar' = <<>>
           ELSE UNCHANGED <<optind, first_nonopt, last_nonopt, nextchar>>
  BY DEF Call, nonopts, callerVars
<1>2. /\ nextchar # <<>> => initialized /\ optind >= 1 /\ Within(F)
      /\ nextchar = <<>> =>
           \/ Fresh
           \/ /\ initialized /\ optind >= 1 /\ last_nonopt <= optind
              /\ Between(F, argv)
      /\ parsed \in Seq(OutSet)
  <2>1. nextchar # <<>> => initialized /\ optind >= 1
    <3>1. nextchar # <<>> => initialized /\ optind \in 1 .. argc - 1
      BY DEF IInv, Pending
    <3> QED
      BY <3>1, NaturalsOK DEF IInv
  <2> QED
    BY <1>1, <2>1 DEF Past, Follows, AtCaller
<1>3. optind \in Nat
  BY NaturalsOK DEF IInv
<1>4. CASE nextchar # <<>>
  <2>1. UNCHANGED <<optind, first_nonopt, last_nonopt, nextchar>>
    BY <1>1, <1>2, <1>3, <1>4
  <2>2. Within(F)'
    BY <1>1, <1>2, <1>4, <2>1, WithinKeeps
  <2>3. Follows(F)'
    BY <1>1, <1>4, <2>1, <2>2 DEF Follows, InCall
  <2> QED
    BY <1>1, <1>2, <2>3, PastKeeps
<1>5. CASE nextchar = <<>> /\ Fresh
  <2>1. optind' \in {0, 1} /\ nextchar' = <<>>
    BY <1>1, <1>5 DEF Fresh
  <2>2. Fresh'
    BY <1>1, <1>5, <2>1 DEF Fresh
  <2>3. Follows(F)'
    BY <1>1, <2>1, <2>2 DEF Follows, InCall
  <2> QED
    BY <1>1, <1>2, <2>3, PastKeeps
<1>6. CASE /\ nextchar = <<>> /\ initialized /\ optind >= 1
           /\ last_nonopt <= optind /\ Between(F, argv)
  <2>1. UNCHANGED <<optind, first_nonopt, last_nonopt, nextchar>>
    BY <1>1, <1>3, <1>6
  <2>2. PICK v : v = argv
    OBVIOUS
  <2>3. Between(F, v)'
    BY <1>1, <1>6, <2>1, <2>2, BetweenKeeps
  <2>4. Between(F, argv)'
    BY <1>1, <2>2, <2>3
  <2>5. Follows(F)'
    BY <1>1, <1>6, <2>1, <2>4 DEF Follows, InCall
  <2> QED
    BY <1>1, <1>2, <2>5, PastKeeps
<1> QED
  BY <1>2, <1>4, <1>5, <1>6

\* What a step between two elements finds.
LEMMA AtBetween ==
  ASSUME IInv, NEW F, Past(F), pc \in {"skip", "element", "finish"}
  PROVE  /\ argv \in Seq(Seq(Tokens)) /\ original \in Seq(Seq(Tokens))
         /\ Len(argv) \in Nat /\ argc = Len(argv) + 1
         /\ argc \in Nat /\ optind \in Nat
         /\ first_nonopt \in Nat /\ last_nonopt \in Nat
         /\ optind \in 1 .. argc
         /\ first_nonopt \in 1 .. optind /\ last_nonopt \in 1 .. optind
         /\ nextchar = <<>> /\ initialized
         /\ IsOut(F, original) /\ parsed \in Seq(OutSet)
         /\ InCall(F) /\ optarg = <<>> /\ optc # "end"
         /\ Len(argv) = Len(original)
         /\ IsConfig(conf)
<1>1. InCall(F) /\ IsOut(F, original) /\ parsed \in Seq(OutSet)
  BY DEF Past, Follows
<1>2. Len(argv) = Len(original)
  BY <1>1 DEF InCall, Between, Ahead, Dashed
<1>3. nextchar = <<>> /\ initialized
  BY DEF IInv, Pending, Begun
<1>4. argv \in Seq(Seq(Tokens)) /\ IsConfig(conf) /\ original \in Seq(Seq(Tokens))
  BY TypeParts DEF IInv, TextsOK, Past
<1>5. optarg = <<>> /\ optc # "end"
  BY <1>1 DEF InCall
<1>6. /\ optind \in Nat /\ first_nonopt \in Nat /\ last_nonopt \in Nat
      /\ argc \in Nat /\ Len(argv) \in Nat /\ argc = Len(argv) + 1
  BY NaturalsOK DEF IInv
<1>7. /\ optind \in 1 .. argc
      /\ first_nonopt \in 1 .. optind /\ last_nonopt \in 1 .. optind
  BY AtStep
<1> QED
  BY <1>1, <1>2, <1>3, <1>4, <1>5, <1>6, <1>7

\* The words that have been skipped, and those that are skipped next.
LEMMA SkippedNext ==
  ASSUME NEW U, NEW v \in Seq(U), NEW f \in Nat, NEW l \in Nat, NEW i \in Nat,
         NEW e \in Nat,
         1 <= f, f <= i, l <= i, i <= e, e <= Len(v) + 1, f = i \/ l = i
  PROVE  SubSeq(v, f, l - 1) \o SubSeq(v, i, e - 1) = SubSeq(v, f, e - 1)
<1>1. PICK b : b = e - 1
  OBVIOUS
<1>2. /\ Len(v) \in Nat
      /\ f \in 1 .. Len(v) + 1 /\ i \in f .. Len(v) + 1 /\ b \in i - 1 .. Len(v)
      /\ i \in 1 .. Len(v) + 1
  BY <1>1
<1>3. CASE l = i
  BY <1>1, <1>2, <1>3, SliceJoin
<1>4. CASE f = i
  <2>1. SubSeq(v, f, l - 1) = <<>>
    BY <1>4, SliceEmpty
  <2>2. SubSeq(v, i, b) \in Seq(U)
    BY <1>2, SliceOK
  <2>3. <<>> \o SubSeq(v, i, b) = SubSeq(v, i, b)
    BY <2>2, ConcatEmptySeq
  <2> QED
    BY <1>1, <1>4, <2>1, <2>3
<1> QED
  BY <1>3, <1>4

\* Where Between holds, F says what has been returned and left up to optind.
LEMMA OutHere ==
  ASSUME IInv, NEW F, Past(F), pc \in {"skip", "element"}
  PROVE  /\ Between(F, argv)
         /\ F[optind] = <<F[optind][1], F[optind][2]>>
         /\ F[optind][1] \in Seq(OutSet) /\ F[optind][2] \in Seq(Seq(Tokens))
         /\ F[optind] = OutFrom(original, F, optind)
         /\ \A i \in optind .. Len(argv) : argv[i] = original[i]
         /\ SubSeq(argv, optind, Len(argv)) = SubSeq(original, optind, Len(original))
<1>1. /\ InCall(F) /\ IsOut(F, original) /\ original \in Seq(Seq(Tokens))
      /\ argv \in Seq(Seq(Tokens)) /\ Len(argv) = Len(original)
      /\ Len(argv) \in Nat /\ optind \in 1 .. Len(argv) + 1
  BY AtBetween
<1>2. Between(F, argv)
  BY <1>1 DEF InCall
<1>3. \A i \in optind .. Len(argv) : argv[i] = original[i]
  BY <1>2 DEF Between, Ahead
<1>4. SubSeq(argv, optind, Len(argv)) = SubSeq(original, optind, Len(original))
  <2> DEFINE U == Seq(Tokens)
  <2>1. PICK v, w, a, b : v = argv /\ w = original /\ a = optind /\ b = Len(argv)
    OBVIOUS
  <2>2. /\ v \in Seq(U) /\ w \in Seq(U) /\ Len(v) = Len(w)
        /\ a \in 1 .. Len(v) + 1 /\ b \in a - 1 .. Len(v)
        /\ \A i \in a .. b : v[i] = w[i]
    BY <1>1, <1>3, <2>1
  <2> HIDE DEF U
  <2>3. SubSeq(v, a, b) = SubSeq(w, a, b)
    BY <2>2, SliceSame
  <2> QED
    BY <1>1, <2>1, <2>3
<1>5. /\ F[optind] = <<F[optind][1], F[optind][2]>>
      /\ F[optind][1] \in Seq(OutSet) /\ F[optind][2] \in Seq(Seq(Tokens))
      /\ F[optind] = OutFrom(original, F, optind)
  BY <1>1, OutTyped
<1> QED
  BY <1>2, <1>3, <1>4, <1>5

LEMMA CourseOfSkip ==
  ASSUME IInv, NEW F, Past(F), Skip
  PROVE  Past(F)'
<1> DEFINE U == Seq(Tokens)
           Ends == {i \in optind .. argc : i = argc \/ ~IsWord(argv[i])}
<1>1. /\ pc = "skip" /\ pc' = "element"
      /\ UNCHANGED <<argv, conf, original, parsed>>
      /\ UNCHANGED <<first_nonopt, optarg, optc>>
      /\ optind' = Min(Ends) /\ last_nonopt' = optind'
  BY DEF Skip, Scanning, callerVars
<1>2. /\ argv \in Seq(U) /\ original \in Seq(U)
      /\ IsOut(F, original) /\ parsed \in Seq(OutSet) /\ InCall(F)
      /\ optarg = <<>> /\ optc # "end" /\ Len(argv) = Len(original)
  BY <1>1, AtBetween
<1>2n. /\ Len(argv) \in Nat /\ argc = Len(argv) + 1 /\ optind \in 1 .. argc
       /\ argc \in Nat /\ optind \in Nat
       /\ first_nonopt \in Nat /\ last_nonopt \in Nat
       /\ 1 <= first_nonopt /\ first_nonopt <= optind
       /\ 1 <= last_nonopt /\ last_nonopt <= optind
       /\ Len(argv) = Len(original)
  BY <1>1, AtBetween
<1>3. PICK a, e : a = optind /\ e = optind'
  OBVIOUS
<1>4. /\ e \in Nat /\ a \in Nat /\ 1 <= a /\ a <= e /\ e <= argc
      /\ e \in a .. argc
      /\ e = argc \/ ~IsWord(argv[e])
      /\ \A i \in a .. e - 1 : IsWord(argv[i])
  <2>1. Ends \subseteq Nat /\ argc \in Ends /\ Ends # {}
    BY <1>2n
  <2>2. Min(Ends) \in Ends /\ \A i \in Ends : Min(Ends) <= i
    <3> HIDE DEF Ends
    <3> QED
      BY <2>1, MinOf
  <2>3. e \in Ends /\ \A i \in Ends : e <= i
    BY <1>1, <1>3, <2>2
  <2>4. /\ e \in Nat /\ a \in Nat /\ 1 <= a /\ a <= e /\ e <= argc
        /\ e \in a .. argc
    <3>1. e \in optind .. argc
      BY <2>3
    <3> QED
      BY <1>2n, <1>3, <3>1
  <2>5. ASSUME NEW i \in a .. e - 1 PROVE IsWord(argv[i])
    <3>1. i \in optind .. argc /\ ~(e <= i)
      <4>1. i \in Nat /\ a <= i /\ i <= e - 1
        BY <2>4
      <4>2. ~(e <= i) /\ i <= argc
        BY <1>2n, <2>4, <4>1
      <4> QED
        BY <1>3, <4>1, <4>2
    <3>2. i \notin Ends
      BY <2>3, <3>1
    <3> QED
      BY <3>1, <3>2
  <2> QED
    BY <2>3, <2>4, <2>5
<1>5. /\ Ordering = "permute" /\ Ordering' = "permute"
      /\ first_nonopt = optind \/ last_nonopt = optind
      /\ Between(F, argv)
      /\ \A i \in a .. Len(argv) : argv[i] = original[i]
  <2>1. Between(F, argv) /\ Ordering = "permute"
    BY <1>1, <1>2 DEF InCall
  <2>2. first_nonopt = optind \/ last_nonopt = optind
    BY <1>1, <1>2 DEF InCall
  <2>3. \A i \in a .. Len(argv) : argv[i] = original[i]
    BY <1>3, <2>1 DEF Between, Ahead
  <2> QED
    BY <1>1, <2>1, <2>2, <2>3, SameTable
<1>6. F[a] = <<F[e][1], SubSeq(original, a, e - 1) \o F[e][2]>>
  <2>1. \A i \in a .. e - 1 : IsWord(original[i])
    <3>1. \A i \in a .. e - 1 : i \in a .. Len(argv)
      BY <1>2n, <1>4
    <3> QED
      BY <1>4, <1>5, <3>1
  <2>3. PICK w : w = original
    OBVIOUS
  <2>4. /\ w \in Seq(Seq(Tokens)) /\ IsOut(F, w) /\ Ordering = "permute"
        /\ a \in Nat /\ e \in Nat /\ 1 <= a /\ a <= e /\ e <= Len(w) + 1
    BY <1>2, <1>2n, <1>4, <1>5, <2>3
  <2>5. AllWords(w, a, e)
    BY <2>1, <2>3 DEF AllWords
  <2>6. Leaves(F, w, a, e)
    BY <2>4, <2>5, OutOfWords
  <2> QED
    BY <2>3, <2>6 DEF Leaves
<1>7. SubSeq(original, a, e - 1) = SubSeq(argv, a, e - 1)
  <2>1. PICK v, w, b : v = argv /\ w = original /\ b = e - 1
    OBVIOUS
  <2>2. /\ v \in Seq(U) /\ w \in Seq(U) /\ Len(v) = Len(w)
        /\ a \in 1 .. Len(v) + 1 /\ b \in a - 1 .. Len(v)
    <3>1. v \in Seq(U) /\ w \in Seq(U) /\ Len(v) = Len(w)
      BY <1>2, <2>1
    <3>2. /\ Len(v) \in Nat /\ b = e - 1 /\ 1 <= a /\ a <= e /\ e <= Len(v) + 1
          /\ a \in Nat /\ e \in Nat
      BY <1>2n, <1>4, <2>1
    <3>3. a \in 1 .. Len(v) + 1 /\ b \in a - 1 .. Len(v)
      BY <3>2
    <3> QED
      BY <3>1, <3>3
  <2>3. \A i \in a .. b : v[i] = w[i]
    <3>1. \A i \in a .. b : i \in a .. Len(argv)
      BY <1>2n, <1>4, <2>1
    <3> QED
      BY <1>5, <2>1, <3>1
  <2> HIDE DEF U
  <2>4. SubSeq(v, a, b) = SubSeq(w, a, b)
    BY <2>2, <2>3, SliceSame
  <2> QED
    BY <2>1, <2>4
<1>8. PICK f, l, v : f = first_nonopt /\ l = last_nonopt /\ v = argv
  OBVIOUS
<1>9. SubSeq(v, f, l - 1) \o SubSeq(v, a, e - 1) = SubSeq(v, f, e - 1)
  <2>1. /\ v \in Seq(U) /\ f \in Nat /\ l \in Nat /\ a \in Nat /\ e \in Nat
        /\ 1 <= f /\ f <= a /\ l <= a /\ a <= e /\ e <= Len(v) + 1
        /\ f = a \/ l = a
    BY <1>2, <1>2n, <1>3, <1>4, <1>5, <1>8
  <2> HIDE DEF U
  <2> QED
    BY <2>1, SkippedNext
<1>10. InAll(F, parsed \o F[e][1], SubSeq(v, f, e - 1) \o F[e][2])
  <2>1. InAll(F, parsed \o F[a][1], SubSeq(v, f, l - 1) \o F[a][2])
    BY <1>3, <1>5, <1>8 DEF Between, Skipped
  <2>2. /\ F[a][1] = F[e][1]
        /\ F[a][2] = SubSeq(v, a, e - 1) \o F[e][2]
    <3> DEFINE p == F[a]
               x == F[e][1]
               y == SubSeq(v, a, e - 1) \o F[e][2]
    <3>1. p = <<x, y>>
      BY <1>6, <1>7, <1>8
    <3> HIDE DEF p, x, y
    <3>2. p[1] = x /\ p[2] = y
      BY <3>1, Parts
    <3> QED
      BY <3>2 DEF p, x, y
  <2>3. SubSeq(v, f, l - 1) \o (SubSeq(v, a, e - 1) \o F[e][2])
          = (SubSeq(v, f, l - 1) \o SubSeq(v, a, e - 1)) \o F[e][2]
    <3> DEFINE x == SubSeq(v, f, l - 1)
               y == SubSeq(v, a, e - 1)
               z == F[e][2]
    <3>1. x \in Seq(U)
      <4>1. PICK b : b = l - 1
        OBVIOUS
      <4>2. /\ v \in Seq(U) /\ f \in 1 .. Len(v) + 1 /\ f \in Nat /\ l \in Nat
            /\ b \in f - 1 .. Len(v) \/ l <= f
        BY <1>2, <1>2n, <1>8, <4>1
      <4> HIDE DEF U
      <4>3. CASE b \in f - 1 .. Len(v)
        BY <4>1, <4>2, <4>3, SliceOK
      <4>4. CASE l <= f
        <5>1. x = <<>>
          BY <4>2, <4>4, SliceEmpty
        <5> QED
          BY <5>1, EmptySeq
      <4> QED
        BY <4>2, <4>3, <4>4
    <3>2. y \in Seq(U)
      <4>1. PICK b : b = e - 1
        OBVIOUS
      <4>2. v \in Seq(U) /\ a \in 1 .. Len(v) + 1 /\ b \in a - 1 .. Len(v)
        <5>1. /\ Len(v) \in Nat /\ 1 <= a /\ a <= e /\ e <= Len(v) + 1
              /\ a \in Nat /\ e \in Nat
          BY <1>2n, <1>4, <1>8
        <5>2. a \in 1 .. Len(v) + 1 /\ b \in a - 1 .. Len(v)
          BY <4>1, <5>1
        <5> QED
          BY <1>2, <1>8, <5>2
      <4> HIDE DEF U
      <4> QED
        BY <4>1, <4>2, SliceOK
    <3>3. z \in Seq(U)
      <4>1. e \in 1 .. Len(original) + 1
        BY <1>2n, <1>4
      <4> QED
        BY <1>2, <4>1, OutTyped
    <3> HIDE DEF U, x, y, z
    <3>4. x \o (y \o z) = (x \o y) \o z
      BY SMTT(30), <3>1, <3>2, <3>3, Associative
    <3> QED
      BY <3>4 DEF x, y, z
  <2> QED
    BY <1>9, <2>1, <2>2, <2>3
<1>11. Between(F, argv)'
  <2>1. Ahead(argv)'
    <3>1. \A i \in e .. Len(argv) : i \in a .. Len(argv)
      BY <1>2n, <1>4
    <3>2. \A i \in e .. Len(argv) : argv[i] = original[i]
      BY <1>5, <3>1
    <3> QED
      BY <1>1, <1>2, <1>3, <3>2 DEF Ahead
  <2>2. NoGap'
    BY <1>5 DEF NoGap
  <2>3. InAll(F, parsed \o F[optind][1], Skipped(argv) \o F[optind][2])'
    BY <1>1, <1>3, <1>8, <1>10 DEF InAll, Skipped
  <2> QED
    BY <2>1, <2>2, <2>3 DEF Between
<1>12. optind' < argc' => ~IsWord(argv'[optind'])
  <2>1. argc' = argc
    BY <1>1 DEF argc
  <2> QED
    BY <1>1, <1>2, <1>3, <1>4, <2>1
<1>13. Follows(F)'
  BY <1>1, <1>2, <1>5, <1>11, <1>12 DEF Follows, InCall
<1> QED
  BY <1>1, <1>2, <1>13, PastKeeps

LEMMA CourseOfDoubleDash ==
  ASSUME IInv, NEW F, Past(F), DoubleDashEnds
  PROVE  Past(F)'
<1>1. /\ pc = "element" /\ optind < argc /\ argv[optind] = DoubleDash
      /\ UNCHANGED <<argv, conf, original, parsed>>
      /\ UNCHANGED <<optarg, optc>> /\ optind' = optind + 1
  BY DEF DoubleDashEnds, callerVars
<1>2. /\ argv \in Seq(Seq(Tokens)) /\ original \in Seq(Seq(Tokens))
      /\ IsOut(F, original) /\ parsed \in Seq(OutSet)
      /\ optarg = <<>> /\ optc # "end" /\ Len(argv) = Len(original)
  BY <1>1, AtBetween
<1>3. /\ Len(argv) \in Nat /\ argc = Len(argv) + 1 /\ optind \in Nat
      /\ 1 <= optind /\ first_nonopt \in Nat /\ last_nonopt \in Nat
      /\ last_nonopt <= optind
  BY <1>1, AtBetween
<1>4. /\ Between(F, argv) /\ F[optind] = OutFrom(original, F, optind)
      /\ \A i \in optind .. Len(argv) : argv[i] = original[i]
  BY <1>1, OutHere
<1>5. PICK v, w, i : v = argv /\ w = original /\ i = optind
  OBVIOUS
<1>6. /\ i \in 1 .. Len(w) /\ i \in Nat /\ i + 1 \in 1 .. Len(v) + 1
      /\ Len(v) \in i + 1 - 1 .. Len(v)
  BY <1>1, <1>2, <1>3, <1>5
<1>7. Behind(w, i) = SubSeq(v, i + 1, Len(v))
  <2> DEFINE U == Seq(Tokens)
             a == i + 1
             b == Len(v)
  <2>1. /\ v \in Seq(U) /\ w \in Seq(U) /\ Len(v) = Len(w)
        /\ a \in 1 .. Len(v) + 1 /\ b \in a - 1 .. Len(v)
    BY <1>2, <1>5, <1>6
  <2>2. \A k \in a .. b : v[k] = w[k]
    <3>1. \A k \in a .. b : k \in optind .. Len(argv)
      BY <1>3, <1>5, <1>6
    <3> QED
      BY <1>4, <1>5, <3>1
  <2> HIDE DEF U, a, b
  <2>3. SubSeq(v, a, b) = SubSeq(w, a, b)
    BY <2>1, <2>2, SliceSame
  <2> QED
    BY <1>2, <1>5, <2>3 DEF Behind, a, b
<1>8. InAll(F, parsed, SubSeq(v, first_nonopt, last_nonopt - 1)
                         \o SubSeq(v, i + 1, Len(v)))
  <2>1. w[i] = DoubleDash
    <3>1. i \in optind .. Len(argv)
      BY <1>2, <1>3, <1>5, <1>6
    <3> QED
      BY <1>1, <1>4, <1>5, <3>1
  <2>2. OutFrom(w, F, i) = <<<<>>, Behind(w, i)>>
    BY <1>2, <1>5, <1>6, <2>1, OutOfDashes
  <2>3. F[i] = <<<<>>, Behind(w, i)>>
    BY <1>4, <1>5, <2>2
  <2>4. F[i][1] = <<>> /\ F[i][2] = Behind(w, i)
    BY <2>3, Parts
  <2>5. InAll(F, parsed \o F[i][1],
                 SubSeq(v, first_nonopt, last_nonopt - 1) \o F[i][2])
    BY <1>4, <1>5 DEF Between, Skipped
  <2>6. parsed \o <<>> = parsed
    BY <1>2, ConcatEmptySeq
  <2> QED
    BY <1>7, <2>4, <2>5, <2>6
<1>9. CASE first_nonopt # last_nonopt /\ last_nonopt # optind'
  <2>1. /\ pc' = "exchange" /\ then' = "finish" /\ before' = argv
        /\ first_nonopt' = first_nonopt /\ last_nonopt' = last_nonopt
    BY <1>9 DEF DoubleDashEnds, ExchangeThen, nonopts
  <2>2. Dashed(F, before)'
    BY <1>1, <1>2, <1>5, <1>8, <2>1 DEF Dashed, InAll, Skipped
  <2>3. Follows(F)'
    BY <1>1, <1>2, <2>1, <2>2 DEF Follows, InCall
  <2> QED
    BY <1>1, <1>2, <2>3, PastKeeps
<1>10. CASE ~(first_nonopt # last_nonopt /\ last_nonopt # optind')
  <2>1. first_nonopt = last_nonopt
    BY <1>1, <1>3, <1>10
  <2>2. /\ pc' = "finish" /\ first_nonopt' = optind'
        /\ last_nonopt' = last_nonopt
    BY <1>10, <2>1 DEF DoubleDashEnds
  <2>3. SubSeq(v, first_nonopt', last_nonopt' - 1)
          = SubSeq(v, first_nonopt, last_nonopt - 1)
    <3>1. SubSeq(v, first_nonopt, last_nonopt - 1) = <<>>
      BY <1>3, <2>1, SliceEmpty
    <3>2. first_nonopt' \in Nat /\ last_nonopt' <= first_nonopt' /\ last_nonopt' \in Nat
      BY <1>1, <1>3, <2>2
    <3>3. SubSeq(v, first_nonopt', last_nonopt' - 1) = <<>>
      BY <3>2, SliceEmpty
    <3> QED
      BY <3>1, <3>3
  <2>4. Dashed(F, argv)'
    BY <1>1, <1>2, <1>5, <1>8, <2>3 DEF Dashed, InAll, Skipped
  <2>5. Follows(F)'
    BY <1>1, <1>2, <2>2, <2>4 DEF Follows, InCall
  <2> QED
    BY <1>1, <1>2, <2>5, PastKeeps
<1> QED
  BY <1>9, <1>10

LEMMA CourseOfFinish ==
  ASSUME IInv, NEW F, Past(F), Finish
  PROVE  Past(F)'
<1>1. /\ pc = "finish" /\ pc' = "element"
      /\ UNCHANGED <<argv, conf, original, parsed>>
      /\ UNCHANGED <<first_nonopt, optarg, optc>>
      /\ optind' = argc /\ last_nonopt' = argc
  BY DEF Finish, Scanning, callerVars
<1>2. /\ argv \in Seq(Seq(Tokens)) /\ original \in Seq(Seq(Tokens))
      /\ IsOut(F, original) /\ parsed \in Seq(OutSet)
      /\ optarg = <<>> /\ optc # "end" /\ Len(argv) = Len(original)
      /\ Dashed(F, argv) /\ (first_nonopt = optind \/ last_nonopt = optind)
  BY <1>1, AtBetween DEF InCall
<1>3. /\ Len(argv) \in Nat /\ argc = Len(argv) + 1 /\ argc \in Nat
      /\ optind \in Nat /\ 1 <= optind /\ optind <= argc
      /\ first_nonopt \in Nat /\ 1 <= first_nonopt /\ first_nonopt <= optind
      /\ last_nonopt \in Nat /\ last_nonopt <= optind
  BY <1>1, AtBetween
<1>4. PICK v, f, l, i, e : v = argv /\ f = first_nonopt /\ l = last_nonopt
                           /\ i = optind /\ e = argc
  OBVIOUS
<1>5. SubSeq(v, f, l - 1) \o SubSeq(v, i, Len(v)) = SubSeq(v, f, e - 1)
  <2> DEFINE U == Seq(Tokens)
  <2>1. /\ f \in Nat /\ l \in Nat /\ i \in Nat /\ e \in Nat
        /\ 1 <= f /\ f <= i /\ l <= i /\ i <= e /\ e <= Len(v) + 1
        /\ f = i \/ l = i
    BY <1>2, <1>3, <1>4
  <2>2. v \in Seq(U)
    BY <1>2, <1>4
  <2>2a. e - 1 = Len(v)
    BY <1>3, <1>4
  <2> HIDE DEF U
  <2>3. SubSeq(v, f, l - 1) \o SubSeq(v, i, e - 1) = SubSeq(v, f, e - 1)
    BY <2>1, <2>2, SkippedNext
  <2> QED
    BY <2>2a, <2>3
<1>6. InAll(F, parsed, SubSeq(v, f, e - 1))
  BY <1>2, <1>4, <1>5 DEF Dashed, Skipped
<1>7. F[e][1] = <<>> /\ F[e][2] = <<>>
  <2>1. F[Len(original) + 1] = <<<<>>, <<>>>>
    BY <1>2, OutAtEnd
  <2>2. F[e] = <<<<>>, <<>>>>
    BY <1>2, <1>3, <1>4, <2>1
  <2> QED
    BY <2>2, Parts
<1>8. parsed \o F[e][1] = parsed /\ SubSeq(v, f, e - 1) \o F[e][2] = SubSeq(v, f, e - 1)
  <2> DEFINE U == Seq(Tokens)
             s == SubSeq(v, f, e - 1)
  <2>1. s \in Seq(U)
    <3>1. v \in Seq(U) /\ f \in 1 .. Len(v) + 1 /\ e - 1 \in f - 1 .. Len(v)
      BY <1>2, <1>3, <1>4
    <3> HIDE DEF U
    <3>2. PICK b : b = e - 1
      OBVIOUS
    <3> QED
      BY <3>1, <3>2, SliceOK
  <2> HIDE DEF s
  <2>2. s \o <<>> = s
    BY <2>1, ConcatEmptySeq
  <2>3. parsed \o <<>> = parsed
    BY <1>2, ConcatEmptySeq
  <2> QED
    BY <1>7, <2>2, <2>3 DEF s
<1>9. Between(F, argv)'
  <2>1. Ahead(argv)'
    BY <1>1, <1>2, <1>3 DEF Ahead
  <2>2. argc' = argc
    BY <1>1 DEF argc
  <2>3. NoGap'
    BY <1>1, <2>2 DEF NoGap
  <2>4. InAll(F, parsed \o F[optind][1], Skipped(argv) \o F[optind][2])'
    BY <1>1, <1>4, <1>6, <1>8 DEF InAll, Skipped
  <2> QED
    BY <2>1, <2>3, <2>4 DEF Between
<1>10. ~(optind' < argc')
  BY <1>1, <1>3 DEF argc
<1>11. Follows(F)'
  BY <1>1, <1>2, <1>9, <1>10 DEF Follows, InCall
<1> QED
  BY <1>1, <1>2, <1>11, PastKeeps

LEMMA CourseOfScanEnds ==
  ASSUME IInv, NEW F, Past(F), ScanEnds
  PROVE  Past(F)'
<1>1. /\ pc = "element" /\ pc' = "caller" /\ optc' = "end" /\ optind = argc
      /\ UNCHANGED <<argv, conf, original, parsed>>
      /\ optind' = IF first_nonopt # last_nonopt THEN first_nonopt ELSE optind
  BY DEF ScanEnds, Return, ReturnFor, Scanning, callerVars
<1>2. /\ argv \in Seq(Seq(Tokens)) /\ original \in Seq(Seq(Tokens))
      /\ IsOut(F, original) /\ parsed \in Seq(OutSet)
      /\ Len(argv) = Len(original) /\ Between(F, argv)
      /\ first_nonopt = last_nonopt \/ last_nonopt = optind
  BY <1>1, AtBetween DEF InCall
<1>3. /\ Len(argv) \in Nat /\ argc = Len(argv) + 1 /\ argc \in Nat
      /\ first_nonopt \in Nat /\ 1 <= first_nonopt /\ first_nonopt <= optind
  BY <1>1, AtBetween
<1>4. PICK v, f, l, e : v = argv /\ f = first_nonopt /\ l = last_nonopt /\ e = argc
  OBVIOUS
<1>5. F[e][1] = <<>> /\ F[e][2] = <<>>
  <2>1. F[Len(original) + 1] = <<<<>>, <<>>>>
    BY <1>2, OutAtEnd
  <2>2. F[e] = <<<<>>, <<>>>>
    BY <1>2, <1>3, <1>4, <2>1
  <2> QED
    BY <2>2, Parts
<1>6. SubSeq(v, f, l - 1) = SubSeq(v, optind', Len(v))
  <2>1. CASE f = l
    <3>1. SubSeq(v, f, l - 1) = <<>>
      BY <1>3, <1>4, <2>1, SliceEmpty
    <3>2. SubSeq(v, e, e - 1) = <<>>
      BY <1>3, <1>4, SliceEmpty
    <3>3. optind' = e /\ Len(v) = e - 1
      BY <1>1, <1>3, <1>4, <2>1
    <3> QED
      BY <3>1, <3>2, <3>3
  <2>2. CASE f # l
    <3>1. l = e /\ optind' = f /\ Len(v) = e - 1
      BY <1>1, <1>2, <1>3, <1>4, <2>2
    <3> QED
      BY <3>1
  <2> QED
    BY <2>1, <2>2
<1>7. SubSeq(v, f, l - 1) \in Seq(Seq(Tokens))
  <2> DEFINE U == Seq(Tokens)
  <2>1. PICK a, b : a = optind' /\ b = Len(v)
    OBVIOUS
  <2>2. v \in Seq(U) /\ a \in 1 .. Len(v) + 1 /\ b \in a - 1 .. Len(v)
    <3>1. a \in Nat /\ 1 <= a /\ a <= Len(v) + 1 /\ b = Len(v) /\ b \in Nat
      BY <1>1, <1>3, <1>4, <2>1
    <3>2. v \in Seq(U)
      BY <1>2, <1>4
    <3> QED
      BY <3>1, <3>2
  <2> HIDE DEF U
  <2>3. SubSeq(v, a, b) \in Seq(U)
    BY <2>2, SliceOK
  <2> QED
    BY <1>6, <2>1, <2>3 DEF U
<1>8. InAll(F, parsed, SubSeq(v, optind', Len(v)))
  <2>1. InAll(F, parsed \o F[e][1], SubSeq(v, f, l - 1) \o F[e][2])
    BY <1>1, <1>2, <1>4 DEF Between, Skipped
  <2>2. parsed \o <<>> = parsed /\ SubSeq(v, f, l - 1) \o <<>> = SubSeq(v, f, l - 1)
    <3> DEFINE U == Seq(Tokens)
               s == SubSeq(v, f, l - 1)
    <3>1. s \in Seq(U)
      BY <1>7
    <3> HIDE DEF U, s
    <3>2. s \o <<>> = s
      BY <3>1, ConcatEmptySeq
    <3>3. parsed \o <<>> = parsed
      BY <1>2, ConcatEmptySeq
    <3> QED
      BY <3>2, <3>3 DEF s
  <2> QED
    BY <1>5, <1>6, <2>1, <2>2
<1>9. Follows(F)'
  BY <1>1, <1>4, <1>8 DEF Follows, AtCaller, Ended, InAll
<1> QED
  BY <1>1, <1>2, <1>9, PastKeeps

(***************************************************************************)
(* So do those that return words, and those that decode.                   *)
(***************************************************************************)
\* A result in front of others may be returned first.
LEMMA AppendThenRest ==
  ASSUME NEW T, NEW s \in Seq(T), NEW x \in T, NEW z \in Seq(T)
  PROVE  s \o (<<x>> \o z) = Append(s, x) \o z
<1> DEFINE y == <<x>>
<1>1. y \in Seq(T)
  BY OneOf
<1>2. Append(s, x) = s \o y
  OBVIOUS
<1> HIDE DEF y
<1>3. (s \o y) \o z = s \o (y \o z)
  BY SMTT(30), <1>1, Associative
<1> QED
  BY <1>2, <1>3 DEF y

LEMMA AppendOK ==
  ASSUME NEW T, NEW s \in Seq(T), NEW x \in T
  PROVE  Append(s, x) \in Seq(T)
OBVIOUS

LEMMA CourseOfWordStops ==
  ASSUME IInv, NEW F, Past(F), WordStops
  PROVE  Past(F)'
<1>0. pc = "element" /\ optind < argc /\ Ordering # "permute"
  BY DEF WordStops, AtElement
<1>1. /\ pc = "element" /\ pc' = "caller" /\ optc' = "end"
      /\ argv[optind] # DoubleDash /\ IsWord(argv[optind])
      /\ Ordering = "require order"
      /\ UNCHANGED <<argv, conf, original, parsed>> /\ optind' = optind
  BY DEF WordStops, AtElement, Return, ReturnFor, Scanning, callerVars
<1>2. /\ argv \in Seq(Seq(Tokens)) /\ original \in Seq(Seq(Tokens))
      /\ IsOut(F, original) /\ parsed \in Seq(OutSet)
      /\ Len(argv) = Len(original) /\ Between(F, argv)
  BY <1>0, AtBetween DEF InCall
<1>3. /\ Len(argv) \in Nat /\ argc = Len(argv) + 1 /\ argc \in Nat
      /\ optind \in Nat /\ 1 <= optind
      /\ first_nonopt \in Nat /\ last_nonopt \in Nat
  BY <1>0, AtBetween
<1>4. /\ F[optind] = OutFrom(original, F, optind)
      /\ \A i \in optind .. Len(argv) : argv[i] = original[i]
      /\ SubSeq(argv, optind, Len(argv)) = SubSeq(original, optind, Len(original))
  BY <1>0, OutHere
<1>5. PICK v, w, i : v = argv /\ w = original /\ i = optind
  OBVIOUS
<1>6. i \in 1 .. Len(w) /\ w \in Seq(Seq(Tokens)) /\ w[i] = v[i]
  <2>1. i \in optind .. Len(argv)
    BY <1>0, <1>3, <1>5
  <2> QED
    BY <1>0, <1>2, <1>3, <1>4, <1>5, <2>1
<1>7. F[i] = <<<<>>, SubSeq(v, i, Len(v))>>
  <2>1. OutFrom(w, F, i) = <<<<>>, SubSeq(w, i, Len(w))>>
    BY <1>1, <1>5, <1>6, OutOfWord
  <2> QED
    BY <1>4, <1>5, <2>1
<1>8. first_nonopt = last_nonopt
  BY <1>0, <1>2, <1>3 DEF Between, NoGap
<1>9. InAll(F, parsed, SubSeq(v, i, Len(v)))
  <2>1. InAll(F, parsed \o F[i][1], Skipped(v) \o F[i][2])
    BY <1>2, <1>5 DEF Between
  <2>2. F[i][1] = <<>> /\ F[i][2] = SubSeq(v, i, Len(v))
    <3>1. PICK r, s : r = F[i] /\ s = SubSeq(v, i, Len(v))
      OBVIOUS
    <3>2. r = <<<<>>, s>>
      BY <1>7, <3>1
    <3>3. r[1] = <<>> /\ r[2] = s
      BY <3>2, Parts
    <3> QED
      BY <3>1, <3>3
  <2>3. Skipped(v) = <<>>
    BY <1>3, <1>8, SliceEmpty DEF Skipped
  <2>4. parsed \o <<>> = parsed
    BY <1>2, ConcatEmptySeq
  <2>5. <<>> \o SubSeq(v, i, Len(v)) = SubSeq(v, i, Len(v))
    <3> DEFINE U == Seq(Tokens)
    <3>1. SubSeq(v, i, Len(v)) \in Seq(U)
      BY <1>2, <1>3, <1>5, <1>6, BehindOK
    <3> HIDE DEF U
    <3> QED
      BY <3>1, ConcatEmptySeq
  <2> QED
    BY <2>1, <2>2, <2>3, <2>4, <2>5
<1>10. Follows(F)'
  BY <1>1, <1>5, <1>9 DEF Follows, AtCaller, Ended, InAll
<1> QED
  BY <1>1, <1>2, <1>10, PastKeeps

LEMMA CourseOfWordIsReturned ==
  ASSUME IInv, NEW F, Past(F), WordIsReturned
  PROVE  Past(F)'
<1> DEFINE x == Out("word", <<argv[optind]>>, "")
<1>0. /\ pc = "element" /\ optind < argc /\ optind' = optind + 1
      /\ last_nonopt' = last_nonopt
  BY DEF WordIsReturned, AtElement, nonopts
<1>1. /\ pc = "element" /\ pc' = "caller" /\ optc' = "word"
      /\ argv[optind] # DoubleDash /\ IsWord(argv[optind])
      /\ Ordering # "require order"
      /\ UNCHANGED <<argv, conf, original, initialized>>
      /\ UNCHANGED <<first_nonopt, last_nonopt, nextchar>>
      /\ parsed' = Append(parsed, x)
  BY DEF WordIsReturned, AtElement, Return, ReturnFor, Scanning, callerVars,
         nonopts, Out
<1>2. /\ argv \in Seq(Seq(Tokens)) /\ original \in Seq(Seq(Tokens))
      /\ IsOut(F, original) /\ parsed \in Seq(OutSet)
      /\ Len(argv) = Len(original) /\ Between(F, argv)
      /\ nextchar = <<>> /\ initialized
  BY <1>0, AtBetween DEF InCall
<1>3. /\ Len(argv) \in Nat /\ argc = Len(argv) + 1 /\ argc \in Nat
      /\ optind \in Nat /\ 1 <= optind
      /\ first_nonopt \in Nat /\ last_nonopt \in Nat /\ last_nonopt <= optind
  BY <1>0, AtBetween
<1>4. /\ F[optind] = OutFrom(original, F, optind)
      /\ \A i \in optind .. Len(argv) : argv[i] = original[i]
  BY <1>0, OutHere
<1>5. PICK v, w, i : v = argv /\ w = original /\ i = optind
  OBVIOUS
<1>6. /\ i \in 1 .. Len(w) /\ w \in Seq(Seq(Tokens)) /\ w[i] = v[i]
      /\ v[i] \in Seq(Tokens)
  <2>1. i \in optind .. Len(argv) /\ i \in 1 .. Len(argv)
    BY <1>0, <1>3, <1>5
  <2>2. argv[i] \in Seq(Tokens)
    <3> DEFINE U == Seq(Tokens)
    <3>1. argv \in Seq(U)
      BY <1>2
    <3> HIDE DEF U
    <3>2. argv[i] \in U
      BY <2>1, <3>1, ElementOfSeq
    <3> QED
      BY <3>2 DEF U
  <2> QED
    BY <1>0, <1>2, <1>3, <1>4, <1>5, <2>1, <2>2
<1>7. Ordering # "permute" /\ Ordering' # "permute"
  <2>1. Ordering # "permute"
    BY <1>0, <1>1, AtBetween DEF InCall
  <2> QED
    BY <1>1, <2>1, SameTable
<1>8. PICK y : y = x
  OBVIOUS
<1>9. y \in OutSet
  <2>1. <<v[i]>> \in Seq(Seq(Tokens))
    BY <1>6, OneArg
  <2> QED
    BY <1>5, <1>8, <2>1, OutOK, MarksOK
<1>10. F[i] = <<<<y>> \o F[i + 1][1], F[i + 1][2]>>
  <2>1. OutFrom(w, F, i) = <<<<y>> \o F[i + 1][1], F[i + 1][2]>>
    BY <1>1, <1>5, <1>6, <1>7, <1>8, OutOfWord
  <2> QED
    BY <1>4, <1>5, <2>1
<1>11. first_nonopt = last_nonopt
  BY <1>0, <1>2, <1>3, <1>7 DEF Between, NoGap
<1>12. parsed' = Append(parsed, y) /\ parsed' \in Seq(OutSet)
  <2>1. parsed' = Append(parsed, y)
    BY <1>1, <1>8
  <2> HIDE DEF x
  <2> QED
    BY <1>2, <1>9, <2>1, AppendOK
<1>13. Between(F, argv)'
  <2>1. Ahead(argv)'
    <3>1. \A k \in optind + 1 .. Len(argv) : k \in optind .. Len(argv)
      BY <1>3
    <3> QED
      BY <1>0, <1>1, <1>2, <1>4, <3>1 DEF Ahead
  <2>2. NoGap'
    BY <1>1, <1>11 DEF NoGap
  <2>3. InAll(F, parsed' \o F[i + 1][1], Skipped(v) \o F[i + 1][2])
    <3>1. InAll(F, parsed \o F[i][1], Skipped(v) \o F[i][2])
      BY <1>2, <1>5 DEF Between
    <3> DEFINE a == <<y>> \o F[i + 1][1]
               b == F[i + 1][2]
    <3>2. F[i][1] = a /\ F[i][2] = b
      <4> HIDE DEF a, b
      <4>1. F[i] = <<a, b>>
        BY <1>10 DEF a, b
      <4> QED
        BY <4>1, Parts
    <3>3. parsed \o a = parsed' \o F[i + 1][1]
      <4>1. F[i + 1][1] \in Seq(OutSet)
        <5>1. i + 1 \in 1 .. Len(w) + 1
          BY <1>6
        <5> QED
          BY <1>2, <1>5, <5>1, OutTyped
      <4>2. PICK s, z : s = parsed /\ z = F[i + 1][1]
        OBVIOUS
      <4>3. s \in Seq(OutSet) /\ z \in Seq(OutSet)
        BY <1>2, <4>1, <4>2
      <4>4. s \o (<<y>> \o z) = Append(s, y) \o z
        BY <1>9, <4>3, AppendThenRest
      <4> QED
        BY <1>12, <4>2, <4>4
    <3> QED
      BY <3>1, <3>2, <3>3
  <2>4. InAll(F, parsed \o F[optind][1], Skipped(argv) \o F[optind][2])'
    BY <1>0, <1>1, <1>5, <2>3 DEF InAll, Skipped
  <2> QED
    BY <2>1, <2>2, <2>4 DEF Between
<1>14. last_nonopt' <= optind' /\ optind' >= 1
  BY <1>0, <1>3
<1>15. Follows(F)'
  BY <1>0, <1>1, <1>2, <1>13, <1>14 DEF Follows, AtCaller
<1> QED
  BY <1>1, <1>12, <1>15, PastKeeps

\* An element is decoded from its second or third character on.
LEMMA ElementIsRemnant ==
  ASSUME ~conf.long_only, NEW arg \in Seq(Tokens), Len(arg) >= 2, NEW more,
         NEW text,
         text = SubSeq(arg, IF HasLongs /\ arg[2] = "-" THEN 3 ELSE 2, Len(arg))
  PROVE  ElementOut(arg, more) = Remnant(arg, text, more)
<1>1. CASE HasLongs /\ arg[2] = "-"
  BY <1>1 DEF ElementOut, Remnant
<1>2. CASE ~(HasLongs /\ arg[2] = "-")
  <2>1. text = SubSeq(arg, 2, Len(arg))
    BY <1>2
  <2>2. Tail(arg) = SubSeq(arg, 2, Len(arg))
    OBVIOUS
  <2>3. Remnant(arg, text, more) = GroupOut(Tail(arg), more)
    BY <1>2, <2>1, <2>2 DEF Remnant
  <2>4. ElementOut(arg, more) = GroupOut(Tail(arg), more)
    BY <1>2 DEF ElementOut
  <2> QED
    BY <2>3, <2>4
<1> QED
  BY <1>1, <1>2

\* The element at optind is as it was, and so are those behind it.
LEMMA ElementHere ==
  ASSUME NEW v \in Seq(Seq(Tokens)), NEW w \in Seq(Seq(Tokens)),
         Len(v) = Len(w), NEW i \in Nat, 1 <= i, i <= Len(v),
         \A k \in i .. Len(v) : v[k] = w[k]
  PROVE  /\ v[i] = w[i] /\ v[i] \in Seq(Tokens)
         /\ Behind(v, i) = Behind(w, i)
         /\ Behind(v, i) \in Seq(Seq(Tokens)) /\ Len(Behind(v, i)) = Len(v) - i
         /\ \A k \in 1 .. Len(v) - i : Behind(v, i)[k] = v[i + k]
<1> DEFINE U == Seq(Tokens)
           a == i + 1
           b == Len(v)
<1>1. i \in 1 .. Len(v) /\ i \in i .. Len(v)
  OBVIOUS
<1>2. /\ Behind(v, i) \in Seq(Seq(Tokens)) /\ Len(Behind(v, i)) = Len(v) - i
      /\ \A k \in 1 .. Len(v) - i : Behind(v, i)[k] = v[i + k]
  BY <1>1, BehindOK
<1>3. v[i] = w[i]
  BY <1>1
<1>4. v[i] \in U
  <2>1. v \in Seq(U)
    OBVIOUS
  <2> HIDE DEF U
  <2> QED
    BY <1>1, <2>1, ElementOfSeq
<1>5. /\ v \in Seq(U) /\ w \in Seq(U)
      /\ a \in 1 .. Len(v) + 1 /\ b \in a - 1 .. Len(v)
  BY <1>1
<1>6. \A k \in a .. b : v[k] = w[k]
  <2>1. \A k \in a .. b : k \in i .. Len(v)
    BY <1>1
  <2> QED
    BY <2>1
<1> HIDE DEF U, a, b
<1>7. SubSeq(v, a, b) = SubSeq(w, a, b)
  BY <1>5, <1>6, SliceSame
<1>8. Behind(v, i) = Behind(w, i)
  BY <1>7 DEF Behind, a, b
<1> QED
  BY <1>2, <1>3, <1>4, <1>8 DEF U

LEMMA CourseOfOption ==
  ASSUME IInv, Regular, NEW F, Past(F), OptionElement
  PROVE  Past(F)'
<1>0. pc = "element" /\ optind < argc
  BY DEF OptionElement, AtElement
<1>1. /\ pc' = "decode"
      /\ argv[optind] # DoubleDash /\ ~IsWord(argv[optind])
      /\ nextchar' = SubSeq(argv[optind],
           IF HasLongs /\ argv[optind][2] = "-" THEN 3 ELSE 2, Len(argv[optind]))
  BY DEF OptionElement, AtElement
<1>2. /\ UNCHANGED <<argv, conf, original, parsed>>
      /\ UNCHANGED <<optind, first_nonopt, last_nonopt>>
      /\ UNCHANGED <<optarg, optc>>
  BY DEF OptionElement, Scanning, callerVars, nonopts
<1>3. /\ argv \in Seq(Seq(Tokens)) /\ original \in Seq(Seq(Tokens))
      /\ IsOut(F, original) /\ parsed \in Seq(OutSet) /\ IsConfig(conf)
      /\ Len(argv) = Len(original) /\ Between(F, argv)
      /\ optarg = <<>> /\ optc # "end"
  BY <1>0, AtBetween DEF InCall
<1>4. /\ Len(argv) \in Nat /\ argc = Len(argv) + 1
      /\ optind \in Nat /\ 1 <= optind
  BY <1>0, AtBetween
<1>5. /\ F[optind] = OutFrom(original, F, optind)
      /\ \A k \in optind .. Len(argv) : argv[k] = original[k]
  BY <1>0, OutHere
<1>6. PICK v, w, i, more, text :
        /\ v = argv /\ w = original /\ i = optind /\ more = Behind(argv, optind)
        /\ text = nextchar'
  OBVIOUS
<1>7. i \in Nat /\ 1 <= i /\ i <= Len(v) /\ i \in 1 .. Len(w)
  BY <1>0, <1>3, <1>4, <1>6
<1>8. /\ v[i] = w[i] /\ v[i] \in Seq(Tokens) /\ more = Behind(w, i)
  <2>1. /\ v \in Seq(Seq(Tokens)) /\ w \in Seq(Seq(Tokens)) /\ Len(v) = Len(w)
        /\ more = Behind(v, i)
    BY <1>3, <1>6
  <2>2. \A k \in i .. Len(v) : v[k] = w[k]
    BY <1>5, <1>6
  <2> QED
    BY <1>7, <2>1, <2>2, ElementHere
<1>9. PICK e : e = ElementOut(v[i], more)
  OBVIOUS
<1>10. F[i] = <<e[1] \o F[i + 1 + e[2]][1], F[i + 1 + e[2]][2]>>
  <2>1. w[i] # DoubleDash /\ ~IsWord(w[i])
    BY <1>1, <1>6, <1>8
  <2>2. w \in Seq(Seq(Tokens)) /\ e = ElementOut(w[i], Behind(w, i))
    BY <1>3, <1>6, <1>8, <1>9
  <2>3. OutFrom(w, F, i) = <<e[1] \o F[i + 1 + e[2]][1], F[i + 1 + e[2]][2]>>
    BY <1>7, <2>1, <2>2, OutOfOption
  <2> QED
    BY <1>5, <1>6, <2>3
<1>11. e = Remnant(v[i], text, more)
  <2>1. Len(v[i]) >= 2
    BY <1>1, <1>6, <1>8 DEF IsWord
  <2>2. text = SubSeq(v[i], IF HasLongs /\ v[i][2] = "-" THEN 3 ELSE 2, Len(v[i]))
    BY <1>1, <1>6
  <2>3. ~conf.long_only
    BY DEF Regular
  <2> QED
    BY <1>8, <1>9, <2>1, <2>2, <2>3, ElementIsRemnant
<1>12. e = Remnant(argv[optind], nextchar, Behind(argv, optind))'
  <2>1. Remnant(v[i], text, more)' = Remnant(v[i], text, more)
    BY <1>2, SameTable
  <2>2. v[i] = argv'[optind'] /\ text = nextchar' /\ more = Behind(argv, optind)'
    BY <1>2, <1>6 DEF Behind
  <2> QED
    BY <1>11, <2>1, <2>2
<1>13. InAll(F, parsed \o (e[1] \o F[i + 1 + e[2]][1]),
                Skipped(v) \o F[i + 1 + e[2]][2])
  <2>1. InAll(F, parsed \o F[i][1], Skipped(v) \o F[i][2])
    BY <1>3, <1>6 DEF Between
  <2> DEFINE x == e[1] \o F[i + 1 + e[2]][1]
             y == F[i + 1 + e[2]][2]
  <2>2. F[i][1] = x /\ F[i][2] = y
    <3>1. F[i] = <<x, y>>
      BY <1>10
    <3> HIDE DEF x, y
    <3> QED
      BY <3>1, Parts
  <2> QED
    BY <2>1, <2>2
<1>14. Within(F)'
  <2>1. Ahead(argv)'
    BY <1>2, <1>3 DEF Between, Ahead
  <2>2. NoGap'
    BY <1>2, <1>3, SameTable DEF Between, NoGap, argc
  <2>3. Remains(F, e)'
    BY <1>2, <1>6, <1>13 DEF Remains, InAll, Skipped
  <2> QED
    BY <1>12, <2>1, <2>2, <2>3 DEF Within
<1>15. Follows(F)'
  BY <1>1, <1>2, <1>3, <1>14 DEF Follows, InCall
<1> QED
  BY <1>2, <1>3, <1>15, PastKeeps

LEMMA RemnantOK ==
  ASSUME IsConfig(conf), NEW arg, NEW text \in Seq(Tokens),
         NEW more \in Seq(Seq(Tokens))
  PROVE  /\ Remnant(arg, text, more)[1] \in Seq(OutSet)
         /\ Remnant(arg, text, more)[2] \in 0 .. Len(more)
<1>1. CASE HasLongs /\ arg[2] = "-"
  <2>1. PICK out : out = LongOut(text, more)
    OBVIOUS
  <2>2. out[1] \in OutSet /\ out[2] \in 0 .. Len(more)
    BY <2>1, LongOutOK DEF TakesOf
  <2>3. Remnant(arg, text, more) = <<<<out[1]>>, out[2]>>
    BY <1>1, <2>1 DEF Remnant
  <2>4. <<out[1]>> \in Seq(OutSet)
    BY <2>2, OneOf
  <2> QED
    BY <2>2, <2>3, <2>4
<1>2. CASE ~(HasLongs /\ arg[2] = "-")
  <2>1. Remnant(arg, text, more) = GroupOut(text, more)
    BY <1>2 DEF Remnant
  <2> QED
    BY <2>1, GroupOK
<1> QED
  BY <1>1, <1>2

\* What a step that decodes an option finds.
LEMMA AtDecode ==
  ASSUME IInv, NEW F, Past(F), pc = "decode"
  PROVE  /\ Within(F) /\ optarg = <<>> /\ optc # "end" /\ initialized
         /\ argv \in Seq(Seq(Tokens)) /\ original \in Seq(Seq(Tokens))
         /\ IsOut(F, original) /\ parsed \in Seq(OutSet) /\ IsConfig(conf)
         /\ Len(argv) = Len(original)
         /\ nextchar \in Seq(Tokens) /\ nextchar # <<>>
<1>1. InCall(F) /\ IsOut(F, original) /\ parsed \in Seq(OutSet)
      /\ original \in Seq(Seq(Tokens))
  BY DEF Past, Follows
<1>2. Within(F) /\ optarg = <<>> /\ optc # "end"
  BY <1>1 DEF InCall
<1>3. /\ argv \in Seq(Seq(Tokens)) /\ IsConfig(conf)
      /\ nextchar \in Seq(Tokens)
  BY TypeParts DEF IInv, TextsOK
<1>4. nextchar # <<>> /\ initialized
  BY DEF IInv, Pending, Begun
<1>5. Len(argv) = Len(original)
  BY <1>2 DEF Within, Ahead
<1> QED
  BY <1>1, <1>2, <1>3, <1>4, <1>5

LEMMA DecodePlaces ==
  ASSUME IInv, pc = "decode"
  PROVE  /\ Len(argv) \in Nat /\ argc \in Nat /\ argc = Len(argv) + 1
         /\ optind \in Nat /\ 1 <= optind /\ optind <= Len(argv)
         /\ last_nonopt \in Nat /\ last_nonopt <= optind
<1>1. /\ argc \in Nat /\ argc = Len(argv) + 1 /\ Len(argv) \in Nat
      /\ last_nonopt \in 1 .. optind
  BY AtStep
<1>2. optind \in 1 .. argc - 1
  BY AtOption
<1>3. optind \in Nat /\ last_nonopt \in Nat
  BY NaturalsOK DEF IInv
<1> QED
  BY <1>1, <1>2, <1>3

\* A step that decodes the last option of its element.
LEMMA DecodeEnds ==
  ASSUME IInv, NEW F, Past(F), pc = "decode", Decoding,
         pc' = "caller", optc' # "end", nextchar' = <<>>,
         NEW x, NEW k,
         Remnant(argv[optind], nextchar, Behind(argv, optind)) = <<<<x>>, k>>,
         parsed' = Append(parsed, x), optind' = optind + 1 + k
  PROVE  Past(F)'
<1>1. /\ UNCHANGED <<argv, conf, original, initialized>>
      /\ first_nonopt' = first_nonopt /\ last_nonopt' = last_nonopt
  BY DEF Decoding, Scanning, callerVars, nonopts
<1>2. /\ Within(F) /\ initialized
      /\ argv \in Seq(Seq(Tokens)) /\ original \in Seq(Seq(Tokens))
      /\ IsOut(F, original) /\ parsed \in Seq(OutSet) /\ IsConfig(conf)
      /\ Len(argv) = Len(original) /\ nextchar \in Seq(Tokens)
  BY AtDecode
<1>3. /\ Len(argv) \in Nat /\ argc = Len(argv) + 1
      /\ optind \in Nat /\ 1 <= optind /\ optind <= Len(argv)
      /\ last_nonopt \in Nat /\ last_nonopt <= optind
  BY DecodePlaces
<1>4. PICK v, i, more, e : /\ v = argv /\ i = optind /\ more = Behind(argv, optind)
                           /\ e = <<<<x>>, k>>
  OBVIOUS
<1>5. more \in Seq(Seq(Tokens)) /\ Len(more) = Len(v) - i
  <2>1. /\ v \in Seq(Seq(Tokens)) /\ i \in 1 .. Len(v) /\ more = Behind(v, i)
    BY <1>2, <1>3, <1>4
  <2> QED
    BY <2>1, BehindOK
<1>6. e[1] = <<x>> /\ e[2] = k /\ e[1] \in Seq(OutSet) /\ e[2] \in 0 .. Len(more)
  <2>1. e[1] = <<x>> /\ e[2] = k
    BY <1>4
  <2>2. e = Remnant(argv[optind], nextchar, more)
    BY <1>4
  <2> QED
    BY <1>2, <1>5, <2>1, <2>2, RemnantOK
<1>7. /\ x \in OutSet /\ k \in Nat /\ k <= Len(v) - i
  <2>1. x \in OutSet
    <3>1. <<x>> \in Seq(OutSet)
      BY <1>6
    <3>2. <<x>>[1] \in OutSet
      BY <3>1, ElementOfSeq
    <3> QED
      BY <3>2
  <2>2. k \in 0 .. Len(more)
    BY <1>6
  <2>3. Len(v) \in Nat /\ i \in Nat /\ i <= Len(v)
    BY <1>3, <1>4
  <2> QED
    BY <1>5, <2>1, <2>2, <2>3
<1>8. parsed' \in Seq(OutSet)
  BY <1>2, <1>7, AppendOK
<1>9. PICK j : j = i + 1 + k
  OBVIOUS
<1>10. j \in Nat /\ i <= j /\ 1 <= j /\ j <= Len(v) + 1 /\ j = optind'
  BY <1>3, <1>4, <1>7, <1>9
<1>11. InAll(F, parsed' \o F[j][1], Skipped(v) \o F[j][2])
  <2>1. InAll(F, parsed \o (<<x>> \o F[j][1]), Skipped(v) \o F[j][2])
    <3>1. Remains(F, e)
      BY <1>2, <1>4 DEF Within
    <3> QED
      BY <1>4, <1>6, <1>9, <3>1 DEF Remains
  <2>2. parsed \o (<<x>> \o F[j][1]) = parsed' \o F[j][1]
    <3>1. PICK s, z : s = parsed /\ z = F[j][1]
      OBVIOUS
    <3>2. j \in 1 .. Len(original) + 1
      BY <1>2, <1>4, <1>10
    <3>3. s \in Seq(OutSet) /\ z \in Seq(OutSet)
      BY <1>2, <3>1, <3>2, OutTyped
    <3>4. x \in OutSet
      BY <1>7
    <3>5. s \o (<<x>> \o z) = Append(s, x) \o z
      BY <3>3, <3>4, AppendThenRest, SMTT(20)
    <3> QED
      BY <3>1, <3>5
  <2> QED
    BY <2>1, <2>2
<1>12. Between(F, argv)'
  <2>1. Ahead(argv)'
    <3>1. \A n \in j .. Len(argv) : n \in optind .. Len(argv)
      BY <1>3, <1>4, <1>10
    <3>2. \A n \in optind .. Len(argv) : argv[n] = original[n]
      BY <1>2 DEF Within, Ahead
    <3> QED
      BY <1>1, <1>2, <1>10, <3>1, <3>2 DEF Ahead
  <2>2. NoGap'
    <3>1. Ordering # "permute" => first_nonopt = last_nonopt
      <4>1. optind # argc
        BY <1>3
      <4> QED
        BY <1>2, <4>1 DEF Within, NoGap
    <3> QED
      BY <1>1, <3>1, SameTable DEF NoGap
  <2>3. InAll(F, parsed \o F[optind][1], Skipped(argv) \o F[optind][2])'
    BY <1>1, <1>4, <1>10, <1>11 DEF InAll, Skipped
  <2> QED
    BY <2>1, <2>2, <2>3 DEF Between
<1>13. last_nonopt' <= optind' /\ optind' >= 1
  BY <1>1, <1>3, <1>4, <1>10
<1>14. Follows(F)'
  BY <1>1, <1>2, <1>12, <1>13 DEF Follows, AtCaller
<1> QED
  BY <1>1, <1>2, <1>8, <1>14, PastKeeps

LEMMA PlainIn ==
  ASSUME IsConfig(conf), NEW letter \in Tokens
  PROVE  PlainOut(letter) \in OutSet
BY OutOK, MarksOK, NoArg DEF PlainOut

\* A letter that takes no argument, with others behind it.
LEMMA DecodeGoesOn ==
  ASSUME IInv, NEW F, Past(F), pc = "decode", Decoding,
         pc' = "caller", optc' # "end",
         ~(HasLongs /\ argv[optind][2] = "-"), ~Takes(Letter),
         Rest # <<>>, nextchar' = Rest, optind' = optind,
         parsed' = Append(parsed, PlainOut(Letter))
  PROVE  Past(F)'
<1>1. /\ UNCHANGED <<argv, conf, original, initialized>>
      /\ first_nonopt' = first_nonopt /\ last_nonopt' = last_nonopt
  BY DEF Decoding, Scanning, callerVars, nonopts
<1>2. /\ Within(F) /\ initialized
      /\ argv \in Seq(Seq(Tokens)) /\ original \in Seq(Seq(Tokens))
      /\ IsOut(F, original) /\ parsed \in Seq(OutSet) /\ IsConfig(conf)
      /\ Len(argv) = Len(original)
      /\ nextchar \in Seq(Tokens) /\ nextchar # <<>>
  BY AtDecode
<1>3. /\ Len(argv) \in Nat /\ argc = Len(argv) + 1
      /\ optind \in Nat /\ 1 <= optind /\ optind <= Len(argv)
  BY DecodePlaces
<1>4. PICK v, i, arg, more, text :
        /\ v = argv /\ i = optind /\ arg = argv[optind]
        /\ more = Behind(argv, optind) /\ text = nextchar
  OBVIOUS
<1>5. more \in Seq(Seq(Tokens)) /\ Len(more) = Len(v) - i
  <2>1. /\ v \in Seq(Seq(Tokens)) /\ i \in 1 .. Len(v) /\ more = Behind(v, i)
    BY <1>2, <1>3, <1>4
  <2> QED
    BY <2>1, BehindOK
<1>6. /\ text \in Seq(Tokens) /\ text # <<>> /\ Letter = text[1]
      /\ Rest = Tail(text) /\ Tail(text) \in Seq(Tokens)
  BY <1>2, <1>4 DEF Letter, Rest
<1>7. PICK x, r : x = PlainOut(text[1]) /\ r = GroupOut(Tail(text), more)
  OBVIOUS
<1>8. GroupOut(text, more) = <<<<x>> \o r[1], r[2]>>
  BY <1>2, <1>5, <1>6, <1>7, GroupPeels
<1>9. /\ r[1] \in Seq(OutSet) /\ r[2] \in 0 .. Len(more)
  BY <1>2, <1>5, <1>6, <1>7, GroupOK
<1>10. x \in OutSet
  <2>1. text[1] \in Tokens
    BY <1>6
  <2> QED
    BY <1>2, <1>7, <2>1, PlainIn
<1>11. parsed' = Append(parsed, x) /\ parsed' \in Seq(OutSet)
  <2>1. parsed' = Append(parsed, x)
    BY <1>6, <1>7
  <2> QED
    BY <1>2, <1>10, <2>1, AppendOK
<1>12. PICK j : j = i + 1 + r[2]
  OBVIOUS
<1>13. InAll(F, parsed \o ((<<x>> \o r[1]) \o F[j][1]), Skipped(v) \o F[j][2])
  <2>1. PICK e : e = <<<<x>> \o r[1], r[2]>>
    OBVIOUS
  <2>2. e[1] = <<x>> \o r[1] /\ e[2] = r[2]
    <3> DEFINE a == <<x>> \o r[1]
               b == r[2]
    <3>1. e = <<a, b>>
      BY <2>1
    <3> HIDE DEF a, b
    <3>2. e[1] = a /\ e[2] = b
      BY <3>1, Parts
    <3> QED
      BY <3>2 DEF a, b
  <2>3. Remnant(argv[optind], nextchar, Behind(argv, optind)) = e
    BY <1>4, <1>8, <2>1 DEF Remnant
  <2>4. Remains(F, e)
    BY <1>2, <2>3 DEF Within
  <2> QED
    BY <1>4, <1>12, <2>2, <2>4 DEF Remains
<1>14. InAll(F, parsed' \o (r[1] \o F[j][1]), Skipped(v) \o F[j][2])
  <2>1. PICK s, y, z : s = parsed /\ y = r[1] /\ z = F[j][1]
    OBVIOUS
  <2>2. j \in 1 .. Len(original) + 1
    <3>1. PICK k : k = r[2]
      OBVIOUS
    <3>2. k \in Nat /\ k <= Len(more) /\ j = i + 1 + k
      BY <1>5, <1>9, <1>12, <3>1
    <3>3. i \in Nat /\ 1 <= i /\ i <= Len(v) /\ Len(v) \in Nat /\ Len(original) = Len(v)
      BY <1>2, <1>3, <1>4
    <3> QED
      BY <1>5, <3>2, <3>3
  <2>3. s \in Seq(OutSet) /\ y \in Seq(OutSet) /\ z \in Seq(OutSet)
    BY <1>2, <1>9, <2>1, <2>2, OutTyped
  <2>4. (<<x>> \o y) \o z = <<x>> \o (y \o z)
    <3> DEFINE q == <<x>>
    <3>1. q \in Seq(OutSet)
      BY <1>10, OneOf
    <3> HIDE DEF q
    <3>2. (q \o y) \o z = q \o (y \o z)
      BY SMTT(30), <2>3, <3>1, Associative
    <3> QED
      BY <3>2 DEF q
  <2>5. s \o (<<x>> \o (y \o z)) = Append(s, x) \o (y \o z)
    <3>1. PICK u : u = y \o z
      OBVIOUS
    <3>2. u \in Seq(OutSet)
      BY <2>3, <3>1, ConcatOK
    <3>3. s \o (<<x>> \o u) = Append(s, x) \o u
      BY <1>10, <2>3, <3>2, AppendThenRest
    <3> QED
      BY <3>1, <3>3
  <2> QED
    BY <1>11, <1>13, <2>1, <2>4, <2>5
<1>15. r = Remnant(argv[optind], nextchar, Behind(argv, optind))'
  <2>1. PICK t : t = Tail(text)
    OBVIOUS
  <2>2. Remnant(arg, t, more) = r
    BY <1>4, <1>7, <2>1 DEF Remnant
  <2>3. Remnant(arg, t, more)' = Remnant(arg, t, more)
    BY <1>1, SameTable
  <2>4. arg = argv'[optind'] /\ t = nextchar' /\ more = Behind(argv, optind)'
    BY <1>1, <1>4, <1>6, <2>1 DEF Behind
  <2> QED
    BY <2>2, <2>3, <2>4
<1>16. Within(F)'
  <2>1. Ahead(argv)'
    BY <1>1, <1>2 DEF Within, Ahead
  <2>2. NoGap'
    BY <1>1, <1>2, SameTable DEF Within, NoGap, argc
  <2>3. Remains(F, r)'
    BY <1>1, <1>4, <1>12, <1>14 DEF Remains, InAll, Skipped
  <2> QED
    BY <1>15, <2>1, <2>2, <2>3 DEF Within
<1>17. Follows(F)'
  BY <1>16 DEF Follows, AtCaller
<1> QED
  BY <1>1, <1>2, <1>11, <1>17, PastKeeps

\* What lies behind the element that is decoded.
LEMMA MoreIs ==
  ASSUME IInv, pc = "decode"
  PROVE  /\ Behind(argv, optind) \in Seq(Seq(Tokens))
         /\ Len(Behind(argv, optind)) = Len(argv) - optind
         /\ optind + 1 = argc => Behind(argv, optind) = <<>>
         /\ optind + 1 < argc =>
              /\ Behind(argv, optind) # <<>>
              /\ Behind(argv, optind)[1] = argv[optind + 1]
<1>1. argv \in Seq(Seq(Tokens))
  BY TypeParts DEF IInv, TextsOK
<1>2. /\ Len(argv) \in Nat /\ argc = Len(argv) + 1
      /\ optind \in Nat /\ 1 <= optind /\ optind <= Len(argv)
  BY DecodePlaces
<1>3. PICK v, i, m : v = argv /\ i = optind /\ m = Behind(argv, optind)
  OBVIOUS
<1>4. /\ m \in Seq(Seq(Tokens)) /\ Len(m) = Len(v) - i
      /\ \A k \in 1 .. Len(v) - i : m[k] = v[i + k]
  <2>1. v \in Seq(Seq(Tokens)) /\ i \in 1 .. Len(v) /\ m = Behind(v, i)
    BY <1>1, <1>2, <1>3
  <2> QED
    BY <2>1, BehindOK
<1>5. optind + 1 = argc => m = <<>>
  <2>1. optind + 1 = argc => Len(m) = 0
    BY <1>2, <1>3, <1>4
  <2> QED
    BY <1>4, <2>1, EmptySeq
<1>6. optind + 1 < argc => 1 \in 1 .. Len(v) - i /\ Len(m) >= 1
  BY <1>2, <1>3, <1>4
<1>7. optind + 1 < argc => m # <<>> /\ m[1] = argv[optind + 1]
  BY <1>3, <1>4, <1>6
<1> QED
  BY <1>3, <1>4, <1>5, <1>7

\* An option that is found is none of the marks.
LEMMA FoundIsNoMark ==
  ASSUME IsConfig(conf), NEW text, IsUnique(text)
  PROVE  Value(Found(text)) \notin Marks
<1>1. PICK o : o = Found(text)
  OBVIOUS
<1>2. o \in Options
  BY <1>1, FoundIsMeant
<1>3. o.val \notin Marks
  BY <1>2 DEF Options
<1>4. Value(o) \notin Marks
  BY <1>3 DEF Value, Marks
<1> QED
  BY <1>1, <1>4

\* What a call returns last is what its element says last.
LEMMA LongEnds ==
  ASSUME IInv, Regular, NEW F, Past(F), Decoding, IsLong,
         pc' = "caller", optc' # "end", nextchar' = <<>>,
         NEW x, NEW k,
         LongOut(nextchar, Behind(argv, optind)) = <<x, k>>,
         parsed' = Append(parsed, x), optind' = optind + 1 + k
  PROVE  Past(F)'
<1>1. HasLongs /\ argv[optind][2] = "-"
  BY DEF IsLong, Regular
<1>2. PICK arg, text, more :
        arg = argv[optind] /\ text = nextchar /\ more = Behind(argv, optind)
  OBVIOUS
<1>3. PICK out : out = LongOut(text, more)
  OBVIOUS
<1>4. out[1] = x /\ out[2] = k
  BY <1>2, <1>3, Parts
<1>5. Remnant(arg, text, more) = <<<<x>>, k>>
  BY <1>1, <1>2, <1>3, <1>4 DEF Remnant
<1>6. pc = "decode"
  BY DEF Decoding
<1> QED
  BY <1>2, <1>5, <1>6, DecodeEnds

LEMMA CourseOfLong ==
  ASSUME IInv, Regular, NEW F, Past(F),
         \/ LongAmbiguous \/ LongTakesNoArgument \/ LongLacksArgument
         \/ LongAlone \/ LongWithValue \/ LongWithNext \/ LongUnknown
  PROVE  Past(F)'
<1>1. /\ Decoding /\ IsLong /\ pc = "decode" /\ pc' = "caller" /\ nextchar' = <<>>
  BY DEF LongAmbiguous, LongTakesNoArgument, LongLacksArgument, LongAlone,
         LongWithValue, LongWithNext, LongUnknown, LongFound, Decoding, Return,
         ReturnFor
<1>2. optarg = <<>> /\ IsConfig(conf) /\ ~conf.long_only /\ optind \in Nat
  BY <1>1, AtDecode, DecodePlaces DEF Regular
<1>3. PICK text, more, o : /\ text = nextchar /\ more = Behind(argv, optind)
                           /\ o = Found(nextchar)
  OBVIOUS
<1>4. LongOut(text, more) =
        IF ~IsUnique(text) THEN <<Out("?", <<>>, ""), 0>>
        ELSE IF HasValue(text) THEN
          IF o.has = 0 THEN <<Out("?", <<>>, o.val), 0>>
          ELSE <<Out(Value(o), <<ValueOf(text)>>, ""), 0>>
        ELSE IF o.has # 1 THEN <<Out(Value(o), <<>>, ""), 0>>
        ELSE IF more = <<>> THEN <<Out(MissingArgument, <<>>, o.val), 0>>
        ELSE <<Out(Value(o), <<more[1]>>, ""), 1>>
  BY <1>2, <1>3, LongOutIs
<1>5. /\ IsUnique(text) <=> Matches(text) # {} /\ ~IsAmbiguous(text)
      /\ IsUnique(text) => Value(o) \notin Marks
  BY <1>2, <1>3, FoundIsMeant, FoundIsNoMark
<1>6. MissingArgument \in {"?", ":"} /\ optind + 1 + 0 = optind + 1
  BY <1>2 DEF MissingArgument
<1>7. CASE LongAmbiguous \/ LongUnknown
  <2>1. /\ optind' = optind + 1 /\ optarg' = <<>> /\ optopt' = "" /\ optc' = "?"
        /\ IsAmbiguous(text) \/ Matches(text) = {}
    BY <1>2, <1>3, <1>7 DEF LongAmbiguous, LongUnknown, Return, ReturnFor
  <2>2. parsed' = Append(parsed, Out("?", <<>>, ""))
    BY <1>2, <1>7 DEF LongAmbiguous, LongUnknown, Return, ReturnFor, Out
  <2>3. LongOut(nextchar, Behind(argv, optind)) = <<Out("?", <<>>, ""), 0>>
    BY <1>3, <1>4, <1>5, <2>1
  <2> QED
    BY <1>1, <1>6, <2>1, <2>2, <2>3, LongEnds
<1>8. CASE LongTakesNoArgument
  <2>1. /\ optind' = optind + 1 /\ optc' = "?"
        /\ IsUnique(text) /\ HasValue(text) /\ o.has = 0
    BY <1>3, <1>5, <1>8 DEF LongTakesNoArgument, LongFound, Return, ReturnFor
  <2>2. parsed' = Append(parsed, Out("?", <<>>, o.val))
    BY <1>2, <1>3, <1>8 DEF LongTakesNoArgument, Return, ReturnFor, Out
  <2>3. LongOut(nextchar, Behind(argv, optind)) = <<Out("?", <<>>, o.val), 0>>
    BY <1>3, <1>4, <2>1
  <2> QED
    BY <1>1, <1>6, <2>1, <2>2, <2>3, LongEnds
<1>9. CASE LongLacksArgument
  <2>1. /\ optind' = optind + 1 /\ optc' = MissingArgument
        /\ IsUnique(text) /\ ~HasValue(text) /\ o.has = 1 /\ more = <<>>
    BY <1>1, <1>3, <1>5, <1>9, MoreIs
       DEF LongLacksArgument, LongFound, Return, ReturnFor
  <2>2. parsed' = Append(parsed, Out(MissingArgument, <<>>, o.val))
    BY <1>2, <1>3, <1>6, <1>9 DEF LongLacksArgument, Return, ReturnFor, Out
  <2>3. LongOut(nextchar, Behind(argv, optind))
          = <<Out(MissingArgument, <<>>, o.val), 0>>
    BY <1>3, <1>4, <2>1
  <2>4. optc' # "end"
    BY <1>6, <2>1
  <2> QED
    BY <1>1, <1>6, <2>1, <2>2, <2>3, <2>4, LongEnds
<1>10. CASE LongAlone
  <2>1. /\ optind' = optind + 1 /\ optc' = Value(o) /\ optarg' = <<>>
        /\ IsUnique(text) /\ ~HasValue(text) /\ o.has # 1
    BY <1>2, <1>3, <1>5, <1>10 DEF LongAlone, LongFound, Return, ReturnFor
  <2>2. Value(o) \notin {"?", ":", "end"}
    BY <1>5, <2>1 DEF Marks
  <2>3. parsed' = Append(parsed, Out(Value(o), <<>>, ""))
    BY <1>3, <1>10, <2>1, <2>2 DEF LongAlone, Return, ReturnFor, Out
  <2>4. LongOut(nextchar, Behind(argv, optind)) = <<Out(Value(o), <<>>, ""), 0>>
    BY <1>3, <1>4, <2>1
  <2>5. optc' # "end"
    BY <2>1, <2>2
  <2> QED
    BY <1>1, <1>6, <2>1, <2>3, <2>4, <2>5, LongEnds
<1>11. CASE LongWithValue
  <2>1. /\ optind' = optind + 1 /\ optc' = Value(o)
        /\ optarg' = <<ValueOf(text)>>
        /\ IsUnique(text) /\ HasValue(text) /\ o.has # 0
    BY <1>3, <1>5, <1>11 DEF LongWithValue, LongFound, Return, ReturnFor
  <2>2. Value(o) \notin {"?", ":", "end"}
    BY <1>5, <2>1 DEF Marks
  <2>3. parsed' = Append(parsed, Out(Value(o), <<ValueOf(text)>>, ""))
    BY <1>3, <1>11, <2>1, <2>2 DEF LongWithValue, Return, ReturnFor, Out
  <2>4. LongOut(nextchar, Behind(argv, optind))
          = <<Out(Value(o), <<ValueOf(text)>>, ""), 0>>
    BY <1>3, <1>4, <2>1
  <2>5. optc' # "end"
    BY <2>1, <2>2
  <2> QED
    BY <1>1, <1>6, <2>1, <2>3, <2>4, <2>5, LongEnds
<1>12. CASE LongWithNext
  <2>1. /\ optind' = optind + 2 /\ optc' = Value(o)
        /\ optarg' = <<more[1]>> /\ more # <<>>
        /\ IsUnique(text) /\ ~HasValue(text) /\ o.has = 1
    BY <1>1, <1>3, <1>5, <1>12, MoreIs
       DEF LongWithNext, LongFound, Return, ReturnFor
  <2>2. Value(o) \notin {"?", ":", "end"}
    BY <1>5, <2>1 DEF Marks
  <2>3. parsed' = Append(parsed, Out(Value(o), <<more[1]>>, ""))
    BY <1>3, <1>12, <2>1, <2>2 DEF LongWithNext, Return, ReturnFor, Out
  <2>4. LongOut(nextchar, Behind(argv, optind))
          = <<Out(Value(o), <<more[1]>>, ""), 1>>
    BY <1>3, <1>4, <2>1
  <2>5. optc' # "end" /\ optind' = optind + 1 + 1
    BY <1>2, <2>1, <2>2
  <2> QED
    BY <1>1, <2>3, <2>4, <2>5, LongEnds
<1> QED
  BY <1>7, <1>8, <1>9, <1>10, <1>11, <1>12

\* What a step that decodes a short option finds.
LEMMA AtShort ==
  ASSUME IInv, Regular, NEW F, Past(F), Short
  PROVE  /\ pc = "decode" /\ Decoding /\ ~(HasLongs /\ argv[optind][2] = "-")
         /\ optarg = <<>> /\ IsConfig(conf)
         /\ nextchar \in Seq(Tokens) /\ nextchar # <<>>
         /\ Letter = nextchar[1] /\ Rest = Tail(nextchar)
         /\ Letter \in Tokens /\ Rest \in Seq(Tokens)
         /\ optind \in Nat
         /\ Rest = <<>> => After = optind + 1
         /\ Rest # <<>> => After = optind
         /\ HasShort(Letter) => Letter \notin Marks
<1>1. pc = "decode" /\ Decoding
  BY DEF Short, Decoding
<1>2. ~(HasLongs /\ argv[optind][2] = "-")
  BY DEF Short, IsLong, IsShortAfterAll, Regular
<1>3. /\ optarg = <<>> /\ IsConfig(conf)
      /\ nextchar \in Seq(Tokens) /\ nextchar # <<>>
  BY <1>1, AtDecode
<1>4. HasShort(Letter) => Letter \notin Marks
  BY <1>3 DEF IsConfig, HasShort
<1>5. optind \in Nat
  BY <1>1, DecodePlaces
<1> QED
  BY <1>1, <1>2, <1>3, <1>4, <1>5, AtOption DEF Letter, Rest

LEMMA TakerEnds ==
  ASSUME IInv, Regular, NEW F, Past(F), Short, Takes(Letter),
         pc' = "caller", optc' # "end", nextchar' = <<>>,
         NEW x, NEW k,
         TakerOut(Letter, Rest, Behind(argv, optind)) = <<x, k>>,
         parsed' = Append(parsed, x), optind' = optind + 1 + k
  PROVE  Past(F)'
<1>1. /\ pc = "decode" /\ Decoding /\ ~(HasLongs /\ argv[optind][2] = "-")
      /\ nextchar \in Seq(Tokens) /\ nextchar # <<>>
      /\ Letter = nextchar[1] /\ Rest = Tail(nextchar)
  BY AtShort
<1>2. PICK arg, text, more :
        arg = argv[optind] /\ text = nextchar /\ more = Behind(argv, optind)
  OBVIOUS
<1>3. PICK last : last = TakerOut(text[1], Tail(text), more)
  OBVIOUS
<1>4. last[1] = x /\ last[2] = k
  <2>1. last = <<x, k>>
    BY <1>1, <1>2, <1>3
  <2> QED
    BY <2>1, Parts
<1>5. GroupOut(text, more) = <<<<x>>, k>>
  <2>1. GroupOut(text, more) = <<<<last[1]>>, last[2]>>
    BY <1>1, <1>2, <1>3, GroupTakes
  <2> QED
    BY <1>4, <2>1
<1>6. Remnant(arg, text, more) = <<<<x>>, k>>
  BY <1>1, <1>2, <1>5 DEF Remnant
<1> QED
  BY <1>1, <1>2, <1>6, DecodeEnds

\* The last letter of a group, if it takes no argument.
LEMMA PlainEnds ==
  ASSUME IInv, Regular, NEW F, Past(F), Short, ~Takes(Letter), Rest = <<>>,
         pc' = "caller", optc' # "end", nextchar' = <<>>,
         parsed' = Append(parsed, PlainOut(Letter)), optind' = optind + 1
  PROVE  Past(F)'
<1>1. /\ pc = "decode" /\ Decoding /\ ~(HasLongs /\ argv[optind][2] = "-")
      /\ nextchar \in Seq(Tokens) /\ nextchar # <<>> /\ IsConfig(conf)
      /\ Letter = nextchar[1] /\ Rest = Tail(nextchar) /\ optind \in Nat
  BY AtShort
<1>2. PICK arg, text, more, x :
        /\ arg = argv[optind] /\ text = nextchar /\ more = Behind(argv, optind)
        /\ x = PlainOut(Letter)
  OBVIOUS
<1>3. more \in Seq(Seq(Tokens))
  BY <1>1, <1>2, MoreIs
<1>4. PICK r : r = GroupOut(<<>>, more)
  OBVIOUS
<1>5. r[1] = <<>> /\ r[2] = 0
  <2>1. Takers(<<>>) = {}
    BY DEF Takers
  <2>2. Plain(<<>>, Len(<<>>)) = <<>>
    BY DEF Plain
  <2>3. PICK t \in Seq(Tokens) : t = <<>>
    BY EmptySeq
  <2>4. GroupOut(t, more) = <<Plain(t, Len(t)), 0>>
    BY <2>1, <2>3, GroupIs
  <2>5. r = <<<<>>, 0>>
    BY <1>4, <2>2, <2>3, <2>4
  <2> QED
    BY <2>5, Parts
<1>6. GroupOut(text, more) = <<<<x>> \o r[1], r[2]>>
  <2>1. /\ text \in Seq(Tokens) /\ text # <<>> /\ ~Takes(text[1])
        /\ Tail(text) = <<>> /\ x = PlainOut(text[1])
    BY <1>1, <1>2
  <2> QED
    BY <1>1, <1>3, <1>4, <2>1, GroupPeels
<1>7. GroupOut(text, more) = <<<<x>>, 0>>
  <2>1. <<x>> \o <<>> = <<x>>
    OBVIOUS
  <2> QED
    BY <1>5, <1>6, <2>1
<1>8. Remnant(arg, text, more) = <<<<x>>, 0>>
  BY <1>1, <1>2, <1>7 DEF Remnant
<1>9. optind' = optind + 1 + 0
  BY <1>1
<1> QED
  BY <1>1, <1>2, <1>8, <1>9, DecodeEnds

LEMMA CourseOfPlain ==
  ASSUME IInv, Regular, NEW F, Past(F), ShortUnknown \/ ShortAlone
  PROVE  Past(F)'
<1>1. Short /\ pc' = "caller" /\ nextchar' = Rest /\ optind' = After
  BY DEF ShortUnknown, ShortAlone, ShortIs, Return, ReturnFor
<1>2. /\ pc = "decode" /\ Decoding /\ ~(HasLongs /\ argv[optind][2] = "-")
      /\ optarg = <<>>
      /\ Rest = <<>> => After = optind + 1
      /\ Rest # <<>> => After = optind
      /\ HasShort(Letter) => Letter \notin Marks
  BY <1>1, AtShort
<1>3. /\ ~Takes(Letter) /\ optc' # "end"
      /\ parsed' = Append(parsed, PlainOut(Letter))
  <2>1. CASE ShortUnknown
    <3>1. /\ ~HasShort(Letter) /\ optc' = "?"
          /\ parsed' = Append(parsed, Out("?", <<>>, Letter))
      BY <1>2, <2>1 DEF ShortUnknown, Return, ReturnFor, Out
    <3> QED
      BY <3>1 DEF Takes, PlainOut
  <2>2. CASE ShortAlone
    <3>1. HasShort(Letter) /\ conf.shorts[Letter] = "" /\ optc' = Letter
      BY <2>2 DEF ShortAlone, ShortIs, Return, ReturnFor
    <3>2. Letter \notin {"?", ":", "end"}
      BY <1>2, <3>1 DEF Marks
    <3>3. parsed' = Append(parsed, Out(Letter, <<>>, ""))
      BY <1>2, <2>2, <3>2 DEF ShortAlone, Return, ReturnFor, Out
    <3> QED
      BY <3>1, <3>2, <3>3 DEF Takes, PlainOut
  <2> QED
    BY <2>1, <2>2
<1>4. CASE Rest = <<>>
  BY <1>1, <1>2, <1>3, <1>4, PlainEnds
<1>5. CASE Rest # <<>>
  BY <1>1, <1>2, <1>3, <1>5, DecodeGoesOn
<1> QED
  BY <1>4, <1>5

\* What a letter that takes an argument gives, case by case.
LEMMA TakerOutIs ==
  ASSUME NEW c, NEW rest \in Seq(Tokens), NEW more \in Seq(Seq(Tokens))
  PROVE  /\ conf.shorts[c] = "::" /\ rest = <<>> =>
              TakerOut(c, rest, more) = <<Out(c, <<>>, ""), 0>>
         /\ conf.shorts[c] = "::" /\ rest # <<>> =>
              TakerOut(c, rest, more) = <<Out(c, <<rest>>, ""), 0>>
         /\ conf.shorts[c] = ":" /\ rest # <<>> =>
              TakerOut(c, rest, more) = <<Out(c, <<rest>>, ""), 0>>
         /\ conf.shorts[c] = ":" /\ rest = <<>> /\ more # <<>> =>
              TakerOut(c, rest, more) = <<Out(c, <<more[1]>>, ""), 1>>
         /\ (conf.shorts[c] = ":" \/ (conf.shorts[c] = ";" /\ HasLongs))
              /\ rest = <<>> /\ more = <<>> =>
              TakerOut(c, rest, more) = <<Out(MissingArgument, <<>>, c), 0>>
<1>1. conf.shorts[c] = ":" /\ rest # <<>> =>
        TakerOut(c, rest, more) = <<Out(c, <<rest>>, ""), 0>>
  <2>1. (<<rest>> \o more)[1] = rest /\ <<rest>> \o more # <<>>
    OBVIOUS
  <2> QED
    BY <2>1 DEF TakerOut
<1> QED
  BY <1>1 DEF TakerOut

LEMMA CourseOfTaker ==
  ASSUME IInv, Regular, NEW F, Past(F),
         \/ ShortOptional \/ ShortWithRest \/ ShortWithNext
         \/ ShortLacksArgument
  PROVE  Past(F)'
<1>1. Short /\ pc' = "caller" /\ nextchar' = <<>> /\ HasShort(Letter)
  BY DEF ShortOptional, ShortWithRest, ShortWithNext, ShortLacksArgument,
         ShortIs, Return, ReturnFor
<1>2. /\ pc = "decode" /\ optarg = <<>> /\ optind \in Nat
      /\ Rest \in Seq(Tokens)
      /\ Rest = <<>> => After = optind + 1
      /\ Letter \notin {"?", ":", "end"}
  BY <1>1, AtShort DEF Marks
<1>3. PICK c, rest, more :
        c = Letter /\ rest = Rest /\ more = Behind(argv, optind)
  OBVIOUS
<1>4. rest \in Seq(Tokens) /\ more \in Seq(Seq(Tokens))
  BY <1>2, <1>3, MoreIs
<1>5. optind + 1 + 0 = optind + 1 /\ optind + 1 + 1 = optind + 2
  BY <1>2
<1>6. CASE ShortOptional
  <2>1. /\ conf.shorts[c] = "::" /\ optc' = Letter /\ optind' = optind + 1
        /\ optarg' = IF rest # <<>> THEN <<rest>> ELSE <<>>
    BY <1>3, <1>6 DEF ShortOptional, ShortIs, Return, ReturnFor
  <2>2. parsed' = Append(parsed, Out(c, optarg', ""))
    BY <1>2, <1>3, <1>6 DEF ShortOptional, Return, ReturnFor, Out
  <2>3. TakerOut(c, rest, more) = <<Out(c, optarg', ""), 0>>
    BY <1>4, <2>1, TakerOutIs
  <2>4. Takes(Letter)
    BY <1>1, <1>3, <2>1 DEF Takes
  <2>5. PICK x : x = Out(c, optarg', "")
    OBVIOUS
  <2> QED
    BY <1>1, <1>2, <1>3, <1>5, <2>1, <2>2, <2>3, <2>4, <2>5, TakerEnds
<1>7. CASE ShortWithRest
  <2>1. /\ conf.shorts[c] = ":" /\ optc' = Letter /\ optind' = optind + 1
        /\ rest # <<>>
    BY <1>3, <1>7 DEF ShortWithRest, ShortIs, Return, ReturnFor
  <2>2. parsed' = Append(parsed, Out(c, <<rest>>, ""))
    BY <1>2, <1>3, <1>7 DEF ShortWithRest, Return, ReturnFor, Out
  <2>3. TakerOut(c, rest, more) = <<Out(c, <<rest>>, ""), 0>>
    BY <1>4, <2>1, TakerOutIs
  <2>4. Takes(Letter)
    BY <1>1, <1>3, <2>1 DEF Takes
  <2> QED
    BY <1>1, <1>2, <1>3, <1>5, <2>1, <2>2, <2>3, <2>4, TakerEnds
<1>8. CASE ShortWithNext
  <2>1. /\ conf.shorts[c] = ":" /\ optc' = Letter /\ optind' = optind + 2
        /\ rest = <<>> /\ After < argc /\ optarg' = <<argv[After]>>
    BY <1>3, <1>8 DEF ShortWithNext, ShortIs, Return, ReturnFor
  <2>2. more # <<>> /\ optarg' = <<more[1]>>
    BY <1>2, <1>3, <2>1, MoreIs
  <2>3. parsed' = Append(parsed, Out(c, <<more[1]>>, ""))
    <3>1. parsed' = Append(parsed, Out(c, optarg', ""))
      BY <1>2, <1>3, <1>8 DEF ShortWithNext, Return, ReturnFor, Out
    <3> QED
      BY <2>2, <3>1
  <2>4. TakerOut(c, rest, more) = <<Out(c, <<more[1]>>, ""), 1>>
    BY <1>4, <2>1, <2>2, TakerOutIs
  <2>5. Takes(Letter)
    BY <1>1, <1>3, <2>1 DEF Takes
  <2> QED
    BY <1>1, <1>2, <1>3, <1>5, <2>1, <2>3, <2>4, <2>5, TakerEnds
<1>9. CASE ShortLacksArgument
  <2>1. /\ conf.shorts[c] = ":" \/ (conf.shorts[c] = ";" /\ HasLongs)
        /\ optc' = MissingArgument /\ optind' = optind + 1
        /\ rest = <<>> /\ After = argc
    BY <1>3, <1>9 DEF ShortLacksArgument, ShortIs, Return, ReturnFor
  <2>2. more = <<>>
    BY <1>2, <1>3, <2>1, MoreIs
  <2>3. MissingArgument \in {"?", ":"}
    BY DEF MissingArgument
  <2>4. parsed' = Append(parsed, Out(MissingArgument, <<>>, c))
    BY <1>2, <1>3, <1>9, <2>3 DEF ShortLacksArgument, Return, ReturnFor, Out
  <2>5. TakerOut(c, rest, more) = <<Out(MissingArgument, <<>>, c), 0>>
    BY <1>4, <2>1, <2>2, TakerOutIs
  <2>6. Takes(Letter) /\ optc' # "end"
    BY <1>1, <1>3, <2>1, <2>3 DEF Takes
  <2> QED
    BY <1>1, <1>2, <1>3, <1>5, <2>1, <2>4, <2>5, <2>6, TakerEnds
<1> QED
  BY <1>6, <1>7, <1>8, <1>9

\* What -W gives, case by case.
LEMMA WOutIs ==
  ASSUME IsConfig(conf), NEW text, NEW more
  PROVE  LET o == Found(text)
         IN  /\ Matches(text) = {} =>
                  WOut(text, more) = <<Out("W", <<text>>, ""), 0>>
             /\ IsUnique(text) =>
                  WOut(text, more) =
                    IF HasValue(text) THEN
                      IF o.has = 0 THEN <<Out("?", <<text>>, ""), 0>>
                      ELSE <<Out(Value(o), <<ValueOf(text)>>, ""), 0>>
                    ELSE IF o.has # 1 THEN <<Out(Value(o), <<>>, ""), 0>>
                    ELSE IF more = <<>>
                      THEN <<Out(MissingArgument, <<text>>, ""), 0>>
                    ELSE <<Out(Value(o), <<more[1]>>, ""), 1>>
<1>1. Matches(text) = {} => WOut(text, more) = <<Out("W", <<text>>, ""), 0>>
  BY DEF WOut
<1>2. PICK o, out : o = Found(text) /\ out = LongOut(text, more)
  OBVIOUS
<1>3. ASSUME IsUnique(text)
      PROVE  WOut(text, more) =
               IF HasValue(text) THEN
                 IF o.has = 0 THEN <<Out("?", <<text>>, ""), 0>>
                 ELSE <<Out(Value(o), <<ValueOf(text)>>, ""), 0>>
               ELSE IF o.has # 1 THEN <<Out(Value(o), <<>>, ""), 0>>
               ELSE IF more = <<>>
                 THEN <<Out(MissingArgument, <<text>>, ""), 0>>
               ELSE <<Out(Value(o), <<more[1]>>, ""), 1>>
  <2>1. Matches(text) # {} /\ Value(o) \notin {"?", ":"}
    BY <1>2, <1>3, FoundIsMeant, FoundIsNoMark DEF Marks
  <2>2. WOut(text, more) =
          IF out[1].c \in {"?", ":"} THEN <<Out(out[1].c, <<text>>, ""), 0>>
          ELSE out
    BY <1>2, <2>1 DEF WOut
  <2>3. out = IF HasValue(text) THEN
                IF o.has = 0 THEN <<Out("?", <<>>, o.val), 0>>
                ELSE <<Out(Value(o), <<ValueOf(text)>>, ""), 0>>
              ELSE IF o.has # 1 THEN <<Out(Value(o), <<>>, ""), 0>>
              ELSE IF more = <<>> THEN <<Out(MissingArgument, <<>>, o.val), 0>>
              ELSE <<Out(Value(o), <<more[1]>>, ""), 1>>
    BY <1>2, <1>3, LongOutIs
  <2>4. MissingArgument \in {"?", ":"}
    BY DEF MissingArgument
  <2>5. CASE HasValue(text) /\ o.has = 0
    <3>1. out[1].c = "?"
      BY <2>3, <2>5 DEF Out
    <3> QED
      BY <2>2, <2>5, <3>1
  <2>6. CASE ~HasValue(text) /\ o.has = 1 /\ more = <<>>
    <3>1. out[1].c = MissingArgument
      BY <2>3, <2>6 DEF Out
    <3> QED
      BY <2>2, <2>4, <2>6, <3>1
  <2>7. CASE \/ HasValue(text) /\ o.has # 0
             \/ ~HasValue(text) /\ (o.has # 1 \/ more # <<>>)
    <3>1. out[1].c = Value(o)
      BY <2>3, <2>7 DEF Out
    <3>2. WOut(text, more) = out
      BY <2>1, <2>2, <3>1
    <3> QED
      BY <2>3, <2>7, <3>2
  <2> QED
    BY <2>5, <2>6, <2>7
<1> QED
  BY <1>1, <1>2, <1>3

\* What is put in front of a sequence.
LEMMA ConsIs ==
  ASSUME NEW U, NEW x \in U, NEW s \in Seq(U)
  PROVE  <<x>> \o s # <<>> /\ (<<x>> \o s)[1] = x /\ Tail(<<x>> \o s) = s
<1>1. <<x>> \in Seq(U) /\ Len(<<x>>) = 1
  OBVIOUS
<1>2. PICK r : r = <<x>> \o s
  OBVIOUS
<1>3. r \in Seq(U) /\ Len(r) = 1 + Len(s) /\ r[1] = x
  BY <1>1, <1>2
<1>4. \A k \in 1 .. Len(s) : r[k + 1] = s[k]
  BY <1>1, <1>2
<1>5. r # <<>> /\ Tail(r) \in Seq(U) /\ Len(Tail(r)) = Len(s)
  BY <1>3
<1>6. \A k \in 1 .. Len(s) : Tail(r)[k] = s[k]
  BY <1>3, <1>4, <1>5
<1>7. Tail(r) = s
  BY <1>5, <1>6, SeqEqual
<1> QED
  BY <1>2, <1>3, <1>5, <1>7

\* What follows -W in its element, or else the next element, is its text.
LEMMA WTakes ==
  ASSUME NEW c, NEW rest \in Seq(Tokens), NEW more \in Seq(Seq(Tokens)),
         conf.shorts[c] = ";", HasLongs
  PROVE  /\ rest # <<>> =>
              TakerOut(c, rest, more) =
                <<WOut(rest, more)[1], WOut(rest, more)[2] + 0>>
         /\ rest = <<>> /\ more # <<>> =>
              TakerOut(c, rest, more) =
                <<WOut(more[1], Tail(more))[1], WOut(more[1], Tail(more))[2] + 1>>
<1>1. ASSUME rest # <<>>
      PROVE  TakerOut(c, rest, more) =
               <<WOut(rest, more)[1], WOut(rest, more)[2] + 0>>
  <2>1. PICK args : args = <<rest>> \o more
    OBVIOUS
  <2>2. args # <<>> /\ args[1] = rest /\ Tail(args) = more
    BY <2>1, ConsIs
  <2> QED
    BY <1>1, <2>1, <2>2 DEF TakerOut
<1>2. ASSUME rest = <<>>, more # <<>>
      PROVE  TakerOut(c, rest, more) =
               <<WOut(more[1], Tail(more))[1], WOut(more[1], Tail(more))[2] + 1>>
  BY <1>2 DEF TakerOut
<1> QED
  BY <1>1, <1>2

LEMMA TailIs ==
  ASSUME NEW U, NEW s \in Seq(U), s # <<>>
  PROVE  /\ Tail(s) \in Seq(U) /\ Len(Tail(s)) = Len(s) - 1
         /\ Len(Tail(s)) \in Nat
         /\ \A k \in 1 .. Len(Tail(s)) : Tail(s)[k] = s[k + 1]
<1>1. Len(s) \in Nat /\ Len(s) >= 1
  OBVIOUS
<1> QED
  BY <1>1

\* The text of -W, and what lies behind it.
LEMMA AtW ==
  ASSUME IInv, Regular, NEW F, Past(F), IsLongW
  PROVE  \E tail : \E taken \in Nat :
           /\ AfterW = optind + 1 + taken
           /\ AfterW = argc => tail = <<>>
           /\ AfterW < argc => tail # <<>> /\ tail[1] = argv[AfterW]
           /\ TakerOut(Letter, Rest, Behind(argv, optind)) =
                <<WOut(TextW, tail)[1], WOut(TextW, tail)[2] + taken>>
<1>s. Short /\ HasLongs /\ (Rest # <<>> \/ After < argc)
  BY DEF IsLongW, ShortIs
<1>1. pc = "decode" /\ (Rest = <<>> => After = optind + 1)
  BY <1>s, AtShort
<1>n. /\ optind \in Nat /\ Len(argv) \in Nat /\ argc = Len(argv) + 1
      /\ 1 <= optind /\ optind + 1 <= argc
  <2>1. pc = "decode"
    BY <1>1
  <2>2. /\ Len(argv) \in Nat /\ argc = Len(argv) + 1
        /\ optind \in Nat /\ 1 <= optind /\ optind <= Len(argv)
    BY <2>1, DecodePlaces
  <2> QED
    BY <2>2
<1>r. Rest \in Seq(Tokens)
  BY <1>s, AtShort
<1>2. PICK c, rest, more :
        c = Letter /\ rest = Rest /\ more = Behind(argv, optind)
  OBVIOUS
<1>3. /\ rest \in Seq(Tokens) /\ more \in Seq(Seq(Tokens))
      /\ conf.shorts[c] = ";"
  BY <1>1, <1>r, <1>2, MoreIs DEF IsLongW, ShortIs
<1>5. CASE rest # <<>>
  <2>1. AfterW = optind + 1 /\ TextW = rest
    BY <1>2, <1>5 DEF AfterW, TextW
  <2>2. AfterW = optind + 1 + 0
    <3>1. AfterW = optind + 1
      BY <2>1
    <3> QED
      BY <1>n, <3>1
  <2>3. /\ AfterW = argc => more = <<>>
        /\ AfterW < argc => more # <<>> /\ more[1] = argv[AfterW]
    BY <1>1, <1>2, <2>1, MoreIs
  <2>4. TakerOut(c, rest, more) =
          <<WOut(TextW, more)[1], WOut(TextW, more)[2] + 0>>
    BY <1>s, <1>3, <1>5, <2>1, WTakes
  <2> QED
    BY <1>2, <2>2, <2>3, <2>4
<1>6. CASE rest = <<>>
  <2>1. After = optind + 1 /\ After < argc
    BY <1>s, <1>1, <1>2, <1>6
  <2>2. AfterW = optind + 2 /\ TextW = argv[optind + 1]
    BY <1>2, <1>6, <2>1 DEF AfterW, TextW
  <2>3. AfterW = optind + 1 + 1
    <3>1. optind + 1 < argc /\ AfterW = optind + 2
      BY <2>1, <2>2
    <3> QED
      BY <1>n, <3>1
  <2>4. more # <<>> /\ more[1] = TextW
    BY <1>1, <1>2, <2>1, <2>2, MoreIs
  <2>5. PICK tail : tail = Tail(more)
    OBVIOUS
  <2>6. /\ AfterW = argc => tail = <<>>
        /\ AfterW < argc => tail # <<>> /\ tail[1] = argv[AfterW]
    <3>1. PICK v, i : v = argv /\ i = optind
      OBVIOUS
    <3>2. /\ Len(more) = Len(v) - i
          /\ \A k \in 1 .. Len(v) - i : more[k] = v[i + k]
      <4>1. v \in Seq(Seq(Tokens))
        BY <3>1, TypeParts DEF IInv, TextsOK
      <4>2. i \in 1 .. Len(v) /\ more = Behind(v, i)
        BY <1>n, <1>2, <3>1
      <4> QED
        BY <4>1, <4>2, BehindOK
    <3>3. /\ tail \in Seq(Seq(Tokens)) /\ Len(tail) = Len(more) - 1
          /\ Len(tail) \in Nat
          /\ \A k \in 1 .. Len(tail) : tail[k] = more[k + 1]
      BY <1>3, <2>4, <2>5, TailIs
    <3>4. AfterW = optind + 2 /\ Len(tail) = Len(v) - i - 1 /\ Len(v) = Len(argv)
      BY <2>2, <3>1, <3>2, <3>3
    <3>5. AfterW = argc => Len(tail) = 0
      BY <1>n, <3>1, <3>4
    <3>6. AfterW < argc => /\ Len(tail) >= 1 /\ 1 \in 1 .. Len(tail)
                           /\ 2 \in 1 .. Len(v) - i
      BY <1>n, <3>1, <3>4
    <3>7. AfterW < argc => tail[1] = argv[AfterW]
      <4>1. AfterW < argc => tail[1] = more[1 + 1] /\ more[2] = v[i + 2]
        BY <3>2, <3>3, <3>6
      <4> QED
        BY <3>1, <3>4, <4>1
    <3>8. AfterW < argc => tail # <<>>
      <4>1. Len(tail) >= 1 => tail # <<>>
        BY <3>3, EmptySeq
      <4> QED
        BY <3>6, <4>1
    <3>9. AfterW = argc => tail = <<>>
      BY <3>3, <3>5, EmptySeq
    <3> QED
      BY <3>7, <3>8, <3>9
  <2>7. TakerOut(c, rest, more) =
          <<WOut(TextW, tail)[1], WOut(TextW, tail)[2] + 1>>
    BY <1>s, <1>3, <1>6, <2>4, <2>5, WTakes
  <2> QED
    BY <1>2, <2>3, <2>6, <2>7
<1> QED
  BY <1>5, <1>6

LEMMA SumOfThree ==
  ASSUME NEW i \in Nat, NEW j \in Nat, NEW k \in Nat
  PROVE  i + 1 + j + k = i + 1 + (k + j)
OBVIOUS

\* A call that has taken -W returns what its element says.
LEMMA WEnds ==
  ASSUME IInv, Regular, NEW F, Past(F), IsLongW, pc' = "caller",
         optc' # "end", nextchar' = <<>>,
         NEW x, NEW k \in Nat, NEW w, w = <<x, k>>, NEW taken \in Nat,
         TakerOut(Letter, Rest, Behind(argv, optind)) = <<w[1], w[2] + taken>>,
         parsed' = Append(parsed, x), optind' = optind + 1 + taken + k
  PROVE  Past(F)'
<1>1. w[1] = x /\ w[2] = k
  BY Parts
<1>2. TakerOut(Letter, Rest, Behind(argv, optind)) = <<x, k + taken>>
  BY <1>1
<1>3. Short /\ Takes(Letter)
  BY DEF IsLongW, ShortIs, Takes
<1>4. optind \in Nat
  BY <1>3, AtShort
<1>5. optind' = optind + 1 + (k + taken)
  BY <1>4, SumOfThree
<1> QED
  BY <1>2, <1>3, <1>5, TakerEnds

LEMMA CourseOfW ==
  ASSUME IInv, Regular, NEW F, Past(F),
         WIsReturned \/ WTakesNoArgument \/ WLacksArgument \/ WTaken
  PROVE  Past(F)'
<1>1. /\ Short /\ HasShort(Letter) /\ conf.shorts[Letter] = ";"
      /\ pc' = "caller" /\ nextchar' = <<>>
  BY DEF WIsReturned, WTakesNoArgument, WLacksArgument, WTaken, WFound,
         IsLongW, ShortIs, Return, ReturnW, ReturnFor
<1>2. HasLongs
  BY <1>1 DEF Regular, HasShort
<1>3. IsLongW
  BY <1>2 DEF WIsReturned, WTakesNoArgument, WLacksArgument, WTaken, WFound
<1>4. /\ IsConfig(conf) /\ ~conf.long_only /\ optind \in Nat
      /\ Letter \notin Marks
  BY <1>1, AtShort DEF Regular
<1>5. Letter = "W"
  BY <1>1, <1>4 DEF IsConfig, HasShort
<1>6. PICK tail : \E taken \in Nat :
        /\ AfterW = optind + 1 + taken
        /\ AfterW = argc => tail = <<>>
        /\ AfterW < argc => tail # <<>> /\ tail[1] = argv[AfterW]
        /\ TakerOut(Letter, Rest, Behind(argv, optind)) =
             <<WOut(TextW, tail)[1], WOut(TextW, tail)[2] + taken>>
  BY <1>3, AtW
<1>n. PICK taken \in Nat :
        /\ AfterW = optind + 1 + taken
        /\ TakerOut(Letter, Rest, Behind(argv, optind)) =
             <<WOut(TextW, tail)[1], WOut(TextW, tail)[2] + taken>>
  BY <1>6
<1>7. PICK text, o, w : text = TextW /\ o = Found(TextW) /\ w = WOut(TextW, tail)
  OBVIOUS
<1>8. /\ Matches(text) = {} => w = <<Out("W", <<text>>, ""), 0>>
      /\ IsUnique(text) =>
           w = IF HasValue(text) THEN
                 IF o.has = 0 THEN <<Out("?", <<text>>, ""), 0>>
                 ELSE <<Out(Value(o), <<ValueOf(text)>>, ""), 0>>
               ELSE IF o.has # 1 THEN <<Out(Value(o), <<>>, ""), 0>>
               ELSE IF tail = <<>>
                 THEN <<Out(MissingArgument, <<text>>, ""), 0>>
               ELSE <<Out(Value(o), <<tail[1]>>, ""), 1>>
  BY <1>4, <1>7, WOutIs
<1>9. /\ IsUnique(text) <=> Matches(text) # {} /\ ~IsAmbiguous(text)
      /\ IsUnique(text) => Value(o) \notin Marks
  BY <1>4, <1>7, FoundIsMeant, FoundIsNoMark
<1>10. ASSUME NEW x, w = <<x, 0>>, optc' # "end",
              parsed' = Append(parsed, x), optind' = AfterW
       PROVE  Past(F)'
  <2>1. optind' = optind + 1 + taken + 0
    BY <1>4, <1>n, <1>10
  <2>2. TakerOut(Letter, Rest, Behind(argv, optind)) = <<w[1], w[2] + taken>>
    BY <1>n, <1>7
  <2> QED
    BY <1>1, <1>3, <1>10, <2>1, <2>2, WEnds
<1>15. ASSUME NEW x, w = <<x, 1>>, optc' # "end",
              parsed' = Append(parsed, x), optind' = AfterW + 1
       PROVE  Past(F)'
  <2>1. optind' = optind + 1 + taken + 1
    BY <1>4, <1>n, <1>15
  <2>2. TakerOut(Letter, Rest, Behind(argv, optind)) = <<w[1], w[2] + taken>>
    BY <1>n, <1>7
  <2> QED
    BY <1>1, <1>3, <1>15, <2>1, <2>2, WEnds
<1>11. CASE WIsReturned
  <2>1. /\ Matches(text) = {} /\ optind' = AfterW /\ optarg' = <<text>>
        /\ optc' = "W"
    BY <1>2, <1>5, <1>7, <1>11 DEF WIsReturned, Return, ReturnFor
  <2>2. parsed' = Append(parsed, Out("W", <<text>>, ""))
    BY <1>5, <1>11, <2>1 DEF WIsReturned, Return, ReturnFor, Out
  <2>3. w = <<Out("W", <<text>>, ""), 0>>
    BY <1>8, <2>1
  <2>4. optc' # "end" /\ optind' = AfterW
    BY <2>1
  <2> QED
    BY <1>10, <2>2, <2>3, <2>4
<1>12. CASE WTakesNoArgument
  <2>1. /\ IsUnique(text) /\ HasValue(text) /\ o.has = 0 /\ optind' = AfterW
        /\ optc' = "?"
    BY <1>7, <1>9, <1>12 DEF WTakesNoArgument, WFound, ReturnW, ReturnFor
  <2>2. parsed' = Append(parsed, Out("?", <<text>>, ""))
    BY <1>7, <1>12 DEF WTakesNoArgument, ReturnW, ReturnFor, Out
  <2>3. w = <<Out("?", <<text>>, ""), 0>>
    BY <1>8, <2>1
  <2>4. optc' # "end" /\ optind' = AfterW
    BY <2>1
  <2> QED
    BY <1>10, <2>2, <2>3, <2>4
<1>13. CASE WLacksArgument
  <2>1. /\ IsUnique(text) /\ ~HasValue(text) /\ o.has = 1 /\ optind' = AfterW
        /\ tail = <<>> /\ optc' = MissingArgument
    BY <1>6, <1>7, <1>9, <1>13 DEF WLacksArgument, WFound, ReturnW, ReturnFor
  <2>2. MissingArgument \in {"?", ":"}
    BY DEF MissingArgument
  <2>3. parsed' = Append(parsed, Out(MissingArgument, <<text>>, ""))
    BY <1>7, <1>13, <2>2 DEF WLacksArgument, ReturnW, ReturnFor, Out
  <2>4. optc' # "end" /\ optind' = AfterW
    BY <2>1, <2>2
  <2>5. w = <<Out(MissingArgument, <<text>>, ""), 0>>
    BY <1>8, <2>1
  <2> QED
    BY <1>10, <2>3, <2>4, <2>5
<1>14. CASE WTaken
  <2>1. IsUnique(text) /\ optc' = Value(o)
    BY <1>7, <1>9, <1>14 DEF WTaken, WFound, ReturnW, ReturnFor
  <2>2. optc' \notin {"?", ":", "end"}
    BY <1>9, <2>1 DEF Marks
  <2>3. parsed' = Append(parsed, Out(Value(o), optarg', ""))
    BY <1>7, <1>14, <2>1, <2>2 DEF WTaken, ReturnW, ReturnFor, Out
  <2>4. \/ /\ HasValue(text) /\ o.has # 0 /\ optarg' = <<ValueOf(text)>>
           /\ optind' = AfterW
        \/ /\ ~HasValue(text) /\ o.has = 1 /\ AfterW < argc
           /\ optarg' = <<argv[AfterW]>> /\ optind' = AfterW + 1
        \/ /\ ~HasValue(text) /\ o.has # 1 /\ optarg' = <<>>
           /\ optind' = AfterW
    BY <1>7, <1>14 DEF WTaken
  <2>5. optc' # "end"
    BY <2>2
  <2>6. CASE /\ HasValue(text) /\ o.has # 0 /\ optarg' = <<ValueOf(text)>>
             /\ optind' = AfterW
    <3>1. w = <<Out(Value(o), optarg', ""), 0>>
      BY <1>8, <2>1, <2>6
    <3> QED
      BY <1>10, <2>3, <2>5, <2>6, <3>1
  <2>7. CASE /\ ~HasValue(text) /\ o.has = 1 /\ AfterW < argc
             /\ optarg' = <<argv[AfterW]>> /\ optind' = AfterW + 1
    <3>1. optarg' = <<tail[1]>> /\ tail # <<>>
      BY <1>6, <2>7
    <3>2. w = <<Out(Value(o), optarg', ""), 1>>
      BY <1>8, <2>1, <2>7, <3>1
    <3> QED
      BY <1>15, <2>3, <2>5, <2>7, <3>2
  <2>8. CASE /\ ~HasValue(text) /\ o.has # 1 /\ optarg' = <<>>
             /\ optind' = AfterW
    <3>1. w = <<Out(Value(o), optarg', ""), 0>>
      BY <1>8, <2>1, <2>8
    <3> QED
      BY <1>10, <2>3, <2>5, <2>8, <3>1
  <2> QED
    BY <2>4, <2>6, <2>7, <2>8
<1> QED
  BY <1>11, <1>12, <1>13, <1>14

(***************************************************************************)
(* The theorems about the course of a scan.                                *)
(***************************************************************************)
LEMMA StepKeepsCourse ==
  ASSUME IInv, Regular, ~lost', NEW F, Past(F), Step
  PROVE  Past(F)'
<1>1. CASE Advance \/ Settle
  BY <1>1, CourseOfAdvance, CourseOfSettle
<1>2. CASE SwapBottom \/ SwapTop
  BY <1>2, CourseOfSwap
<1>3. CASE ExchangeEnds \/ Skip
  BY <1>3, CourseOfExchangeEnds, CourseOfSkip
<1>4. CASE DoubleDashEnds \/ Finish \/ ScanEnds
  BY <1>4, CourseOfDoubleDash, CourseOfFinish, CourseOfScanEnds
<1>5. CASE WordStops \/ WordIsReturned
  BY <1>5, CourseOfWordStops, CourseOfWordIsReturned
<1>6. CASE OptionElement
  BY <1>6, CourseOfOption
<1>7. CASE \/ LongAmbiguous \/ LongTakesNoArgument \/ LongLacksArgument
           \/ LongAlone \/ LongWithValue \/ LongWithNext \/ LongUnknown
  BY <1>7, CourseOfLong
<1>8. CASE ShortUnknown \/ ShortAlone
  BY <1>8, CourseOfPlain
<1>9. CASE \/ ShortOptional \/ ShortWithRest \/ ShortWithNext
           \/ ShortLacksArgument
  BY <1>9, CourseOfTaker
<1>10. CASE WIsReturned \/ WTakesNoArgument \/ WLacksArgument \/ WTaken
  BY <1>10, CourseOfW
<1>11. ~WAmbiguous
  BY DEF WAmbiguous
<1> QED
  BY <1>1, <1>2, <1>3, <1>4, <1>5, <1>6, <1>7, <1>8, <1>9, <1>10, <1>11
     DEF Step

\* What is lost stays lost.
LEMMA LostStays ==
  ASSUME IInv, [Next]_vars, ~lost'
  PROVE  ~lost
<1>1. CASE Rescan \/ Call \/ UNCHANGED vars
  BY <1>1 DEF Rescan, Call, vars
<1>2. CASE \/ Advance \/ Settle \/ SwapBottom \/ SwapTop \/ ExchangeEnds
           \/ Skip \/ DoubleDashEnds \/ Finish \/ ScanEnds \/ WordStops
           \/ WordIsReturned \/ OptionElement
  BY <1>2 DEF Advance, Settle, SwapBottom, SwapTop, ExchangeEnds, inExchange,
              Skip, DoubleDashEnds, Finish, ScanEnds, WordStops,
              WordIsReturned, OptionElement, Return
<1>3. CASE \/ LongAmbiguous \/ LongTakesNoArgument \/ LongLacksArgument
           \/ LongAlone \/ LongWithValue \/ LongWithNext \/ LongUnknown
           \/ ShortUnknown \/ ShortAlone \/ ShortOptional \/ ShortWithRest
           \/ ShortWithNext \/ ShortLacksArgument
  BY <1>3 DEF LongAmbiguous, LongTakesNoArgument, LongLacksArgument, LongAlone,
              LongWithValue, LongWithNext, LongUnknown, ShortUnknown,
              ShortAlone, ShortOptional, ShortWithRest, ShortWithNext,
              ShortLacksArgument, Return
<1>4. CASE \/ WIsReturned \/ WAmbiguous \/ WTakesNoArgument \/ WLacksArgument
           \/ WTaken
  BY <1>4 DEF WIsReturned, WAmbiguous, WTakesNoArgument, WLacksArgument,
              WTaken, WFound, Return
<1> QED
  BY <1>1, <1>2, <1>3, <1>4 DEF Next, Step

LEMMA TableStays ==
  ASSUME [Next]_vars
  PROVE  conf' = conf
<1>1. CASE Rescan \/ Call \/ UNCHANGED vars
  BY <1>1 DEF Rescan, Call, vars, callerVars
<1>2. CASE \/ Advance \/ Settle \/ SwapBottom \/ SwapTop \/ ExchangeEnds
           \/ Skip \/ DoubleDashEnds \/ Finish \/ ScanEnds \/ WordStops
           \/ WordIsReturned \/ OptionElement
  BY <1>2 DEF Advance, Settle, SwapBottom, SwapTop, ExchangeEnds, inExchange,
              Skip, DoubleDashEnds, Finish, ScanEnds, WordStops,
              WordIsReturned, OptionElement, Scanning, callerVars
<1>3. CASE \/ LongAmbiguous \/ LongTakesNoArgument \/ LongLacksArgument
           \/ LongAlone \/ LongWithValue \/ LongWithNext \/ LongUnknown
           \/ ShortUnknown \/ ShortAlone \/ ShortOptional \/ ShortWithRest
           \/ ShortWithNext \/ ShortLacksArgument
           \/ WIsReturned \/ WAmbiguous \/ WTakesNoArgument \/ WLacksArgument
           \/ WTaken
  <2>1. Decoding
    BY <1>3 DEF LongAmbiguous, LongTakesNoArgument, LongLacksArgument,
         LongAlone, LongWithValue, LongWithNext, LongUnknown, LongFound,
         ShortUnknown, ShortAlone, ShortOptional, ShortWithRest, ShortWithNext,
         ShortLacksArgument, ShortIs, Short, WIsReturned, WAmbiguous,
         WTakesNoArgument, WLacksArgument, WTaken, WFound, IsLongW
  <2> QED
    BY <2>1 DEF Decoding, Scanning, callerVars
<1> QED
  BY <1>1, <1>2, <1>3 DEF Next, Step

LEMMA StutterKeepsCourse ==
  ASSUME NEW F, Past(F), UNCHANGED vars
  PROVE  Past(F)'
<1>1. UNCHANGED <<argv, optind, first_nonopt, last_nonopt, nextchar,
                  initialized, optarg, optopt, optc, pc, bottom, middle, top,
                  then, before, conf, scans, original, parsed, lost>>
  BY DEF vars, nonopts, exchangeVars, callerVars
<1>2. argc' = argc /\ Ordering' = Ordering
  BY <1>1, SameTable DEF argc
<1>3. PICK v, b : v = argv /\ b = before
  OBVIOUS
<1>4. \A u : Between(F, u)' = Between(F, u)
  BY <1>1, <1>2 DEF Between, Ahead, InAll, Skipped, NoGap
<1>5. \A u : Dashed(F, u)' = Dashed(F, u)
  BY <1>1 DEF Dashed, InAll, Skipped
<1>6. Within(F)' = Within(F)
  <2>1. PICK r : r = Remnant(argv[optind], nextchar, Behind(argv, optind))
    OBVIOUS
  <2>2. r = Remnant(argv[optind], nextchar, Behind(argv, optind))'
    <3>1. PICK arg, text, more : /\ arg = argv[optind] /\ text = nextchar
                                 /\ more = Behind(argv, optind)
      OBVIOUS
    <3>2. Remnant(arg, text, more)' = r
      BY <1>1, <2>1, <3>1, SameTable
    <3>3. /\ arg = (argv[optind])' /\ text = nextchar'
          /\ more = Behind(argv, optind)'
      BY <1>1, <3>1 DEF Behind
    <3> QED
      BY <3>2, <3>3
  <2>3. Ahead(argv)' = Ahead(argv) /\ NoGap' = NoGap
    BY <1>1, <1>2 DEF Ahead, NoGap
  <2>4. \A e : Remains(F, e)' = Remains(F, e)
    BY <1>1 DEF Remains, InAll, Skipped
  <2> QED
    BY <2>1, <2>2, <2>3, <2>4 DEF Within
<1>7. Follows(F)'
  BY <1>1, <1>2, <1>4, <1>5, <1>6
     DEF Past, Follows, AtCaller, InCall, Ended, InAll, Fresh, IsWord
<1> QED
  BY <1>1, <1>7, PastKeeps DEF Past

\* A scan keeps its course: what its calls have returned, what they have
\* skipped, and what is documented of the elements still ahead make up what is
\* documented of the vector it began with.
THEOREM KeepsCourse == Spec => []Course
<1>1. Init => Course
  <2> SUFFICES ASSUME Init
               PROVE  Course
    OBVIOUS
  <2>1. IInv
    BY InitIInv
  <2>2. /\ pc = "caller" /\ optc # "end" /\ nextchar = <<>> /\ optind = 1
        /\ parsed = <<>> /\ argv = original
    BY DEF Init
  <2> QED
    BY <2>1, <2>2, CourseBegins DEF Course
<1>2. Course /\ IInv' /\ [Next]_vars => Course'
  <2> SUFFICES ASSUME Course, IInv', [Next]_vars, Regular', ~lost'
               PROVE  (\E F : Past(F))'
    BY DEF Course
  <2>1. IInv /\ Regular /\ ~lost
    BY LostStays, TableStays, SameTable DEF Course
  <2>2. PICK F : Past(F)
    BY <2>1 DEF Course
  <2>3. CASE Rescan
    BY <2>1, <2>3, CourseOfRescan
  <2>4. CASE Call
    BY <2>1, <2>2, <2>4, CourseOfCall
  <2>5. CASE Step
    BY <2>1, <2>2, <2>5, StepKeepsCourse
  <2>6. CASE UNCHANGED vars
    BY <2>2, <2>6, StutterKeepsCourse
  <2> QED
    BY <2>3, <2>4, <2>5, <2>6 DEF Next
<1> QED
  BY <1>1, <1>2, Invariance, PTL DEF Spec

\* Whatever the vector and the table, unless the table asks for one of the two
\* features that are not as documented, the calls of a scan return the options
\* and the arguments that the comments in cs-getopt.c promise, in their order,
\* and leave the words behind them; and so does every scan after that.
THEOREM ScansRight == Spec => [](Regular => ParsedRight)
<1>1. Course => (Regular => ParsedRight)
  <2> SUFFICES ASSUME Course, Regular, optc = "end", ~lost
               PROVE  <<parsed, SubSeq(argv, optind, Len(argv))>>
                        = Documented(original)
    BY DEF ParsedRight
  <2>1. PICK F : Past(F)
    BY DEF Course
  <2>2. /\ original \in Seq(Seq(Tokens)) /\ IsOut(F, original)
        /\ IsConfig(conf)
    BY <2>1, TypeParts DEF Past, Course, IInv, TypeOK
  <2>3. Ended(F)
    BY <2>1 DEF Past, Follows, InCall, AtCaller
  <2>4. F[1] = Documented(original)
    BY <2>2, OutsOK, OutUnique
  <2> QED
    BY <2>3, <2>4 DEF Ended, InAll
<1> QED
  BY <1>1, KeepsCourse, PTL

(***************************************************************************)
(* The table of ush.                                                       *)
(***************************************************************************)
\* The options that take an argument.
TakeOne == Recorded \cup {"env", "umask", "replace", "encoding"}

LEMMA LongsRight ==
  /\ Len(long_options) = 22 /\ long_options # <<>>
  /\ \A i \in 1 .. 22 :
       /\ ~long_options[i].flag
       /\ long_options[i].has # 1 => long_options[i].val \notin TakeOne
       /\ long_options[i].val \notin {"?", ":", "word"}
BY DEF long_options, Long, TakeOne, Recorded

LEMMA TableRight ==
  ASSUME conf = ush_table
  PROVE  /\ Regular /\ HasLongs /\ Ordering = "require order"
         /\ ~conf.colon
         /\ \A c : HasShort(c) = (c \in {"h", "V", "d", "v", "c"})
         /\ \A c : HasShort(c) => conf.shorts[c] = ""
<1>1. /\ ~conf.long_only /\ ~conf.colon /\ conf.lead = "+"
      /\ conf.longs = long_options
      /\ conf.shorts = [c \in {"h", "V", "d", "v", "c"} |-> ""]
  BY DEF ush_table
<1>2. HasLongs
  BY <1>1, LongsRight DEF HasLongs
<1> QED
  BY <1>1, <1>2 DEF Regular, Ordering, HasShort

\* A step of a call returns one option, or the end, or goes on.
LEMMA StepReturns ==
  ASSUME IInv, Step
  PROVE  \/ pc' # "caller" /\ parsed' = parsed
         \/ pc' = "caller" /\ optc' = "end" /\ parsed' = parsed
         \/ /\ pc' = "caller" /\ optc' # "end"
            /\ \E opt : parsed' = Append(parsed, Out(optc', optarg', opt))
<1> DEFINE Goal == \/ pc' # "caller" /\ parsed' = parsed
                   \/ pc' = "caller" /\ optc' = "end" /\ parsed' = parsed
                   \/ /\ pc' = "caller" /\ optc' # "end"
                      /\ \E opt :
                           parsed' = Append(parsed, Out(optc', optarg', opt))
<1> SUFFICES Goal
  OBVIOUS
<1>1. ASSUME NEW c, NEW opt, ReturnFor(c, opt) PROVE Goal
  BY <1>1 DEF ReturnFor, Out
<1>2. ASSUME NEW c, Return(c) PROVE Goal
  BY <1>1, <1>2 DEF Return
<1>3. ASSUME NEW c, ReturnW(c) PROVE Goal
  BY <1>1, <1>3 DEF ReturnW
<1> HIDE DEF Goal
<1>4. CASE \/ Advance \/ Settle \/ SwapBottom \/ SwapTop \/ Skip
           \/ DoubleDashEnds \/ Finish \/ OptionElement
  BY <1>4 DEF Goal, Advance, Settle, ExchangeThen, SwapBottom, SwapTop,
              Exchanging, inExchange, Skip, DoubleDashEnds, Finish,
              OptionElement
<1>5. CASE ScanEnds \/ WordStops \/ WordIsReturned
  BY <1>2, <1>5 DEF ScanEnds, WordStops, WordIsReturned
<1>6. CASE \/ LongAmbiguous \/ LongTakesNoArgument \/ LongLacksArgument
           \/ LongAlone \/ LongWithValue \/ LongWithNext \/ LongUnknown
  BY <1>2, <1>6 DEF LongAmbiguous, LongTakesNoArgument, LongLacksArgument,
         LongAlone, LongWithValue, LongWithNext, LongUnknown
<1>7. CASE \/ ShortUnknown \/ ShortAlone \/ ShortOptional \/ ShortWithRest
           \/ ShortWithNext \/ ShortLacksArgument
  BY <1>2, <1>7 DEF ShortUnknown, ShortAlone, ShortOptional, ShortWithRest,
         ShortWithNext, ShortLacksArgument
<1>8. CASE WIsReturned \/ WAmbiguous \/ WTakesNoArgument \/ WLacksArgument
           \/ WTaken
  BY <1>2, <1>3, <1>8 DEF WIsReturned, WAmbiguous, WTakesNoArgument,
         WLacksArgument, WTaken
<1>9. CASE ExchangeEnds
  BY <1>9 DEF Goal, ExchangeEnds, IInv, TypeOK
<1> QED
  BY <1>4, <1>5, <1>6, <1>7, <1>8, <1>9 DEF Step

(***************************************************************************)
(* The steps of ush_getopt() are steps of the parser.                      *)
(***************************************************************************)
LEMMA TurnIsNext ==
  ASSUME Turns
  PROVE  Call \/ Step \/ UNCHANGED vars
<1>1. CASE Ask
  BY <1>1 DEF Ask
<1>2. CASE Parse
  BY <1>2 DEF Parse
<1>3. CASE TooManyErrors \/ Exits \/ LoopEnds
  BY <1>3 DEF TooManyErrors, Exits, LoopEnds
<1>4. CASE \/ OptDebug \/ OptVerbose \/ OptCommand \/ OptAppendArgv
           \/ OptShowArgv \/ OptReplace \/ OptEncoding
  BY <1>4 DEF OptDebug, OptVerbose, OptCommand, OptAppendArgv, OptShowArgv,
              OptReplace, OptEncoding, Sets, Handled
<1>5. CASE \/ OptFork \/ OptRecorded \/ OptBadUmask \/ OptUmask
           \/ OptClearenv \/ OptEnv \/ OptWrong
  BY <1>5 DEF OptFork, OptRecorded, OptBadUmask, OptUmask, OptClearenv,
              OptEnv, OptWrong, Handled
<1> QED
  BY <1>1, <1>2, <1>3, <1>4, <1>5 DEF Turns

LEMMA NoLongW ==
  ASSUME conf = ush_table
  PROVE  ~ShortIs(";") /\ ~ShortIs(":") /\ ~ShortIs("::")
<1>1. \A c : HasShort(c) => conf.shorts[c] = ""
  BY TableRight
<1> QED
  BY <1>1 DEF ShortIs

LEMMA NothingLost ==
  ASSUME conf = ush_table, Next, ~lost
  PROVE  ~lost'
<1>1. ~WAmbiguous /\ ~WTakesNoArgument /\ ~WLacksArgument /\ ~WTaken
  BY NoLongW DEF WAmbiguous, WTakesNoArgument, WLacksArgument, WTaken, WFound,
                 IsLongW
<1>2. CASE Rescan \/ Call
  BY <1>2 DEF Rescan, Call
<1>3. CASE \/ Advance \/ Settle \/ SwapBottom \/ SwapTop \/ ExchangeEnds
           \/ Skip \/ DoubleDashEnds \/ Finish \/ OptionElement
  BY <1>3 DEF Advance, Settle, SwapBottom, SwapTop, inExchange, ExchangeEnds,
              Skip, DoubleDashEnds, Finish, OptionElement
<1>4. CASE ScanEnds \/ WordStops \/ WordIsReturned
  BY <1>4 DEF ScanEnds, WordStops, WordIsReturned, Return
<1>5. CASE \/ LongAmbiguous \/ LongTakesNoArgument \/ LongLacksArgument
           \/ LongAlone \/ LongWithValue \/ LongWithNext \/ LongUnknown
  BY <1>5 DEF LongAmbiguous, LongTakesNoArgument, LongLacksArgument,
         LongAlone, LongWithValue, LongWithNext, LongUnknown, Return
<1>6. CASE \/ ShortUnknown \/ ShortAlone \/ ShortOptional \/ ShortWithRest
           \/ ShortWithNext \/ ShortLacksArgument \/ WIsReturned
  BY <1>6 DEF ShortUnknown, ShortAlone, ShortOptional, ShortWithRest,
         ShortWithNext, ShortLacksArgument, WIsReturned, Return
<1> QED
  BY <1>1, <1>2, <1>3, <1>4, <1>5, <1>6 DEF Next, Step

\* A call leaves what belongs to its caller alone.
LEMMA StepKeepsCaller ==
  ASSUME Step
  PROVE  UNCHANGED callerVars
<1>1. CASE \/ Advance \/ Settle \/ SwapBottom \/ SwapTop \/ ExchangeEnds
           \/ Skip \/ DoubleDashEnds \/ Finish \/ ScanEnds \/ WordStops
           \/ WordIsReturned \/ OptionElement
  BY <1>1 DEF Advance, Settle, SwapBottom, SwapTop, ExchangeEnds, inExchange,
              Skip, DoubleDashEnds, Finish, ScanEnds, WordStops,
              WordIsReturned, OptionElement, Scanning, callerVars
<1>2. CASE \/ LongAmbiguous \/ LongTakesNoArgument \/ LongLacksArgument
           \/ LongAlone \/ LongWithValue \/ LongWithNext \/ LongUnknown
           \/ ShortUnknown \/ ShortAlone \/ ShortOptional \/ ShortWithRest
           \/ ShortWithNext \/ ShortLacksArgument
           \/ WIsReturned \/ WAmbiguous \/ WTakesNoArgument \/ WLacksArgument
           \/ WTaken
  <2>1. Decoding
    BY <1>2 DEF LongAmbiguous, LongTakesNoArgument, LongLacksArgument,
         LongAlone, LongWithValue, LongWithNext, LongUnknown, LongFound,
         ShortUnknown, ShortAlone, ShortOptional, ShortWithRest, ShortWithNext,
         ShortLacksArgument, ShortIs, Short, WIsReturned, WAmbiguous,
         WTakesNoArgument, WLacksArgument, WTaken, WFound, IsLongW
  <2> QED
    BY <2>1 DEF Decoding, Scanning
<1> QED
  BY <1>1, <1>2 DEF Step

(***************************************************************************)
(* The course of the parser.                                               *)
(***************************************************************************)
LEMMA NextKeepsIInv ==
  ASSUME IInv, Call \/ Step \/ UNCHANGED vars
  PROVE  IInv'
<1>1. CASE Call
  BY <1>1, CallKeeps
<1>2. CASE Step
  BY <1>2, StepKeepsIInv
<1>3. CASE UNCHANGED vars
  <2>1. UNCHANGED <<conf, argv, optind, first_nonopt, last_nonopt, nextchar,
                    initialized, optarg, optopt, optc, pc, bottom, middle,
                    top, then, before, scans, lost>>
    BY <1>3 DEF vars, nonopts, exchangeVars, callerVars
  <2>2. TypeOK'
    BY <2>1 DEF IInv, TypeOK
  <2>3. argc' = argc
    BY <2>1 DEF argc
  <2>4. Begun' /\ Inside' /\ Pending' /\ HalfWay'
    BY <2>1, <2>3 DEF IInv, Begun, Inside, Pending, HalfWay
  <2> QED
    BY <2>2, <2>4 DEF IInv
<1> QED
  BY <1>1, <1>2, <1>3

\* The parser runs with the table of ush, and asked is what is documented of
\* the vector.
Parses ==
  /\ IInv
  /\ conf = ush_table /\ ~lost
  /\ \E F : Past(F)
  /\ \A F : IsOut(F, original) => asked = F[1]

LEMMA InitParses ==
  ASSUME UshInit
  PROVE  Parses
<1>1. IInv /\ Init
  BY InitIInv DEF UshInit
<1>2. /\ conf = ush_table /\ asked = Documented(argv) /\ argv = original
      /\ ~lost
  BY DEF UshInit, Init
<1>3. /\ pc = "caller" /\ optc # "end" /\ nextchar = <<>> /\ optind = 1
      /\ parsed = <<>>
  BY <1>1 DEF Init
<1>4. \E F : Past(F)
  BY <1>1, <1>2, <1>3, CourseBegins
<1>5. ASSUME NEW F, IsOut(F, original)
      PROVE  asked = F[1]
  <2>1. IsConfig(conf) /\ original \in Seq(Seq(Tokens))
    BY <1>1, <1>2 DEF IInv, TypeOK
  <2> QED
    BY <1>2, <1>5, <2>1, OutsOK, OutUnique
<1> QED
  BY <1>1, <1>2, <1>4, <1>5 DEF Parses

LEMMA TurnKeepsParses ==
  ASSUME Parses, Turns \/ UNCHANGED allVars
  PROVE  Parses'
<1>1. Call \/ Step \/ UNCHANGED vars
  BY TurnIsNext DEF allVars
<1>2. [Next]_vars
  BY <1>1 DEF Next
<1>3. IInv'
  BY <1>1, NextKeepsIInv DEF Parses
<1>4. conf' = conf
  BY <1>2, TableStays
<1>5. ~lost'
  <2>1. CASE Next
    BY <2>1, NothingLost DEF Parses
  <2>2. CASE UNCHANGED vars
    BY <2>2 DEF vars, Parses
  <2> QED
    BY <1>2, <2>1, <2>2
<1>6. (\E F : Past(F))'
  <2>1. PICK F : Past(F)
    BY DEF Parses
  <2>2. Regular
    BY TableRight DEF Parses
  <2>3. CASE Call
    BY <2>1, <2>3, CourseOfCall DEF Parses
  <2>4. CASE Step
    BY <1>5, <2>1, <2>2, <2>4, StepKeepsCourse DEF Parses
  <2>5. CASE UNCHANGED vars
    BY <2>1, <2>5, StutterKeepsCourse
  <2> QED
    BY <1>1, <2>3, <2>4, <2>5
<1>7. asked' = asked
  BY DEF Turns, Ask, Parse, ushVars, allVars, TooManyErrors, Exits, LoopEnds,
         OptDebug, OptVerbose, OptCommand, OptAppendArgv, OptShowArgv,
         OptReplace, OptEncoding, Sets, Handled, OptFork, OptRecorded,
         OptBadUmask, OptUmask, OptClearenv, OptEnv, OptWrong
<1>8. original' = original
  <2>1. CASE Call
    BY <2>1 DEF Call, callerVars
  <2>2. CASE UNCHANGED vars
    BY <2>2 DEF vars, callerVars
  <2>3. CASE Step
    BY <2>3, StepKeepsCaller DEF callerVars
  <2> QED
    BY <1>1, <2>1, <2>2, <2>3
<1>9. (\A F : IsOut(F, original) => asked = F[1])'
  <2>1. PICK v : v = original
    OBVIOUS
  <2>2. \A F : IsOut(F, v)' = IsOut(F, v)
    BY <1>4, SameTable
  <2>3. (\A F : IsOut(F, v) => asked = F[1])
    BY <2>1 DEF Parses
  <2>4. (\A F : IsOut(F, v) => asked = F[1])'
    BY <1>7, <2>2, <2>3
  <2> QED
    BY <1>8, <2>1, <2>4
<1> QED
  BY <1>3, <1>4, <1>5, <1>6, <1>9 DEF Parses

LEMMA FirstOf ==
  ASSUME NEW a, NEW b, NEW p, p = <<a, b>>
  PROVE  p[1] = a
OBVIOUS

\* What the calls have returned so far is the beginning of what the vector
\* asks for.
LEMMA SaidSoFar ==
  ASSUME IInv, ~lost, NEW F, Past(F)
  PROVE  \E rest \in Seq(OutSet) : F[1][1] = parsed \o rest
<1>1. /\ original \in Seq(Seq(Tokens)) /\ IsOut(F, original)
      /\ parsed \in Seq(OutSet) /\ Follows(F)
      /\ Len(original) \in Nat
  BY DEF Past
<1>2. ASSUME NEW i \in 1 .. Len(original) + 1
      PROVE  F[i][1] \in Seq(OutSet)
  BY <1>1, <1>2, OutTyped
<1>3. /\ optind \in Nat /\ argc = Len(argv) + 1 /\ Len(argv) \in Nat
      /\ IsConfig(conf) /\ nextchar \in Seq(Tokens) /\ argv \in Seq(Seq(Tokens))
  <2>1. TextsOK /\ PlacesOK
    BY TypeParts DEF IInv
  <2>2. IsConfig(conf) /\ nextchar \in Seq(Tokens) /\ argv \in Seq(Seq(Tokens))
    BY <2>1 DEF TextsOK
  <2>3. optind \in Nat /\ argc = Len(argv) + 1
    BY <2>1 DEF PlacesOK, argc
  <2> QED
    BY <2>2, <2>3, LenProperties
<1>4. ASSUME NEW v, Between(F, v), optind \in 1 .. Len(original) + 1
      PROVE  \E rest \in Seq(OutSet) : F[1][1] = parsed \o rest
  <2>1. F[1] = <<parsed \o F[optind][1], Skipped(v) \o F[optind][2]>>
    BY <1>4 DEF Between, InAll
  <2>2. F[1][1] = parsed \o F[optind][1]
    BY <2>1
  <2>3. F[optind][1] \in Seq(OutSet)
    BY <1>2, <1>4
  <2> QED
    BY <2>2, <2>3
<1>5. ASSUME NEW left, InAll(F, parsed, left)
      PROVE  \E rest \in Seq(OutSet) : F[1][1] = parsed \o rest
  <2>1. <<>> \in Seq(OutSet) /\ parsed = parsed \o <<>>
    BY <1>1
  <2>2. F[1] = <<parsed, left>>
    BY <1>5 DEF InAll
  <2>3. F[1][1] = parsed
    BY <2>2
  <2> QED
    BY <2>1, <2>3
<1>6. CASE Within(F) /\ nextchar # <<>>
  <2> DEFINE more == Behind(argv, optind)
             e == Remnant(argv[optind], nextchar, more)
             i == optind + 1 + e[2]
  <2>1. optind \in 1 .. Len(argv) /\ Len(argv) = Len(original)
    BY <1>3, <1>6 DEF Within, Ahead, IInv, Pending
  <2>2. more \in Seq(Seq(Tokens)) /\ Len(more) = Len(argv) - optind
    BY <1>3, <2>1, BehindOK
  <2>3. e[1] \in Seq(OutSet) /\ e[2] \in 0 .. Len(more)
    BY <1>3, <2>2, RemnantOK
  <2>4. i \in 1 .. Len(original) + 1
    <3> HIDE DEF more, e
    <3>1. PICK k : k = e[2]
      OBVIOUS
    <3>2. k \in 0 .. Len(original) - optind /\ optind \in 1 .. Len(original)
      BY <2>1, <2>2, <2>3, <3>1
    <3>3. Len(original) \in Nat
      BY <1>1
    <3>4. optind + 1 + k \in 1 .. Len(original) + 1
      BY <3>2, <3>3
    <3> QED
      BY <3>1, <3>4
  <2>5. F[i][1] \in Seq(OutSet)
    BY <1>2, <2>4
  <2>6. e[1] \o F[i][1] \in Seq(OutSet)
    BY <2>3, <2>5, ConcatOK
  <2>7. F[1][1] = parsed \o (e[1] \o F[i][1])
    <3> DEFINE left == Skipped(argv) \o F[i][2]
    <3>1. F[1] = <<parsed \o (e[1] \o F[i][1]), left>>
      BY <1>6 DEF Within, Remains, InAll
    <3> HIDE DEF left, e, i
    <3> QED
      BY <3>1, FirstOf
  <2> QED
    BY <2>6, <2>7
<1>7. CASE Fresh
  <2>1. 1 \in 1 .. Len(original) + 1
    BY <1>1
  <2>2. F[1][1] \in Seq(OutSet)
    BY <1>2, <2>1
  <2>3. F[1][1] = parsed \o F[1][1]
    BY <1>7, <2>2 DEF Fresh
  <2> QED
    BY <2>2, <2>3
<1>8. CASE pc = "caller"
  <2>1. AtCaller(F)
    BY <1>1, <1>8 DEF Follows
  <2>2. CASE optc = "end"
    BY <1>5, <2>1, <2>2 DEF AtCaller, Ended
  <2>3. CASE optc # "end" /\ nextchar # <<>>
    BY <1>6, <2>1, <2>3 DEF AtCaller
  <2>4. CASE optc # "end" /\ nextchar = <<>> /\ ~Fresh
    <3>1. optind >= 1 /\ Between(F, argv)
      BY <2>1, <2>4 DEF AtCaller
    <3>2. optind \in 1 .. Len(original) + 1
      <4>1. Len(argv) = Len(original) /\ optind <= argc
      BY <1>8, <3>1 DEF Between, Ahead, IInv, Inside
    <4> QED
      BY <1>3, <3>1, <4>1
    <3> QED
      BY <1>4, <3>1, <3>2
  <2> QED
    BY <1>7, <2>2, <2>3, <2>4
<1>9. CASE pc # "caller"
  <2>1. InCall(F)
    BY <1>1, <1>9 DEF Follows
  <2>2. optind >= 1 /\ optind <= argc
    BY <1>9 DEF IInv, Begun, Inside
  <2>3. ASSUME NEW v, Between(F, v), Len(v) = Len(argv)
        PROVE  \E rest \in Seq(OutSet) : F[1][1] = parsed \o rest
    <3>1. optind \in 1 .. Len(original) + 1
      BY <1>3, <2>2, <2>3 DEF Between, Ahead
    <3> QED
      BY <1>4, <2>3, <3>1
  <2>4. ASSUME NEW v, Dashed(F, v)
        PROVE  \E rest \in Seq(OutSet) : F[1][1] = parsed \o rest
    BY <1>5, <2>4 DEF Dashed
  <2>5. CASE pc = "decode"
    <3>1. nextchar # <<>> /\ Within(F)
      BY <2>1, <2>5 DEF InCall, IInv, Pending
    <3> QED
      BY <1>6, <3>1
  <2>6. CASE pc \in {"advance", "settle", "skip", "element"}
    BY <1>7, <2>1, <2>3, <2>6 DEF InCall
  <2>7. CASE pc = "finish"
    BY <2>1, <2>4, <2>7 DEF InCall
  <2>8. CASE pc = "exchange"
    <3>1. Len(before) = Len(argv)
      <4>1. /\ before \in Seq(Seq(Tokens))
            /\ Rotated(argv, bottom, middle, top) =
                 Rotated(before, first_nonopt, last_nonopt, optind)
        BY <2>8 DEF IInv, HalfWay
      <4>2. DOMAIN argv = DOMAIN before
        BY <4>1 DEF Rotated
      <4> QED
        BY <1>3, <4>1, <4>2
    <3> QED
      BY <2>1, <2>3, <2>4, <2>8, <3>1 DEF InCall
  <2> QED
    BY <1>9, <2>5, <2>6, <2>7, <2>8 DEF IInv, TypeOK
<1> QED
  BY <1>8, <1>9

LEMMA PrefixOf ==
  ASSUME NEW T, NEW a \in Seq(T), NEW b \in Seq(T)
  PROVE  IsPrefix(a, a \o b)
BY DEF IsPrefix

\* As asked is what is documented.
LEMMA AskedBegins ==
  ASSUME Parses
  PROVE  /\ IsPrefix(parsed, Asked) /\ parsed \in Seq(OutSet)
         /\ pc = "caller" /\ optc = "end" =>
              asked = <<parsed, SubSeq(argv, optind, Len(argv))>>
<1>1. PICK F : Past(F)
  BY DEF Parses
<1>2. IInv /\ ~lost /\ asked = F[1] /\ parsed \in Seq(OutSet)
  BY <1>1 DEF Parses, Past
<1>3. PICK rest \in Seq(OutSet) : F[1][1] = parsed \o rest
  BY <1>1, <1>2, SaidSoFar
<1>4. IsPrefix(parsed, Asked)
  BY <1>2, <1>3, PrefixOf DEF Asked
<1>5. ASSUME pc = "caller", optc = "end"
      PROVE  asked = <<parsed, SubSeq(argv, optind, Len(argv))>>
  BY <1>1, <1>2, <1>5 DEF Past, Follows, AtCaller, Ended, InAll
<1> QED
  BY <1>2, <1>4, <1>5

(***************************************************************************)
(* An option that takes an argument comes with one.                        *)
(***************************************************************************)
LEMMA ArgGiven ==
  ASSUME conf = ush_table, IInv, Step, pc' = "caller", optc' \in TakeOne
  PROVE  optarg' # <<>>
<1>1. {"end", "word", "?", ":"} \cap TakeOne = {}
  BY DEF TakeOne, Recorded
<1>2. ~conf.colon /\ \A c : HasShort(c) => c \notin TakeOne
  BY TableRight DEF TakeOne, Recorded
<1>3. ASSUME NEW text \in Seq(Tokens), Matches(text) # {}
      PROVE  /\ ~Found(text).flag
             /\ Found(text).has # 1 => Found(text).val \notin TakeOne
  <2>1. conf.longs = long_options /\ IsConfig(conf)
    BY DEF ush_table, IInv, TypeOK
  <2>2. DOMAIN conf.longs = 1 .. 22
    <3>1. conf.longs \in Seq(Options)
      BY <2>1 DEF IsConfig, Options
    <3> QED
      BY <2>1, <3>1, LenProperties, LongsRight
  <2>3. Best(text) \subseteq 1 .. 22 /\ Best(text) # {}
    BY <1>3, <2>2 DEF Best, ExactMatches, Matches
  <2>4. Min(Best(text)) \in 1 .. 22
    BY <2>3, MinOf
  <2> QED
    BY <2>1, <2>4, LongsRight DEF Found
<1>4. CASE ScanEnds \/ WordStops \/ WordIsReturned
  BY <1>1, <1>4 DEF ScanEnds, WordStops, WordIsReturned, Return, ReturnFor
<1>5. CASE LongAmbiguous \/ LongUnknown \/ LongTakesNoArgument
           \/ LongLacksArgument \/ ShortUnknown \/ ShortLacksArgument
  BY <1>1, <1>5 DEF LongAmbiguous, LongUnknown, LongTakesNoArgument,
       LongLacksArgument, ShortUnknown, ShortLacksArgument, MissingArgument,
       Return, ReturnFor
<1>6. CASE LongAlone
  <2>1. nextchar \in Seq(Tokens) /\ Matches(nextchar) # {}
    BY <1>6 DEF LongAlone, LongFound, IInv, TypeOK
  <2>2. optc' = Value(Found(nextchar)) /\ Found(nextchar).has # 1
    BY <1>6 DEF LongAlone, Return, ReturnFor
  <2> QED
    BY <1>3, <2>1, <2>2 DEF Value
<1>7. CASE LongWithValue \/ LongWithNext
  BY <1>7 DEF LongWithValue, LongWithNext
<1>8. CASE ShortAlone
  BY <1>2, <1>8 DEF ShortAlone, ShortIs, Return, ReturnFor
<1>9. CASE \/ ShortOptional \/ ShortWithRest \/ ShortWithNext
           \/ WIsReturned \/ WAmbiguous \/ WTakesNoArgument \/ WLacksArgument
           \/ WTaken
  BY <1>9, NoLongW DEF ShortOptional, ShortWithRest, ShortWithNext,
     WIsReturned, WAmbiguous, WTakesNoArgument, WLacksArgument, WTaken, WFound,
     IsLongW
<1>10. CASE \/ Advance \/ Settle \/ SwapBottom \/ SwapTop \/ ExchangeEnds
            \/ Skip \/ DoubleDashEnds \/ Finish \/ OptionElement
  <2>1. then # "caller"
    BY DEF IInv, TypeOK
  <2>2. pc' # "caller"
    BY <1>10, <2>1 DEF Advance, Settle, SwapBottom, SwapTop, inExchange,
       Exchanging, ExchangeThen,
       ExchangeEnds, Skip, DoubleDashEnds, Finish, OptionElement
  <2> QED
    BY <2>2
<1> QED
  BY <1>4, <1>5, <1>6, <1>7, <1>8, <1>9, <1>10 DEF Step

LEMMA FrontAppend ==
  ASSUME NEW T, NEW ss \in Seq(T), NEW x \in T
  PROVE  /\ Append(ss, x) \in Seq(T) /\ Append(ss, x) # <<>>
         /\ Front(Append(ss, x)) = ss /\ Last(Append(ss, x)) = x
<1> DEFINE tt == Append(ss, x)
<1>1. /\ tt \in Seq(T) /\ tt # <<>> /\ Len(tt) = Len(ss) + 1
      /\ tt[Len(ss) + 1] = x /\ \A i \in 1 .. Len(ss) : tt[i] = ss[i]
      /\ Len(ss) \in Nat
  OBVIOUS
<1> HIDE DEF tt
<1>2. /\ Front(tt) \in Seq(T) /\ Len(Front(tt)) = Len(tt) - 1
      /\ \A i \in 1 .. Len(tt) - 1 : Front(tt)[i] = tt[i]
      /\ Last(tt) = tt[Len(tt)]
  BY <1>1, FrontIs
<1>3. Front(tt) = ss
  <2>1. Len(Front(tt)) = Len(ss)
    BY <1>1, <1>2
  <2>2. \A i \in 1 .. Len(ss) : Front(tt)[i] = ss[i]
    BY <1>1, <1>2
  <2> QED
    BY <1>2, <2>1, <2>2, SeqEqual
<1> QED
  BY <1>1, <1>2, <1>3 DEF tt

(***************************************************************************)
(* The loop.                                                               *)
(***************************************************************************)
\* A call has returned an option that has not been carried out.
AtReturn == at \in {"parsing", "exited"} /\ pc = "caller" /\ optc # "end"

\* Between two calls the parser waits, and what one has returned is the last
\* that has been parsed.
Line ==
  /\ at = "loop" => pc = "caller" /\ optc # "end"
  /\ at = "returned" =>
       pc = "caller" /\ (optc = "end" \/ err_count > OptErrLimit)
  /\ AtReturn =>
       /\ parsed # <<>>
       /\ Last(parsed).c = optc /\ Last(parsed).arg = optarg
       /\ optc \in TakeOne => optarg # <<>>

LEMMA InitLine ==
  ASSUME UshInit
  PROVE  Line
BY DEF UshInit, Init, Line, AtReturn

\* An option has been carried out.
Handles == at = "parsing" /\ AtReturn /\ at' = "loop" /\ UNCHANGED vars

LEMMA OptionsHandle ==
  ASSUME \/ OptDebug \/ OptVerbose \/ OptCommand \/ OptAppendArgv
         \/ OptShowArgv \/ OptReplace \/ OptEncoding
         \/ OptFork \/ OptRecorded \/ OptBadUmask \/ OptUmask
         \/ OptClearenv \/ OptEnv \/ OptWrong
  PROVE  Handles
<1>1. "end" \notin Recorded
  BY DEF Recorded
<1>2. CASE \/ OptDebug \/ OptVerbose \/ OptCommand \/ OptAppendArgv
           \/ OptShowArgv \/ OptReplace \/ OptEncoding
  BY <1>2 DEF OptDebug, OptVerbose, OptCommand, OptAppendArgv, OptShowArgv,
       OptReplace, OptEncoding, Sets, Returned, Handled, Handles, AtReturn
<1>3. CASE OptRecorded
  <2>1. Returned(Recorded) /\ at' = "loop" /\ UNCHANGED vars
    BY <1>3 DEF OptRecorded, Handled
  <2> QED
    BY <1>1, <2>1 DEF Returned, Handles, AtReturn
<1>4. CASE \/ OptFork \/ OptBadUmask \/ OptUmask
           \/ OptClearenv \/ OptEnv \/ OptWrong
  BY <1>4 DEF OptFork, OptBadUmask, OptUmask, OptClearenv, OptEnv, OptWrong,
       Returned, Handled, Handles, AtReturn
<1> QED
  BY <1>2, <1>3, <1>4

LEMMA TurnCases ==
  ASSUME Turns
  PROVE  \/ Handles \/ Ask \/ Parse \/ TooManyErrors \/ Exits \/ LoopEnds
BY OptionsHandle DEF Turns

LEMMA CarriedOK ==
  ASSUME Parses, Line
  PROVE  /\ parsed \in Seq(OutSet) /\ Carried \in Seq(OutSet)
         /\ AtReturn => /\ Last(parsed) \in OutSet
                        /\ Carried = Front(parsed)
                        /\ parsed = Append(Carried, Last(parsed))
         /\ ~AtReturn => Carried = parsed
<1>1. parsed \in Seq(OutSet)
  BY AskedBegins
<1>2. CASE AtReturn
  BY <1>1, <1>2, FrontIs DEF Line, Carried, AtReturn
<1>3. CASE ~AtReturn
  BY <1>1, <1>3 DEF Carried, AtReturn
<1> QED
  BY <1>1, <1>2, <1>3

\* Only what has been carried out is added to it, at its end.
LEMMA HandlesNext ==
  ASSUME Parses, Line, Handles
  PROVE  /\ Line' /\ Carried' = Append(Carried, Last(parsed))
         /\ Carried \in Seq(OutSet) /\ Last(parsed) \in OutSet
         /\ Last(parsed).c = optc /\ Last(parsed).arg = optarg
         /\ optc \in TakeOne => optarg # <<>>
<1>1. /\ at' = "loop" /\ AtReturn /\ pc' = pc /\ optc' = optc
      /\ parsed' = parsed
  BY DEF Handles, vars
<1>2. Carried' = parsed
  BY <1>1 DEF Carried
<1>3. Line'
  BY <1>1 DEF Line, AtReturn
<1> QED
  BY <1>1, <1>2, <1>3, CarriedOK DEF Line

LEMMA StepInCall ==
  ASSUME Step
  PROVE  pc # "caller"
<1>1. CASE \/ Advance \/ Settle \/ SwapBottom \/ SwapTop \/ ExchangeEnds
           \/ Skip \/ DoubleDashEnds \/ Finish \/ ScanEnds \/ WordStops
           \/ WordIsReturned \/ OptionElement
  BY <1>1 DEF Advance, Settle, SwapBottom, SwapTop, Exchanging, ExchangeEnds,
              Skip, DoubleDashEnds, Finish, ScanEnds, WordStops,
              WordIsReturned, OptionElement, AtElement
<1>2. CASE \/ LongAmbiguous \/ LongTakesNoArgument \/ LongLacksArgument
           \/ LongAlone \/ LongWithValue \/ LongWithNext \/ LongUnknown
           \/ ShortUnknown \/ ShortAlone \/ ShortOptional \/ ShortWithRest
           \/ ShortWithNext \/ ShortLacksArgument
           \/ WIsReturned \/ WAmbiguous \/ WTakesNoArgument \/ WLacksArgument
           \/ WTaken
  <2>1. Decoding
    BY <1>2 DEF LongAmbiguous, LongTakesNoArgument, LongLacksArgument,
         LongAlone, LongWithValue, LongWithNext, LongUnknown, LongFound,
         ShortUnknown, ShortAlone, ShortOptional, ShortWithRest, ShortWithNext,
         ShortLacksArgument, ShortIs, Short, WIsReturned, WAmbiguous,
         WTakesNoArgument, WLacksArgument, WTaken, WFound, IsLongW
  <2> QED
    BY <2>1 DEF Decoding
<1> QED
  BY <1>1, <1>2 DEF Step

LEMMA OthersNext ==
  ASSUME Parses, Line,
         Ask \/ Parse \/ TooManyErrors \/ Exits \/ LoopEnds \/ UNCHANGED allVars
  PROVE  Line' /\ Carried' = Carried
<1>1. CASE Ask
  <2>1. /\ at = "loop" /\ at' = "parsing" /\ pc' # "caller"
        /\ parsed' = parsed
    BY <1>1 DEF Ask, Call
  <2> QED
    BY <2>1 DEF Line, AtReturn, Carried
<1>2. CASE Parse
  <2>1. /\ at = "parsing" /\ at' = "parsing" /\ Step
    BY <1>2 DEF Parse, ushVars
  <2>2. pc # "caller" /\ Carried = parsed /\ parsed \in Seq(OutSet)
    <3>1. pc # "caller"
      BY <2>1, StepInCall
    <3> QED
      BY <3>1, CarriedOK DEF AtReturn
  <2>3. CASE pc' # "caller" /\ parsed' = parsed
    BY <2>1, <2>2, <2>3 DEF Line, AtReturn, Carried
  <2>4. CASE pc' = "caller" /\ optc' = "end" /\ parsed' = parsed
    BY <2>1, <2>2, <2>4 DEF Line, AtReturn, Carried
  <2>5. CASE /\ pc' = "caller" /\ optc' # "end"
             /\ \E opt : parsed' = Append(parsed, Out(optc', optarg', opt))
    <3>1. PICK opt : parsed' = Append(parsed, Out(optc', optarg', opt))
      BY <2>5
    <3>2. PICK out : out = Out(optc', optarg', opt)
      OBVIOUS
    <3>3. out.c = optc' /\ out.arg = optarg'
      BY <3>2 DEF Out
    <3>4. /\ parsed' # <<>> /\ Front(parsed') = parsed /\ Last(parsed') = out
      <4> DEFINE T == OutSet \cup {out}
      <4>1. parsed \in Seq(T) /\ out \in T
        BY <2>2
      <4> HIDE DEF T
      <4> QED
        BY <3>1, <3>2, <4>1, FrontAppend
    <3>5. optc' \in TakeOne => optarg' # <<>>
      BY <2>1, <2>5, ArgGiven DEF Parses
    <3> QED
      BY <2>1, <2>2, <2>5, <3>3, <3>4, <3>5 DEF Line, AtReturn, Carried
  <2> QED
    BY <2>1, <2>3, <2>4, <2>5, StepReturns DEF Parses
<1>3. CASE TooManyErrors
  <2>1. /\ at = "loop" /\ at' = "returned" /\ UNCHANGED <<pc, parsed, optc>>
        /\ err_count > OptErrLimit /\ err_count' = err_count
    BY <1>3 DEF TooManyErrors, vars
  <2> QED
    BY <2>1 DEF Line, AtReturn, Carried
<1>4. CASE Exits
  <2>1. /\ at = "parsing" /\ at' = "exited"
        /\ UNCHANGED <<pc, parsed, optc, optarg>>
    BY <1>4 DEF Exits, Returned, vars
  <2> QED
    BY <2>1 DEF Line, AtReturn, Carried
<1>5. CASE LoopEnds
  <2>1. /\ at = "parsing" /\ pc = "caller" /\ optc = "end" /\ at' = "returned"
        /\ UNCHANGED <<pc, parsed, optc>>
    BY <1>5 DEF LoopEnds, Returned, vars
  <2> QED
    BY <2>1 DEF Line, AtReturn, Carried
<1>6. CASE UNCHANGED allVars
  <2>1. UNCHANGED <<at, pc, parsed, optc, optarg, err_count>>
    BY <1>6 DEF allVars, ushVars, vars
  <2> QED
    BY <2>1 DEF Line, AtReturn, Carried
<1> QED
  BY <1>1, <1>2, <1>3, <1>4, <1>5, <1>6

(***************************************************************************)
(* What is carried out, in its order.                                      *)
(***************************************************************************)
Pairs == {<<out.c, out.arg[1]>> : out \in OutSet}
Recs(outs) == [i \in DOMAIN outs |-> Records(outs[i])]

LEMMA RecordsOK ==
  ASSUME NEW out \in OutSet
  PROVE  Records(out) \in Seq(Pairs)
<1>1. <<out.c, out.arg[1]>> \in Pairs
  BY DEF Pairs
<1>2. <<<<out.c, out.arg[1]>>>> \in Seq(Pairs) /\ <<>> \in Seq(Pairs)
  <2>1. ASSUME NEW U, NEW p \in U PROVE <<p>> \in Seq(U) /\ <<>> \in Seq(U)
    BY <2>1
  <2> QED
    BY <1>1, <2>1
<1> QED
  BY <1>2 DEF Records

LEMMA AppendParts ==
  ASSUME NEW T, NEW ss \in Seq(T), NEW x \in T
  PROVE  /\ Append(ss, x) \in Seq(T) /\ Len(Append(ss, x)) = Len(ss) + 1
         /\ DOMAIN Append(ss, x) = DOMAIN ss \cup {Len(ss) + 1}
         /\ DOMAIN ss = 1 .. Len(ss) /\ Len(ss) \in Nat
         /\ \A i \in DOMAIN ss : Append(ss, x)[i] = ss[i]
         /\ Append(ss, x)[Len(ss) + 1] = x
<1>1. /\ Append(ss, x) \in Seq(T) /\ Len(Append(ss, x)) = Len(ss) + 1
      /\ DOMAIN ss = 1 .. Len(ss) /\ Len(ss) \in Nat
      /\ DOMAIN Append(ss, x) = 1 .. Len(ss) + 1
      /\ \A i \in 1 .. Len(ss) : Append(ss, x)[i] = ss[i]
      /\ Append(ss, x)[Len(ss) + 1] = x
  OBVIOUS
<1>2. 1 .. Len(ss) + 1 = 1 .. Len(ss) \cup {Len(ss) + 1}
  BY <1>1
<1> QED
  BY <1>1, <1>2

LEMMA RecsOK ==
  ASSUME NEW outs \in Seq(OutSet)
  PROVE  Recs(outs) \in Seq(Seq(Pairs)) /\ Len(Recs(outs)) = Len(outs)
<1> DEFINE S == Seq(Pairs)
           n == Len(outs)
<1>1. DOMAIN outs = 1 .. n /\ n \in Nat
  OBVIOUS
<1>2. \A i \in 1 .. n : Records(outs[i]) \in S
  BY <1>1, RecordsOK, ElementOfSeq
<1> HIDE DEF S, n
<1>3. Recs(outs) \in Seq(S) /\ Len(Recs(outs)) = n
  BY <1>1, <1>2, FunctionIsSeq DEF Recs
<1> QED
  BY <1>3 DEF S, n

LEMMA RecsAppend ==
  ASSUME NEW outs \in Seq(OutSet), NEW out \in OutSet
  PROVE  FlattenSeq(Recs(Append(outs, out)))
           = FlattenSeq(Recs(outs)) \o Records(out)
<1> DEFINE S == Seq(Pairs)
           n == Len(outs)
           more == Append(outs, out)
<1>1. /\ DOMAIN outs = 1 .. n /\ n \in Nat
      /\ DOMAIN more = 1 .. n + 1
      /\ \A i \in 1 .. n : more[i] = outs[i]
      /\ more[n + 1] = out
  BY AppendParts
<1>2. Records(out) \in S /\ \A i \in 1 .. n : Records(outs[i]) \in S
  BY <1>1, RecordsOK, ElementOfSeq
<1>3. Recs(outs) \in Seq(S) /\ Len(Recs(outs)) = n
  BY RecsOK
<1>4. Recs(more) \in Seq(S) /\ Len(Recs(more)) = n + 1
  <2>1. more \in Seq(OutSet) /\ Len(more) = n + 1
    BY AppendParts
  <2> HIDE DEF more, n
  <2> QED
    BY <2>1, RecsOK
<1> HIDE DEF S, more, n
<1>5. Recs(more) = Append(Recs(outs), Records(out))
  <2> DEFINE both == Append(Recs(outs), Records(out))
  <2>1. /\ both \in Seq(S) /\ Len(both) = n + 1
        /\ \A i \in 1 .. n : both[i] = Recs(outs)[i]
        /\ both[n + 1] = Records(out)
    BY <1>1, <1>2, <1>3, AppendParts
  <2>2. ASSUME NEW i \in 1 .. n + 1 PROVE both[i] = Recs(more)[i]
    <3>1. CASE i \in 1 .. n
      BY <1>1, <2>1, <3>1 DEF Recs
    <3>2. CASE i = n + 1
      <4>1. n + 1 \in DOMAIN more
        BY <1>1
      <4>2. Recs(more)[n + 1] = Records(more[n + 1])
        BY <4>1 DEF Recs
      <4> QED
        <5>1. both[i] = Records(out)
          BY <2>1, <3>2
        <5>2. Recs(more)[i] = Records(out)
          BY <1>1, <3>2, <4>2
        <5> QED
          BY <5>1, <5>2
    <3>3. i \in 1 .. n \/ i = n + 1
      <4>1. n \in Nat
        BY <1>1
      <4> QED
        BY <4>1
    <3> QED
      BY <3>1, <3>2, <3>3
  <2> HIDE DEF both
  <2>3. both = Recs(more)
    BY <1>4, <2>1, <2>2, SeqEqual
  <2> QED
    BY <2>3 DEF both
<1>6. FlattenSeq(Append(Recs(outs), Records(out)))
        = FlattenSeq(Recs(outs)) \o Records(out)
  BY <1>2, <1>3, FlattenAppend DEF S
<1> QED
  BY <1>5, <1>6 DEF more

DoneIs == done = FlattenSeq(Recs(Carried))

LEMMA InitDone ==
  ASSUME UshInit
  PROVE  DoneIs
<1>1. done = <<>> /\ Carried = <<>>
  BY DEF UshInit, Init, Carried
<1>2. Recs(<<>>) = <<>> /\ <<>> \in Seq(Seq(Pairs))
  <2>1. DOMAIN <<>> = {}
    OBVIOUS
  <2>2. Recs(<<>>) = [i \in {} |-> Records(<<>>[i])]
    BY <2>1 DEF Recs
  <2>3. [i \in {} |-> Records(<<>>[i])] = <<>>
    OBVIOUS
  <2> QED
    BY <2>2, <2>3
<1>3. FlattenSeq(Recs(<<>>)) = <<>>
  BY <1>2, FlattenIs
<1> QED
  BY <1>1, <1>3 DEF DoneIs

LEMMA DoneKept ==
  ASSUME Ask \/ Parse \/ TooManyErrors \/ Exits \/ LoopEnds
           \/ UNCHANGED allVars
  PROVE  done' = done
BY DEF Ask, Parse, TooManyErrors, Exits, LoopEnds, allVars, ushVars

LEMMA DoneMore ==
  ASSUME Turns, Handles, optc \in TakeOne => optarg # <<>>
  PROVE  done' = IF optc \in Recorded THEN Append(done, <<optc, optarg[1]>>)
                 ELSE done
<1>1. CASE OptRecorded
  BY <1>1 DEF OptRecorded, Returned
<1>2. CASE \/ OptDebug \/ OptVerbose \/ OptCommand \/ OptAppendArgv
           \/ OptShowArgv \/ OptReplace \/ OptEncoding
  BY <1>2 DEF OptDebug, OptVerbose, OptCommand, OptAppendArgv, OptShowArgv,
       OptReplace, OptEncoding, Sets, Returned, Recorded
<1>3. CASE \/ OptFork \/ OptBadUmask \/ OptUmask \/ OptClearenv \/ OptEnv
           \/ OptWrong
  BY <1>3 DEF OptFork, OptBadUmask, OptUmask, OptClearenv, OptEnv, OptWrong,
       Returned, Recorded
<1>4. CASE Ask \/ Parse \/ TooManyErrors \/ Exits \/ LoopEnds
  BY <1>4 DEF Ask, Parse, TooManyErrors, Exits, LoopEnds, Handles, ushVars
<1> QED
  BY <1>1, <1>2, <1>3, <1>4 DEF Turns

LEMMA TurnKeepsDone ==
  ASSUME Parses, Line, DoneIs, Turns \/ UNCHANGED allVars
  PROVE  DoneIs'
<1>1. CASE Handles /\ Turns
  <2> DEFINE out == Last(parsed)
  <2>1. /\ Carried' = Append(Carried, out)
        /\ Carried \in Seq(OutSet) /\ out \in OutSet
        /\ out.c = optc /\ out.arg = optarg
        /\ optc \in TakeOne => optarg # <<>>
    BY <1>1, HandlesNext
  <2>2. done' = done \o Records(out)
    <3>1. done \in Seq(Pairs)
      <4>1. Recs(Carried) \in Seq(Seq(Pairs))
        BY <2>1, RecsOK
      <4> QED
        BY <4>1, FlattenIs DEF DoneIs
    <3>2. CASE optc \in Recorded
      <4>1. Records(out) = <<<<optc, optarg[1]>>>>
        BY <2>1, <3>2 DEF Records
      <4>2. done' = Append(done, <<optc, optarg[1]>>)
        BY <1>1, <2>1, <3>2, DoneMore
      <4>3. ASSUME NEW T, NEW s \in Seq(T), NEW x
            PROVE  Append(s, x) = s \o <<x>>
        BY <4>3
      <4> QED
        BY <3>1, <4>1, <4>2, <4>3
    <3>3. CASE optc \notin Recorded
      <4>1. Records(out) = <<>>
        BY <2>1, <3>3 DEF Records
      <4>2. done' = done
        BY <1>1, <2>1, <3>3, DoneMore
      <4> QED
        BY <3>1, <4>1, <4>2
    <3> QED
      BY <3>2, <3>3
  <2>3. FlattenSeq(Recs(Append(Carried, out)))
          = FlattenSeq(Recs(Carried)) \o Records(out)
    BY <2>1, RecsAppend
  <2> HIDE DEF out
  <2>4. PICK more : more = Append(Carried, out)
    OBVIOUS
  <2> QED
    BY <2>1, <2>2, <2>3, <2>4 DEF DoneIs
<1>2. CASE Ask \/ Parse \/ TooManyErrors \/ Exits \/ LoopEnds
             \/ UNCHANGED allVars
  <2>1. Carried' = Carried /\ done' = done
    BY <1>2, OthersNext, DoneKept
  <2> QED
    BY <2>1 DEF DoneIs
<1> QED
  BY <1>1, <1>2, TurnCases

(***************************************************************************)
(* The last of the options of a kind.                                      *)
(***************************************************************************)
LEMMA MaxOf ==
  ASSUME NEW n \in Nat, NEW S \in SUBSET (0 .. n), S # {}
  PROVE  Max(S) \in S /\ \A y \in S : y <= Max(S)
<1> DEFINE T == {n - x : x \in S}
<1>1. T \in SUBSET Nat /\ T # {}
  <2>1. \A x \in S : x \in Nat /\ x <= n /\ n - x \in Nat
    OBVIOUS
  <2>2. PICK x \in S : TRUE
    OBVIOUS
  <2> QED
    BY <2>1, <2>2
<1>2. PICK t \in T : \A y \in T : t <= y
  BY <1>1, LeastExists
<1>3. PICK x \in S : t = n - x
  BY <1>2
<1>4. \A y \in S : x >= y
  <2> TAKE y \in S
  <2>1. n - y \in T
    OBVIOUS
  <2>2. n - x <= n - y
    BY <1>2, <1>3, <2>1
  <2>3. x \in Nat /\ y \in Nat
    OBVIOUS
  <2> QED
    BY <2>2, <2>3
<1>5. Max(S) \in S /\ \A y \in S : Max(S) >= y
  BY <1>3, <1>4 DEF Max
<1> QED
  BY <1>5

LEMMA MaxIs ==
  ASSUME NEW n \in Nat, NEW S \in SUBSET (0 .. n), NEW x \in S,
         \A y \in S : y <= x
  PROVE  Max(S) = x
<1>1. Max(S) \in S /\ \A y \in S : y <= Max(S)
  BY MaxOf
<1> DEFINE m == Max(S)
<1>2. m \in Nat /\ x \in Nat /\ m <= x /\ x <= m
  <2>1. \A y \in S : y \in Nat
    OBVIOUS
  <2>2. m \in S /\ \A y \in S : y <= m
    BY <1>1
  <2> HIDE DEF m
  <2> QED
    BY <2>1, <2>2
<1> HIDE DEF m
<1>3. m = x
  BY <1>2
<1> QED
  BY <1>3 DEF m

LEMMA GivenIn ==
  ASSUME NEW outs \in Seq(OutSet), NEW c
  PROVE  /\ Len(outs) \in Nat
         /\ Given(outs, c) \in SUBSET (1 .. Len(outs))
         /\ Given(outs, c) \in SUBSET (0 .. Len(outs))
<1>1. DOMAIN outs = 1 .. Len(outs) /\ Len(outs) \in Nat
  OBVIOUS
<1>2. Given(outs, c) \subseteq 1 .. Len(outs)
  BY <1>1 DEF Given
<1> QED
  BY <1>1, <1>2

LEMMA GivenMore ==
  ASSUME NEW outs \in Seq(OutSet), NEW out \in OutSet, NEW c
  PROVE  LET more == Append(outs, out)
         IN  /\ out.c = c => Given(more, c) = Given(outs, c) \cup {Len(outs) + 1}
             /\ out.c # c => Given(more, c) = Given(outs, c)
             /\ \A i \in Given(outs, c) : ArgOf(more, i) = ArgOf(outs, i)
             /\ ArgOf(more, Len(outs) + 1) = out.arg[1]
<1> DEFINE more == Append(outs, out)
           n == Len(outs)
<1>1. /\ DOMAIN more = DOMAIN outs \cup {n + 1}
      /\ DOMAIN outs = 1 .. n /\ n \in Nat
      /\ \A i \in DOMAIN outs : more[i] = outs[i]
      /\ more[n + 1] = out
  BY AppendParts
<1>2. n + 1 \notin DOMAIN outs
  BY <1>1
<1> HIDE DEF more, n
<1>3. /\ out.c = c => Given(more, c) = Given(outs, c) \cup {n + 1}
      /\ out.c # c => Given(more, c) = Given(outs, c)
      /\ \A i \in Given(outs, c) : ArgOf(more, i) = ArgOf(outs, i)
      /\ ArgOf(more, n + 1) = out.arg[1]
  BY <1>1, <1>2 DEF Given, ArgOf
<1> QED
  BY <1>3 DEF more, n

\* Whether an option has been said, and the argument of the last.
Says(outs, c) == Given(outs, c) # {}
LastArg(outs, c) ==
  IF ~Says(outs, c) THEN <<>> ELSE <<ArgOf(outs, Max(Given(outs, c)))>>

LEMMA SaysMore ==
  ASSUME NEW outs \in Seq(OutSet), NEW out \in OutSet, NEW c
  PROVE  /\ out.c = c => Says(Append(outs, out), c)
         /\ out.c # c => Says(Append(outs, out), c) = Says(outs, c)
         /\ LastArg(Append(outs, out), c) =
              IF out.c = c THEN <<out.arg[1]>> ELSE LastArg(outs, c)
<1> DEFINE more == Append(outs, out)
           n == Len(outs)
<1>1. /\ out.c = c => Given(more, c) = Given(outs, c) \cup {n + 1}
      /\ out.c # c => Given(more, c) = Given(outs, c)
      /\ \A i \in Given(outs, c) : ArgOf(more, i) = ArgOf(outs, i)
      /\ ArgOf(more, n + 1) = out.arg[1]
  BY GivenMore
<1>2. n \in Nat /\ Given(outs, c) \in SUBSET (1 .. n)
      /\ Given(outs, c) \in SUBSET (0 .. n)
  BY GivenIn
<1> HIDE DEF more, n
<1>3. CASE out.c = c
  <2>1. Max(Given(outs, c) \cup {n + 1}) = n + 1
    <3> DEFINE S == Given(outs, c) \cup {n + 1}
    <3>1. S \in SUBSET (0 .. n + 1) /\ n + 1 \in Nat /\ n + 1 \in S
          /\ \A y \in S : y <= n + 1
      BY <1>2
    <3> HIDE DEF S
    <3>2. Max(S) = n + 1
      BY <3>1, MaxIs
    <3> QED
      BY <3>2 DEF S
  <2>2. Says(more, c)
    BY <1>1, <1>3 DEF Says
  <2>3. LastArg(more, c) = <<out.arg[1]>>
    BY <1>1, <1>3, <2>1, <2>2 DEF LastArg
  <2> QED
    BY <1>3, <2>2, <2>3 DEF more
<1>4. CASE out.c # c
  <2>1. Given(more, c) = Given(outs, c)
    BY <1>1, <1>4
  <2>2. Says(more, c) = Says(outs, c)
    BY <2>1 DEF Says
  <2>3. Given(outs, c) # {} =>
          ArgOf(more, Max(Given(outs, c))) = ArgOf(outs, Max(Given(outs, c)))
    BY <1>1, <1>2, MaxOf
  <2>4. LastArg(more, c) = LastArg(outs, c)
    BY <2>1, <2>3 DEF LastArg, Says
  <2> QED
    BY <1>4, <2>2, <2>4 DEF more
<1> QED
  BY <1>3, <1>4

(***************************************************************************)
(* Errors are counted.                                                     *)
(***************************************************************************)
IsFault(out) ==
  out.c = "?" \/ (out.c \in Recorded /\ out.arg[1] \in Unusable)

ErrIs ==
  /\ err_count \in 0 .. OptErrLimit + 1
  /\ at = "parsing" => err_count <= OptErrLimit
  /\ err_count = 0 => \A i \in DOMAIN Carried : ~IsFault(Carried[i])

LEMMA InitErr ==
  ASSUME UshInit
  PROVE  ErrIs
<1>1. err_count = 0 /\ Carried = <<>> /\ at = "loop"
  BY DEF UshInit, Init, Carried
<1>2. OptErrLimit \in Nat
  BY UshGetoptAssumption
<1> QED
  BY <1>1, <1>2 DEF ErrIs

LEMMA ErrCounted ==
  ASSUME Turns, Handles, err_count \in Nat
  PROVE  /\ err_count' \in {err_count, err_count + 1}
         /\ optc = "?" \/ (optc \in Recorded /\ optarg[1] \in Unusable) =>
              err_count' = err_count + 1
<1>1. "?" \notin Recorded
  BY DEF Recorded
<1>2. CASE OptRecorded
  <2>1. /\ optc \in Recorded
        /\ err_count' = IF optarg[1] \notin Unusable THEN err_count
                        ELSE err_count + 1
    BY <1>2 DEF OptRecorded, Returned, Handled
  <2> QED
    BY <1>1, <2>1
<1>3. CASE OptWrong
  BY <1>3 DEF OptWrong, Handled
<1>4. CASE \/ OptDebug \/ OptVerbose \/ OptCommand \/ OptAppendArgv
           \/ OptShowArgv \/ OptReplace \/ OptEncoding
  <2>1. /\ optc \notin Recorded /\ optc # "?"
        /\ err_count' = err_count
    BY <1>4 DEF OptDebug, OptVerbose, OptCommand, OptAppendArgv, OptShowArgv,
       OptReplace, OptEncoding, Sets, Returned, Recorded, Handled
  <2> QED
    BY <2>1
<1>5. CASE OptFork \/ OptBadUmask \/ OptUmask \/ OptClearenv \/ OptEnv
  <2>1. optc \notin Recorded /\ optc # "?"
    BY <1>5 DEF OptFork, OptBadUmask, OptUmask, OptClearenv, OptEnv, Returned,
       Recorded
  <2>2. err_count' \in {err_count, err_count + 1}
    BY <1>5 DEF OptFork, OptBadUmask, OptUmask, OptClearenv, OptEnv, Handled
  <2> QED
    BY <2>1, <2>2
<1>6. CASE Ask \/ Parse \/ TooManyErrors \/ Exits \/ LoopEnds
  BY <1>6 DEF Ask, Parse, TooManyErrors, Exits, LoopEnds, Handles, ushVars
<1> QED
  BY <1>2, <1>3, <1>4, <1>5, <1>6 DEF Turns

LEMMA TurnKeepsErr ==
  ASSUME Parses, Line, ErrIs, Turns \/ UNCHANGED allVars
  PROVE  ErrIs'
<1>0. OptErrLimit \in Nat /\ err_count \in Nat
  BY UshGetoptAssumption DEF ErrIs
<1>1. CASE Handles /\ Turns
  <2> DEFINE out == Last(parsed)
  <2>1. /\ Carried' = Append(Carried, out)
        /\ Carried \in Seq(OutSet) /\ out \in OutSet
        /\ out.c = optc /\ out.arg = optarg
    BY <1>1, HandlesNext
  <2>2. /\ err_count' \in {err_count, err_count + 1}
        /\ IsFault(out) => err_count' = err_count + 1
    BY <1>0, <1>1, <2>1, ErrCounted DEF IsFault
  <2>3. at = "parsing" /\ at' = "loop"
    BY <1>1 DEF Handles
  <2>4. err_count' \in 0 .. OptErrLimit + 1
    BY <1>0, <2>2, <2>3 DEF ErrIs
  <2>5. ASSUME err_count' = 0, NEW i \in DOMAIN Append(Carried, out)
        PROVE  ~IsFault(Append(Carried, out)[i])
    <3>1. err_count = 0 /\ ~IsFault(out)
      BY <1>0, <2>2, <2>5
    <3>2. \A j \in DOMAIN Carried : ~IsFault(Carried[j])
      BY <3>1 DEF ErrIs
    <3>3. \/ i \in DOMAIN Carried /\ Append(Carried, out)[i] = Carried[i]
          \/ Append(Carried, out)[i] = out
      BY <2>1, <2>5, AppendParts
    <3> QED
      BY <3>1, <3>2, <3>3
  <2> HIDE DEF out
  <2> QED
    BY <2>1, <2>3, <2>4, <2>5 DEF ErrIs, IsFault
<1>2. CASE Ask \/ Parse \/ TooManyErrors \/ Exits \/ LoopEnds
             \/ UNCHANGED allVars
  <2>1. Carried' = Carried
    BY <1>2, OthersNext
  <2>2. err_count' = err_count
    BY <1>2 DEF Ask, Parse, TooManyErrors, Exits, LoopEnds, ushVars, allVars
  <2>3. at' = "parsing" => at = "parsing" \/ err_count <= OptErrLimit
    BY <1>2 DEF Ask, Parse, TooManyErrors, Exits, LoopEnds, ushVars, allVars
  <2> QED
    BY <2>1, <2>2, <2>3 DEF ErrIs, IsFault
<1> QED
  BY <1>1, <1>2, TurnCases

(***************************************************************************)
(* What the options say is noted.                                          *)
(***************************************************************************)
Encodings == {"text", "xnn", "qp", "null", "invalid"}

Commands ==
  [fork : BOOLEAN, verbose : BOOLEAN, debug : BOOLEAN,
   argv : Seq(Seq(Tokens))]

Notes ==
  [debug : BOOLEAN, verbose : BOOLEAN, command : BOOLEAN,
   append_argv : BOOLEAN, show_argv : BOOLEAN, encoding : Encodings,
   replace : Seq(Seq(Tokens))]

NotesOK == cmd \in Commands /\ statics \in Notes

SaidIs ==
  at # "returned" =>
    /\ ~cmd.verbose /\ ~cmd.debug /\ cmd.argv = <<>>
    /\ cmd.fork <=> Says(Carried, "fork")
    /\ statics.debug <=> Says(Carried, "d")
    /\ statics.verbose <=> Says(Carried, "v")
    /\ statics.command <=> Says(Carried, "c")
    /\ statics.append_argv <=> Says(Carried, "append-argv")
    /\ statics.show_argv <=> Says(Carried, "show-argv")
    /\ statics.replace = LastArg(Carried, "replace")

LEMMA InitSaid ==
  ASSUME UshInit
  PROVE  NotesOK /\ SaidIs
<1>1. /\ Carried = <<>>
      /\ cmd = [fork |-> FALSE, verbose |-> FALSE, debug |-> FALSE,
                argv |-> <<>>]
      /\ statics = [debug |-> FALSE, verbose |-> FALSE, command |-> FALSE,
                append_argv |-> FALSE, show_argv |-> FALSE,
                encoding |-> "text", replace |-> <<>>]
  BY DEF UshInit, Init, Carried
<1>2. \A c : ~Says(<<>>, c) /\ LastArg(<<>>, c) = <<>>
  BY DEF Says, Given, LastArg
<1>3. <<>> \in Seq(Seq(Tokens)) /\ "text" \in Encodings
  BY NoArg DEF Encodings
<1>4. NotesOK
  BY <1>1, <1>3 DEF NotesOK, Commands, Notes
<1>5. SaidIs
  BY <1>1, <1>2 DEF SaidIs
<1> QED
  BY <1>4, <1>5

\* What an option that is carried out changes of the notes.
LEMMA NotesChange ==
  ASSUME Turns, Handles, NotesOK, optarg \in Seq(Seq(Tokens))
  PROVE  /\ NotesOK'
         /\ cmd'.fork <=> cmd.fork \/ optc = "fork"
         /\ cmd'.verbose = cmd.verbose /\ cmd'.debug = cmd.debug
         /\ cmd'.argv = cmd.argv
         /\ statics'.debug <=> statics.debug \/ optc = "d"
         /\ statics'.verbose <=> statics.verbose \/ optc = "v"
         /\ statics'.command <=> statics.command \/ optc = "c"
         /\ statics'.append_argv <=> statics.append_argv \/ optc = "append-argv"
         /\ statics'.show_argv <=> statics.show_argv \/ optc = "show-argv"
         /\ statics'.replace = IF optc = "replace" THEN optarg
                               ELSE statics.replace
<1> DEFINE Goal ==
         /\ NotesOK'
         /\ cmd'.fork <=> cmd.fork \/ optc = "fork"
         /\ cmd'.verbose = cmd.verbose /\ cmd'.debug = cmd.debug
         /\ cmd'.argv = cmd.argv
         /\ statics'.debug <=> statics.debug \/ optc = "d"
         /\ statics'.verbose <=> statics.verbose \/ optc = "v"
         /\ statics'.command <=> statics.command \/ optc = "c"
         /\ statics'.append_argv <=> statics.append_argv \/ optc = "append-argv"
         /\ statics'.show_argv <=> statics.show_argv \/ optc = "show-argv"
         /\ statics'.replace = IF optc = "replace" THEN optarg
                               ELSE statics.replace
<1> SUFFICES Goal
  OBVIOUS
<1>1. CASE OptDebug
  BY <1>1 DEF OptDebug, Sets, Returned, NotesOK, Notes
<1>2. CASE OptVerbose
  BY <1>2 DEF OptVerbose, Sets, Returned, NotesOK, Notes
<1>3. CASE OptCommand
  BY <1>3 DEF OptCommand, Sets, Returned, NotesOK, Notes
<1>4. CASE OptAppendArgv
  BY <1>4 DEF OptAppendArgv, Sets, Returned, NotesOK, Notes
<1>5. CASE OptShowArgv
  BY <1>5 DEF OptShowArgv, Sets, Returned, NotesOK, Notes
<1>6. CASE OptReplace
  BY <1>6 DEF OptReplace, Sets, Returned, NotesOK, Notes
<1>7. CASE OptEncoding
  <2>1. parse_encoding(optarg[1]) \in Encodings
    BY DEF parse_encoding, Encodings
  <2> QED
    BY <1>7, <2>1 DEF OptEncoding, Sets, Returned, NotesOK, Notes
<1>8. CASE OptFork
  BY <1>8 DEF OptFork, Returned, NotesOK, Commands
<1>9. CASE OptRecorded \/ OptBadUmask \/ OptUmask \/ OptClearenv \/ OptEnv
             \/ OptWrong
  <2>1. /\ optc \notin {"fork", "d", "v", "c", "append-argv", "show-argv",
                        "replace"}
        /\ cmd' = cmd /\ statics' = statics
    BY <1>9 DEF OptRecorded, OptBadUmask, OptUmask, OptClearenv, OptEnv,
                OptWrong, Returned, Recorded
  <2> QED
    BY <2>1 DEF NotesOK
<1>10. CASE Ask \/ Parse \/ TooManyErrors \/ Exits \/ LoopEnds
  BY <1>10 DEF Ask, Parse, TooManyErrors, Exits, LoopEnds, Handles, ushVars
<1> HIDE DEF Goal
<1> QED
  BY <1>1, <1>2, <1>3, <1>4, <1>5, <1>6, <1>7, <1>8, <1>9, <1>10 DEF Turns

LEMMA ArgOK ==
  ASSUME IInv, optarg \in Seq(Seq(Tokens)), optarg # <<>>
  PROVE  optarg = <<optarg[1]>> /\ optarg[1] \in Seq(Tokens)
<1>1. Len(optarg) = 1 /\ optarg[1] \in Seq(Tokens)
  BY DEF IInv, TypeOK
<1>2. ASSUME NEW U, NEW s \in Seq(U), Len(s) = 1
      PROVE  s = <<s[1]>>
  BY <1>2
<1> QED
  BY <1>1, <1>2

LEMMA LeftOK ==
  ASSUME Parses, pc = "caller", optc = "end"
  PROVE  SubSeq(argv, optind, Len(argv)) \in Seq(Seq(Tokens))
<1> DEFINE left == SubSeq(argv, optind, Len(argv))
<1>1. PICK F : Past(F)
  BY DEF Parses
<1>2. original \in Seq(Seq(Tokens)) /\ IsOut(F, original) /\ F[1] = <<parsed, left>>
  BY <1>1 DEF Past, Follows, AtCaller, Ended, InAll
<1>3. 1 \in 1 .. Len(original) + 1
  <2>1. Len(original) \in Nat
    BY <1>2, LenProperties
  <2> QED
    BY <2>1
<1>4. F[1][2] \in Seq(Seq(Tokens))
  BY <1>2, <1>3, OutTyped
<1> HIDE DEF left
<1>5. F[1][2] = left
  BY <1>2
<1> QED
  BY <1>4, <1>5 DEF left

LEMMA TurnKeepsSaid ==
  ASSUME Parses, Line, NotesOK, SaidIs, Turns \/ UNCHANGED allVars
  PROVE  NotesOK' /\ SaidIs'
<1>1. CASE Handles /\ Turns
  <2> DEFINE out == Last(parsed)
             more == Append(Carried, out)
  <2>1. /\ Carried' = more
        /\ Carried \in Seq(OutSet) /\ out \in OutSet
        /\ out.c = optc /\ out.arg = optarg
        /\ optc \in TakeOne => optarg # <<>>
    BY <1>1, HandlesNext
  <2>2. at = "parsing" /\ at' = "loop"
    BY <1>1 DEF Handles
  <2>3. /\ optarg \in Seq(Seq(Tokens))
        /\ optarg # <<>> => optarg = <<optarg[1]>>
    <3>1. optarg \in Seq(Seq(Tokens))
      BY <2>1 DEF OutSet
    <3> QED
      BY <3>1, ArgOK DEF Parses
  <2>4. \A c : Says(more, c) <=> Says(Carried, c) \/ optc = c
    BY <2>1, SaysMore
  <2>5. LastArg(more, "replace") =
          IF optc = "replace" THEN optarg ELSE LastArg(Carried, "replace")
    BY <2>1, <2>3, SaysMore DEF TakeOne
  <2>6. /\ NotesOK'
        /\ cmd'.fork <=> cmd.fork \/ optc = "fork"
        /\ cmd'.verbose = cmd.verbose /\ cmd'.debug = cmd.debug
        /\ cmd'.argv = cmd.argv
        /\ statics'.debug <=> statics.debug \/ optc = "d"
        /\ statics'.verbose <=> statics.verbose \/ optc = "v"
        /\ statics'.command <=> statics.command \/ optc = "c"
        /\ statics'.append_argv <=> statics.append_argv \/ optc = "append-argv"
        /\ statics'.show_argv <=> statics.show_argv \/ optc = "show-argv"
        /\ statics'.replace = IF optc = "replace" THEN optarg
                               ELSE statics.replace
    BY <1>1, <2>3, NotesChange
  <2> HIDE DEF out, more
  <2> QED
    BY <2>1, <2>2, <2>4, <2>5, <2>6 DEF SaidIs, Says
<1>2. CASE Ask \/ Parse \/ Exits \/ UNCHANGED allVars
  <2>1. Carried' = Carried
    BY <1>2, OthersNext
  <2>2. cmd' = cmd /\ statics' = statics /\ (at' # "returned" => at # "returned")
    <3>1. CASE Ask \/ Exits
      BY <3>1 DEF Ask, Exits, Returned
    <3>2. CASE Parse \/ UNCHANGED allVars
      BY <3>2 DEF Parse, ushVars, allVars
    <3> QED
      BY <1>2, <3>1, <3>2
  <2> QED
    BY <2>1, <2>2 DEF NotesOK, SaidIs, Says
<1>3. CASE TooManyErrors
  <2>1. at' = "returned" /\ cmd' = cmd /\ statics' = statics
    BY <1>3 DEF TooManyErrors
  <2> QED
    BY <2>1 DEF NotesOK, SaidIs
<1>4. CASE LoopEnds
  <2>1. at' = "returned"
    BY <1>4 DEF LoopEnds
  <2>2. CASE err_count > 0
    BY <1>4, <2>1, <2>2 DEF LoopEnds, NotesOK, SaidIs
  <2>3. CASE ~(err_count > 0)
    <3>1. SubSeq(argv, optind, Len(argv)) \in Seq(Seq(Tokens))
      BY <1>4, LeftOK DEF LoopEnds, Returned
    <3>2. /\ statics' = [statics EXCEPT
                   !.verbose = statics.verbose \/ statics.debug,
                   !.show_argv = @ \/ statics.verbose \/ statics.debug]
          /\ cmd' = [cmd EXCEPT !.verbose = statics.verbose \/ statics.debug,
                                !.debug = statics.debug,
                                !.argv = SubSeq(argv, optind, Len(argv))]
      BY <1>4, <2>3 DEF LoopEnds
    <3>4. NotesOK'
      BY <3>1, <3>2 DEF NotesOK, Commands, Notes
    <3> QED
      BY <2>1, <3>4 DEF SaidIs
  <2> QED
    BY <2>2, <2>3
<1> QED
  BY <1>1, <1>2, <1>3, <1>4, TurnCases

LEMMA TurnKeepsCommand ==
  ASSUME Parses, Line, NotesOK, SaidIs, ErrIs, CommandRight,
         Turns \/ UNCHANGED allVars
  PROVE  CommandRight'
<1>1. CASE Handles \/ Ask \/ Parse \/ Exits
  <2>1. at' # "returned"
    BY <1>1 DEF Handles, Ask, Parse, Exits, ushVars
  <2> QED
    BY <2>1 DEF CommandRight
<1>2. CASE TooManyErrors
  <2>1. err_count' # 0
    BY <1>2, UshGetoptAssumption DEF TooManyErrors
  <2> QED
    BY <2>1 DEF CommandRight
<1>3. CASE UNCHANGED allVars
  <2>1. UNCHANGED <<at, err_count, asked, cmd, statics>>
    BY <1>3 DEF allVars, ushVars
  <2> QED
    BY <2>1 DEF CommandRight, Asked, Given, ArgOf
<1>4. CASE LoopEnds
  <2> SUFFICES ASSUME err_count = 0
               PROVE  CommandRight'
    <3>1. err_count' = err_count
      BY <1>4 DEF LoopEnds
    <3> QED
      BY <3>1 DEF CommandRight
  <2>1. /\ at = "parsing" /\ pc = "caller" /\ optc = "end"
        /\ asked' = asked
    BY <1>4 DEF LoopEnds, Returned
  <2> DEFINE left == SubSeq(argv, optind, Len(argv))
  <2>2. asked = <<parsed, left>> /\ Carried = parsed
    BY <2>1, AskedBegins DEF Carried
  <2>3. Asked = Carried /\ Asked' = Carried /\ asked'[2] = left
    BY <2>1, <2>2 DEF Asked
  <2>4. cmd \in Commands /\ statics \in Notes
    BY DEF NotesOK
  <2>5. /\ statics' = [statics EXCEPT
                 !.verbose = statics.verbose \/ statics.debug,
                 !.show_argv = @ \/ statics.verbose \/ statics.debug]
        /\ cmd' = [cmd EXCEPT !.verbose = statics.verbose \/ statics.debug,
                              !.debug = statics.debug,
                              !.argv = left]
    BY <1>4 DEF LoopEnds
  <2> HIDE DEF left
  <2>6. \A i \in DOMAIN Carried :
          /\ Carried[i].c # "?"
          /\ Carried[i].c \in Recorded => ArgOf(Carried, i) \notin Unusable
    BY DEF ErrIs, IsFault, ArgOf
  <2>7. /\ DOMAIN cmd' = {"fork", "verbose", "debug", "argv"}
        /\ cmd' = [fork |-> cmd'.fork, verbose |-> cmd'.verbose,
                   debug |-> cmd'.debug, argv |-> cmd'.argv]
        /\ cmd'.argv = left
        /\ cmd'.fork \in BOOLEAN /\ cmd'.verbose \in BOOLEAN
        /\ cmd'.debug \in BOOLEAN
        /\ cmd'.fork <=> Says(Carried, "fork")
        /\ cmd'.verbose <=> Says(Carried, "v") \/ Says(Carried, "d")
        /\ cmd'.debug <=> Says(Carried, "d")
    BY <2>1, <2>4, <2>5 DEF Commands, Notes, SaidIs
  <2>8. /\ statics'.show_argv \in BOOLEAN /\ statics'.command \in BOOLEAN
        /\ statics'.append_argv \in BOOLEAN
        /\ statics'.show_argv <=>
             Says(Carried, "v") \/ Says(Carried, "d")
               \/ Says(Carried, "show-argv")
        /\ statics'.command <=> Says(Carried, "c")
        /\ statics'.append_argv <=> Says(Carried, "append-argv")
        /\ statics'.replace = LastArg(Carried, "replace")
    BY <2>1, <2>4, <2>5 DEF Notes, SaidIs
  <2>9. cmd' = [fork |-> Says(Carried, "fork"),
                verbose |-> Says(Carried, "v") \/ Says(Carried, "d"),
                debug |-> Says(Carried, "d"), argv |-> left]
    BY <2>7 DEF Says
  <2>10. /\ statics'.show_argv = (cmd'.verbose \/ Says(Carried, "show-argv"))
         /\ statics'.command = Says(Carried, "c")
         /\ statics'.append_argv = Says(Carried, "append-argv")
    BY <2>7, <2>8 DEF Says
  <2> QED
    BY <2>3, <2>6, <2>8, <2>9, <2>10 DEF CommandRight, Says, LastArg, Given,
                                         ArgOf
<1> QED
  BY <1>1, <1>2, <1>3, <1>4, TurnCases

(***************************************************************************)
(* The environment.                                                        *)
(***************************************************************************)
LEMMA NameIs ==
  ASSUME NEW text \in Seq(Tokens)
  PROVE  /\ NameLength(text) \in 0 .. Len(text)
         /\ NameOf(text) \in Seq(Tokens)
         /\ Len(NameOf(text)) = NameLength(text)
         /\ \A k \in 1 .. NameLength(text) : NameOf(text)[k] = text[k]
<1> DEFINE ends == {i \in DOMAIN text : text[i] = "="}
<1>1. Len(text) \in Nat /\ ends \subseteq Nat /\ ends \subseteq 1 .. Len(text)
  OBVIOUS
<1>2. NameLength(text) \in 0 .. Len(text)
  <2>1. CASE ends = {}
    BY <1>1, <2>1 DEF NameLength
  <2>2. CASE ends # {}
    <3>1. Min(ends) \in ends
      BY <1>1, <2>2, MinOf
    <3>2. NameLength(text) = Min(ends) - 1
      BY <2>2 DEF NameLength
    <3> HIDE DEF ends
    <3>3. Min(ends) \in 1 .. Len(text)
      BY <1>1, <3>1
    <3> QED
      BY <1>1, <3>2, <3>3
  <2> QED
    BY <2>1, <2>2
<1> DEFINE n == NameLength(text)
<1>3. n \in 0 .. Len(text) /\ NameOf(text) = SubSeq(text, 1, n)
  BY <1>2 DEF NameOf
<1> HIDE DEF n
<1>4. /\ NameOf(text) \in Seq(Tokens) /\ Len(NameOf(text)) = n
      /\ \A k \in 1 .. n : NameOf(text)[k] = text[k]
  BY <1>1, <1>3
<1> QED
  BY <1>3, <1>4 DEF n

\* What the code takes for an assignment is one.
Assigns(text) == HasValue(text) /\ IsIdentifier(NameOf(text))

LEMMA AssignmentIs ==
  ASSUME NEW text \in Seq(Tokens)
  PROVE  IsAssignment(text) <=> Assigns(text)
<1> DEFINE n == NameLength(text)
           name == NameOf(text)
<1>1. /\ n \in 0 .. Len(text) /\ name \in Seq(Tokens) /\ Len(name) = n
      /\ \A k \in 1 .. n : name[k] = text[k]
  BY NameIs
<1> HIDE DEF n, name
<1>2. n \in Nat /\ DOMAIN name = 1 .. n /\ (name # <<>> <=> n # 0)
  BY <1>1
<1>3. (\A k \in DOMAIN name : is_ident(name[k])) <=>
        \A i \in 1 .. n : is_ident(text[i])
  BY <1>1, <1>2
<1>4. ASSUME n # 0, \A i \in 1 .. n : is_ident(text[i])
      PROVE  is_ident_start(text[1]) <=> name[1] \notin ToSet(Digits)
  <2>1. 1 \in 1 .. n
    BY <1>2, <1>4
  <2> QED
    BY <1>1, <1>4, <2>1 DEF is_ident_start
<1>5. IsIdentifier(name) <=>
        /\ n # 0 /\ \A i \in 1 .. n : is_ident(text[i])
        /\ name[1] \notin ToSet(Digits)
  BY <1>2, <1>3 DEF IsIdentifier
<1>6. IsAssignment(text) <=>
        /\ \A i \in 1 .. n : is_ident(text[i])
        /\ n # 0 /\ is_ident_start(text[1]) /\ HasValue(text)
  BY DEF IsAssignment, n
<1> QED
  BY <1>4, <1>5, <1>6 DEF Assigns, name

Cleared(outs) == Max(Given(outs, "clearenv") \cup {0})

Assigned(outs) ==
  {i \in Given(outs, "env") : i > Cleared(outs) /\ Assigns(ArgOf(outs, i))}

NameIn(outs, i) == NameOf(ArgOf(outs, i))
Names(outs) == {NameIn(outs, i) : i \in Assigned(outs)}
ByName(outs, name) == {i \in Assigned(outs) : NameIn(outs, i) = name}
ValueIn(outs, name) == ValueOf(ArgOf(outs, Max(ByName(outs, name))))

LEMMA EnvAskedIs ==
  ASSUME NEW outs
  PROVE  EnvAsked(outs) = [name \in Names(outs) |-> ValueIn(outs, name)]
<1>1. Assigned(outs) =
        {i \in Given(outs, "env") :
           /\ i > Cleared(outs)
           /\ HasValue(ArgOf(outs, i))
           /\ IsIdentifier(NameOf(ArgOf(outs, i)))}
  BY DEF Assigned, Assigns
<1> QED
  BY <1>1 DEF EnvAsked, Names, NameIn, ByName, ValueIn, Cleared

LEMMA ClearedOK ==
  ASSUME NEW outs \in Seq(OutSet)
  PROVE  Cleared(outs) \in 0 .. Len(outs)
<1>1. /\ Len(outs) \in Nat /\ Given(outs, "clearenv") \in SUBSET (0 .. Len(outs))
  BY GivenIn
<1> DEFINE S == Given(outs, "clearenv") \cup {0}
<1>2. S \in SUBSET (0 .. Len(outs)) /\ S # {}
  BY <1>1
<1> HIDE DEF S
<1>3. Max(S) \in S
  BY <1>1, <1>2, MaxOf
<1> QED
  BY <1>2, <1>3 DEF Cleared, S

\* Another option, and what becomes of the environment.
LEMMA EnvCleared ==
  ASSUME NEW outs \in Seq(OutSet), NEW out \in OutSet, out.c = "clearenv"
  PROVE  EnvAsked(Append(outs, out)) = [name \in {} |-> <<>>]
<1> DEFINE more == Append(outs, out)
           n == Len(outs)
<1>1. /\ Given(more, "clearenv") = Given(outs, "clearenv") \cup {n + 1}
      /\ Given(more, "env") = Given(outs, "env")
  BY GivenMore
<1>2. /\ n \in Nat /\ Given(outs, "clearenv") \in SUBSET (0 .. n)
      /\ Given(outs, "env") \in SUBSET (1 .. n)
  BY GivenIn
<1> HIDE DEF more, n
<1>3. Cleared(more) = n + 1
  <2> DEFINE S == Given(more, "clearenv") \cup {0}
  <2>1. S \in SUBSET (0 .. n + 1) /\ n + 1 \in S /\ n + 1 \in Nat
        /\ \A y \in S : y <= n + 1
    BY <1>1, <1>2
  <2> HIDE DEF S
  <2>2. Max(S) = n + 1
    BY <2>1, MaxIs
  <2> QED
    BY <2>2 DEF Cleared, S
<1>4. Assigned(more) = {}
  BY <1>1, <1>2, <1>3 DEF Assigned
<1>5. Names(more) = {}
  BY <1>4 DEF Names
<1>6. [name \in {} |-> ValueIn(more, name)] = [name \in {} |-> <<>>]
  OBVIOUS
<1> QED
  BY <1>5, <1>6, EnvAskedIs DEF more

LEMMA SameCleared ==
  ASSUME NEW outs \in Seq(OutSet), NEW out \in OutSet, out.c # "clearenv"
  PROVE  Cleared(Append(outs, out)) = Cleared(outs)
BY GivenMore DEF Cleared

LEMMA LastByName ==
  ASSUME NEW outs \in Seq(OutSet), NEW name \in Names(outs)
  PROVE  Max(ByName(outs, name)) \in Assigned(outs)
<1>1. Len(outs) \in Nat /\ Given(outs, "env") \in SUBSET (0 .. Len(outs))
  BY GivenIn
<1>2. /\ ByName(outs, name) \in SUBSET (0 .. Len(outs))
      /\ ByName(outs, name) # {} /\ ByName(outs, name) \subseteq Assigned(outs)
  BY <1>1 DEF ByName, Assigned, Names
<1>3. Max(ByName(outs, name)) \in ByName(outs, name)
  BY <1>1, <1>2, MaxOf
<1> QED
  BY <1>2, <1>3

LEMMA EnvSame ==
  ASSUME NEW outs \in Seq(OutSet), NEW out \in OutSet, out.c # "clearenv",
         out.c = "env" => ~Assigns(out.arg[1])
  PROVE  EnvAsked(Append(outs, out)) = EnvAsked(outs)
<1> DEFINE more == Append(outs, out)
           n == Len(outs)
<1>1. /\ out.c = "env" => Given(more, "env") = Given(outs, "env") \cup {n + 1}
      /\ out.c # "env" => Given(more, "env") = Given(outs, "env")
      /\ \A i \in Given(outs, "env") : ArgOf(more, i) = ArgOf(outs, i)
      /\ ArgOf(more, n + 1) = out.arg[1]
      /\ Cleared(more) = Cleared(outs)
  BY GivenMore, SameCleared
<1> HIDE DEF more, n
<1>2. Assigned(more) = Assigned(outs)
  BY <1>1 DEF Assigned
<1>3. \A i \in Assigned(outs) : ArgOf(more, i) = ArgOf(outs, i)
  BY <1>1 DEF Assigned
<1>4. Names(more) = Names(outs)
  BY <1>2, <1>3 DEF Names, NameIn
<1>5. \A name : ByName(more, name) = ByName(outs, name)
  BY <1>2, <1>3 DEF ByName, NameIn
<1>6. \A name \in Names(outs) : ValueIn(more, name) = ValueIn(outs, name)
  <2> TAKE name \in Names(outs)
  <2>1. Max(ByName(outs, name)) \in Assigned(outs)
    BY LastByName DEF n
  <2> QED
    BY <1>3, <1>5, <2>1 DEF ValueIn
<1>7. EnvAsked(more) = [name \in Names(outs) |-> ValueIn(outs, name)]
  BY <1>4, <1>6, EnvAskedIs
<1> QED
  BY <1>7, EnvAskedIs DEF more

LEMMA EnvMore ==
  ASSUME NEW outs \in Seq(OutSet), NEW out \in OutSet, out.c = "env",
         Assigns(out.arg[1])
  PROVE  EnvAsked(Append(outs, out)) =
           WithValue(EnvAsked(outs), NameOf(out.arg[1]), ValueOf(out.arg[1]))
<1> DEFINE more == Append(outs, out)
           n == Len(outs)
           new == NameOf(out.arg[1])
<1>1. /\ Given(more, "env") = Given(outs, "env") \cup {n + 1}
      /\ \A i \in Given(outs, "env") : ArgOf(more, i) = ArgOf(outs, i)
      /\ ArgOf(more, n + 1) = out.arg[1]
      /\ Cleared(more) = Cleared(outs)
  BY GivenMore, SameCleared
<1>2. n \in Nat /\ Given(outs, "env") \in SUBSET (1 .. n)
      /\ Cleared(outs) \in 0 .. n
  BY GivenIn, ClearedOK
<1> HIDE DEF more, n
<1>3. n + 1 > Cleared(outs) /\ n + 1 \in Nat
  BY <1>2
<1>4. Assigned(more) = Assigned(outs) \cup {n + 1}
  <2>1. ASSUME NEW i \in Given(outs, "env")
        PROVE  i \in Assigned(more) <=> i \in Assigned(outs)
    BY <1>1, <2>1 DEF Assigned
  <2>2. n + 1 \in Assigned(more)
    BY <1>1, <1>3 DEF Assigned
  <2>3. /\ Assigned(outs) \subseteq Given(outs, "env")
        /\ Assigned(more) \subseteq Given(outs, "env") \cup {n + 1}
    BY <1>1 DEF Assigned
  <2> QED
    BY <2>1, <2>2, <2>3
<1>5. \A i \in Assigned(outs) : ArgOf(more, i) = ArgOf(outs, i) /\ i \in 1 .. n
  BY <1>1, <1>2 DEF Assigned
<1>6. Names(more) = Names(outs) \cup {new}
  BY <1>1, <1>4, <1>5 DEF Names, NameIn
<1>7. ASSUME NEW name \in Names(outs), name # new
      PROVE  ValueIn(more, name) = ValueIn(outs, name)
  <2>1. ByName(more, name) = ByName(outs, name)
    BY <1>1, <1>4, <1>5, <1>7 DEF ByName, NameIn
  <2>2. Max(ByName(outs, name)) \in Assigned(outs)
    BY LastByName DEF n
  <2> QED
    BY <1>5, <2>1, <2>2 DEF ValueIn
<1>8. ValueIn(more, new) = ValueOf(out.arg[1])
  <2>1. /\ ByName(more, new) \in SUBSET (0 .. n + 1)
        /\ n + 1 \in ByName(more, new)
        /\ \A i \in ByName(more, new) : i <= n + 1
    BY <1>1, <1>2, <1>3, <1>4, <1>5 DEF ByName, NameIn
  <2>2. Max(ByName(more, new)) = n + 1
    BY <1>3, <2>1, MaxIs
  <2> QED
    BY <1>1, <2>2 DEF ValueIn
<1> HIDE DEF new
<1>9. EnvAsked(more) = [name \in Names(outs) \cup {new} |-> ValueIn(more, name)]
  BY <1>6, EnvAskedIs
<1>10. EnvAsked(outs) = [name \in Names(outs) |-> ValueIn(outs, name)]
  BY EnvAskedIs
<1>11. WithValue(EnvAsked(outs), new, ValueOf(out.arg[1])) =
         [name \in Names(outs) \cup {new} |->
            IF name = new THEN ValueOf(out.arg[1]) ELSE ValueIn(outs, name)]
  BY <1>10 DEF WithValue
<1>12. [name \in Names(outs) \cup {new} |-> ValueIn(more, name)] =
         [name \in Names(outs) \cup {new} |->
            IF name = new THEN ValueOf(out.arg[1]) ELSE ValueIn(outs, name)]
  BY <1>7, <1>8
<1> QED
  BY <1>9, <1>11, <1>12 DEF more, new

\* The environment is what the options that have been carried out ask for.
EnvIs == env = EnvAsked(Carried)

LEMMA InitEnv ==
  ASSUME UshInit
  PROVE  EnvIs
<1>1. env = [name \in {} |-> <<>>] /\ Carried = <<>>
  BY DEF UshInit, Init, Carried
<1>2. Given(<<>>, "env") = {}
  BY DEF Given
<1>3. Assigned(<<>>) = {}
  BY <1>2 DEF Assigned
<1>4. Names(<<>>) = {}
  BY <1>3 DEF Names
<1>5. EnvAsked(<<>>) = [name \in {} |-> ValueIn(<<>>, name)]
  BY <1>4, EnvAskedIs
<1> QED
  BY <1>1, <1>5 DEF EnvIs

LEMMA EnvKept ==
  ASSUME Ask \/ Parse \/ TooManyErrors \/ Exits \/ LoopEnds
           \/ UNCHANGED allVars
  PROVE  env' = env
BY DEF Ask, Parse, TooManyErrors, Exits, LoopEnds, allVars, ushVars

LEMMA EnvSet ==
  ASSUME Turns, Handles
  PROVE  env' = IF optc = "clearenv" THEN [name \in {} |-> <<>>]
                ELSE IF optc = "env" /\ IsAssignment(optarg[1])
                  THEN WithValue(env, NameOf(optarg[1]), ValueOf(optarg[1]))
                ELSE env
<1>1. CASE OptRecorded
  BY <1>1 DEF OptRecorded, Returned, Recorded
<1>2. CASE \/ OptDebug \/ OptVerbose \/ OptCommand \/ OptAppendArgv
           \/ OptShowArgv \/ OptReplace \/ OptEncoding
  BY <1>2 DEF OptDebug, OptVerbose, OptCommand, OptAppendArgv, OptShowArgv,
       OptReplace, OptEncoding, Sets, Returned
<1>3. CASE OptFork \/ OptBadUmask \/ OptUmask \/ OptWrong
  BY <1>3 DEF OptFork, OptBadUmask, OptUmask, OptWrong, Returned
<1>4. CASE OptClearenv \/ OptEnv
  BY <1>4 DEF OptClearenv, OptEnv, Returned
<1>5. CASE Ask \/ Parse \/ TooManyErrors \/ Exits \/ LoopEnds
  BY <1>5 DEF Ask, Parse, TooManyErrors, Exits, LoopEnds, Handles, ushVars
<1> QED
  BY <1>1, <1>2, <1>3, <1>4, <1>5 DEF Turns

LEMMA TurnKeepsEnv ==
  ASSUME Parses, Line, EnvIs, Turns \/ UNCHANGED allVars
  PROVE  EnvIs'
<1>1. CASE Handles /\ Turns
  <2> DEFINE out == Last(parsed)
  <2>1. /\ Carried' = Append(Carried, out)
        /\ Carried \in Seq(OutSet) /\ out \in OutSet
        /\ out.c = optc /\ out.arg = optarg
        /\ optc \in TakeOne => optarg # <<>>
    BY <1>1, HandlesNext
  <2> HIDE DEF out
  <2>2. EnvAsked(Append(Carried, out)) =
          IF optc = "clearenv" THEN [name \in {} |-> <<>>]
          ELSE IF optc = "env" /\ Assigns(optarg[1])
            THEN WithValue(EnvAsked(Carried), NameOf(optarg[1]),
                           ValueOf(optarg[1]))
          ELSE EnvAsked(Carried)
    <3>1. CASE optc = "clearenv"
      BY <2>1, <3>1, EnvCleared
    <3>2. CASE optc = "env" /\ Assigns(optarg[1])
      BY <2>1, <3>2, EnvMore
    <3>3. CASE optc # "clearenv" /\ (optc = "env" => ~Assigns(optarg[1]))
      BY <2>1, <3>3, EnvSame
    <3> QED
      BY <3>1, <3>2, <3>3
  <2>3. optc = "env" => (IsAssignment(optarg[1]) <=> Assigns(optarg[1]))
    <3>1. optarg \in Seq(Seq(Tokens))
      BY <2>1 DEF OutSet
    <3> QED
      BY <2>1, <3>1, ArgOK, AssignmentIs DEF Parses, TakeOne
  <2>4. env' = IF optc = "clearenv" THEN [name \in {} |-> <<>>]
               ELSE IF optc = "env" /\ IsAssignment(optarg[1])
                 THEN WithValue(env, NameOf(optarg[1]), ValueOf(optarg[1]))
               ELSE env
    BY <1>1, EnvSet
  <2>5. PICK more : more = Append(Carried, out)
    OBVIOUS
  <2>6. Carried' = more
    BY <2>1, <2>5
  <2>7. env' = EnvAsked(more)
    BY <2>2, <2>3, <2>4, <2>5 DEF EnvIs
  <2> QED
    BY <2>6, <2>7 DEF EnvIs
<1>2. CASE Ask \/ Parse \/ TooManyErrors \/ Exits \/ LoopEnds
             \/ UNCHANGED allVars
  <2>1. Carried' = Carried /\ env' = env
    BY <1>2, OthersNext, EnvKept
  <2> QED
    BY <2>1 DEF EnvIs
<1> QED
  BY <1>1, <1>2, TurnCases

LEMMA EnvFollows ==
  ASSUME Parses, Line, EnvIs
  PROVE  EnvRight
<1> SUFFICES ASSUME at = "returned", optc = "end"
             PROVE  env = EnvAsked(Asked)
  BY DEF EnvRight
<1>1. pc = "caller"
  BY DEF Line
<1>2. asked = <<parsed, SubSeq(argv, optind, Len(argv))>> /\ Carried = parsed
  BY <1>1, AskedBegins DEF Carried
<1>3. Asked = Carried
  BY <1>2 DEF Asked
<1> QED
  BY <1>3 DEF EnvIs

(***************************************************************************)
(* A symbolic mask, character by character.                                *)
(***************************************************************************)
Classes == {"u", "g", "o"}
Perms == {"r", "w", "x"}

\* What class has been given.
Rights(set, class) == {p \in Perms : <<class, p>> \in set}

States ==
  [before : {"class", "=", "permission", "error"}, which : Classes \cup {""},
   set : SUBSET (Classes \X Perms), bits : [Classes -> Nat]]

\* The bits of a class are what it has been given.
Sound ==
  {s \in States :
     /\ s.before \in {"=", "permission"} => s.which \in Classes
     /\ \A class \in Classes : s.bits[class] = OctalDigit(Rights(s.set, class))}

Begin == [before |-> "class", which |-> "", set |-> {},
          bits |-> [u |-> 0, g |-> 0, o |-> 0]]

LEMMA BeginIsSound ==
  Begin \in Sound
<1>1. [u |-> 0, g |-> 0, o |-> 0] \in [Classes -> Nat]
  BY DEF Classes
<1>2. Begin \in States
  BY <1>1 DEF Begin, States
<1>3. \A class \in Classes : Begin.bits[class] = 0 /\ Rights(Begin.set, class) = {}
  BY DEF Begin, Classes, Rights
<1>4. OctalDigit({}) = 0
  BY DEF OctalDigit
<1> QED
  BY <1>2, <1>3, <1>4 DEF Sound, Begin

LEMMA ValueMore ==
  ASSUME NEW P \in SUBSET Perms, NEW p \in Perms \ P
  PROVE  OctalDigit(P \cup {p}) = OctalDigit(P) + BitOf[p] /\ OctalDigit(P) \in Nat
BY DEF OctalDigit, Perms, BitOf

LEMMA TurnIsSound ==
  ASSUME NEW s \in Sound, NEW c
  PROVE  Turn(s, c) \in Sound
<1>1. /\ s \in States /\ DOMAIN s.bits = Classes
      /\ s.before \in {"=", "permission"} => s.which \in Classes
  BY DEF Sound, States
<1>2. CASE s.before = "class" /\ c \in DOMAIN s.bits /\ s.bits[c] = 0
  <2>1. Turn(s, c) = [s EXCEPT !.before = "=", !.which = c]
    BY <1>2 DEF Turn
  <2> QED
    BY <1>1, <1>2, <2>1 DEF Sound, States
<1>3. CASE s.before = "=" /\ c = "="
  <2>1. Turn(s, c) = [s EXCEPT !.before = "permission"]
    BY <1>3 DEF Turn
  <2> QED
    BY <1>1, <1>3, <2>1 DEF Sound, States
<1>4. CASE s.before = "permission" /\ c = ","
  <2>1. Turn(s, c) = [s EXCEPT !.before = "class"]
    BY <1>4 DEF Turn, BitOf
  <2> QED
    BY <1>1, <1>4, <2>1 DEF Sound, States
<1>5. CASE s.before = "permission" /\ c \in Perms /\ <<s.which, c>> \notin s.set
  <2>1. Turn(s, c) = [s EXCEPT !.bits[s.which] = @ + BitOf[c],
                               !.set = @ \cup {<<s.which, c>>}]
    BY <1>5 DEF Turn, Perms, BitOf
  <2> DEFINE t == Turn(s, c)
             class == s.which
  <2>2. /\ t.before = s.before /\ t.which = s.which
        /\ t.set = s.set \cup {<<class, c>>}
        /\ t.bits = [s.bits EXCEPT ![class] = @ + BitOf[c]]
        /\ t = [before |-> t.before, which |-> t.which, set |-> t.set,
                bits |-> t.bits]
    BY <1>1, <2>1 DEF States
  <2>3. class \in Classes
    BY <1>1, <1>5
  <2>4. BitOf[c] \in Nat
    BY <1>5 DEF BitOf, Perms
  <2>5. t \in States
    <3>1. s.bits \in [Classes -> Nat] /\ s.set \in SUBSET (Classes \X Perms)
      BY <1>1 DEF States
    <3>2. t.bits \in [Classes -> Nat]
      <4>1. s.bits[class] + BitOf[c] \in Nat
        BY <2>3, <2>4, <3>1
      <4> HIDE DEF t, class
      <4> QED
        BY <2>2, <2>3, <3>1, <4>1
    <3>3. t.set \in SUBSET (Classes \X Perms)
      BY <1>5, <2>2, <2>3, <3>1
    <3> HIDE DEF t
    <3> QED
      BY <1>1, <2>2, <3>2, <3>3 DEF States
  <2>6. Rights(t.set, class) = Rights(s.set, class) \cup {c}
        /\ c \notin Rights(s.set, class)
    BY <1>5, <2>2 DEF Rights
  <2>7. \A other \in Classes : other # class =>
          Rights(t.set, other) = Rights(s.set, other)
    BY <2>2 DEF Rights
  <2>8. \A other \in Classes :
          t.bits[other] = IF other = class THEN s.bits[class] + BitOf[c]
                          ELSE s.bits[other]
    BY <1>1, <2>2
  <2>9. OctalDigit(Rights(t.set, class)) = OctalDigit(Rights(s.set, class)) + BitOf[c]
    BY <1>5, <2>6, ValueMore DEF Rights
  <2> HIDE DEF t
  <2> QED
    BY <1>1, <2>2, <2>3, <2>5, <2>7, <2>8, <2>9 DEF Sound, t
<1>6. CASE Turn(s, c) = [s EXCEPT !.before = "error"]
  BY <1>1, <1>6 DEF Sound, States
<1> QED
  BY <1>2, <1>3, <1>4, <1>5, <1>6 DEF Turn, Perms, BitOf

\* The states of parse_umask(), one for each number of characters read.
TurnsOf(text) ==
  LET turns[i \in 0 .. Len(text)] ==
        IF i = 0 THEN [before |-> "class", which |-> "", set |-> {},
                       bits |-> [u |-> 0, g |-> 0, o |-> 0]]
        ELSE Turn(turns[i - 1], text[i])
  IN  turns

LEMMA TurnsIs ==
  ASSUME NEW text \in Seq(Tokens)
  PROVE  /\ parse_umask(text) = TurnsOf(text)[Len(text)]
         /\ TurnsOf(text) \in [0 .. Len(text) -> Sound]
         /\ TurnsOf(text)[0] = Begin
         /\ \A i \in 1 .. Len(text) :
              TurnsOf(text)[i] = Turn(TurnsOf(text)[i - 1], text[i])
<1> DEFINE n == Len(text)
           D == 0 .. n
           rank == [i \in D |-> i]
           value(f, i) == IF i = 0 THEN Begin ELSE Turn(f[i - 1], text[i])
           G == [p \in [D -> Sound] \X D |-> value(p[1], p[2])]
           turns == TurnsOf(text)
<1>0. parse_umask(text) = turns[n]
  BY DEF parse_umask, TurnsOf
<1>1. n \in Nat /\ rank \in [D -> 0 .. n]
  OBVIOUS
<1>2. ASSUME NEW f \in [D -> Sound], NEW i \in D PROVE value(f, i) \in Sound
  <2>1. i # 0 => i - 1 \in D
    BY <1>1
  <2> HIDE DEF D
  <2> QED
    BY <2>1, BeginIsSound, TurnIsSound
<1>3. LooksBelow(G, D, Sound, rank, n)
  <2>1. G \in [[D -> Sound] \X D -> Sound]
    <3> HIDE DEF D, value
    <3> QED
      BY <1>2
  <2>2. ASSUME NEW i \in D, NEW g \in [D -> Sound], NEW h \in [D -> Sound],
               \A j \in D : rank[j] < rank[i] => g[j] = h[j]
        PROVE  value(g, i) = value(h, i)
    <3>1. i # 0 => i - 1 \in D /\ rank[i - 1] < rank[i]
      BY <1>1
    <3>2. i # 0 => g[i - 1] = h[i - 1]
      BY <2>2, <3>1
    <3> QED
      BY <3>2
  <2> HIDE DEF D, value, rank
  <2> QED
    BY <1>1, <2>1, <2>2, BeginIsSound DEF LooksBelow
<1>4. PICK f : Solves(f, G, D, Sound)
  <2> HIDE DEF D, G, rank, n
  <2> QED
    BY <1>3, RecursionExists
<1>5. f \in [D -> Sound] /\ \A i \in D : f[i] = value(f, i)
  <2> HIDE DEF D, value
  <2> QED
    BY <1>4 DEF Solves
<1>6. f = [i \in D |-> value(f, i)]
  <2> HIDE DEF D, value
  <2> QED
    BY <1>5
<1>7. turns = [i \in D |-> value(turns, i)]
  BY <1>6 DEF TurnsOf, Begin
<1>8. \A i \in D : turns[i] = value(turns, i)
  <2> HIDE DEF D, value, turns
  <2> QED
    BY <1>7
<1>9. turns[0] = Begin /\ \A i \in 1 .. n : turns[i] = Turn(turns[i - 1], text[i])
  <2> HIDE DEF turns
  <2>1. 0 \in D /\ \A i \in 1 .. n : i \in D /\ i # 0
    BY <1>1
  <2> QED
    BY <1>8, <2>1
<1> HIDE DEF turns, n
<1>10. \A i \in D : turns[i] \in Sound
  <2> DEFINE Is == {k \in Nat : k <= n => turns[k] \in Sound}
  <2>1. 0 \in Is
    BY <1>9, BeginIsSound
  <2>2. ASSUME NEW k \in Nat, k \in Is PROVE k + 1 \in Is
    <3> SUFFICES ASSUME k + 1 <= n PROVE turns[k + 1] \in Sound
      OBVIOUS
    <3>1. k + 1 \in 1 .. n /\ k <= n /\ k + 1 - 1 = k
      BY <1>1
    <3> QED
      BY <1>9, <2>2, <3>1, TurnIsSound
  <2> HIDE DEF Is
  <2>3. Nat \subseteq Is
    BY <2>1, <2>2, Induction
  <2> QED
    BY <1>1, <2>3 DEF Is
<1>11. turns \in [D -> Sound]
  <2> HIDE DEF value
  <2> QED
    BY <1>7, <1>10
<1> QED
  BY <1>0, <1>9, <1>11 DEF turns, n

\* What an argument of --umask means is a mask.
LEMMA UmaskIsMask ==
  ASSUME NEW text \in Seq(Tokens)
  PROVE  UmaskOf(text) \subseteq 0 .. 511
<1>1. CASE is_octal(text)
  BY <1>1 DEF UmaskOf
<1>2. CASE ~is_octal(text)
  <2> DEFINE end == parse_umask(text)
  <2>1. end \in Sound
    <3>1. Len(text) \in 0 .. Len(text)
      BY LenProperties
    <3> QED
      BY <3>1, TurnsIs
  <2>2. UmaskOf(text) \subseteq {64 * end.bits.u + 8 * end.bits.g + end.bits.o}
    BY <1>2 DEF UmaskOf
  <2> HIDE DEF end
  <2>3. \A P : OctalDigit(P) \in 0 .. 7
    BY DEF OctalDigit
  <2>4. end.bits.u \in 0 .. 7 /\ end.bits.g \in 0 .. 7 /\ end.bits.o \in 0 .. 7
    BY <2>1, <2>3 DEF Sound, Classes
  <2>5. PICK u \in 0 .. 7, g \in 0 .. 7, o \in 0 .. 7 :
          u = end.bits.u /\ g = end.bits.g /\ o = end.bits.o
    BY <2>4
  <2>6. 64 * u + 8 * g + o \in 0 .. 511
    OBVIOUS
  <2> QED
    BY <2>2, <2>5, <2>6
<1> QED
  BY <1>1, <1>2

\* Where the clause begins to which a character belongs; a comma belongs to the
\* clause in front of it.
IsComma(text, j) == text[j] = ","
CommasBefore(text, k) == {j \in DOMAIN text : IsComma(text, j) /\ j < k}
HeadOf(text, k) == Max(CommasBefore(text, k) \cup {0}) + 1

\* A place where the clause of the character at k may begin.
Heads(text, k, h) ==
  /\ h \in 1 .. k
  /\ h = 1 \/ IsComma(text, h - 1)
  /\ \A j \in h .. k - 1 : ~IsComma(text, j)

LEMMA Places ==
  ASSUME NEW text \in Seq(Tokens), NEW k \in 1 .. Len(text) + 1
  PROVE  Len(text) \in Nat /\ k \in Nat /\ DOMAIN text = 1 .. Len(text)
<1>1. Len(text) \in Nat /\ DOMAIN text = 1 .. Len(text)
  BY LenProperties
<1> QED
  BY <1>1

LEMMA HeadIs ==
  ASSUME NEW text \in Seq(Tokens), NEW k \in 1 .. Len(text) + 1
  PROVE  Heads(text, k, HeadOf(text, k))
<1> DEFINE S == CommasBefore(text, k) \cup {0}
           h == Max(S)
<1>1. Len(text) \in Nat /\ k \in Nat \ {0} /\ DOMAIN text = 1 .. Len(text)
  <2>1. k >= 1
    BY Places
  <2> QED
    BY <2>1, Places
<1>2. CommasBefore(text, k) = {j \in 1 .. Len(text) : IsComma(text, j) /\ j < k}
  BY <1>1 DEF CommasBefore
<1>3. /\ S \in SUBSET (0 .. k) /\ S # {} /\ S \subseteq 0 .. k - 1
      /\ \A j \in 1 .. k - 1 : IsComma(text, j) => j \in S
      /\ \A j \in S : j # 0 => IsComma(text, j)
  BY <1>1, <1>2
<1> HIDE DEF S
<1>4. h \in S /\ \A y \in S : y <= h
  BY <1>1, <1>3, MaxOf
<1> HIDE DEF h
<1>5. h \in 0 .. k - 1 /\ \A j \in h + 1 .. k - 1 : ~IsComma(text, j)
  BY <1>1, <1>3, <1>4
<1>6. HeadOf(text, k) = h + 1 /\ (h # 0 => IsComma(text, h))
  <2>1. HeadOf(text, k) = h + 1
    BY DEF HeadOf, h, S
  <2> QED
    BY <1>3, <1>4, <2>1
<1>7. Heads(text, k, h + 1)
  <2>1. h + 1 \in 1 .. k /\ h + 1 - 1 = h /\ (h + 1 = 1 <=> h = 0)
    BY <1>1, <1>5
  <2> QED
    BY <1>5, <1>6, <2>1 DEF Heads
<1> QED
  BY <1>6, <1>7

\* There is only one such place.
LEMMA HeadUnique ==
  ASSUME NEW text \in Seq(Tokens), NEW k \in 1 .. Len(text) + 1,
         NEW h, Heads(text, k, h)
  PROVE  HeadOf(text, k) = h
<1> DEFINE g == HeadOf(text, k)
<1>1. Heads(text, k, g)
  BY HeadIs
<1> HIDE DEF g
<1>2. k \in Nat
  BY Places
<1>3. /\ g \in 1 .. k /\ (g = 1 \/ IsComma(text, g - 1))
      /\ \A j \in g .. k - 1 : ~IsComma(text, j)
      /\ h \in 1 .. k /\ (h = 1 \/ IsComma(text, h - 1))
      /\ \A j \in h .. k - 1 : ~IsComma(text, j)
  BY <1>1 DEF Heads
<1>4. ~(g < h)
  <2> SUFFICES ASSUME g < h PROVE FALSE
    OBVIOUS
  <2>1. h # 1 /\ h - 1 \in g .. k - 1
    BY <1>2, <1>3
  <2> QED
    BY <1>3, <2>1
<1>5. ~(h < g)
  <2> SUFFICES ASSUME h < g PROVE FALSE
    OBVIOUS
  <2>1. g # 1 /\ g - 1 \in h .. k - 1
    BY <1>2, <1>3
  <2> QED
    BY <1>3, <2>1
<1>6. g = h
  BY <1>2, <1>3, <1>4, <1>5
<1> QED
  BY <1>6 DEF g

LEMMA HeadFirst ==
  ASSUME NEW text \in Seq(Tokens)
  PROVE  HeadOf(text, 1) = 1
<1>1. 1 \in 1 .. Len(text) + 1
  <2>1. Len(text) \in Nat
    BY LenProperties
  <2> QED
    BY <2>1
<1>2. HeadOf(text, 1) \in 1 .. 1
  BY <1>1, HeadIs DEF Heads
<1> QED
  BY <1>2

LEMMA HeadNext ==
  ASSUME NEW text \in Seq(Tokens), NEW k \in 1 .. Len(text)
  PROVE  HeadOf(text, k + 1) =
           IF IsComma(text, k) THEN k + 1 ELSE HeadOf(text, k)
<1>1. /\ Len(text) \in Nat /\ k \in Nat /\ k + 1 - 1 = k
      /\ k \in 1 .. Len(text) + 1 /\ k + 1 \in 1 .. Len(text) + 1
  <2>1. Len(text) \in Nat
    BY LenProperties
  <2> QED
    BY <2>1
<1>2. CASE IsComma(text, k)
  <2>1. k + 1 \in 1 .. k + 1 /\ k + 1 .. k = {}
    BY <1>1
  <2>2. Heads(text, k + 1, k + 1)
    BY <1>1, <1>2, <2>1 DEF Heads
  <2>3. HeadOf(text, k + 1) = k + 1
    BY <1>1, <2>2, HeadUnique
  <2> QED
    BY <1>2, <2>3
<1>3. CASE ~IsComma(text, k)
  <2> DEFINE h == HeadOf(text, k)
  <2>1. h \in 1 .. k /\ (h = 1 \/ IsComma(text, h - 1))
        /\ \A j \in h .. k - 1 : ~IsComma(text, j)
    BY <1>1, HeadIs DEF Heads
  <2> HIDE DEF h
  <2>2. h \in 1 .. k + 1 /\ \A j \in h .. k : j = k \/ j \in h .. k - 1
    BY <1>1, <2>1
  <2>3. Heads(text, k + 1, h)
    BY <1>1, <1>3, <2>1, <2>2 DEF Heads
  <2>4. HeadOf(text, k + 1) = h
    BY <1>1, <2>3, HeadUnique
  <2> QED
    BY <1>3, <2>4 DEF h
<1> QED
  BY <1>2, <1>3

\* Every character from the head on has the same head.
LEMMA HeadWithin ==
  ASSUME NEW text \in Seq(Tokens), NEW k \in 1 .. Len(text) + 1,
         NEW j \in HeadOf(text, k) .. k
  PROVE  HeadOf(text, j) = HeadOf(text, k)
<1> DEFINE h == HeadOf(text, k)
<1>1. h \in 1 .. k /\ (h = 1 \/ IsComma(text, h - 1))
      /\ \A i \in h .. k - 1 : ~IsComma(text, i)
  BY HeadIs DEF Heads
<1>2. Len(text) \in Nat /\ k \in Nat /\ j \in h .. k
  BY Places
<1> HIDE DEF h
<1>3. /\ j \in 1 .. Len(text) + 1 /\ h \in 1 .. j
      /\ \A i \in h .. j - 1 : i \in h .. k - 1
  BY <1>1, <1>2
<1>4. Heads(text, j, h)
  BY <1>1, <1>3 DEF Heads
<1>5. HeadOf(text, j) = h
  BY <1>3, <1>4, HeadUnique
<1> QED
  BY <1>5 DEF h

\* Heads do not go back.
LEMMA HeadGrows ==
  ASSUME NEW text \in Seq(Tokens), NEW k \in 1 .. Len(text) + 1,
         NEW j \in 1 .. k
  PROVE  /\ j < HeadOf(text, k) => HeadOf(text, j) < HeadOf(text, k)
         /\ j >= HeadOf(text, k) => HeadOf(text, j) = HeadOf(text, k)
<1> DEFINE g == HeadOf(text, j)
           h == HeadOf(text, k)
<1>1. Len(text) \in Nat /\ k \in Nat
  BY Places
<1>2. j \in 1 .. Len(text) + 1
  BY <1>1
<1>3. h \in 1 .. k /\ g \in 1 .. j
  BY <1>2, HeadIs DEF Heads
<1>4. j \in h .. k => g = h
  BY HeadWithin
<1> HIDE DEF g, h
<1>5. (j < h => g < h) /\ (j >= h => g = h)
  BY <1>1, <1>3, <1>4
<1> QED
  BY <1>5 DEF g, h

\* What a turn makes of a state, and that it reads a class that has been given
\* nothing, '=', or a permission that its class has not been given.
LEMMA TurnMeans ==
  ASSUME NEW s \in Sound, NEW c
  PROVE  LET t == Turn(s, c)
         IN  /\ s.before = "class" =>
                  IF c \in Classes /\ \A p : <<c, p>> \notin s.set
                  THEN t.before = "=" /\ t.which = c /\ t.set = s.set
                  ELSE t.before = "error"
             /\ s.before = "=" =>
                  IF c = "="
                  THEN /\ t.before = "permission" /\ t.which = s.which
                       /\ t.set = s.set
                  ELSE t.before = "error"
             /\ s.before = "permission" =>
                  IF c = "," THEN t.before = "class" /\ t.set = s.set
                  ELSE IF c \in Perms /\ <<s.which, c>> \notin s.set
                  THEN /\ t.before = "permission" /\ t.which = s.which
                       /\ t.set = s.set \cup {<<s.which, c>>}
                  ELSE t.before = "error"
             /\ s.before = "error" => t.before = "error"
<1>1. /\ s \in States /\ DOMAIN s.bits = Classes /\ DOMAIN BitOf = Perms
      /\ s = [before |-> s.before, which |-> s.which, set |-> s.set,
              bits |-> s.bits]
  BY DEF Sound, States, BitOf, Perms
<1>2. ASSUME NEW class \in Classes
      PROVE  s.bits[class] = 0 <=> \A p : <<class, p>> \notin s.set
  <2>1. s.bits[class] = OctalDigit(Rights(s.set, class))
    BY DEF Sound
  <2>2. \A P \in SUBSET Perms : OctalDigit(P) = 0 <=> P = {}
    BY DEF OctalDigit, Perms
  <2>3. Rights(s.set, class) \in SUBSET Perms
    BY DEF Rights
  <2>4. Rights(s.set, class) = {} <=> \A p : <<class, p>> \notin s.set
    BY <1>1 DEF Rights, States
  <2> QED
    BY <2>1, <2>2, <2>3, <2>4
<1>3. CASE s.before = "class"
  <2>1. CASE c \in Classes /\ s.bits[c] = 0
    <3>1. Turn(s, c) = [s EXCEPT !.before = "=", !.which = c]
      BY <1>1, <1>3, <2>1 DEF Turn
    <3> QED
      BY <1>1, <1>2, <1>3, <2>1, <3>1
  <2>2. CASE ~(c \in Classes /\ s.bits[c] = 0)
    <3>1. Turn(s, c) = [s EXCEPT !.before = "error"]
      BY <1>1, <1>3, <2>2 DEF Turn
    <3> QED
      BY <1>1, <1>2, <1>3, <2>2, <3>1
  <2> QED
    BY <2>1, <2>2
<1>4. CASE s.before = "="
  <2>1. Turn(s, c) = IF c = "=" THEN [s EXCEPT !.before = "permission"]
                     ELSE [s EXCEPT !.before = "error"]
    BY <1>4 DEF Turn
  <2> QED
    BY <1>1, <1>4, <2>1
<1>5. CASE s.before = "permission"
  <2>1. CASE c = ","
    <3>1. Turn(s, c) = [s EXCEPT !.before = "class"]
      BY <1>5, <2>1 DEF Turn, BitOf
    <3> QED
      BY <1>1, <1>5, <2>1, <3>1
  <2>2. CASE c # "," /\ c \in Perms /\ <<s.which, c>> \notin s.set
    <3>1. Turn(s, c) = [s EXCEPT !.bits[s.which] = @ + BitOf[c],
                                 !.set = @ \cup {<<s.which, c>>}]
      BY <1>1, <1>5, <2>2 DEF Turn
    <3> QED
      BY <1>1, <1>5, <2>2, <3>1
  <2>3. CASE c # "," /\ ~(c \in Perms /\ <<s.which, c>> \notin s.set)
    <3>1. Turn(s, c) = [s EXCEPT !.before = "error"]
      BY <1>1, <1>5, <2>3 DEF Turn
    <3> QED
      BY <1>1, <1>5, <2>3, <3>1
  <2> QED
    BY <2>1, <2>2, <2>3
<1>6. CASE s.before = "error"
  <2>1. Turn(s, c) = [s EXCEPT !.before = "error"]
    BY <1>6 DEF Turn
  <2> QED
    BY <1>1, <1>6, <2>1
<1> QED
  BY <1>1, <1>3, <1>4, <1>5, <1>6 DEF States

\* The same of a character of a text, by its place in its clause.
Place(text, k) ==
  IF k = HeadOf(text, k) THEN "class"
  ELSE IF k = HeadOf(text, k) + 1 THEN "="
  ELSE "permission"

ClassAt(text, k) == text[HeadOf(text, k)]
Permits(text, k) == Place(text, k) = "permission" /\ ~IsComma(text, k)

GivenBy(text, i) ==
  {<<ClassAt(text, j), text[j]>> : j \in {k \in 1 .. i : Permits(text, k)}}

Fits(text, k) ==
  LET given == GivenBy(text, k - 1)
  IN  /\ Place(text, k) = "class" =>
           text[k] \in Classes /\ \A p : <<text[k], p>> \notin given
      /\ Place(text, k) = "=" => text[k] = "="
      /\ Place(text, k) = "permission" =>
           \/ IsComma(text, k)
           \/ text[k] \in Perms /\ <<ClassAt(text, k), text[k]>> \notin given

LEMMA PlaceNext ==
  ASSUME NEW text \in Seq(Tokens), NEW k \in 1 .. Len(text)
  PROVE  /\ IsComma(text, k) => Place(text, k + 1) = "class"
         /\ ~IsComma(text, k) =>
              /\ Place(text, k + 1) = IF Place(text, k) = "class" THEN "="
                                      ELSE "permission"
              /\ ClassAt(text, k + 1) = ClassAt(text, k)
         /\ Place(text, k) = "class" => ClassAt(text, k) = text[k]
<1> DEFINE h == HeadOf(text, k)
           g == HeadOf(text, k + 1)
<1>1. /\ Len(text) \in Nat /\ k \in Nat /\ k \in 1 .. Len(text) + 1
  <2>1. Len(text) \in Nat
    BY LenProperties
  <2> QED
    BY <2>1
<1>2. h \in 1 .. k
  BY <1>1, HeadIs DEF Heads
<1>3. g = IF IsComma(text, k) THEN k + 1 ELSE h
  BY HeadNext
<1> HIDE DEF h, g
<1>4. /\ g = k + 1 => k + 1 = g
      /\ h # k + 1 /\ (h = k => k + 1 = h + 1) /\ (h # k => k + 1 # h + 1)
  BY <1>1, <1>2
<1>5. /\ Place(text, k) = IF k = h THEN "class"
                          ELSE IF k = h + 1 THEN "=" ELSE "permission"
      /\ Place(text, k + 1) = IF k + 1 = g THEN "class"
                              ELSE IF k + 1 = g + 1 THEN "=" ELSE "permission"
      /\ ClassAt(text, k) = text[h] /\ ClassAt(text, k + 1) = text[g]
  BY DEF Place, ClassAt, h, g
<1> QED
  BY <1>3, <1>4, <1>5

LEMMA GivenByNext ==
  ASSUME NEW text \in Seq(Tokens), NEW k \in 1 .. Len(text)
  PROVE  GivenBy(text, k) =
           IF Permits(text, k)
           THEN GivenBy(text, k - 1) \cup {<<ClassAt(text, k), text[k]>>}
           ELSE GivenBy(text, k - 1)
<1>1. Len(text) \in Nat
  BY LenProperties
<1>2. 1 .. k = (1 .. k - 1) \cup {k}
  BY <1>1
<1> QED
  BY <1>2 DEF GivenBy

\* After i characters.
Reached(text, i, s) ==
  /\ s.before = "error" => \E k \in 1 .. i : ~Fits(text, k)
  /\ s.before # "error" =>
       /\ \A k \in 1 .. i : Fits(text, k)
       /\ s.before = Place(text, i + 1)
       /\ s.before # "class" => s.which = ClassAt(text, i + 1)
       /\ s.set = GivenBy(text, i)

LEMMA ReachedNext ==
  ASSUME NEW text \in Seq(Tokens), NEW k \in 1 .. Len(text), NEW s \in Sound,
         Reached(text, k - 1, s)
  PROVE  Reached(text, k, Turn(s, text[k]))
<1>1. /\ Len(text) \in Nat /\ k \in Nat /\ k - 1 + 1 = k
      /\ 1 .. k = (1 .. k - 1) \cup {k}
  <2>1. Len(text) \in Nat
    BY LenProperties
  <2> QED
    BY <2>1
<1> DEFINE t == Turn(s, text[k])
<1>2. /\ s.before = "class" =>
           IF text[k] \in Classes /\ \A p : <<text[k], p>> \notin s.set
           THEN t.before = "=" /\ t.which = text[k] /\ t.set = s.set
           ELSE t.before = "error"
      /\ s.before = "=" =>
           IF text[k] = "="
           THEN t.before = "permission" /\ t.which = s.which /\ t.set = s.set
           ELSE t.before = "error"
      /\ s.before = "permission" =>
           IF text[k] = "," THEN t.before = "class" /\ t.set = s.set
           ELSE IF text[k] \in Perms /\ <<s.which, text[k]>> \notin s.set
           THEN /\ t.before = "permission" /\ t.which = s.which
                /\ t.set = s.set \cup {<<s.which, text[k]>>}
           ELSE t.before = "error"
      /\ s.before = "error" => t.before = "error"
  BY TurnMeans
<1> HIDE DEF t
<1>3. CASE s.before = "error"
  <2>1. \E j \in 1 .. k : ~Fits(text, j)
    BY <1>1, <1>3 DEF Reached
  <2> QED
    BY <1>2, <1>3, <2>1 DEF Reached, t
<1>4. CASE s.before # "error"
  <2>1. /\ \A j \in 1 .. k - 1 : Fits(text, j)
        /\ s.before = Place(text, k)
        /\ s.before # "class" => s.which = ClassAt(text, k)
        /\ s.set = GivenBy(text, k - 1)
    BY <1>1, <1>4 DEF Reached
  <2>2. CASE ~Fits(text, k)
    <3>1. t.before = "error"
      BY <1>2, <2>1, <2>2 DEF Fits, IsComma, Place
    <3> QED
      BY <1>1, <2>2, <3>1 DEF Reached, t
  <2>3. CASE Fits(text, k)
    <3>1. \A j \in 1 .. k : Fits(text, j)
      BY <1>1, <2>1, <2>3
    <3>2. /\ t.before # "error" /\ t.before = Place(text, k + 1)
          /\ t.before # "class" => t.which = ClassAt(text, k + 1)
          /\ t.set = GivenBy(text, k)
      <4>1. CASE s.before = "class"
        <5>1. /\ text[k] \in Classes /\ ~IsComma(text, k)
              /\ \A p : <<text[k], p>> \notin s.set
          BY <2>1, <2>3, <4>1 DEF Fits, IsComma, Classes
        <5>2. GivenBy(text, k) = s.set
          BY <2>1, <4>1, GivenByNext DEF Permits
        <5>3. t.before = "=" /\ t.which = text[k] /\ t.set = s.set
          BY <1>2, <4>1, <5>1
        <5>4. Place(text, k + 1) = "=" /\ ClassAt(text, k + 1) = text[k]
          BY <2>1, <4>1, <5>1, PlaceNext
        <5> QED
          BY <5>2, <5>3, <5>4
      <4>2. CASE s.before = "="
        <5>1. text[k] = "=" /\ ~IsComma(text, k)
          BY <2>1, <2>3, <4>2 DEF Fits, IsComma
        <5>2. GivenBy(text, k) = s.set
          BY <2>1, <4>2, GivenByNext DEF Permits
        <5>3. t.before = "permission" /\ t.which = s.which /\ t.set = s.set
          BY <1>2, <4>2, <5>1
        <5>4. /\ Place(text, k + 1) = "permission"
              /\ ClassAt(text, k + 1) = ClassAt(text, k)
          BY <2>1, <4>2, <5>1, PlaceNext
        <5> QED
          BY <2>1, <4>2, <5>2, <5>3, <5>4
      <4>3. CASE s.before = "permission" /\ IsComma(text, k)
        <5>1. GivenBy(text, k) = s.set
          BY <2>1, <4>3, GivenByNext DEF Permits
        <5>2. t.before = "class" /\ t.set = s.set
          BY <1>2, <4>3 DEF IsComma
        <5>3. Place(text, k + 1) = "class"
          BY <4>3, PlaceNext
        <5> QED
          BY <5>1, <5>2, <5>3
      <4>4. CASE s.before = "permission" /\ ~IsComma(text, k)
        <5>1. text[k] \in Perms /\ <<s.which, text[k]>> \notin s.set
          BY <2>1, <2>3, <4>4 DEF Fits
        <5>2. GivenBy(text, k) = s.set \cup {<<s.which, text[k]>>}
          BY <2>1, <4>4, GivenByNext DEF Permits
        <5>3. /\ t.before = "permission" /\ t.which = s.which
              /\ t.set = s.set \cup {<<s.which, text[k]>>}
          BY <1>2, <4>4, <5>1 DEF IsComma
        <5>4. /\ Place(text, k + 1) = "permission"
              /\ ClassAt(text, k + 1) = ClassAt(text, k)
          BY <2>1, <4>4, PlaceNext
        <5> QED
          BY <2>1, <4>4, <5>2, <5>3, <5>4
      <4> QED
        BY <2>1, <4>1, <4>2, <4>3, <4>4 DEF Place
    <3> QED
      BY <3>1, <3>2 DEF Reached, t
  <2> QED
    BY <2>2, <2>3
<1> QED
  BY <1>3, <1>4

LEMMA AllReached ==
  ASSUME NEW text \in Seq(Tokens)
  PROVE  Reached(text, Len(text), parse_umask(text)) /\ parse_umask(text) \in Sound
<1> DEFINE n == Len(text)
           turns == TurnsOf(text)
<1>1. n \in Nat
  BY LenProperties
<1>2. /\ parse_umask(text) = turns[n] /\ turns \in [0 .. n -> Sound]
      /\ turns[0] = Begin
      /\ \A i \in 1 .. n : turns[i] = Turn(turns[i - 1], text[i])
  BY TurnsIs
<1> DEFINE Is == {i \in Nat : i <= n => Reached(text, i, turns[i])}
<1> HIDE DEF turns
<1>3. 0 \in Is
  <2>1. /\ Begin.before = "class" /\ Begin.set = {}
    BY DEF Begin
  <2>2. GivenBy(text, 0) = {} /\ Place(text, 1) = "class"
    BY HeadFirst DEF GivenBy, Place
  <2>3. 1 .. 0 = {} /\ 0 + 1 = 1
    OBVIOUS
  <2>4. Reached(text, 0, Begin)
    BY <2>1, <2>2, <2>3 DEF Reached
  <2> QED
    BY <1>2, <2>4
<1>4. ASSUME NEW i \in Nat, i \in Is PROVE i + 1 \in Is
  <2> SUFFICES ASSUME i + 1 <= n PROVE Reached(text, i + 1, turns[i + 1])
    OBVIOUS
  <2>1. i + 1 \in 1 .. n /\ i \in 0 .. n /\ i <= n /\ i + 1 - 1 = i
    BY <1>1
  <2>2. Reached(text, i + 1 - 1, turns[i]) /\ turns[i] \in Sound
    BY <1>2, <1>4, <2>1
  <2>3. turns[i + 1] = Turn(turns[i], text[i + 1])
    BY <1>2, <2>1
  <2> HIDE DEF Is
  <2> QED
    BY <2>1, <2>2, <2>3, ReachedNext
<1> HIDE DEF Is
<1>5. n \in Is
  BY <1>1, <1>3, <1>4, Induction
<1>6. turns[n] \in Sound
  BY <1>1, <1>2
<1> QED
  BY <1>1, <1>2, <1>5, <1>6 DEF Is

(***************************************************************************)
(* The clauses of a text.                                                  *)
(***************************************************************************)
Commas(text) == {i \in DOMAIN text : IsComma(text, i)}
Starts(text) == ({1} \cup {i + 1 : i \in Commas(text)}) \ {Len(text) + 1}
EndOf(text, a) ==
  Min({i \in Commas(text) \cup {Len(text) + 1} : i >= a}) - 1
ClauseAt(text, a) == SubSeq(text, a, EndOf(text, a))

LEMMA ClausesAre ==
  ASSUME NEW text
  PROVE  Clauses(text) = {<<a, ClauseAt(text, a)>> : a \in Starts(text)}
BY DEF Clauses, ClauseAt, EndOf, Starts, Commas, IsComma

LEMMA StartIs ==
  ASSUME NEW text \in Seq(Tokens), NEW a
  PROVE  a \in Starts(text) <=> a \in 1 .. Len(text) /\ HeadOf(text, a) = a
<1>1. Len(text) \in Nat /\ DOMAIN text = 1 .. Len(text)
  BY LenProperties
<1>2. ASSUME a \in Starts(text)
      PROVE  a \in 1 .. Len(text) /\ HeadOf(text, a) = a
  <2>1. /\ a = 1 \/ \E i \in 1 .. Len(text) : IsComma(text, i) /\ a = i + 1
        /\ a # Len(text) + 1
    BY <1>1, <1>2 DEF Starts, Commas
  <2>2. CASE a = 1
    <3>1. 1 \in 1 .. Len(text)
      BY <1>1, <2>1, <2>2
    <3> QED
      BY <2>2, <3>1, HeadFirst
  <2>3. CASE \E i \in 1 .. Len(text) : IsComma(text, i) /\ a = i + 1
    <3>1. PICK i \in 1 .. Len(text) : IsComma(text, i) /\ a = i + 1
      BY <2>3
    <3>2. i + 1 \in 1 .. Len(text)
      BY <1>1, <2>1, <3>1
    <3>3. HeadOf(text, i + 1) = i + 1
      BY <3>1, HeadNext
    <3> QED
      BY <3>1, <3>2, <3>3
  <2> QED
    BY <2>1, <2>2, <2>3
<1>3. ASSUME a \in 1 .. Len(text), HeadOf(text, a) = a
      PROVE  a \in Starts(text)
  <2>1. a \in 1 .. Len(text) + 1 /\ a # Len(text) + 1
    BY <1>1, <1>3
  <2>2. a = 1 \/ IsComma(text, a - 1)
    BY <1>3, <2>1, HeadIs DEF Heads
  <2>3. a # 1 => a - 1 \in 1 .. Len(text) /\ a = a - 1 + 1
    BY <1>1, <1>3
  <2> QED
    BY <1>1, <2>1, <2>2, <2>3 DEF Starts, Commas
<1> QED
  BY <1>2, <1>3

\* A clause ends in front of a comma, or with the text.
LEMMA EndIs ==
  ASSUME NEW text \in Seq(Tokens), NEW a \in Starts(text)
  PROVE  LET e == EndOf(text, a)
         IN  /\ e \in a - 1 .. Len(text)
             /\ e # Len(text) => IsComma(text, e + 1)
             /\ HeadOf(text, e + 1) = a
             /\ \A k \in a .. e : HeadOf(text, k) = a /\ ~IsComma(text, k)
<1> DEFINE n == Len(text)
           S == {i \in Commas(text) \cup {n + 1} : i >= a}
           m == Min(S)
<1>1. n \in Nat /\ DOMAIN text = 1 .. n
  BY LenProperties
<1>2. a \in 1 .. n /\ HeadOf(text, a) = a
  BY StartIs
<1>3. Commas(text) = {i \in 1 .. n : IsComma(text, i)}
  BY <1>1 DEF Commas
<1>4. S \in SUBSET Nat /\ n + 1 \in S
  BY <1>1, <1>2, <1>3
<1>5. m \in S /\ \A i \in S : m <= i
  <2> HIDE DEF S
  <2> QED
    BY <1>4, MinOf
<1>6. m \in a .. n + 1 /\ (m # n + 1 => IsComma(text, m))
  <2> HIDE DEF m
  <2>1. m >= a /\ (m = n + 1 \/ (m \in 1 .. n /\ IsComma(text, m)))
    BY <1>3, <1>5
  <2> QED
    BY <1>1, <1>2, <2>1
<1>7. \A k \in a .. m - 1 : ~IsComma(text, k)
  <2> SUFFICES ASSUME NEW k \in a .. m - 1, IsComma(text, k)
               PROVE  FALSE
    OBVIOUS
  <2> HIDE DEF m
  <2>1. k \in 1 .. n /\ k >= a /\ ~(m <= k)
    BY <1>1, <1>2, <1>6
  <2>2. k \in S
    BY <1>3, <2>1
  <2> QED
    BY <1>5, <2>1, <2>2
<1>8. EndOf(text, a) = m - 1
  BY DEF EndOf
<1> HIDE DEF m, S
<1>9. m \in 1 .. n + 1 /\ m \in Nat /\ m - 1 + 1 = m /\ (m - 1 = n <=> m = n + 1)
      /\ m - 1 \in a - 1 .. n
  BY <1>1, <1>2, <1>6
<1>10. Heads(text, m, a)
  <2>1. a \in 1 .. n + 1 /\ a \in 1 .. m
    BY <1>1, <1>2, <1>6
  <2>2. a = 1 \/ IsComma(text, a - 1)
    BY <1>2, <2>1, HeadIs DEF Heads
  <2> QED
    BY <1>7, <2>1, <2>2 DEF Heads
<1>11. HeadOf(text, m) = a
  BY <1>9, <1>10, HeadUnique
<1>12. \A k \in a .. m - 1 : HeadOf(text, k) = a
  <2> TAKE k \in a .. m - 1
  <2>1. k \in a .. m
    BY <1>1, <1>2, <1>9
  <2> QED
    BY <1>9, <1>11, <2>1, HeadWithin
<1> QED
  BY <1>6, <1>7, <1>8, <1>9, <1>11, <1>12

\* The clause of a character.
LEMMA InClause ==
  ASSUME NEW text \in Seq(Tokens), NEW k \in 1 .. Len(text) + 1,
         HeadOf(text, k) # Len(text) + 1
  PROVE  LET a == HeadOf(text, k)
         IN  /\ a \in Starts(text)
             /\ k = Len(text) + 1 \/ IsComma(text, k) => EndOf(text, a) = k - 1
             /\ k # Len(text) + 1 /\ ~IsComma(text, k) =>
                  k \in a .. EndOf(text, a)
<1> DEFINE n == Len(text)
           a == HeadOf(text, k)
           e == EndOf(text, a)
<1>1. n \in Nat /\ k \in Nat
  BY Places
<1>2. a \in 1 .. k /\ \A j \in a .. k - 1 : ~IsComma(text, j)
  BY HeadIs DEF Heads
<1>3. a \in a .. k /\ a \in 1 .. n
  BY <1>1, <1>2
<1>4. HeadOf(text, a) = a
  BY <1>3, HeadWithin
<1>5. a \in Starts(text)
  BY <1>3, <1>4, StartIs
<1>6. /\ e \in a - 1 .. n /\ (e # n => IsComma(text, e + 1))
      /\ \A j \in a .. e : ~IsComma(text, j)
  BY <1>5, EndIs
<1> HIDE DEF a, e, n
<1>7. k - 1 <= e
  <2> SUFFICES ASSUME ~(k - 1 <= e) PROVE FALSE
    OBVIOUS
  <2>1. e # n /\ e + 1 \in a .. k - 1
    <3>1. k \in 1 .. n + 1
      BY DEF n
    <3> QED
      BY <1>1, <1>2, <1>6, <3>1
  <2> QED
    BY <1>2, <1>6, <2>1
<1>8. k = n + 1 => e = k - 1
  BY <1>1, <1>6, <1>7
<1>9. IsComma(text, k) /\ k # n + 1 => e = k - 1
  <2> SUFFICES ASSUME IsComma(text, k), k # n + 1, e # k - 1
               PROVE  FALSE
    OBVIOUS
  <2>1. k \in a .. e
    BY <1>1, <1>2, <1>6, <1>7
  <2> QED
    BY <1>6, <2>1
<1>10. k # n + 1 /\ ~IsComma(text, k) => k \in a .. e
  <2> SUFFICES ASSUME k # n + 1, ~IsComma(text, k), k \notin a .. e
               PROVE  FALSE
    OBVIOUS
  <2>1. e = k - 1 /\ k - 1 # n /\ k - 1 + 1 = k
    BY <1>1, <1>2, <1>6, <1>7
  <2> QED
    BY <1>6, <2>1
<1> QED
  BY <1>5, <1>8, <1>9, <1>10 DEF a, e, n

\* The parts of a clause.
LEMMA ClauseParts ==
  ASSUME NEW text \in Seq(Tokens), NEW a \in Starts(text)
  PROVE  LET clause == ClauseAt(text, a)
             e == EndOf(text, a)
         IN  /\ Len(clause) = e - a + 1 /\ clause \in Seq(Tokens)
             /\ \A i \in 1 .. Len(clause) : clause[i] = text[a + i - 1]
             /\ Len(clause) >= 2 =>
                  /\ Permissions(clause) \in Seq(Tokens)
                  /\ Len(Permissions(clause)) = e - a - 1
                  /\ \A i \in 1 .. e - a - 1 :
                       Permissions(clause)[i] = text[a + 1 + i]
<1> DEFINE n == Len(text)
           e == EndOf(text, a)
           clause == ClauseAt(text, a)
<1>1. n \in Nat /\ a \in 1 .. n /\ e \in a - 1 .. n
  BY LenProperties, StartIs, EndIs
<1> HIDE DEF e
<1>2. /\ SubSeq(text, a, e) \in Seq(Tokens) /\ Len(SubSeq(text, a, e)) = e - a + 1
      /\ \A i \in 1 .. e - a + 1 : SubSeq(text, a, e)[i] = text[a + i - 1]
  <2> HIDE DEF n
  <2>1. \A i \in 1 .. n : text[i] \in Tokens
    BY ElementOfSeq DEF n
  <2> QED
    BY <1>1, <2>1, SubSeqProperties DEF n
<1>3. /\ clause \in Seq(Tokens) /\ Len(clause) = e - a + 1
      /\ \A i \in 1 .. e - a + 1 : clause[i] = text[a + i - 1]
  BY <1>2 DEF ClauseAt, e
<1> HIDE DEF clause
<1>4. ASSUME Len(clause) >= 2
      PROVE  /\ SubSeq(clause, 3, Len(clause)) \in Seq(Tokens)
             /\ Len(SubSeq(clause, 3, Len(clause))) = e - a - 1
             /\ \A i \in 1 .. e - a - 1 :
                  SubSeq(clause, 3, Len(clause))[i] = text[a + 1 + i]
  <2>1. PICK m \in Nat : m = Len(clause) /\ m >= 2 /\ m = e - a + 1
    BY <1>1, <1>3, <1>4
  <2>2. /\ SubSeq(clause, 3, m) \in Seq(Tokens)
        /\ Len(SubSeq(clause, 3, m)) = m - 2
        /\ \A i \in 1 .. m - 2 : SubSeq(clause, 3, m)[i] = clause[3 + i - 1]
    BY <1>3, <2>1, SubSeqProperties
  <2>3. \A i \in 1 .. e - a - 1 :
          /\ i \in 1 .. m - 2 /\ 3 + i - 1 \in 1 .. e - a + 1
          /\ a + (3 + i - 1) - 1 = a + 1 + i
    BY <1>1, <2>1
  <2>4. m - 2 = e - a - 1
    BY <1>1, <2>1
  <2> QED
    BY <1>3, <2>1, <2>2, <2>3, <2>4
<1> QED
  BY <1>3, <1>4 DEF Permissions, clause, e

\* What IsSymbolic says of one clause.
Formed(clause) ==
  /\ Len(clause) >= 2
  /\ clause[1] \in {"u", "g", "o"}
  /\ clause[2] = "="
  /\ ToSet(Permissions(clause)) \subseteq {"r", "w", "x"}
  /\ IsInjective(Permissions(clause))

LEMMA SymbolicOfClauses ==
  ASSUME NEW text
  PROVE  IsSymbolic(text) <=>
           /\ \A a \in Starts(text) : Formed(ClauseAt(text, a))
           /\ \A a, b \in Starts(text) :
                a < b /\ ClauseAt(text, a)[1] = ClauseAt(text, b)[1] =>
                  Len(ClauseAt(text, a)) = 2
<1>1. IsSymbolic(text) <=>
        /\ \A c \in Clauses(text) : Formed(c[2])
        /\ \A c, d \in Clauses(text) :
             c[1] < d[1] /\ c[2][1] = d[2][1] => Len(c[2]) = 2
  BY DEF IsSymbolic, Formed
<1> DEFINE Clause(a) == <<a, ClauseAt(text, a)>>
<1>2. Clauses(text) = {Clause(a) : a \in Starts(text)}
  BY ClausesAre
<1>3. \A a : Clause(a)[1] = a /\ Clause(a)[2] = ClauseAt(text, a)
  OBVIOUS
<1> HIDE DEF Clause
<1> QED
  BY <1>1, <1>2, <1>3

\* The same, character by character.
ClauseOK(text, a) ==
  LET e == EndOf(text, a)
  IN  /\ a + 1 <= e
      /\ text[a] \in Classes /\ text[a + 1] = "="
      /\ \A k \in a + 2 .. e : text[k] \in Perms
      /\ \A j, k \in a + 2 .. e : text[j] = text[k] => j = k

LEMMA FormedIs ==
  ASSUME NEW text \in Seq(Tokens), NEW a \in Starts(text)
  PROVE  Formed(ClauseAt(text, a)) <=> ClauseOK(text, a)
<1> DEFINE clause == ClauseAt(text, a)
           e == EndOf(text, a)
           perms == Permissions(clause)
<1>1. /\ Len(clause) = e - a + 1 /\ clause \in Seq(Tokens)
      /\ \A i \in 1 .. Len(clause) : clause[i] = text[a + i - 1]
      /\ Len(clause) >= 2 =>
           /\ perms \in Seq(Tokens)
           /\ Len(perms) = e - a - 1
           /\ \A i \in 1 .. e - a - 1 : perms[i] = text[a + 1 + i]
  BY ClauseParts
<1>2. a \in Nat /\ e \in Int
  <2>1. Len(text) \in Nat /\ a \in 1 .. Len(text) /\ e \in a - 1 .. Len(text)
    BY LenProperties, StartIs, EndIs
  <2> QED
    BY <2>1
<1> HIDE DEF clause, e, perms
<1>3. Len(clause) >= 2 <=> a + 1 <= e
  BY <1>1, <1>2
<1>4. ASSUME Len(clause) >= 2
      PROVE  /\ clause[1] = text[a] /\ clause[2] = text[a + 1]
             /\ ToSet(perms) = {text[k] : k \in a + 2 .. e}
             /\ IsInjective(perms) <=>
                  \A j, k \in a + 2 .. e : text[j] = text[k] => j = k
  <2>1. /\ 1 \in 1 .. Len(clause) /\ 2 \in 1 .. Len(clause)
        /\ a + 1 - 1 = a /\ a + 2 - 1 = a + 1
    BY <1>1, <1>2, <1>4
  <2>2. DOMAIN perms = 1 .. e - a - 1
    BY <1>1, <1>4, LenProperties
  <2>3. \A k \in a + 2 .. e :
          k - a - 1 \in 1 .. e - a - 1 /\ k = a + 1 + (k - a - 1)
    BY <1>2
  <2>4. \A i \in 1 .. e - a - 1 : a + 1 + i \in a + 2 .. e
    BY <1>2
  <2>5. \A k \in a + 2 .. e : perms[k - a - 1] = text[k]
    BY <1>1, <1>4, <2>3
  <2>6. ToSet(perms) = {text[k] : k \in a + 2 .. e}
    <3>1. ToSet(perms) = {perms[i] : i \in 1 .. e - a - 1}
      BY <2>2 DEF ToSet
    <3>2. \A i \in 1 .. e - a - 1 : perms[i] = text[a + 1 + i]
      BY <1>1, <1>4
    <3> QED
      BY <2>3, <2>4, <2>5, <3>1, <3>2
  <2>7. IsInjective(perms) <=>
          \A j, k \in a + 2 .. e : text[j] = text[k] => j = k
    <3>1. IsInjective(perms) <=>
            \A i, l \in 1 .. e - a - 1 : perms[i] = perms[l] => i = l
      BY <2>2 DEF IsInjective
    <3>2. ASSUME \A i, l \in 1 .. e - a - 1 : perms[i] = perms[l] => i = l,
                 NEW j \in a + 2 .. e, NEW k \in a + 2 .. e,
                 text[j] = text[k]
          PROVE  j = k
      <4>1. j - a - 1 = k - a - 1
        BY <2>3, <2>5, <3>2
      <4> QED
        BY <1>2, <4>1
    <3>3. ASSUME \A j, k \in a + 2 .. e : text[j] = text[k] => j = k,
                 NEW i \in 1 .. e - a - 1, NEW l \in 1 .. e - a - 1,
                 perms[i] = perms[l]
          PROVE  i = l
      <4>1. perms[i] = text[a + 1 + i] /\ perms[l] = text[a + 1 + l]
        BY <1>1, <1>4
      <4>2. a + 1 + i = a + 1 + l
        BY <2>4, <3>3, <4>1
      <4> QED
        BY <1>2, <4>2
    <3> QED
      BY <3>1, <3>2, <3>3
  <2> QED
    BY <1>1, <2>1, <2>6, <2>7
<1>5. Formed(clause) <=>
        /\ Len(clause) >= 2
        /\ clause[1] \in Classes /\ clause[2] = "="
        /\ ToSet(perms) \subseteq Perms /\ IsInjective(perms)
  BY DEF Formed, Classes, Perms, perms
<1>6. ClauseOK(text, a) <=>
        /\ a + 1 <= e
        /\ text[a] \in Classes /\ text[a + 1] = "="
        /\ {text[k] : k \in a + 2 .. e} \subseteq Perms
        /\ \A j, k \in a + 2 .. e : text[j] = text[k] => j = k
  BY DEF ClauseOK, e
<1>7. Formed(clause) <=> ClauseOK(text, a)
  BY <1>3, <1>4, <1>5, <1>6
<1> QED
  BY <1>7 DEF clause

Apart(text) ==
  \A a, b \in Starts(text) :
    a < b /\ text[a] = text[b] => EndOf(text, a) = a + 1

LEMMA SymbolicIs ==
  ASSUME NEW text \in Seq(Tokens)
  PROVE  IsSymbolic(text) <=>
           (\A a \in Starts(text) : ClauseOK(text, a)) /\ Apart(text)
<1>1. ASSUME \A a \in Starts(text) : ClauseOK(text, a), NEW a \in Starts(text)
      PROVE  /\ ClauseAt(text, a)[1] = text[a]
             /\ Len(ClauseAt(text, a)) = 2 <=> EndOf(text, a) = a + 1
  <2>1. /\ Len(ClauseAt(text, a)) = EndOf(text, a) - a + 1
        /\ \A i \in 1 .. Len(ClauseAt(text, a)) :
             ClauseAt(text, a)[i] = text[a + i - 1]
    BY ClauseParts
  <2>2. a + 1 <= EndOf(text, a)
    BY <1>1 DEF ClauseOK
  <2>3. a \in Nat /\ EndOf(text, a) \in Int
    <3>1. /\ Len(text) \in Nat /\ a \in 1 .. Len(text)
          /\ EndOf(text, a) \in a - 1 .. Len(text)
      BY LenProperties, StartIs, EndIs
    <3> QED
      BY <3>1
  <2>4. 1 \in 1 .. Len(ClauseAt(text, a)) /\ a + 1 - 1 = a
        /\ (Len(ClauseAt(text, a)) = 2 <=> EndOf(text, a) = a + 1)
    BY <2>1, <2>2, <2>3
  <2> QED
    BY <2>1, <2>4
<1> QED
  BY <1>1, SymbolicOfClauses, FormedIs DEF Apart

LEMMA PlaceIs ==
  ASSUME NEW text \in Seq(Tokens), NEW k \in 1 .. Len(text) + 1
  PROVE  /\ HeadOf(text, k) \in 1 .. k
         /\ Place(text, k) = "class" <=> k = HeadOf(text, k)
         /\ Place(text, k) = "=" <=> k = HeadOf(text, k) + 1
         /\ Place(text, k) = "permission" <=> k >= HeadOf(text, k) + 2
<1> DEFINE h == HeadOf(text, k)
<1>1. h \in 1 .. k /\ k \in Nat
  BY HeadIs, Places DEF Heads
<1>2. Place(text, k) = IF k = h THEN "class"
                       ELSE IF k = h + 1 THEN "=" ELSE "permission"
  BY DEF Place
<1> HIDE DEF h
<1>3. /\ k = h => k # h + 1 /\ ~(k >= h + 2)
      /\ k = h + 1 => k # h /\ ~(k >= h + 2)
      /\ k # h /\ k # h + 1 => k >= h + 2
  BY <1>1
<1> QED
  BY <1>1, <1>2, <1>3 DEF h

LEMMA PermitsIs ==
  ASSUME NEW text \in Seq(Tokens), NEW j \in 1 .. Len(text)
  PROVE  LET a == HeadOf(text, j)
         IN  /\ a \in Starts(text)
             /\ ~IsComma(text, j) => j \in a .. EndOf(text, a)
             /\ IsComma(text, j) => EndOf(text, a) = j - 1
             /\ Permits(text, j) => j \in a + 2 .. EndOf(text, a)
<1> DEFINE n == Len(text)
           a == HeadOf(text, j)
           e == EndOf(text, a)
<1>1. n \in Nat
  BY LenProperties
<1>2. j \in 1 .. n + 1 /\ j # n + 1
  BY <1>1
<1>3. a \in 1 .. j /\ (Place(text, j) = "permission" <=> j >= a + 2)
  BY <1>2, PlaceIs
<1>4. a # n + 1
  BY <1>1, <1>3
<1>5. /\ a \in Starts(text) /\ (~IsComma(text, j) => j \in a .. e)
      /\ IsComma(text, j) => e = j - 1
  BY <1>2, <1>4, InClause
<1>6. e \in a - 1 .. n
  BY <1>5, EndIs
<1> HIDE DEF a, e
<1>7. j \in a .. e /\ j >= a + 2 => j \in a + 2 .. e
  BY <1>1, <1>3, <1>6
<1> QED
  BY <1>3, <1>5, <1>7 DEF Permits, a, e

\* A character of a clause permits something from its third on.
LEMMA ClausePermits ==
  ASSUME NEW text \in Seq(Tokens), NEW a \in Starts(text),
         NEW k \in a .. EndOf(text, a)
  PROVE  /\ k \in 1 .. Len(text) /\ HeadOf(text, k) = a /\ ~IsComma(text, k)
         /\ k >= a + 2 => Permits(text, k) /\ Place(text, k) = "permission"
<1>1. Len(text) \in Nat /\ a \in 1 .. Len(text)
      /\ EndOf(text, a) \in a - 1 .. Len(text)
  BY LenProperties, StartIs, EndIs
<1>2. k \in 1 .. Len(text) /\ k \in 1 .. Len(text) + 1
  BY <1>1
<1>3. HeadOf(text, k) = a /\ ~IsComma(text, k)
  BY EndIs
<1>4. k >= a + 2 => Place(text, k) = "permission"
  BY <1>2, <1>3, PlaceIs
<1> QED
  BY <1>2, <1>3, <1>4 DEF Permits

LEMMA InGiven ==
  ASSUME NEW text \in Seq(Tokens), NEW k \in Nat, NEW class, NEW p
  PROVE  <<class, p>> \in GivenBy(text, k) <=>
           \E j \in 1 .. k :
             Permits(text, j) /\ ClassAt(text, j) = class /\ text[j] = p
BY DEF GivenBy

AllFit(text) ==
  /\ \A k \in 1 .. Len(text) : Fits(text, k)
  /\ Place(text, Len(text) + 1) # "="

LEMMA SymbolicFits ==
  ASSUME NEW text \in Seq(Tokens),
         \A a \in Starts(text) : ClauseOK(text, a), Apart(text)
  PROVE  AllFit(text)
<1> DEFINE n == Len(text)
<1>1. n \in Nat
  BY LenProperties
<1>2. ASSUME NEW k \in 1 .. n
      PROVE  Fits(text, k)
  <2> DEFINE h == HeadOf(text, k)
             e == EndOf(text, h)
             given == GivenBy(text, k - 1)
  <2>1. /\ h \in 1 .. k
        /\ Place(text, k) = "class" <=> k = h
        /\ Place(text, k) = "=" <=> k = h + 1
        /\ Place(text, k) = "permission" <=> k >= h + 2
    <3>1. k \in 1 .. n + 1
      BY <1>1
    <3> QED
      BY <3>1, PlaceIs
  <2>2. /\ h \in Starts(text) /\ (~IsComma(text, k) => k \in h .. e)
        /\ IsComma(text, k) => e = k - 1
        /\ Permits(text, k) => k \in h + 2 .. e
    BY PermitsIs
  <2>3. /\ h + 1 <= e
        /\ text[h] \in Classes /\ text[h + 1] = "="
        /\ \A j \in h + 2 .. e : text[j] \in Perms
        /\ \A i, j \in h + 2 .. e : text[i] = text[j] => i = j
    BY <2>2 DEF ClauseOK
  <2>4. e \in h - 1 .. n
    BY <2>2, EndIs
  <2> HIDE DEF h, e
  <2>5. IsComma(text, k) => k >= h + 2
    BY <1>1, <2>1, <2>2, <2>3, <2>4
  \* what is given before k is given in clauses in front of its own, or in it
  <2>6. ASSUME NEW j \in 1 .. k - 1, Permits(text, j),
               ClassAt(text, j) = text[h]
        PROVE  j \in h + 2 .. e
    <3> DEFINE g == HeadOf(text, j)
    <3>1. j \in 1 .. n /\ j \in 1 .. k /\ k \in 1 .. n + 1
      BY <1>1
    <3>2. g \in Starts(text) /\ j \in g + 2 .. EndOf(text, g)
      BY <2>6, <3>1, PermitsIs
    <3>3. /\ j < h => g < h
          /\ j >= h => g = h
      BY <3>1, HeadGrows DEF h
    <3>4. text[g] = text[h]
      BY <2>6 DEF ClassAt
    <3>5. g \in 1 .. n /\ EndOf(text, g) \in g - 1 .. n
      BY <3>2, StartIs, EndIs
    <3> HIDE DEF g
    <3>6. ~(g < h)
      <4> SUFFICES ASSUME g < h PROVE FALSE
        OBVIOUS
      <4>1. EndOf(text, g) = g + 1
        BY <2>2, <3>2, <3>4 DEF Apart
      <4> QED
        BY <3>2, <3>5, <4>1
    <3>7. g = h
      BY <1>1, <2>1, <3>1, <3>3, <3>6
    <3> QED
      BY <3>2, <3>7 DEF e
  <2>7. k - 1 \in Nat
    BY <1>1
  <2>8. ASSUME Place(text, k) = "class"
        PROVE  text[k] \in Classes /\ \A p : <<text[k], p>> \notin given
    <3>1. k = h
      BY <2>1, <2>8
    <3>2. ASSUME NEW p, <<text[k], p>> \in given PROVE FALSE
      <4>1. PICK j \in 1 .. k - 1 : Permits(text, j) /\ ClassAt(text, j) = text[k]
        BY <2>7, <3>2, InGiven
      <4>2. j \in h + 2 .. e
        BY <2>6, <3>1, <4>1
      <4> QED
        BY <1>1, <2>1, <2>4, <3>1, <4>2
    <3> QED
      BY <2>3, <3>1, <3>2
  <2>9. ASSUME Place(text, k) = "="
        PROVE  text[k] = "="
    BY <2>1, <2>3, <2>9
  <2>10. ASSUME Place(text, k) = "permission", ~IsComma(text, k)
         PROVE  text[k] \in Perms /\ <<ClassAt(text, k), text[k]>> \notin given
    <3>1. k \in h + 2 .. e
      BY <2>2, <2>10 DEF Permits
    <3>2. ASSUME <<ClassAt(text, k), text[k]>> \in given PROVE FALSE
      <4>1. PICK j \in 1 .. k - 1 :
              /\ Permits(text, j) /\ ClassAt(text, j) = ClassAt(text, k)
              /\ text[j] = text[k]
        BY <2>7, <3>2, InGiven
      <4>2. ClassAt(text, k) = text[h]
        BY DEF ClassAt, h
      <4>3. j \in h + 2 .. e
        BY <2>6, <4>1, <4>2
      <4>4. j = k
        BY <2>3, <3>1, <4>1, <4>3
      <4>5. j # k
        BY <1>1
      <4> QED
        BY <4>4, <4>5
    <3> QED
      BY <2>3, <3>1, <3>2
  <2> QED
    BY <2>8, <2>9, <2>10 DEF Fits
<1>3. Place(text, n + 1) # "="
  <2> SUFFICES ASSUME Place(text, n + 1) = "="
               PROVE  FALSE
    OBVIOUS
  <2> DEFINE h == HeadOf(text, n + 1)
  <2>1. n + 1 \in 1 .. n + 1
    BY <1>1
  <2>2. n + 1 = h + 1
    BY <2>1, PlaceIs
  <2>3. h # n + 1 /\ h \in Int
    BY <1>1, <2>1, <2>2, HeadIs DEF Heads
  <2>4. h \in Starts(text) /\ EndOf(text, h) = n + 1 - 1
    BY <2>1, <2>3, InClause
  <2>5. h + 1 <= EndOf(text, h)
    BY <2>4 DEF ClauseOK
  <2> HIDE DEF h
  <2> QED
    BY <1>1, <2>2, <2>3, <2>4, <2>5
<1> QED
  BY <1>2, <1>3 DEF AllFit

LEMMA FitsSymbolic ==
  ASSUME NEW text \in Seq(Tokens), AllFit(text)
  PROVE  (\A a \in Starts(text) : ClauseOK(text, a)) /\ Apart(text)
<1> DEFINE n == Len(text)
<1>1. n \in Nat /\ \A k \in 1 .. n : Fits(text, k)
  BY LenProperties DEF AllFit
<1>2. ASSUME NEW a \in Starts(text)
      PROVE  ClauseOK(text, a)
  <2> DEFINE e == EndOf(text, a)
  <2>1. a \in 1 .. n /\ e \in a - 1 .. n /\ HeadOf(text, a) = a
        /\ (e # n => IsComma(text, e + 1)) /\ HeadOf(text, e + 1) = a
    BY StartIs, EndIs
  <2>2. \A k \in a .. e :
          /\ k \in 1 .. n /\ HeadOf(text, k) = a /\ ~IsComma(text, k)
          /\ k >= a + 2 => Permits(text, k) /\ Place(text, k) = "permission"
    BY ClausePermits
  <2> HIDE DEF e
  <2>3. text[a] \in Classes
    <3>1. a \in 1 .. n + 1
      BY <1>1, <2>1
    <3>2. Place(text, a) = "class"
      BY <2>1, <3>1, PlaceIs
    <3> QED
      BY <1>1, <2>1, <3>2 DEF Fits
  <2>4. e # a - 1
    <3> SUFFICES ASSUME e = a - 1 PROVE FALSE
      OBVIOUS
    <3>1. e # n /\ e + 1 = a
      BY <1>1, <2>1
    <3>2. text[a] = ","
      BY <2>1, <3>1 DEF IsComma
    <3> QED
      BY <2>3, <3>2 DEF Classes
  <2>5. e # a
    <3> SUFFICES ASSUME e = a PROVE FALSE
      OBVIOUS
    <3>1. a + 1 \in 1 .. n + 1 /\ HeadOf(text, a + 1) = a
      BY <1>1, <2>1
    <3>2. Place(text, a + 1) = "="
      BY <3>1, PlaceIs
    <3>3. CASE e = n
      BY <3>2, <3>3 DEF AllFit
    <3>4. CASE e # n
      <4>1. IsComma(text, a + 1) /\ a + 1 \in 1 .. n
        BY <1>1, <2>1, <3>4
      <4>2. text[a + 1] = "="
        BY <1>1, <3>2, <4>1 DEF Fits
      <4> QED
        BY <4>1, <4>2 DEF IsComma
    <3> QED
      BY <3>3, <3>4
  <2>6. a + 1 <= e
    BY <1>1, <2>1, <2>4, <2>5
  <2>7. text[a + 1] = "="
    <3>1. a + 1 \in a .. e
      BY <1>1, <2>1, <2>6
    <3>2. a + 1 \in 1 .. n /\ HeadOf(text, a + 1) = a /\ a + 1 \in 1 .. n + 1
      BY <1>1, <2>2, <3>1
    <3>3. Place(text, a + 1) = "="
      BY <3>2, PlaceIs
    <3> QED
      BY <1>1, <3>2, <3>3 DEF Fits
  <2>8. ASSUME NEW k \in a + 2 .. e
        PROVE  /\ text[k] \in Perms /\ k \in 1 .. n
               /\ <<text[a], text[k]>> \notin GivenBy(text, k - 1)
               /\ Permits(text, k) /\ ClassAt(text, k) = text[a]
    <3>1. k \in a .. e /\ k >= a + 2
      BY <1>1, <2>1
    <3>2. /\ k \in 1 .. n /\ HeadOf(text, k) = a /\ ~IsComma(text, k)
          /\ Permits(text, k) /\ Place(text, k) = "permission"
      BY <2>2, <3>1
    <3>3. ClassAt(text, k) = text[a]
      BY <3>2 DEF ClassAt
    <3> QED
      BY <1>1, <3>2, <3>3 DEF Fits
  <2>9. ASSUME NEW j \in a + 2 .. e, NEW k \in a + 2 .. e, j < k,
               text[j] = text[k]
        PROVE  FALSE
    <3>1. j \in 1 .. k - 1 /\ k - 1 \in Nat
      BY <1>1, <2>1, <2>9
    <3>2. <<text[a], text[k]>> \in GivenBy(text, k - 1)
      BY <2>8, <2>9, <3>1, InGiven
    <3> QED
      BY <2>8, <3>2
  <2>10. ASSUME NEW j \in a + 2 .. e, NEW k \in a + 2 .. e, text[j] = text[k]
         PROVE  j = k
    <3>1. ~(j < k) /\ ~(k < j)
      BY <2>9, <2>10
    <3>2. j \in Int /\ k \in Int
      BY <1>1, <2>1
    <3> QED
      BY <3>1, <3>2
  <2> QED
    BY <2>3, <2>6, <2>7, <2>8, <2>10 DEF ClauseOK, e
<1>3. ASSUME NEW a \in Starts(text), NEW b \in Starts(text), a < b,
             text[a] = text[b], EndOf(text, a) # a + 1
      PROVE  FALSE
  <2> DEFINE e == EndOf(text, a)
             k == a + 2
  <2>1. /\ a \in 1 .. n /\ e \in a - 1 .. n /\ b \in 1 .. n
        /\ HeadOf(text, b) = b /\ a + 1 <= e
    BY <1>2, StartIs, EndIs DEF ClauseOK
  <2>2. k \in a .. e
    BY <1>1, <1>3, <2>1
  <2>3. Permits(text, k) /\ k \in 1 .. n /\ HeadOf(text, k) = a
    BY <1>1, <2>1, <2>2, ClausePermits
  <2>4. k < b
    <3>1. b \in 1 .. n + 1 /\ a < b /\ k \in 1 .. n + 1
      BY <1>1, <1>3, <2>1, <2>3
    <3> SUFFICES ASSUME ~(k < b) PROVE FALSE
      OBVIOUS
    <3>2. b \in a .. k /\ b \in HeadOf(text, k) .. k
      BY <1>1, <2>1, <2>3, <3>1
    <3>3. HeadOf(text, b) = a
      BY <2>3, <3>1, <3>2, HeadWithin
    <3> QED
      BY <2>1, <3>1, <3>3
  <2>5. k \in 1 .. b - 1 /\ b - 1 \in Nat
    BY <1>1, <2>1, <2>3, <2>4
  <2>6. <<text[b], text[k]>> \in GivenBy(text, b - 1)
    <3>1. ClassAt(text, k) = text[b]
      BY <1>3, <2>3 DEF ClassAt
    <3> QED
      BY <2>3, <2>5, <3>1, InGiven
  <2>7. Place(text, b) = "class"
    <3>1. b \in 1 .. n + 1
      BY <1>1, <2>1
    <3> QED
      BY <2>1, <3>1, PlaceIs
  <2> QED
    BY <1>1, <2>1, <2>6, <2>7 DEF Fits
<1> QED
  BY <1>2, <1>3 DEF Apart

\* What the clauses of a class give is what has been given to it.
LEMMA RightsAre ==
  ASSUME NEW text \in Seq(Tokens), NEW class,
         \A a \in Starts(text) : ClauseOK(text, a)
  PROVE  RightsOf(text, class) = Rights(GivenBy(text, Len(text)), class)
<1> DEFINE n == Len(text)
<1>1. n \in Nat
  BY LenProperties
<1>2. RightsOf(text, class) =
        UNION {ToSet(Permissions(ClauseAt(text, a))) :
                 a \in {b \in Starts(text) : ClauseAt(text, b)[1] = class}}
  <2> DEFINE Clause(a) == <<a, ClauseAt(text, a)>>
  <2>1. Clauses(text) = {Clause(a) : a \in Starts(text)}
    BY ClausesAre
  <2>2. \A a : Clause(a)[2] = ClauseAt(text, a)
    OBVIOUS
  <2> HIDE DEF Clause
  <2> QED
    BY <2>1, <2>2 DEF RightsOf
<1>3. ASSUME NEW a \in Starts(text)
      PROVE  /\ ClauseAt(text, a)[1] = text[a]
             /\ ToSet(Permissions(ClauseAt(text, a))) =
                  {text[k] : k \in a + 2 .. EndOf(text, a)}
             /\ \A k \in a + 2 .. EndOf(text, a) :
                  /\ k \in 1 .. n /\ Permits(text, k)
                  /\ ClassAt(text, k) = text[a] /\ text[k] \in Perms
  <2> DEFINE e == EndOf(text, a)
  <2>1. /\ a + 1 <= e /\ \A k \in a + 2 .. e : text[k] \in Perms
    BY <1>3 DEF ClauseOK
  <2>2. a \in 1 .. n /\ e \in a - 1 .. n
    BY StartIs, EndIs
  <2>3. ASSUME NEW k \in a + 2 .. e
        PROVE  k \in 1 .. n /\ Permits(text, k) /\ ClassAt(text, k) = text[a]
    <3>1. k \in a .. e /\ k >= a + 2
      BY <1>1, <2>2
    <3> QED
      BY <3>1, ClausePermits DEF ClassAt
  <2> DEFINE clause == ClauseAt(text, a)
             perms == Permissions(clause)
  <2>4. /\ Len(clause) = e - a + 1
        /\ \A i \in 1 .. Len(clause) : clause[i] = text[a + i - 1]
        /\ Len(clause) >= 2 =>
             /\ perms \in Seq(Tokens)
             /\ Len(perms) = e - a - 1
             /\ \A i \in 1 .. e - a - 1 : perms[i] = text[a + 1 + i]
    BY ClauseParts
  <2> HIDE DEF clause, perms, e
  <2>5. Len(clause) >= 2 /\ 1 \in 1 .. Len(clause) /\ a + 1 - 1 = a
    BY <1>1, <2>1, <2>2, <2>4
  <2>6. clause[1] = text[a] /\ DOMAIN perms = 1 .. e - a - 1
    BY <2>4, <2>5, LenProperties
  <2>7. /\ \A k \in a + 2 .. e :
             k - a - 1 \in 1 .. e - a - 1 /\ k = a + 1 + (k - a - 1)
        /\ \A i \in 1 .. e - a - 1 : a + 1 + i \in a + 2 .. e
    BY <1>1, <2>2
  <2>8. ToSet(perms) = {text[k] : k \in a + 2 .. e}
    <3>1. ToSet(perms) = {perms[i] : i \in 1 .. e - a - 1}
      BY <2>6 DEF ToSet
    <3>2. \A i \in 1 .. e - a - 1 : perms[i] = text[a + 1 + i]
      BY <2>4, <2>5
    <3>3. \A k \in a + 2 .. e : perms[k - a - 1] = text[k]
      BY <2>7, <3>2
    <3> QED
      BY <2>7, <3>1, <3>2, <3>3
  <2> QED
    BY <2>1, <2>3, <2>6, <2>8 DEF clause, perms, e
<1>4. ASSUME NEW p, p \in RightsOf(text, class)
      PROVE  p \in Rights(GivenBy(text, n), class)
  <2>1. PICK a \in Starts(text) :
          /\ ClauseAt(text, a)[1] = class
          /\ p \in ToSet(Permissions(ClauseAt(text, a)))
    BY <1>2, <1>4
  <2>2. PICK k \in a + 2 .. EndOf(text, a) : p = text[k]
    BY <1>3, <2>1
  <2>3. /\ k \in 1 .. n /\ Permits(text, k) /\ ClassAt(text, k) = class
        /\ p \in Perms
    BY <1>3, <2>1, <2>2
  <2>4. <<class, p>> \in GivenBy(text, n)
    BY <1>1, <2>2, <2>3, InGiven
  <2> QED
    BY <2>3, <2>4 DEF Rights
<1>5. ASSUME NEW p, p \in Rights(GivenBy(text, n), class)
      PROVE  p \in RightsOf(text, class)
  <2>1. <<class, p>> \in GivenBy(text, n)
    BY <1>5 DEF Rights
  <2>2. PICK k \in 1 .. n :
          Permits(text, k) /\ ClassAt(text, k) = class /\ text[k] = p
    BY <1>1, <2>1, InGiven
  <2> DEFINE a == HeadOf(text, k)
  <2>3. a \in Starts(text) /\ k \in a + 2 .. EndOf(text, a)
    BY <2>2, PermitsIs
  <2>4. ClassAt(text, k) = text[a]
    BY DEF ClassAt
  <2> HIDE DEF a
  <2>5. /\ ClauseAt(text, a)[1] = class
        /\ p \in ToSet(Permissions(ClauseAt(text, a)))
    BY <1>3, <2>2, <2>3, <2>4
  <2> QED
    BY <1>2, <2>3, <2>5
<1> QED
  BY <1>4, <1>5

(***************************************************************************)
(* An octal mask: what strtoul() adds up, and the last three digits.       *)
(***************************************************************************)
ValueOfDigits(text) ==
  LET value[i \in 0 .. Len(text)] ==
        IF i = 0 THEN 0 ELSE 8 * value[i - 1] + DigitOf(text[i])
  IN  value

LEMMA DigitIs ==
  ASSUME NEW c \in ToSet(Digits)
  PROVE  DigitOf(c) \in 0 .. 7 /\ (DigitOf(c) = 0 <=> c = "0")
<1> DEFINE I == {i \in 1 .. Len(Digits) : Digits[i] = c}
<1>1. I # {} /\ I \in SUBSET Nat /\ I \subseteq 1 .. 8
  BY DEF ToSet, Digits
<1>2. DigitOf(c) = Min(I) - 1
  BY <1>1 DEF DigitOf, SelectInSeq
<1> HIDE DEF I
<1>3. Min(I) \in I
  BY <1>1, MinOf
<1>4. Min(I) \in 1 .. 8 /\ Digits[Min(I)] = c
  BY <1>1, <1>3 DEF I
<1> QED
  BY <1>2, <1>4 DEF Digits

LEMMA ValueIs ==
  ASSUME NEW text \in Seq(Tokens), is_octal(text)
  PROVE  /\ OctalOf(text) = ValueOfDigits(text)[Len(text)]
         /\ ValueOfDigits(text) \in [0 .. Len(text) -> Nat]
         /\ ValueOfDigits(text)[0] = 0
         /\ \A i \in 1 .. Len(text) :
              /\ DigitOf(text[i]) \in 0 .. 7
              /\ DigitOf(text[i]) = 0 <=> text[i] = "0"
              /\ ValueOfDigits(text)[i] =
                   8 * ValueOfDigits(text)[i - 1] + DigitOf(text[i])
<1> DEFINE n == Len(text)
           D == 0 .. n
           rank == [i \in D |-> i]
           next(f, i) == IF i = 0 THEN 0 ELSE 8 * f[i - 1] + DigitOf(text[i])
           G == [p \in [D -> Nat] \X D |-> next(p[1], p[2])]
           value == ValueOfDigits(text)
<1>0. OctalOf(text) = value[n]
  BY DEF OctalOf, ValueOfDigits
<1>1. n \in Nat /\ rank \in [D -> 0 .. n]
  OBVIOUS
<1>2. \A i \in 1 .. n :
        DigitOf(text[i]) \in 0 .. 7 /\ (DigitOf(text[i]) = 0 <=> text[i] = "0")
  <2>1. \A i \in 1 .. n : text[i] \in ToSet(Digits)
    BY DEF is_octal, ToSet
  <2> QED
    BY <2>1, DigitIs
<1>3. ASSUME NEW f \in [D -> Nat], NEW i \in D PROVE next(f, i) \in Nat
  <2>1. CASE i = 0
    BY <2>1
  <2>2. CASE i # 0
    <3>1. i - 1 \in D /\ i \in 1 .. n
      BY <1>1, <2>2
    <3>2. f[i - 1] \in Nat /\ DigitOf(text[i]) \in 0 .. 7
      BY <1>2, <3>1
    <3> HIDE DEF D, n
    <3> QED
      BY <2>2, <3>2
  <2> QED
    BY <2>1, <2>2
<1>4. LooksBelow(G, D, Nat, rank, n)
  <2>1. G \in [[D -> Nat] \X D -> Nat]
    <3> HIDE DEF D, next
    <3> QED
      BY <1>3
  <2>2. ASSUME NEW i \in D, NEW g \in [D -> Nat], NEW h \in [D -> Nat],
               \A j \in D : rank[j] < rank[i] => g[j] = h[j]
        PROVE  next(g, i) = next(h, i)
    <3>1. i # 0 => i - 1 \in D /\ rank[i - 1] < rank[i]
      BY <1>1
    <3>2. i # 0 => g[i - 1] = h[i - 1]
      BY <2>2, <3>1
    <3> QED
      BY <3>2
  <2> HIDE DEF D, next, rank
  <2> QED
    BY <1>1, <2>1, <2>2 DEF LooksBelow
<1>5. PICK f : Solves(f, G, D, Nat)
  <2> HIDE DEF D, G, rank, n
  <2> QED
    BY <1>4, RecursionExists
<1>6. f \in [D -> Nat] /\ \A i \in D : f[i] = next(f, i)
  <2> HIDE DEF D, next
  <2> QED
    BY <1>5 DEF Solves
<1>7. f = [i \in D |-> next(f, i)]
  <2> HIDE DEF D, next
  <2> QED
    BY <1>6
<1>8. value = [i \in D |-> next(value, i)]
  BY <1>7 DEF ValueOfDigits
<1>9. \A i \in D : value[i] = next(value, i)
  <2> HIDE DEF D, next, value
  <2> QED
    BY <1>8
<1>10. /\ value[0] = 0
       /\ \A i \in 1 .. n : value[i] = 8 * value[i - 1] + DigitOf(text[i])
  <2> HIDE DEF value
  <2>1. 0 \in D /\ \A i \in 1 .. n : i \in D /\ i # 0
    BY <1>1
  <2> QED
    BY <1>9, <2>1
<1> HIDE DEF value, n
<1>11. \A i \in D : value[i] \in Nat
  <2> DEFINE Is == {k \in Nat : k <= n => value[k] \in Nat}
  <2>1. 0 \in Is
    BY <1>10
  <2>2. ASSUME NEW k \in Nat, k \in Is PROVE k + 1 \in Is
    <3> SUFFICES ASSUME k + 1 <= n PROVE value[k + 1] \in Nat
      OBVIOUS
    <3>1. k + 1 \in 1 .. n /\ k <= n /\ k + 1 - 1 = k
      BY <1>1
    <3>2. value[k + 1] = 8 * value[k] + DigitOf(text[k + 1])
      BY <1>10, <3>1
    <3>3. value[k] \in Nat /\ DigitOf(text[k + 1]) \in 0 .. 7
      BY <1>2, <2>2, <3>1
    <3> QED
      BY <3>2, <3>3
  <2> HIDE DEF Is
  <2>3. Nat \subseteq Is
    BY <2>1, <2>2, Induction
  <2> QED
    BY <1>1, <2>3 DEF Is
<1>12. value \in [D -> Nat]
  <2> HIDE DEF next
  <2> QED
    BY <1>8, <1>11
<1> QED
  BY <1>0, <1>2, <1>10, <1>12 DEF value, n

\* As long as there are only zeros the value is 0, and only then.
LEMMA ValueOfZeros ==
  ASSUME NEW text \in Seq(Tokens), is_octal(text), NEW m \in 0 .. Len(text)
  PROVE  ValueOfDigits(text)[m] = 0 <=> \A i \in 1 .. m : text[i] = "0"
<1> DEFINE n == Len(text)
           value == ValueOfDigits(text)
           Zeros(k) == \A i \in 1 .. k : text[i] = "0"
           Is == {k \in Nat : k <= n => (value[k] = 0 <=> Zeros(k))}
<1>1. /\ n \in Nat /\ value \in [0 .. n -> Nat] /\ value[0] = 0
      /\ \A i \in 1 .. n : /\ DigitOf(text[i]) \in 0 .. 7
                           /\ DigitOf(text[i]) = 0 <=> text[i] = "0"
                           /\ value[i] = 8 * value[i - 1] + DigitOf(text[i])
  BY ValueIs
<1> HIDE DEF value, n
<1>2. 0 \in Is
  BY <1>1
<1>3. ASSUME NEW k \in Nat, k \in Is PROVE k + 1 \in Is
  <2> SUFFICES ASSUME k + 1 <= n PROVE value[k + 1] = 0 <=> Zeros(k + 1)
    OBVIOUS
  <2>1. k + 1 \in 1 .. n /\ k \in 0 .. n /\ k + 1 - 1 = k
    BY <1>1
  <2>2. /\ value[k + 1] = 8 * value[k] + DigitOf(text[k + 1])
        /\ value[k] \in Nat /\ DigitOf(text[k + 1]) \in 0 .. 7
        /\ DigitOf(text[k + 1]) = 0 <=> text[k + 1] = "0"
    BY <1>1, <2>1
  <2>3. value[k + 1] = 0 <=> value[k] = 0 /\ text[k + 1] = "0"
    BY <2>2
  <2>4. Zeros(k + 1) <=> Zeros(k) /\ text[k + 1] = "0"
    <3>1. \A i : i \in 1 .. k + 1 <=> i \in 1 .. k \/ i = k + 1
      OBVIOUS
    <3> QED
      BY <3>1
  <2>5. value[k] = 0 <=> Zeros(k)
    BY <1>3, <2>1
  <2> QED
    BY <2>3, <2>4, <2>5
<1> HIDE DEF Is
<1>4. Nat \subseteq Is
  BY <1>2, <1>3, Induction
<1>5. m \in Is /\ m <= n
  BY <1>1, <1>4 DEF n
<1> QED
  BY <1>5 DEF Is, value

LEMMA ThreeDigits ==
  ASSUME NEW v \in Nat, NEW a \in 0 .. 7, NEW b \in 0 .. 7, NEW c \in 0 .. 7
  PROVE  {8 * (8 * (8 * v + a) + b) + c} \cap 0 .. 511 =
           IF v = 0 THEN {64 * a + 8 * b + c} ELSE {}
<1> DEFINE rest == 64 * a + 8 * b + c
           all == 8 * (8 * (8 * v + a) + b) + c
<1>1. all = 512 * v + rest
  OBVIOUS
<1>2. rest \in 0 .. 511
  OBVIOUS
<1> HIDE DEF rest, all
<1>3. all \in 0 .. 511 <=> v = 0
  BY <1>1, <1>2
<1>4. v = 0 => all = rest
  BY <1>1, <1>2
<1>5. CASE v = 0
  <2>1. \A x, S : x \in S => {x} \cap S = {x}
    OBVIOUS
  <2>2. all = rest /\ all \in 0 .. 511
    BY <1>3, <1>4, <1>5
  <2>3. {all} \cap 0 .. 511 = {rest}
    BY <2>1, <2>2, Zenon
  <2> QED
    BY <1>5, <2>3 DEF rest, all
<1>6. CASE v # 0
  <2>1. {all} \cap 0 .. 511 = {}
    BY <1>3, <1>6
  <2> QED
    BY <1>6, <2>1 DEF all
<1> QED
  BY <1>5, <1>6

LEMMA OctalMeans ==
  ASSUME NEW text \in Seq(Tokens), is_octal(text)
  PROVE  {OctalOf(text)} \cap 0 .. 511 =
           IF IsOctalMask(text)
           THEN {64 * DigitAt(text, 2) + 8 * DigitAt(text, 1) + DigitAt(text, 0)}
           ELSE {}
<1> DEFINE n == Len(text)
           value == ValueOfDigits(text)
           d(i) == DigitOf(text[i])
<1>1. /\ n \in Nat /\ value \in [0 .. n -> Nat] /\ value[0] = 0
      /\ \A i \in 1 .. n : /\ d(i) \in 0 .. 7
                           /\ value[i] = 8 * value[i - 1] + d(i)
      /\ OctalOf(text) = value[n]
  BY ValueIs
<1>2. n >= 1
  BY DEF is_octal
<1>3. \A k \in Nat : DigitAt(text, k) = IF k < n THEN d(n - k) ELSE 0
  BY DEF DigitAt
<1>4. n < 3 => IsOctalMask(text)
  BY DEF IsOctalMask
<1>5. n >= 3 => (IsOctalMask(text) <=> value[n - 3] = 0)
  <2> SUFFICES ASSUME n >= 3 PROVE IsOctalMask(text) <=> value[n - 3] = 0
    OBVIOUS
  <2>1. n - 3 \in 0 .. n /\ \A i : i \in 1 .. n - 3 <=> i \in 1 .. n /\ i + 3 <= n
    BY <1>1
  <2>2. IsOctalMask(text) <=> \A i \in 1 .. n - 3 : text[i] = "0"
    BY <2>1 DEF IsOctalMask
  <2> QED
    BY <2>1, <2>2, ValueOfZeros
<1> HIDE DEF value, n, d
<1>6. CASE n = 1
  <2>1. value[1] = 8 * value[0] + d(1) /\ d(1) \in 0 .. 7
    BY <1>1, <1>6
  <2>2. DigitAt(text, 0) = d(1) /\ DigitAt(text, 1) = 0 /\ DigitAt(text, 2) = 0
    BY <1>3, <1>6
  <2>3. value[1] = 8 * (8 * (8 * 0 + 0) + 0) + d(1)
    BY <1>1, <2>1
  <2>4. {value[1]} \cap 0 .. 511 = {64 * 0 + 8 * 0 + d(1)}
    BY <2>1, <2>3, ThreeDigits
  <2> QED
    BY <1>1, <1>4, <1>6, <2>2, <2>4
<1>7. CASE n = 2
  <2>1. /\ value[1] = 8 * value[0] + d(1) /\ d(1) \in 0 .. 7
        /\ value[2] = 8 * value[1] + d(2) /\ d(2) \in 0 .. 7
    <3>1. 1 \in 1 .. n /\ 2 \in 1 .. n /\ 1 - 1 = 0 /\ 2 - 1 = 1
      BY <1>7
    <3> QED
      BY <1>1, <3>1
  <2>2. /\ DigitAt(text, 0) = d(2) /\ DigitAt(text, 1) = d(1)
        /\ DigitAt(text, 2) = 0
    BY <1>3, <1>7
  <2>3. value[2] = 8 * (8 * (8 * 0 + 0) + d(1)) + d(2)
    BY <1>1, <2>1
  <2>4. {value[2]} \cap 0 .. 511 = {64 * 0 + 8 * d(1) + d(2)}
    BY <2>1, <2>3, ThreeDigits
  <2> QED
    BY <1>1, <1>4, <1>7, <2>2, <2>4
<1>8. CASE n >= 3
  <2>1. /\ n - 2 \in 1 .. n /\ n - 1 \in 1 .. n /\ n \in 1 .. n
        /\ n - 3 \in 0 .. n
        /\ n - 2 - 1 = n - 3 /\ n - 1 - 1 = n - 2
    BY <1>1, <1>8
  <2>2. /\ value[n - 2] = 8 * value[n - 3] + d(n - 2) /\ d(n - 2) \in 0 .. 7
        /\ value[n - 1] = 8 * value[n - 2] + d(n - 1) /\ d(n - 1) \in 0 .. 7
        /\ value[n] = 8 * value[n - 1] + d(n) /\ d(n) \in 0 .. 7
        /\ value[n - 3] \in Nat
    BY <1>1, <2>1
  <2>3. /\ DigitAt(text, 0) = d(n) /\ DigitAt(text, 1) = d(n - 1)
        /\ DigitAt(text, 2) = d(n - 2)
    BY <1>1, <1>3, <1>8
  <2>4. value[n] = 8 * (8 * (8 * value[n - 3] + d(n - 2)) + d(n - 1)) + d(n)
    BY <2>2
  <2>5. {value[n]} \cap 0 .. 511 =
          IF value[n - 3] = 0 THEN {64 * d(n - 2) + 8 * d(n - 1) + d(n)} ELSE {}
    BY <2>2, <2>4, ThreeDigits
  <2> QED
    BY <1>1, <1>5, <1>8, <2>3, <2>5
<1> QED
  BY <1>1, <1>2, <1>6, <1>7, <1>8

\* cmd_umask() takes what is octal or symbolic, as what it means.
LEMMA UmaskMeans ==
  ASSUME NEW text \in Seq(Tokens)
  PROVE  UmaskOf(text) = MeantMask(text)
<1> DEFINE n == Len(text)
           end == parse_umask(text)
<1>1. Reached(text, n, end) /\ end \in Sound
  BY AllReached
<1> HIDE DEF end
<1>2. end.before \in {"class", "permission"} <=> AllFit(text)
  <2>1. end.before \in {"class", "=", "permission", "error"}
    BY <1>1 DEF Sound, States
  <2>2. CASE end.before = "error"
    BY <1>1, <2>2 DEF Reached, AllFit
  <2>3. CASE end.before # "error"
    BY <1>1, <2>1, <2>3 DEF Reached, AllFit
  <2> QED
    BY <2>2, <2>3
<1>3. AllFit(text) <=> IsSymbolic(text)
  BY SymbolicIs, SymbolicFits, FitsSymbolic
<1>4. ASSUME AllFit(text)
      PROVE  \A class \in Classes :
               end.bits[class] = OctalDigit(RightsOf(text, class))
  <2>1. end.set = GivenBy(text, n)
    BY <1>1, <1>2, <1>4 DEF Reached
  <2>2. \A class : RightsOf(text, class) = Rights(GivenBy(text, n), class)
    BY <1>4, FitsSymbolic, RightsAre
  <2> QED
    BY <1>1, <2>1, <2>2 DEF Sound
<1>5. ASSUME AllFit(text)
      PROVE  /\ end.bits.u = OctalDigit(RightsOf(text, "u"))
             /\ end.bits.g = OctalDigit(RightsOf(text, "g"))
             /\ end.bits.o = OctalDigit(RightsOf(text, "o"))
  BY <1>4, <1>5 DEF Classes
<1>6. CASE is_octal(text)
  BY <1>6, OctalMeans DEF UmaskOf, MeantMask
<1>7. CASE ~is_octal(text) /\ ~AllFit(text)
  BY <1>2, <1>3, <1>7 DEF UmaskOf, MeantMask, end
<1>8. CASE ~is_octal(text) /\ AllFit(text)
  <2>1. UmaskOf(text) = {64 * end.bits.u + 8 * end.bits.g + end.bits.o}
    BY <1>2, <1>8 DEF UmaskOf, end
  <2>2. MeantMask(text) = {64 * OctalDigit(RightsOf(text, "u"))
                             + 8 * OctalDigit(RightsOf(text, "g"))
                             + OctalDigit(RightsOf(text, "o"))}
    BY <1>3, <1>8 DEF MeantMask
  <2> QED
    BY <1>5, <1>8, <2>1, <2>2
<1> QED
  BY <1>6, <1>7, <1>8

(***************************************************************************)
(* The mask.                                                               *)
(***************************************************************************)
LEMMA MasksAskedIs ==
  ASSUME NEW outs
  PROVE  MasksAsked(outs) =
           IF ValidMasks(outs) = {} THEN {old}
           ELSE MeantMask(ArgOf(outs, Max(ValidMasks(outs))))
BY DEF MasksAsked

LEMMA MaskMore ==
  ASSUME NEW outs \in Seq(OutSet), NEW out \in OutSet
  PROVE  MasksAsked(Append(outs, out)) =
           IF out.c = "umask" /\ MeantMask(out.arg[1]) # {}
           THEN MeantMask(out.arg[1])
           ELSE MasksAsked(outs)
<1> DEFINE more == Append(outs, out)
           n == Len(outs)
<1>1. /\ out.c = "umask" => Given(more, "umask") = Given(outs, "umask") \cup {n + 1}
      /\ out.c # "umask" => Given(more, "umask") = Given(outs, "umask")
      /\ \A i \in Given(outs, "umask") : ArgOf(more, i) = ArgOf(outs, i)
      /\ ArgOf(more, n + 1) = out.arg[1]
  BY GivenMore
<1>2. n \in Nat /\ Given(outs, "umask") \in SUBSET (1 .. n)
      /\ Given(outs, "umask") \in SUBSET (0 .. n)
  BY GivenIn
<1> HIDE DEF more, n
<1>3. CASE out.c = "umask" /\ MeantMask(out.arg[1]) # {}
  <2>1. ValidMasks(more) = ValidMasks(outs) \cup {n + 1}
    BY <1>1, <1>3 DEF ValidMasks
  <2>2. /\ ValidMasks(more) \in SUBSET (0 .. n + 1)
        /\ n + 1 \in ValidMasks(more) /\ n + 1 \in Nat
        /\ \A i \in ValidMasks(more) : i <= n + 1
    <3>1. ValidMasks(outs) \subseteq 0 .. n
      BY <1>2 DEF ValidMasks
    <3> QED
      BY <1>2, <2>1, <3>1
  <2>3. Max(ValidMasks(more)) = n + 1
    BY <2>2, MaxIs
  <2> QED
    BY <1>1, <1>3, <2>2, <2>3, MasksAskedIs DEF more
<1>4. CASE ~(out.c = "umask" /\ MeantMask(out.arg[1]) # {})
  <2>1. ValidMasks(more) = ValidMasks(outs)
    BY <1>1, <1>4 DEF ValidMasks
  <2>2. CASE ValidMasks(outs) = {}
    BY <1>4, <2>1, <2>2, MasksAskedIs DEF more
  <2>3. CASE ValidMasks(outs) # {}
    <3>1. ValidMasks(outs) \in SUBSET (0 .. n)
      BY <1>2 DEF ValidMasks
    <3>2. Max(ValidMasks(outs)) \in ValidMasks(outs)
      BY <1>2, <2>3, <3>1, MaxOf
    <3>3. ArgOf(more, Max(ValidMasks(outs))) = ArgOf(outs, Max(ValidMasks(outs)))
      BY <1>1, <3>2 DEF ValidMasks
    <3> QED
      BY <1>4, <2>1, <2>3, <3>3, MasksAskedIs DEF more
  <2> QED
    BY <2>2, <2>3
<1> QED
  BY <1>3, <1>4

\* The mask is what the options that have been carried out ask for.
MaskIs == mask \in MasksAsked(Carried)

LEMMA InitMask ==
  ASSUME UshInit
  PROVE  MaskIs
<1>1. mask = old /\ Carried = <<>>
  BY DEF UshInit, Init, Carried
<1>2. ValidMasks(<<>>) = {}
  BY DEF ValidMasks, Given
<1> QED
  BY <1>1, <1>2, MasksAskedIs DEF MaskIs

LEMMA MaskSet ==
  ASSUME Turns, Handles
  PROVE  IF optc = "umask" /\ UmaskOf(optarg[1]) # {}
         THEN mask' \in UmaskOf(optarg[1])
         ELSE mask' = mask
<1>1. CASE OptUmask
  BY <1>1 DEF OptUmask, Returned
<1>2. CASE OptBadUmask
  BY <1>2 DEF OptBadUmask, Returned
<1>3. CASE OptRecorded
  BY <1>3 DEF OptRecorded, Returned, Recorded
<1>4. CASE \/ OptDebug \/ OptVerbose \/ OptCommand \/ OptAppendArgv
           \/ OptShowArgv \/ OptReplace \/ OptEncoding
  BY <1>4 DEF OptDebug, OptVerbose, OptCommand, OptAppendArgv, OptShowArgv,
       OptReplace, OptEncoding, Sets, Returned
<1>5. CASE OptFork \/ OptClearenv \/ OptEnv \/ OptWrong
  BY <1>5 DEF OptFork, OptClearenv, OptEnv, OptWrong, Returned
<1>6. CASE Ask \/ Parse \/ TooManyErrors \/ Exits \/ LoopEnds
  BY <1>6 DEF Ask, Parse, TooManyErrors, Exits, LoopEnds, Handles, ushVars
<1> QED
  BY <1>1, <1>2, <1>3, <1>4, <1>5, <1>6 DEF Turns

LEMMA TurnKeepsMask ==
  ASSUME Parses, Line, MaskIs, Turns \/ UNCHANGED allVars
  PROVE  MaskIs'
<1>1. old' = old
  BY DEF Turns, OptDebug, OptVerbose, OptCommand, OptAppendArgv,
     OptShowArgv, OptReplace, OptEncoding, OptFork, OptRecorded,
     OptBadUmask, OptUmask, OptClearenv, OptEnv, OptWrong, Sets, Handled,
     Ask, Parse, TooManyErrors, Exits, LoopEnds, ushVars, allVars
<1>2. CASE Handles /\ Turns
  <2> DEFINE out == Last(parsed)
  <2>1. /\ Carried' = Append(Carried, out)
        /\ Carried \in Seq(OutSet) /\ out \in OutSet
        /\ out.c = optc /\ out.arg = optarg
        /\ optc \in TakeOne => optarg # <<>>
    BY <1>2, HandlesNext
  <2> HIDE DEF out
  <2>2. optc = "umask" => UmaskOf(optarg[1]) = MeantMask(optarg[1])
    <3>1. optarg \in Seq(Seq(Tokens))
      BY <2>1 DEF OutSet
    <3> QED
      BY <2>1, <3>1, ArgOK, UmaskMeans DEF Parses, TakeOne
  <2>3. mask' \in MasksAsked(Append(Carried, out))
    BY <1>2, <2>1, <2>2, MaskSet, MaskMore DEF MaskIs
  <2>4. PICK more : more = Append(Carried, out)
    OBVIOUS
  <2>5. Carried' = more
    BY <2>1, <2>4
  <2> QED
    BY <1>1, <2>3, <2>4, <2>5 DEF MaskIs, MasksAsked
<1>3. CASE Ask \/ Parse \/ TooManyErrors \/ Exits \/ LoopEnds
             \/ UNCHANGED allVars
  <2>1. Carried' = Carried
    BY <1>3, OthersNext
  <2>2. mask' = mask
    BY <1>3 DEF Ask, Parse, TooManyErrors, Exits, LoopEnds, ushVars, allVars
  <2> QED
    BY <1>1, <2>1, <2>2 DEF MaskIs, MasksAsked
<1> QED
  BY <1>2, <1>3, TurnCases

LEMMA MaskFollows ==
  ASSUME Parses, Line, MaskIs
  PROVE  MaskRight
<1> SUFFICES ASSUME at = "returned", optc = "end"
             PROVE  mask \in MasksAsked(Asked)
  BY DEF MaskRight
<1>1. pc = "caller"
  BY DEF Line
<1>2. asked = <<parsed, SubSeq(argv, optind, Len(argv))>> /\ Carried = parsed
  BY <1>1, AskedBegins DEF Carried
<1>3. Asked = Carried
  BY <1>2 DEF Asked
<1> QED
  BY <1>3 DEF MaskIs

\* What no option leaves out of its type.
AttributesOK ==
  /\ at \in {"loop", "parsing", "returned", "exited"}
  /\ mask \in 0 .. 511
  /\ \A name \in DOMAIN env : env[name] \in Seq(Tokens)
  /\ status \in Nat

LEMMA InitAttributes ==
  ASSUME UshInit
  PROVE  AttributesOK
BY UshGetoptAssumption DEF UshInit, AttributesOK

LEMMA EnvTyped ==
  ASSUME AttributesOK, NEW text \in Seq(Tokens), IsAssignment(text),
         NEW values, values = WithValue(env, NameOf(text), ValueOf(text))
  PROVE  \A name \in DOMAIN values : values[name] \in Seq(Tokens)
<1>1. ValueOf(text) \in Seq(Tokens)
  BY TextOK DEF IsAssignment
<1> QED
  BY <1>1 DEF WithValue, AttributesOK

LEMMA TurnKeepsAttributes ==
  ASSUME Parses, Line, AttributesOK, Turns \/ UNCHANGED allVars
  PROVE  AttributesOK'
<1>1. CASE Handles /\ Turns
  <2>1. /\ at' = "loop" /\ status' = status
    <3>1. at' = "loop"
      BY <1>1 DEF Handles
    <3>2. status' = status
      BY <1>1 DEF Turns, OptDebug, OptVerbose, OptCommand, OptAppendArgv,
           OptShowArgv, OptReplace, OptEncoding, OptFork, OptRecorded,
           OptBadUmask, OptUmask, OptClearenv, OptEnv, OptWrong, Sets, Handled,
           Ask, Parse, TooManyErrors, Exits, LoopEnds, Handles, ushVars
    <3> QED
      BY <3>1, <3>2
  <2>2. optc \in TakeOne => optarg[1] \in Seq(Tokens)
    <3>1. /\ optarg \in Seq(Seq(Tokens))
          /\ optc \in TakeOne => optarg # <<>>
      BY <1>1, HandlesNext DEF OutSet
    <3> QED
      BY <3>1, ArgOK DEF Parses
  <2>3. mask' \in 0 .. 511
    <3>1. CASE OptUmask
      <4>1. optc \in TakeOne /\ mask' \in UmaskOf(optarg[1])
        BY <3>1 DEF OptUmask, Returned, TakeOne
      <4> QED
        BY <2>2, <4>1, UmaskIsMask
    <3>2. CASE ~OptUmask
      <4>1. mask' = mask
        BY <1>1, <3>2 DEF Turns, OptDebug, OptVerbose, OptCommand,
           OptAppendArgv, OptShowArgv, OptReplace, OptEncoding, OptFork,
           OptRecorded, OptBadUmask, OptClearenv, OptEnv, OptWrong, Sets,
           Ask, Parse, TooManyErrors, Exits, LoopEnds, Handles, ushVars
      <4> QED
        BY <4>1 DEF AttributesOK
    <3> QED
      BY <3>1, <3>2
  <2>4. \A name \in DOMAIN env' : env'[name] \in Seq(Tokens)
    <3>1. env' = IF optc = "clearenv" THEN [name \in {} |-> <<>>]
                 ELSE IF optc = "env" /\ IsAssignment(optarg[1])
                   THEN WithValue(env, NameOf(optarg[1]), ValueOf(optarg[1]))
                 ELSE env
      BY <1>1, EnvSet
    <3>2. PICK values : values = env'
      OBVIOUS
    <3>3. CASE optc = "clearenv"
      BY <3>1, <3>2, <3>3
    <3>4. CASE optc = "env" /\ IsAssignment(optarg[1])
      <4>1. /\ optarg[1] \in Seq(Tokens)
            /\ values = WithValue(env, NameOf(optarg[1]), ValueOf(optarg[1]))
        BY <2>2, <3>1, <3>2, <3>4 DEF TakeOne
      <4> QED
        BY <3>2, <3>4, <4>1, EnvTyped
    <3>5. CASE env' = env
      BY <3>5 DEF AttributesOK
    <3> QED
      BY <3>1, <3>3, <3>4, <3>5
  <2> QED
    BY <2>1, <2>3, <2>4 DEF AttributesOK
<1>2. CASE Ask \/ Parse \/ TooManyErrors \/ Exits \/ LoopEnds
             \/ UNCHANGED allVars
  <2>1. env' = env /\ mask' = mask /\ status' \in {status, 0}
        /\ at' \in {at, "parsing", "returned", "exited"}
    BY <1>2 DEF Ask, Parse, TooManyErrors, Exits, LoopEnds, ushVars, allVars
  <2> QED
    BY <2>1 DEF AttributesOK
<1> QED
  BY <1>1, <1>2, TurnCases

(***************************************************************************)
(* All together.                                                           *)
(***************************************************************************)
UshInv ==
  /\ Parses /\ Line
  /\ DoneIs /\ ErrIs
  /\ NotesOK /\ SaidIs /\ CommandRight
  /\ EnvIs /\ MaskIs /\ AttributesOK

LEMMA InitUshInv ==
  UshInit => UshInv
<1> SUFFICES ASSUME UshInit
             PROVE  UshInv
  OBVIOUS
<1>1. CommandRight
  BY DEF UshInit, CommandRight
<1> QED
  BY <1>1, InitParses, InitLine, InitDone, InitErr, InitSaid, InitEnv,
     InitMask, InitAttributes DEF UshInv

LEMMA TurnKeepsUshInv ==
  UshInv /\ [Turns]_allVars => UshInv'
<1> SUFFICES ASSUME UshInv, Turns \/ UNCHANGED allVars
             PROVE  UshInv'
  OBVIOUS
<1>0. /\ Parses /\ Line /\ DoneIs /\ ErrIs /\ NotesOK /\ SaidIs
      /\ CommandRight /\ EnvIs /\ MaskIs /\ AttributesOK
  BY DEF UshInv
<1>1. Parses'
  BY <1>0, TurnKeepsParses
<1>2. Line'
  BY <1>0, HandlesNext, OthersNext, TurnCases
<1>3. DoneIs' /\ ErrIs' /\ EnvIs' /\ MaskIs' /\ AttributesOK'
  BY <1>0, TurnKeepsDone, TurnKeepsErr, TurnKeepsEnv, TurnKeepsMask,
     TurnKeepsAttributes
<1>4. NotesOK' /\ SaidIs' /\ CommandRight'
  BY <1>0, TurnKeepsSaid, TurnKeepsCommand
<1> QED
  BY <1>1, <1>2, <1>3, <1>4 DEF UshInv

LEMMA UshInvariant ==
  UshSpec => []UshInv
BY InitUshInv, TurnKeepsUshInv, PTL DEF UshSpec

LEMMA UshInvSays ==
  UshInv => InOrder /\ CommandRight /\ EnvRight /\ MaskRight /\ UshTypeOK
<1> SUFFICES ASSUME UshInv
             PROVE  InOrder /\ CommandRight /\ EnvRight /\ MaskRight /\ UshTypeOK
  OBVIOUS
<1>0. /\ Parses /\ Line /\ DoneIs /\ ErrIs /\ NotesOK /\ SaidIs
      /\ CommandRight /\ EnvIs /\ MaskIs /\ AttributesOK
  BY DEF UshInv
<1>1. InOrder
  <2>1. IsPrefix(parsed, Asked)
    BY <1>0, AskedBegins
  <2>2. done = FlattenSeq([i \in DOMAIN Carried |-> Records(Carried[i])])
    BY <1>0 DEF DoneIs, Recs
  <2> QED
    BY <2>1, <2>2 DEF InOrder
<1>2. EnvRight /\ MaskRight
  BY <1>0, EnvFollows, MaskFollows
<1>3. UshTypeOK
  <2>1. TypeOK
    BY <1>0 DEF Parses, IInv
  <2>2. /\ err_count \in 0 .. OptErrLimit + 1
        /\ at \in {"loop", "parsing", "returned", "exited"}
        /\ mask \in 0 .. 511
        /\ \A name \in DOMAIN env : env[name] \in Seq(Tokens)
        /\ status \in Nat
    BY <1>0 DEF ErrIs, AttributesOK
  <2>3. /\ cmd.fork \in BOOLEAN /\ cmd.verbose \in BOOLEAN
        /\ cmd.debug \in BOOLEAN /\ cmd.argv \in Seq(Seq(Tokens))
        /\ statics.encoding \in {"text", "xnn", "qp", "null", "invalid"}
    BY <1>0 DEF NotesOK, Commands, Notes, Encodings
  <2> QED
    BY <2>1, <2>2, <2>3 DEF UshTypeOK
<1> QED
  BY <1>0, <1>1, <1>2, <1>3

\* The arguments of the options, the notes of the caller and the attributes of
\* the process keep their types through every call of the parser.
THEOREM UshTyped ==
  UshSpec => []UshTypeOK
<1>1. UshInv => UshTypeOK
  BY UshInvSays
<1> QED
  BY <1>1, UshInvariant, PTL

\* Whatever the vector: its options are carried out in their order, each once,
\* up to the first word, also behind those that have failed.
THEOREM OptionsInOrder ==
  UshSpec => []InOrder
<1>1. UshInv => InOrder
  BY UshInvSays
<1> QED
  BY <1>1, UshInvariant, PTL

\* A loop that has met no error leaves in cmd and in the statics what the options
\* say, the last word on each, and the words behind them for the program.
THEOREM CommandAsSaid ==
  UshSpec => []CommandRight
<1>1. UshInv => CommandRight
  BY UshInvSays
<1> QED
  BY <1>1, UshInvariant, PTL

\* The environment is what the assignments behind the last --clearenv make.
THEOREM EnvAsSaid ==
  UshSpec => []EnvRight
<1>1. UshInv => EnvRight
  BY UshInvSays
<1> QED
  BY <1>1, UshInvariant, PTL

\* The umask is what the last valid --umask means, and parse_umask() takes just
\* the symbolic masks for valid ones.
THEOREM MaskAsSaid ==
  UshSpec => []MaskRight
<1>1. UshInv => MaskRight
  BY UshInvSays
<1> QED
  BY <1>1, UshInvariant, PTL
===============================================================================
