---------------------------- MODULE Reader_proofs ----------------------------
(***************************************************************************)
(* For every set of texts, every alphabet and every size of pages and      *)
(* segments: a line is read as it is, put together within its buffer, and  *)
(* decoded in place to what it stands for.                                 *)
(***************************************************************************)
EXTENDS Reader, SeqLemmas

Chars == UNION {Range(t) : t \in Texts}

\* What a string consists of, and what it is decoded to.
Letters == (Chars \cup {Junk}) \ {NUL}
Bytes == Letters \cup (HexDigits \X HexDigits)

(***************************************************************************)
(* The inductive invariant.                                                *)
(***************************************************************************)
Joined(ss) == FlattenSeq(FlattenSeq(ss))

Types ==
  /\ TypeOK
  /\ text \in Seq(Chars)
  /\ segs \in Seq(Seq(Seq(Letters)))

\* The pages hold no more than has been counted.
Counted ==
  at = "read" =>
    /\ state = "off" /\ ~eof
    /\ segs # <<>>
    /\ Len(Joined(segs)) <= len

\* As long as the line fits, its pages are full, but for one at the end of the
\* file, and hold all that has been read.
W == PageSize - 1

Paged ==
  at = "read" /\ IsText /\ Len(Stretch) <= SegSize * W =>
    /\ NL \notin Range(Stretch)
    /\ len = Len(Stretch)
    /\ Len(segs) = 1
    /\ FlattenSeq(segs[1]) = Stretch
    /\ Len(Stretch) <= Len(segs[1]) * W
    /\ pos < Len(text) => Len(Stretch) = Len(segs[1]) * W

\* A string in the buffer is decoded from its beginning on, and never beyond
\* the '\0' behind it.  Without that, an escape that is cut off by the end of
\* the string could be jumped over.
Running ==
  /\ Len(buf) = Len(src)
  /\ s \in 1 .. Len(src) + 1
  /\ stored \in 0 .. s - 1
  /\ buf \in Seq(Bytes)
  /\ \A i \in s .. Len(src) : buf[i] = src[i]

\* What has been decoded and what is left make up what the string stands for.
From(c, string) ==
  CHOOSE from : from = [i \in 1 .. Len(string) + 4 |-> D!Left(c, string, from, i)]

Halfway ==
  D!Decoded(encoding, src) =
    [chars |-> SubSeq(buf, 1, stored) \o From(encoding, src)[s].chars,
     err   |-> From(encoding, src)[s].err]

Strings ==
  /\ state = "off" /\ at = "line" => buf \in Seq(Letters)
  /\ state # "off" => at = "line" /\ IsDecoded /\ src \in Seq(Letters)
  /\ state = "on" => Running /\ Halfway

IInv ==
  /\ Types
  /\ Counted
  /\ Paged
  /\ Strings
  /\ BuildFits
  /\ LineRight
  /\ DecodedRight

(***************************************************************************)
(* The list of pages.                                                      *)
(***************************************************************************)
LEMMA JoinedAppend ==
  ASSUME NEW T, NEW ss \in Seq(Seq(Seq(T))), NEW seg \in Seq(Seq(T))
  PROVE  /\ Joined(Append(ss, seg)) = Joined(ss) \o FlattenSeq(seg)
         /\ Joined(ss) \in Seq(T) /\ FlattenSeq(seg) \in Seq(T)
<1> DEFINE U == Seq(T)
<1>1. ss \in Seq(Seq(U)) /\ seg \in Seq(U)
  OBVIOUS
<1>2. FlattenSeq(Append(ss, seg)) = FlattenSeq(ss) \o seg
  <2> HIDE DEF U
  <2> QED
    BY <1>1, FlattenAppend
<1>3. FlattenSeq(ss) \in Seq(U)
  <2> HIDE DEF U
  <2> QED
    BY <1>1, FlattenIs
<1> DEFINE tt == FlattenSeq(ss)
<1>4. FlattenSeq(tt \o seg) = FlattenSeq(tt) \o FlattenSeq(seg)
  <2>1. tt \in Seq(Seq(T))
    BY <1>3
  <2> HIDE DEF tt
  <2> QED
    BY <2>1, FlattenConcat
<1>5. FlattenSeq(tt) \in Seq(T) /\ FlattenSeq(seg) \in Seq(T)
  <2>1. tt \in Seq(Seq(T))
    BY <1>3
  <2> HIDE DEF tt
  <2> QED
    BY <2>1, FlattenIs
<1> QED
  BY <1>2, <1>4, <1>5 DEF Joined

LEMMA FirstPage ==
  ASSUME NEW T, NEW seg \in Seq(Seq(T)), seg # <<>>, NEW x \in Seq(T),
         NEW new \in Seq(Seq(T)), Len(new) = Len(seg), new[1] = x,
         \A i \in 2 .. Len(seg) : new[i] = seg[i]
  PROVE  Len(FlattenSeq(new)) = Len(FlattenSeq(seg)) - Len(seg[1]) + Len(x)
<1> DEFINE U == Seq(T)
           rest == Tail(seg)
<1>1. seg \in Seq(U) /\ x \in U /\ new \in Seq(U)
  OBVIOUS
<1>2. /\ seg[1] \in U
      /\ rest \in Seq(U)
      /\ new = <<x>> \o rest /\ seg = <<seg[1]>> \o rest
  <2> HIDE DEF U
  <2> QED
    BY <1>1
<1>3. ASSUME NEW y \in Seq(T)
      PROVE  /\ FlattenSeq(<<y>> \o rest) = y \o FlattenSeq(rest)
             /\ FlattenSeq(rest) \in Seq(T)
  <2>1. rest \in Seq(Seq(T)) /\ <<y>> \in Seq(Seq(T))
    BY <1>2
  <2> HIDE DEF rest
  <2>2. FlattenSeq(<<y>>) = y
    BY FlattenOne
  <2> QED
    BY <2>1, <2>2, FlattenConcat, FlattenIs
<1> DEFINE f == FlattenSeq(rest)
<1>4. /\ FlattenSeq(new) = x \o f
      /\ FlattenSeq(seg) = seg[1] \o f
      /\ f \in Seq(T) /\ seg[1] \in Seq(T)
  BY <1>2, <1>3
<1>5. ASSUME NEW y \in Seq(T) PROVE Len(y \o f) = Len(y) + Len(f)
  <2> HIDE DEF f
  <2> QED
    BY <1>4
<1>6. /\ Len(FlattenSeq(new)) = Len(x) + Len(f)
      /\ Len(FlattenSeq(seg)) = Len(seg[1]) + Len(f)
      /\ Len(f) \in Nat /\ Len(x) \in Nat /\ Len(seg[1]) \in Nat
  BY <1>4, <1>5
<1> HIDE DEF f
<1> QED
  BY <1>6

Segments == Seq(Seq(Seq(Letters)))
Fits(ss) == \A i \in DOMAIN ss : Len(ss[i]) <= SegSize

LEMMA SizesAre == /\ SegSize \in Nat \ {0} /\ PageSize \in Nat
                  /\ W \in Nat \ {0} /\ W = PageSize - 1
BY SglAssumption DEF W

\* sgl_append() loses pages, but never makes the list longer than they are.
LEMMA WithPageFits ==
  ASSUME segs \in Segments, segs # <<>>, Fits(segs), NEW x \in Seq(Letters)
  PROVE  /\ WithPage(x) \in Segments /\ WithPage(x) # <<>> /\ Fits(WithPage(x))
         /\ Joined(segs) \in Seq(Letters) /\ Joined(WithPage(x)) \in Seq(Letters)
         /\ Len(Joined(WithPage(x))) <= Len(Joined(segs)) + Len(x)
         /\ IsFull => segs[Len(segs)] # <<>> /\
              Len(Joined(WithPage(x))) =
                Len(Joined(segs)) - Len(segs[Len(segs)][1]) + Len(x)
<1> DEFINE U == Seq(Letters)
           n == Len(segs)
           seg == segs[n]
           front == Front(segs)
<1>1. n \in Nat \ {0} /\ Last(segs) = seg
  BY DEF Last, Segments
<1>2. seg \in Seq(U) /\ Len(seg) <= SegSize
  BY <1>1 DEF Segments, Fits
<1>3. /\ front \in Segments /\ segs = Append(front, seg) /\ Len(front) = n - 1
      /\ \A i \in 1 .. n - 1 : front[i] = segs[i]
      /\ \A new \in Seq(U) : [segs EXCEPT ![n] = new] = Append(front, new)
  <2> DEFINE V == Seq(U)
  <2>1. segs \in Seq(V)
    BY DEF Segments
  <2> HIDE DEF U, V
  <2>2. /\ front \in Seq(V) /\ segs = Append(front, seg) /\ Len(front) = n - 1
        /\ \A i \in 1 .. n - 1 : front[i] = segs[i]
        /\ \A new \in V : [segs EXCEPT ![n] = new] = Append(front, new)
    BY <1>1, <2>1, FrontIs
  <2> QED
    BY <2>2 DEF V, U, Segments
<1>4. ASSUME NEW new \in Seq(U), Len(new) <= SegSize
      PROVE  /\ [segs EXCEPT ![n] = new] = Append(front, new)
             /\ Append(front, new) \in Segments
             /\ Append(front, new) # <<>>
             /\ Fits(Append(front, new))
             /\ Len(Append(front, new)) = n
             /\ Joined(Append(front, new)) = Joined(front) \o FlattenSeq(new)
             /\ Joined(Append(front, new)) \in U
             /\ Len(Joined(Append(front, new))) =
                  Len(Joined(front)) + Len(FlattenSeq(new))
  <2>1. /\ Joined(Append(front, new)) = Joined(front) \o FlattenSeq(new)
        /\ Joined(front) \in U /\ FlattenSeq(new) \in U
    BY <1>3, JoinedAppend DEF Segments
  <2>2. Append(front, new) \in Segments /\ Len(Append(front, new)) = n
        /\ [segs EXCEPT ![n] = new] = Append(front, new)
        /\ Append(front, new) # <<>>
    <3> DEFINE V == Seq(U)
    <3>1. segs \in Seq(V) /\ front \in Seq(V) /\ new \in V
      BY <1>3 DEF Segments
    <3> HIDE DEF U, V, front
    <3>2. Append(front, new) \in Seq(V) /\ Len(Append(front, new)) = n
          /\ Append(front, new) # <<>>
      BY <1>1, <1>3, <3>1, AppendProperties
    <3> QED
      BY <1>3, <3>2 DEF V, U, Segments
  <2>3. Fits(Append(front, new))
    <3> DEFINE V == Seq(U)
    <3>1. front \in Seq(V) /\ new \in V
      BY <1>3 DEF Segments
    <3>2. \A i \in 1 .. n - 1 : Len(front[i]) <= SegSize
      <4>1. DOMAIN segs = 1 .. n
        BY DEF Segments
      <4>2. \A i \in 1 .. n - 1 : front[i] = segs[i] /\ i \in 1 .. n
        BY <1>1, <1>3
      <4> HIDE DEF front, n
      <4> QED
        BY <4>1, <4>2 DEF Fits
    <3> HIDE DEF U, V, front
    <3> QED
      BY <1>1, <1>3, <1>4, <3>1, <3>2 DEF Fits
  <2> DEFINE f == Joined(front)
             g == FlattenSeq(new)
  <2>4. Len(f \o g) = Len(f) + Len(g) /\ f \o g \in U
    <3> HIDE DEF f, g
    <3> QED
      BY <2>1 DEF f, g
  <2> QED
    BY <2>1, <2>2, <2>3, <2>4
<1>5. Joined(segs) \in U /\ Len(Joined(segs)) \in Nat
      /\ Len(Joined(segs)) = Len(Joined(front)) + Len(FlattenSeq(seg))
      /\ Len(Joined(front)) \in Nat /\ FlattenSeq(seg) \in U
  <2>1. Joined(segs) \in U /\ Len(Joined(segs)) = Len(Joined(front)) + Len(FlattenSeq(seg))
    BY <1>2, <1>3, <1>4
  <2>2. Joined(front) \in U /\ FlattenSeq(seg) \in U
    BY <1>2, <1>3, JoinedAppend DEF Segments
  <2> QED
    BY <2>1, <2>2
<1>6. CASE IsFull
  <2> DEFINE new == [seg EXCEPT ![1] = x]
             ss == Append(front, new)
  <2>1. seg # <<>>
    BY <1>1, <1>6, SizesAre DEF IsFull
  <2>2. /\ new \in Seq(U) /\ Len(new) = Len(seg)
        /\ Len(FlattenSeq(new)) = Len(FlattenSeq(seg)) - Len(seg[1]) + Len(x)
    <3>1. seg \in Seq(Seq(Letters)) /\ x \in Seq(Letters) /\ seg # <<>>
      BY <1>2, <2>1
    <3>2. /\ new \in Seq(U) /\ Len(new) = Len(seg) /\ new[1] = x
          /\ \A i \in 2 .. Len(seg) : new[i] = seg[i]
      <4>1. x \in U /\ 1 \in 1 .. Len(seg)
        BY <3>1
      <4> HIDE DEF seg, U
      <4> QED
        BY <1>2, <4>1, ExceptSeq
    <3> HIDE DEF seg, new
    <3> QED
      BY <3>1, <3>2, FirstPage
  <2>10. seg[1] \in U
    <3> HIDE DEF seg, U
    <3> QED
      BY <1>2, <2>1
  <2>3. WithPage(x) = Append(ss, <<>>)
    <3>1. WithPage(x) = Append([segs EXCEPT ![n] = new], <<>>)
      BY <1>1, <1>6 DEF WithPage
    <3> QED
      BY <1>2, <1>4, <2>2, <3>1
  <2>4. /\ ss \in Segments /\ Fits(ss) /\ Len(ss) = n
        /\ Len(Joined(ss)) = Len(Joined(front)) + Len(FlattenSeq(new))
        /\ Joined(ss) \in U
    BY <1>2, <1>4, <2>2
  <2>5. /\ Append(ss, <<>>) \in Segments /\ Append(ss, <<>>) # <<>>
        /\ Fits(Append(ss, <<>>))
    <3> DEFINE V == Seq(U)
    <3>1. ss \in Seq(V) /\ <<>> \in V
      BY <2>4 DEF Segments
    <3>2. Append(ss, <<>>) \in Seq(V) /\ Append(ss, <<>>) # <<>>
          /\ Fits(Append(ss, <<>>))
      <4> HIDE DEF ss, U, V
      <4> QED
        BY SMTT(30), <2>4, <3>1, SizesAre DEF Fits
    <3> QED
      BY <3>2 DEF Segments
  <2>6. Joined(Append(ss, <<>>)) = Joined(ss) \o FlattenSeq(<<>>)
    <3>1. <<>> \in Seq(U)
      OBVIOUS
    <3> HIDE DEF ss
    <3> QED
      BY <2>4, <3>1, JoinedAppend DEF Segments
  <2>7. Joined(Append(ss, <<>>)) = Joined(ss)
    <3>1. FlattenSeq(<<>>) = <<>>
      BY DEF FlattenSeq
    <3> DEFINE j == Joined(ss)
    <3>2. j \in Seq(Letters)
      BY <2>4
    <3>3. j \o <<>> = j
      <4> HIDE DEF j
      <4> QED
        BY <3>2
    <3> QED
      BY <2>6, <3>1, <3>3
  <2>8. Len(x) \in Nat /\ Len(seg[1]) \in Nat /\ Len(FlattenSeq(seg)) \in Nat
    BY <1>5, <2>10
  <2>9. Len(Joined(ss)) = Len(Joined(segs)) - Len(seg[1]) + Len(x)
    <3> HIDE DEF ss, seg, new, front
    <3> QED
      BY <1>5, <2>2, <2>4, <2>8, <2>10
  <2> HIDE DEF ss
  <2> QED
    BY SMTT(30), <1>5, <2>1, <2>3, <2>4, <2>5, <2>7, <2>8, <2>9
<1>7. CASE ~IsFull
  <2> DEFINE new == Append(seg, x)
             ss == Append(front, new)
  <2>1. /\ new \in Seq(U) /\ Len(new) = Len(seg) + 1 /\ Len(seg) \in Nat
    <3>1. x \in U
      OBVIOUS
    <3> HIDE DEF U
    <3> QED
      BY <1>2, <3>1
  <2>2. Len(new) <= SegSize
    BY <1>1, <1>2, <1>7, <2>1, SizesAre DEF IsFull
  <2>3. WithPage(x) = ss
    <3>1. WithPage(x) = [segs EXCEPT ![n] = new]
      BY <1>1, <1>7 DEF WithPage
    <3> QED
      BY <1>4, <2>1, <2>2, <3>1
  <2>4. FlattenSeq(new) = FlattenSeq(seg) \o x
    BY <1>2, FlattenAppend
  <2> DEFINE f == FlattenSeq(seg)
  <2>5. Len(f \o x) = Len(f) + Len(x) /\ Len(f) \in Nat /\ Len(x) \in Nat
    <3>1. f \in Seq(Letters)
      BY <1>5
    <3> HIDE DEF f
    <3> QED
      BY <3>1
  <2>6. /\ ss \in Segments /\ Fits(ss) /\ ss # <<>>
        /\ Len(Joined(ss)) = Len(Joined(front)) + Len(FlattenSeq(new))
        /\ Joined(ss) \in U
    BY <1>4, <2>1, <2>2
  <2>7. Len(Joined(ss)) <= Len(Joined(segs)) + Len(x)
    BY <1>5, <2>4, <2>5, <2>6
  <2> HIDE DEF ss
  <2> QED
    BY <1>5, <1>7, <2>3, <2>6, <2>7
<1> QED
  BY <1>6, <1>7

\* The pages of a list of one segment are the line.
LEMMA JoinedOne ==
  ASSUME NEW ss \in Segments, Len(ss) = 1
  PROVE  Joined(ss) = FlattenSeq(ss[1]) /\ ss[1] \in Seq(Seq(Letters))
<1> DEFINE U == Seq(Seq(Letters))
           seg == ss[1]
<1>1. ss = <<seg>> /\ seg \in U
  <2>1. ss \in Seq(U)
    BY DEF Segments
  <2> HIDE DEF U
  <2> QED
    BY <2>1
<1>2. FlattenSeq(<<seg>>) = seg
  <2> DEFINE V == Seq(Letters)
  <2>1. seg \in Seq(V)
    BY <1>1
  <2> HIDE DEF seg, V
  <2> QED
    BY <2>1, FlattenOne
<1> QED
  BY <1>1, <1>2 DEF Joined

LEMMA OnePage ==
  ASSUME segs \in Segments, Len(segs) = 1, ~IsFull, NEW x \in Seq(Letters)
  PROVE  /\ Len(WithPage(x)) = 1
         /\ Len(WithPage(x)[1]) = Len(segs[1]) + 1
         /\ FlattenSeq(WithPage(x)[1]) = FlattenSeq(segs[1]) \o x
<1> DEFINE U == Seq(Letters)
           seg == segs[1]
<1>1. seg \in Seq(U) /\ x \in U
  BY JoinedOne
<1>2. WithPage(x) = [segs EXCEPT ![1] = Append(seg, x)]
  BY DEF WithPage
<1>3. DOMAIN segs = {1}
  <2>1. DOMAIN segs = 1 .. 1
    BY DEF Segments
  <2> QED
    BY <2>1
<1>4. WithPage(x) = <<Append(seg, x)>>
  <2> HIDE DEF seg
  <2> QED
    BY <1>2, <1>3
<1>5. FlattenSeq(Append(seg, x)) = FlattenSeq(seg) \o x
  <2> HIDE DEF seg
  <2> QED
    BY <1>1, FlattenAppend
<1>6. Len(Append(seg, x)) = Len(seg) + 1
  <2> HIDE DEF seg, U
  <2> QED
    BY <1>1
<1> QED
  BY <1>4, <1>5, <1>6

(***************************************************************************)
(* What is read.                                                           *)
(***************************************************************************)
LEMMA PageRead ==
  ASSUME text \in Seq(Chars), pos \in 0 .. Len(text),
         NEW k \in 0 .. Room, NEW m \in 0 .. k, IsString(k, m)
  PROVE  /\ Room \in 0 .. W /\ Room <= Len(text) - pos
         /\ Room < W => Room = Len(text) - pos
         /\ pos + k \in 0 .. Len(text)
         /\ SubSeq(text, pos + 1, pos + m) \in Seq(Letters)
         /\ Len(SubSeq(text, pos + 1, pos + m)) = m
         /\ \A i \in 1 .. m : SubSeq(text, pos + 1, pos + m)[i] = text[pos + i]
<1>1. /\ Room \in 0 .. W /\ Room <= Len(text) - pos
      /\ Room < W => Room = Len(text) - pos
      /\ pos + k \in 0 .. Len(text)
  BY SizesAre DEF Room
<1>2. \A i \in pos + 1 .. pos + m : text[i] \in Letters
  <2> TAKE i \in pos + 1 .. pos + m
  <2>1. PICK j \in 1 .. m : i = pos + j
    <3>1. i - pos \in 1 .. m /\ i = pos + (i - pos)
      BY <1>1
    <3> QED
      BY <3>1
  <2>2. text[i] # NUL
    BY <2>1 DEF IsString
  <2>3. text[i] \in Chars
    <3>1. i \in 1 .. Len(text)
      BY <1>1
    <3> QED
      BY <3>1
  <2> QED
    BY <2>2, <2>3 DEF Letters
<1> DEFINE b == pos + 1
           e == pos + m
<1>3. b \in Int /\ e \in Int /\ e - b + 1 = m /\ (b <= e <=> m # 0)
      /\ \A i \in 1 .. m : b + i - 1 = pos + i
  BY <1>1
<1>4. /\ SubSeq(text, b, e) \in Seq(Letters)
      /\ Len(SubSeq(text, b, e)) = IF b <= e THEN e - b + 1 ELSE 0
      /\ \A i \in 1 .. e - b + 1 : SubSeq(text, b, e)[i] = text[b + i - 1]
  <2> HIDE DEF b, e
  <2> QED
    BY <1>2, <1>3, SubSeqProperties DEF b, e
<1> QED
  BY <1>1, <1>3, <1>4

LEMMA StretchIs ==
  ASSUME text \in Seq(Chars), NEW b \in Nat, NEW e \in b .. Len(text)
  PROVE  /\ SubSeq(text, b + 1, e) \in Seq(Chars)
         /\ Len(SubSeq(text, b + 1, e)) = e - b
         /\ \A i \in 1 .. e - b : SubSeq(text, b + 1, e)[i] = text[b + i]
<1>1. Len(text) \in Nat /\ \A i \in b + 1 .. e : text[i] \in Chars
  OBVIOUS
<1> DEFINE c == b + 1
<1>2. c \in Int /\ e \in Int /\ e - c + 1 = e - b /\ (c <= e <=> e - b # 0)
      /\ \A i \in 1 .. e - b : c + i - 1 = b + i
  BY <1>1
<1>3. /\ SubSeq(text, c, e) \in Seq(Chars)
      /\ Len(SubSeq(text, c, e)) = IF c <= e THEN e - c + 1 ELSE 0
      /\ \A i \in 1 .. e - c + 1 : SubSeq(text, c, e)[i] = text[c + i - 1]
  BY <1>1, <1>2, SubSeqProperties
<1> QED
  BY <1>2, <1>3

LEMMA RangeIs ==
  ASSUME NEW T, NEW v \in Seq(T), NEW c
  PROVE  c \notin Range(v) <=> \A i \in 1 .. Len(v) : v[i] # c
BY DEF Range

\* What does not occur in a part of the text.
LEMMA LacksIs ==
  ASSUME text \in Seq(Chars), NEW b \in Nat, NEW e \in b .. Len(text), NEW c
  PROVE  c \notin Range(SubSeq(text, b + 1, e)) <=>
           \A i \in b + 1 .. e : text[i] # c
<1> DEFINE v == SubSeq(text, b + 1, e)
<1>1. /\ v \in Seq(Chars) /\ Len(v) = e - b
      /\ \A i \in 1 .. e - b : v[i] = text[b + i]
  BY StretchIs
<1> HIDE DEF v
<1>2. c \notin Range(v) <=> \A i \in 1 .. e - b : v[i] # c
  BY <1>1, RangeIs
<1>3. ASSUME \A i \in 1 .. e - b : v[i] # c, NEW i \in b + 1 .. e
      PROVE  text[i] # c
  <2>1. i - b \in 1 .. e - b /\ b + (i - b) = i
    OBVIOUS
  <2> QED
    BY <1>1, <1>3, <2>1
<1>4. ASSUME \A i \in b + 1 .. e : text[i] # c, NEW i \in 1 .. e - b
      PROVE  v[i] # c
  <2>1. b + i \in b + 1 .. e
    OBVIOUS
  <2> QED
    BY <1>1, <1>4, <2>1
<1>5. c \notin Range(v) <=> \A i \in b + 1 .. e : text[i] # c
  BY <1>2, <1>3, <1>4
<1> QED
  BY <1>5 DEF v

\* A stretch that goes on is the longer one.
LEMMA StretchGoesOn ==
  ASSUME text \in Seq(Chars), NEW b \in Nat, NEW e \in b .. Len(text),
         NEW f \in e .. Len(text)
  PROVE  SubSeq(text, b + 1, f) = SubSeq(text, b + 1, e) \o SubSeq(text, e + 1, f)
<1> DEFINE x == SubSeq(text, b + 1, e)
           y == SubSeq(text, e + 1, f)
           z == SubSeq(text, b + 1, f)
<1>1. /\ x \in Seq(Chars) /\ Len(x) = e - b
      /\ \A i \in 1 .. e - b : x[i] = text[b + i]
  BY StretchIs
<1>2. /\ y \in Seq(Chars) /\ Len(y) = f - e
      /\ \A i \in 1 .. f - e : y[i] = text[e + i]
  <2>1. e \in Nat
    OBVIOUS
  <2> QED
    BY <2>1, StretchIs
<1>3. /\ z \in Seq(Chars) /\ Len(z) = f - b
      /\ \A i \in 1 .. f - b : z[i] = text[b + i]
  <2>1. f \in b .. Len(text)
    OBVIOUS
  <2> QED
    BY <2>1, StretchIs
<1> DEFINE w == x \o y
<1> HIDE DEF x, y, z
<1>4. /\ w \in Seq(Chars) /\ Len(w) = Len(x) + Len(y)
      /\ \A i \in 1 .. Len(x) + Len(y) :
           w[i] = IF i <= Len(x) THEN x[i] ELSE y[i - Len(x)]
  BY <1>1, <1>2, ConcatProperties
<1> HIDE DEF w
<1>5. ASSUME NEW i \in 1 .. f - b PROVE w[i] = z[i]
  <2>1. i \in 1 .. Len(x) + Len(y)
    BY <1>1, <1>2
  <2>2. CASE i <= Len(x)
    <3>1. i \in 1 .. e - b
      BY <1>1, <2>2
    <3> QED
      BY <1>1, <1>3, <1>4, <2>1, <2>2, <3>1
  <2>3. CASE i > Len(x)
    <3>1. i - Len(x) \in 1 .. f - e /\ e + (i - Len(x)) = b + i
      BY <1>1, <2>3
    <3>2. ~(i <= Len(x))
      BY <1>1, <2>3
    <3>3. w[i] = y[i - Len(x)]
      BY <1>4, <2>1, <3>2
    <3> QED
      BY <1>2, <1>3, <3>1, <3>3
  <2> QED
    BY <1>1, <2>2, <2>3
<1>6. Len(w) = f - b
  BY <1>1, <1>2, <1>4
<1>7. w = z
  BY <1>3, <1>4, <1>5, <1>6, SeqEqual
<1> QED
  BY <1>7 DEF w, x, y, z

LEMMA Products ==
  ASSUME NEW a \in Nat, NEW b \in Nat, NEW w \in Nat \ {0}
  PROVE  /\ a * w \in Nat
         /\ (a + 1) * w = a * w + w
         /\ a * w < b * w => a < b
<1>1. a * w \in Nat /\ (a + 1) * w = a * w + w
  OBVIOUS
<1>2. ASSUME b <= a PROVE b * w <= a * w
  <2>1. PICK d \in Nat : a = b + d
    <3>1. a - b \in Nat /\ a = b + (a - b)
      BY <1>2
    <3> QED
      BY <3>1
  <2>2. (b + d) * w = b * w + d * w /\ d * w \in Nat /\ b * w \in Nat
    BY <2>1
  <2> QED
    BY <2>1, <2>2
<1>3. b * w \in Nat
  OBVIOUS
<1> QED
  BY <1>1, <1>2, <1>3

(***************************************************************************)
(* What a string decodes to.                                               *)
(***************************************************************************)
Results == [chars : Seq(Bytes), err : {0, D!EINVAL}]

LEMMA DecodedIs ==
  ASSUME NEW c, NEW string
  PROVE  D!Decoded(c, string) = From(c, string)[1]
BY DEF D!Decoded, From

Ended(e) == [chars |-> <<>>, err |-> e]

LEMMA EndedIs ==
  ASSUME NEW e \in {0, D!EINVAL}
  PROVE  Ended(e) \in Results /\ Ended(e).chars = <<>> /\ Ended(e).err = e
BY DEF Results, Ended

With(x, r) == [r EXCEPT !.chars = <<x>> \o @]

LEMMA WithIs ==
  ASSUME NEW x \in Bytes, NEW r \in Results
  PROVE  /\ With(x, r) \in Results
         /\ With(x, r).chars = <<x>> \o r.chars
         /\ With(x, r).err = r.err
<1>1. r.chars \in Seq(Bytes) /\ r.err \in {0, D!EINVAL}
  BY DEF Results
<1>2. <<x>> \o r.chars \in Seq(Bytes)
  BY <1>1
<1>3. With(x, r) = [chars |-> <<x>> \o r.chars, err |-> r.err]
  <2>1. r = [chars |-> r.chars, err |-> r.err]
    BY DEF Results
  <2> DEFINE a == r.chars
             b == r.err
  <2>2. r = [chars |-> a, err |-> b]
    BY <2>1
  <2> DEFINE y == <<x>> \o r.chars
  <2>3. With(x, r) = [r EXCEPT !.chars = y]
    BY DEF With
  <2>4. With(x, r) = [chars |-> y, err |-> b]
    <3> HIDE DEF a, b, y
    <3> QED
      BY <2>2, <2>3
  <2> QED
    BY <2>4
<1> QED
  BY <1>1, <1>2, <1>3 DEF Results

\* The cases of Left, one by one.
LEMMA LeftIs ==
  ASSUME NEW c \in {"xnn", "qp"}, NEW string \in Seq(Letters),
         NEW later, NEW i \in 1 .. Len(string) + 4
  PROVE  LET left == D!Left(c, string, later, i)
             lead == IF c = "xnn" THEN 2 ELSE 1
             digits == /\ i + lead + 1 <= Len(string)
                       /\ string[i + lead] \in HexDigits
                       /\ string[i + lead + 1] \in HexDigits
         IN  /\ i > Len(string) => left = Ended(0)
             /\ i <= Len(string) /\ D!EscapeAt(c, string, i) /\ digits =>
                  left = With(<<string[i + lead], string[i + lead + 1]>>,
                              later[i + lead + 2])
             /\ i <= Len(string) /\ D!EscapeAt(c, string, i) /\ ~digits =>
                  left = Ended(D!EINVAL)
             /\ i <= Len(string) /\ c = "qp" /\ string[i] \in LineEnds =>
                  left = later[i + 1]
             /\ i <= Len(string) /\ c = "qp" /\ string[i] \in Unprintable =>
                  left = Ended(D!EINVAL)
             /\ /\ i <= Len(string)
                /\ ~D!EscapeAt(c, string, i)
                /\ ~(c = "qp" /\ string[i] \in LineEnds \cup Unprintable)
                => left = With(string[i], later[i + 1])
<1> DEFINE lead == IF c = "xnn" THEN 2 ELSE 1
           digits == /\ i + lead + 1 <= Len(string)
                     /\ string[i + lead] \in HexDigits
                     /\ string[i + lead + 1] \in HexDigits
<1>1. CASE i > Len(string)
  BY <1>1 DEF D!Left, Ended
<1>2. CASE i <= Len(string) /\ D!EscapeAt(c, string, i)
  <2>1. c = "qp" => string[i] \notin LineEnds \cup Unprintable
    BY <1>2, AlphabetAssumption DEF D!EscapeAt
  <2>2. CASE digits
    BY SMTT(30), <1>2, <2>1, <2>2 DEF D!Left, With
  <2>3. CASE ~digits
    BY <1>2, <2>1, <2>3 DEF D!Left, Ended
  <2> QED
    BY <1>2, <2>1, <2>2, <2>3
<1>3. CASE i <= Len(string) /\ ~D!EscapeAt(c, string, i)
  BY <1>3, AlphabetAssumption DEF D!Left, Ended, With
<1> QED
  BY <1>1, <1>2, <1>3

\* The last of these cases, by itself.
LEMMA LeftCopies ==
  ASSUME NEW c \in {"xnn", "qp"}, NEW string \in Seq(Letters),
         NEW later, NEW i \in 1 .. Len(string) + 4,
         i <= Len(string), ~D!EscapeAt(c, string, i),
         ~(c = "qp" /\ string[i] \in LineEnds \cup Unprintable)
  PROVE  D!Left(c, string, later, i) = With(string[i], later[i + 1])
<1>1. ~(i > Len(string))
  OBVIOUS
<1>2. /\ ~(c = "qp" /\ string[i] \in LineEnds)
      /\ ~(c = "qp" /\ string[i] \in Unprintable)
  OBVIOUS
<1> QED
  BY ZenonT(30), <1>1, <1>2 DEF D!Left, With

LEMMA LeftType ==
  ASSUME NEW c \in {"xnn", "qp"}, NEW string \in Seq(Letters),
         NEW later \in [1 .. Len(string) + 4 -> Results],
         NEW i \in 1 .. Len(string) + 4
  PROVE  D!Left(c, string, later, i) \in Results
<1> DEFINE lead == IF c = "xnn" THEN 2 ELSE 1
           digits == /\ i + lead + 1 <= Len(string)
                     /\ string[i + lead] \in HexDigits
                     /\ string[i + lead + 1] \in HexDigits
<1>1. Len(string) \in Nat /\ lead \in {1, 2}
  OBVIOUS
<1>2. i <= Len(string) => string[i] \in Bytes
  BY <1>1 DEF Bytes
<1>3. \A j \in 1 .. Len(string) + 4 : later[j] \in Results
  OBVIOUS
<1>4. CASE i > Len(string)
  BY <1>4, LeftIs, EndedIs
<1>5. CASE i <= Len(string) /\ D!EscapeAt(c, string, i) /\ digits
  <2>1. <<string[i + lead], string[i + lead + 1]>> \in Bytes
    BY <1>5 DEF Bytes
  <2>2. later[i + lead + 2] \in Results
    BY <1>1, <1>3, <1>5
  <2>3. D!Left(c, string, later, i) =
          With(<<string[i + lead], string[i + lead + 1]>>, later[i + lead + 2])
    BY <1>5, LeftIs
  <2> QED
    BY <2>1, <2>2, <2>3, WithIs
<1>6. CASE i <= Len(string) /\ D!EscapeAt(c, string, i) /\ ~digits
  <2>1. D!Left(c, string, later, i) = Ended(D!EINVAL)
    BY <1>6, LeftIs
  <2> QED
    BY <2>1, EndedIs
<1>7. CASE i <= Len(string) /\ c = "qp" /\ string[i] \in LineEnds
  <2>1. D!Left(c, string, later, i) = later[i + 1]
    BY <1>7, LeftIs
  <2> QED
    BY <1>1, <1>3, <1>7, <2>1
<1>8. CASE i <= Len(string) /\ c = "qp" /\ string[i] \in Unprintable
  BY <1>8, LeftIs, EndedIs
<1>9. CASE /\ i <= Len(string)
           /\ ~D!EscapeAt(c, string, i)
           /\ ~(c = "qp" /\ string[i] \in LineEnds \cup Unprintable)
  <2>1. D!Left(c, string, later, i) = With(string[i], later[i + 1])
    BY <1>9, LeftCopies
  <2>2. string[i] \in Bytes /\ later[i + 1] \in Results
    BY <1>1, <1>2, <1>3, <1>9
  <2> QED
    BY <2>1, <2>2, WithIs
<1> QED
  BY <1>1, <1>4, <1>5, <1>6, <1>7, <1>8, <1>9

LEMMA LeftLooksAhead ==
  ASSUME NEW c \in {"xnn", "qp"}, NEW string \in Seq(Letters),
         NEW i \in 1 .. Len(string) + 4, NEW g, NEW h,
         \A j \in 1 .. Len(string) + 4 : j > i => g[j] = h[j]
  PROVE  D!Left(c, string, g, i) = D!Left(c, string, h, i)
<1> DEFINE lead == IF c = "xnn" THEN 2 ELSE 1
           digits == /\ i + lead + 1 <= Len(string)
                     /\ string[i + lead] \in HexDigits
                     /\ string[i + lead + 1] \in HexDigits
<1>1. Len(string) \in Nat /\ lead \in {1, 2}
  OBVIOUS
<1>2. i <= Len(string) =>
        g[i + 1] = h[i + 1] /\ g[i + lead + 2] = h[i + lead + 2]
  <2>1. i <= Len(string) =>
          /\ i + 1 \in 1 .. Len(string) + 4 /\ i + 1 > i
          /\ i + lead + 2 \in 1 .. Len(string) + 4 /\ i + lead + 2 > i
    BY <1>1
  <2> HIDE DEF lead
  <2> QED
    BY <2>1
<1>3. CASE i > Len(string)
  BY <1>3, LeftIs
<1>4. CASE i <= Len(string) /\ D!EscapeAt(c, string, i) /\ digits
  <2> DEFINE x == <<string[i + lead], string[i + lead + 1]>>
  <2>1. /\ D!Left(c, string, g, i) = With(x, g[i + lead + 2])
        /\ D!Left(c, string, h, i) = With(x, h[i + lead + 2])
    BY <1>4, LeftIs
  <2> QED
    BY <1>2, <1>4, <2>1
<1>5. CASE i <= Len(string) /\ D!EscapeAt(c, string, i) /\ ~digits
  BY <1>5, LeftIs
<1>6. CASE i <= Len(string) /\ c = "qp" /\ string[i] \in LineEnds
  <2>1. /\ D!Left(c, string, g, i) = g[i + 1]
        /\ D!Left(c, string, h, i) = h[i + 1]
    BY <1>6, LeftIs
  <2> QED
    BY <1>2, <1>6, <2>1
<1>7. CASE i <= Len(string) /\ c = "qp" /\ string[i] \in Unprintable
  BY <1>7, LeftIs
<1>8. CASE /\ i <= Len(string)
           /\ ~D!EscapeAt(c, string, i)
           /\ ~(c = "qp" /\ string[i] \in LineEnds \cup Unprintable)
  <2>1. /\ D!Left(c, string, g, i) = With(string[i], g[i + 1])
        /\ D!Left(c, string, h, i) = With(string[i], h[i + 1])
    BY <1>8, LeftCopies
  <2> QED
    BY <1>2, <1>8, <2>1
<1> QED
  BY <1>1, <1>3, <1>4, <1>5, <1>6, <1>7, <1>8

\* So there is such a function, and From is it.
LEMMA FromIs ==
  ASSUME NEW c \in {"xnn", "qp"}, NEW string \in Seq(Letters)
  PROVE  LET from == From(c, string)
         IN  /\ from \in [1 .. Len(string) + 4 -> Results]
             /\ \A i \in 1 .. Len(string) + 4 :
                  from[i] = D!Left(c, string, from, i)
<1> DEFINE N == Len(string) + 4
           I == 1 .. N
           rank == [i \in I |-> N - i]
           value(f, i) == D!Left(c, string, f, i)
           G == [p \in [I -> Results] \X I |-> value(p[1], p[2])]
           from == From(c, string)
<1>1. N \in Nat /\ Ended(0) \in Results /\ rank \in [I -> 0 .. N]
  BY EndedIs
<1>2. ASSUME NEW f \in [I -> Results], NEW i \in I
      PROVE  value(f, i) \in Results
  BY <1>2, LeftType
<1>3. ASSUME NEW i \in I, NEW g, NEW h, \A j \in I : j > i => g[j] = h[j]
      PROVE  value(g, i) = value(h, i)
  BY <1>1, <1>3, LeftLooksAhead
<1>4. LooksBelow(G, I, Results, rank, N)
  <2>1. G \in [[I -> Results] \X I -> Results]
    <3> HIDE DEF I, value
    <3> QED
      BY <1>2
  <2>2. ASSUME NEW i \in I, NEW g \in [I -> Results], NEW h \in [I -> Results],
               \A j \in I : rank[j] < rank[i] => g[j] = h[j]
        PROVE  value(g, i) = value(h, i)
    <3>1. \A j \in I : j > i => g[j] = h[j]
      BY <1>1, <2>2
    <3> QED
      BY <1>3, <3>1
  <2> HIDE DEF I, N, value, rank
  <2> QED
    BY <1>1, <2>1, <2>2 DEF LooksBelow
<1>5. PICK f : Solves(f, G, I, Results)
  <2> HIDE DEF I, N, G, rank
  <2> QED
    BY <1>4, RecursionExists
<1>6. f \in [I -> Results] /\ \A i \in I : f[i] = value(f, i)
  <2> HIDE DEF I, value
  <2> QED
    BY <1>5 DEF Solves
<1>7. f = [i \in I |-> value(f, i)]
  <2> HIDE DEF I, value
  <2> QED
    BY <1>6
<1>8. from = [i \in I |-> value(from, i)]
  BY <1>7 DEF From
<1>9. \A i \in I : from[i] = value(from, i)
  <2> HIDE DEF I, value, from
  <2> QED
    BY <1>8
<1>10. \A i \in I : from[i] = f[i]
  <2> DEFINE Is == {k \in Nat : \A i \in I : i > N - k => from[i] = f[i]}
  <2>1. 0 \in Is
    BY <1>1
  <2>2. ASSUME NEW k \in Nat, k \in Is PROVE k + 1 \in Is
    <3> SUFFICES ASSUME NEW i \in I, i > N - (k + 1) PROVE from[i] = f[i]
      OBVIOUS
    <3>1. \A j \in I : j > i => from[j] = f[j]
      <4> HIDE DEF from
      <4> QED
        BY <1>1, <2>2
    <3>2. value(from, i) = value(f, i)
      <4> HIDE DEF from, value, I
      <4> QED
        BY <1>3, <3>1
    <3> QED
      BY <1>6, <1>9, <3>2
  <2>3. Nat \subseteq Is
    <3> HIDE DEF Is
    <3> QED
      BY <2>1, <2>2, Induction
  <2>4. N \in Is /\ \A i \in I : i > N - N
    BY <1>1, <2>3
  <2> HIDE DEF N, from
  <2> QED
    BY <2>4
<1>11. from = f
  <2> HIDE DEF I, value, from
  <2> QED
    BY <1>6, <1>8, <1>10
<1> QED
  BY <1>6, <1>9, <1>11

(***************************************************************************)
(* The steps of the decoders.                                              *)
(***************************************************************************)
lineVars == <<text, pos, endl, at, segs, len, eof, start, debug>>

\* They change neither the line buffer's account of the line nor the line as it
\* is in the file.
LEMMA DecodingKeeps ==
  ASSUME IInv, at = "line", state \in {"off", "on"}, UNCHANGED lineVars, Raw' = Raw
  PROVE  Counted' /\ Paged' /\ LineRight' /\ BuildFits'
<1>1. /\ at' = at /\ len' = len /\ endl' = endl /\ text' = text /\ pos' = pos
      /\ start' = start /\ eof' = eof
  BY DEF lineVars
<1>2. Stretch' = Stretch /\ IsText' = IsText
  BY <1>1 DEF Stretch, IsText
<1>3. Counted' /\ Paged'
  BY <1>1 DEF Counted, Paged
<1>4. ReadWhole' = ReadWhole
  BY <1>1, <1>2 DEF ReadWhole
<1>5. LineRight' /\ BuildFits'
  BY <1>1, <1>2, <1>4 DEF IInv, LineRight, BuildFits
<1> QED
  BY <1>3, <1>5

LEMMA DecodingTypes ==
  ASSUME Types, UNCHANGED lineVars, encoding' = encoding,
         s' \in Nat \ {0}, stored' \in Nat, err' \in {0, D!EINVAL},
         state' \in {"off", "on", "done"}
  PROVE  Types'
BY DEF Types, TypeOK, lineVars, D!EINVAL

LEMMA StartKeeps ==
  ASSUME IInv, StartDecoding
  PROVE  IInv'
<1>1. /\ at = "line" /\ IsDecoded /\ state = "off" /\ UNCHANGED lineVars
      /\ state' = "on" /\ encoding' = encoding /\ src' = buf /\ buf' = buf
      /\ s' = 1 /\ stored' = 0 /\ err' = 0
  BY DEF StartDecoding, D!Begin, lineVars
<1>2. buf \in Seq(Letters) /\ at' = "line" /\ Len(buf) \in Nat /\ encoding \in {"xnn", "qp"}
  BY <1>1 DEF IInv, Strings, lineVars, IsDecoded
<1>3. Types'
  BY <1>1, DecodingTypes DEF IInv
<1>4. Counted' /\ Paged' /\ LineRight' /\ BuildFits'
  <2>1. Raw' = Raw
    BY <1>1 DEF Raw
  <2> QED
    BY <1>1, <2>1, DecodingKeeps
<1>5. Running'
  <2>1. \A i \in 1 .. Len(buf) : buf[i] \in Bytes
    BY <1>2 DEF Bytes
  <2>2. buf \in Seq(Bytes)
    BY <1>2, <2>1
  <2> QED
    BY <1>1, <1>2, <2>2 DEF Running
<1>6. Halfway'
  <2> DEFINE from == From(encoding, buf)
  <2>1. from[1] \in Results
    <3>1. 1 \in 1 .. Len(buf) + 4 /\ from \in [1 .. Len(buf) + 4 -> Results]
      BY <1>2, FromIs
    <3> HIDE DEF from
    <3> QED
      BY <3>1
  <2>2. SubSeq(buf, 1, 0) = <<>>
    BY <1>2
  <2>3. from[1] = [chars |-> <<>> \o from[1].chars, err |-> from[1].err]
    <3> HIDE DEF from
    <3>1. from[1].chars \in Seq(Bytes)
      BY <2>1 DEF Results
    <3>2. <<>> \o from[1].chars = from[1].chars
      BY <3>1
    <3> QED
      BY <2>1, <3>2 DEF Results
  <2>4. D!Decoded(encoding, buf) = from[1]
    BY DecodedIs
  <2> HIDE DEF from
  <2>5. D!Decoded(encoding, src)' = D!Decoded(encoding, buf)
    BY <1>1 DEF D!Decoded, D!Left, D!EscapeAt
  <2>6. From(encoding, src)' = from
    BY <1>1 DEF From, D!Left, D!EscapeAt, from
  <2> QED
    BY <1>1, <2>2, <2>3, <2>4, <2>5, <2>6 DEF Halfway
<1>7. D!DecodedRight'
  BY <1>1 DEF D!DecodedRight
<1> QED
  BY <1>1, <1>2, <1>3, <1>4, <1>5, <1>6, <1>7 DEF IInv, Strings, DecodedRight, IsDecoded

\* The characters that are still to be decoded are those of the string.
LEMMA CharIs ==
  ASSUME Running, src \in Seq(Letters), NEW i \in Nat, i >= s
  PROVE  /\ i <= Len(src) => /\ i \in 1 .. Len(src)
                             /\ D!Char(i) = src[i]
                             /\ src[i] \in Letters /\ src[i] # NUL
         /\ i > Len(src) => D!Char(i) = NUL
<1>1. CASE i > Len(src)
  BY <1>1 DEF D!Char, Running
<1>2. CASE i <= Len(src)
  <2>1. i \in 1 .. Len(src) /\ i \in s .. Len(src)
    BY <1>2 DEF Running
  <2>2. D!Char(i) = src[i]
    BY <2>1 DEF D!Char, Running
  <2>3. src[i] \in Letters
    BY <2>1
  <2> QED
    BY <2>1, <2>2, <2>3 DEF Letters
<1> QED
  BY <1>1, <1>2 DEF Running

LEMMA EscapeIs ==
  ASSUME Running, src \in Seq(Letters), encoding \in {"xnn", "qp"}, s <= Len(src)
  PROVE  /\ D!Lead = IF encoding = "xnn" THEN 2 ELSE 1
         /\ D!StartsEscape <=> D!EscapeAt(encoding, src, s)
         /\ D!HasDigits <=> /\ s + D!Lead + 1 <= Len(src)
                            /\ src[s + D!Lead] \in HexDigits
                            /\ src[s + D!Lead + 1] \in HexDigits
         /\ D!HasDigits => /\ D!Char(s + D!Lead) = src[s + D!Lead]
                           /\ D!Char(s + D!Lead + 1) = src[s + D!Lead + 1]
<1>1. /\ D!Lead = IF encoding = "xnn" THEN 2 ELSE 1
      /\ D!Lead \in {1, 2}
  BY DEF D!Lead
<1>2. s \in Nat \ {0} /\ Len(src) \in Nat
  BY DEF Running
<1>3. D!Char(s) = src[s]
  BY <1>2, CharIs
<1>4. s < Len(src) => D!Char(s + 1) = src[s + 1]
  BY <1>2, CharIs
<1>5. s = Len(src) => D!Char(s + 1) = NUL
  BY <1>2, CharIs
<1>6. NUL # Ex /\ NUL \notin HexDigits
  BY AlphabetAssumption
<1>7. D!StartsEscape <=> D!EscapeAt(encoding, src, s)
  BY <1>2, <1>3, <1>4, <1>5, <1>6 DEF D!StartsEscape, D!EscapeAt
<1> DEFINE i == s + D!Lead
<1>8. i \in Nat /\ i >= s /\ i + 1 \in Nat /\ i + 1 >= s
  BY <1>1, <1>2
<1>9. /\ i <= Len(src) => D!Char(i) = src[i]
      /\ i > Len(src) => D!Char(i) = NUL
      /\ i + 1 <= Len(src) => D!Char(i + 1) = src[i + 1]
      /\ i + 1 > Len(src) => D!Char(i + 1) = NUL
  <2> HIDE DEF i
  <2> QED
    BY <1>8, CharIs
<1>10. D!HasDigits <=> D!Char(i) \in HexDigits /\ D!Char(i + 1) \in HexDigits
  BY DEF D!HasDigits
<1>11. D!HasDigits <=> i + 1 <= Len(src) /\ src[i] \in HexDigits /\ src[i + 1] \in HexDigits
  <2> HIDE DEF i
  <2> QED
    BY <1>2, <1>6, <1>8, <1>9, <1>10
<1>12. D!HasDigits => D!Char(i) = src[i] /\ D!Char(i + 1) = src[i + 1]
  <2> HIDE DEF i
  <2> QED
    BY <1>2, <1>8, <1>9, <1>11
<1> QED
  BY <1>1, <1>7, <1>11, <1>12

LEMMA OneMore ==
  ASSUME NEW T, NEW v \in Seq(T), NEW n \in Nat, n < Len(v), NEW x \in T,
         NEW w \in Seq(T), Len(w) = Len(v), w[n + 1] = x,
         \A i \in 1 .. n : w[i] = v[i]
  PROVE  /\ SubSeq(w, 1, n + 1) = SubSeq(v, 1, n) \o <<x>>
         /\ SubSeq(v, 1, n) \in Seq(T)
<1> DEFINE a == SubSeq(w, 1, n + 1)
           b == SubSeq(v, 1, n)
           c == b \o <<x>>
<1>1. /\ a \in Seq(T) /\ Len(a) = n + 1
      /\ \A i \in 1 .. n + 1 : a[i] = w[i]
  OBVIOUS
<1>2. /\ b \in Seq(T) /\ Len(b) = n
      /\ \A i \in 1 .. n : b[i] = v[i]
  OBVIOUS
<1>3. /\ c \in Seq(T) /\ Len(c) = n + 1 /\ c[n + 1] = x
      /\ \A i \in 1 .. n : c[i] = b[i]
  <2> HIDE DEF b
  <2> QED
    BY <1>2
<1>4. \A i \in 1 .. n + 1 : a[i] = c[i]
  <2> HIDE DEF a, b, c
  <2> QED
    BY <1>1, <1>2, <1>3
<1>5. a = c
  <2> HIDE DEF a, b, c
  <2> QED
    BY <1>1, <1>3, <1>4, SeqEqual
<1> QED
  BY <1>2, <1>5

\* w is v with an x behind its first n.
Stores(T, v, n, x, w) ==
  /\ v \in Seq(T) /\ w \in Seq(T) /\ Len(w) = Len(v) /\ x \in T
  /\ n \in Nat /\ n < Len(v)
  /\ w[n + 1] = x
  /\ \A i \in 1 .. n : w[i] = v[i]

MovesOn(v, n, x, w, rest) ==
  SubSeq(w, 1, n + 1) \o rest = SubSeq(v, 1, n) \o (<<x>> \o rest)

LEMMA OneMoreOf ==
  ASSUME NEW T, NEW v, NEW n, NEW x, NEW w, Stores(T, v, n, x, w), NEW rest \in Seq(T)
  PROVE  MovesOn(v, n, x, w, rest)
<1> DEFINE p == SubSeq(v, 1, n)
           q == SubSeq(w, 1, n + 1)
           one == <<x>>
<1>1. q = p \o one /\ p \in Seq(T)
  BY OneMore DEF Stores
<1>2. one \in Seq(T)
  BY DEF Stores
<1>3. q \o rest = p \o (one \o rest)
  <2> HIDE DEF p, q, one
  <2>1. (p \o one) \o rest = p \o (one \o rest)
    BY <1>1, <1>2, Associative
  <2> QED
    BY <1>1, <2>1
<1> QED
  BY <1>3 DEF MovesOn

LEMMA SameFrom ==
  ASSUME encoding' = encoding, src' = src
  PROVE  From(encoding, src)' = From(encoding, src)
BY DEF From, D!Left, D!EscapeAt

\* To store a character behind those that have been decoded, and to go on to a
\* later one that is not behind the '\0', preserves the invariant, if it is the
\* one that the string has next.
LEMMA StoreKeeps ==
  ASSUME IInv, state = "on", UNCHANGED lineVars,
         NEW char \in Bytes, NEW used \in Nat \ {0},
         s + used \in 1 .. Len(src) + 1,
         D!Store(char, used),
         From(encoding, src)[s] = With(char, From(encoding, src)[s + used])
  PROVE  IInv'
<1> DEFINE L == Len(src)
<1>1. /\ L \in Nat /\ s \in 1 .. L + 1 /\ stored \in 0 .. s - 1 /\ Len(buf) = L
      /\ at = "line" /\ IsDecoded /\ src \in Seq(Letters) /\ Running /\ Halfway
      /\ encoding \in {"xnn", "qp"} /\ buf \in Seq(Bytes)
  BY DEF IInv, Strings, Running, IsDecoded
<1>2. stored + 1 \in 1 .. Len(buf)
  BY <1>1
<1>3. buf' = [buf EXCEPT ![stored + 1] = char]
  BY DEF D!Store
<1>4. /\ buf' \in Seq(Bytes) /\ Len(buf') = Len(buf) /\ buf'[stored + 1] = char
      /\ \A i \in 1 .. Len(buf) : i # stored + 1 => buf'[i] = buf[i]
  BY <1>1, <1>2, <1>3, ExceptSeq
<1>5. \A i \in s + used .. L : buf'[i] = src[i]
  <2> SUFFICES ASSUME NEW i \in s + used .. L PROVE buf'[i] = src[i]
    OBVIOUS
  <2>1. i # stored + 1 /\ i \in s .. L /\ i \in 1 .. Len(buf)
    BY <1>1
  <2>2. buf'[i] = buf[i]
    BY <2>1, <1>4
  <2> QED
    BY <1>1, <2>1, <2>2 DEF Running
<1>6. /\ s' = s + used /\ stored' = stored + 1 /\ src' = src
      /\ encoding' = encoding /\ state' = state /\ err' = err
  BY DEF D!Store
<1>7. s' \in 1 .. L + 1 /\ stored' \in 0 .. s' - 1
  BY <1>1, <1>6
<1>8. Running'
  BY <1>1, <1>4, <1>5, <1>6, <1>7 DEF Running
<1>9. Halfway'
  <2> DEFINE from == From(encoding, src)
             p == SubSeq(buf, 1, stored)
             next == from[s + used]
             one == <<char>>
             rest == next.chars
  <2>2. next \in Results
    <3>1. s + used \in 1 .. L + 4 /\ from \in [1 .. L + 4 -> Results]
      BY <1>1, FromIs
    <3> HIDE DEF from
    <3> QED
      BY <3>1
  <2>3. /\ from[s].chars = one \o next.chars
        /\ from[s].err = next.err
    BY SMTT(30), <2>2, WithIs
  <2>4. SubSeq(buf', 1, stored + 1) \o rest
          = SubSeq(buf, 1, stored) \o (one \o rest)
    <3>1. Stores(Bytes, buf, stored, char, buf')
      BY <1>1, <1>4 DEF Stores
    <3>2. rest \in Seq(Bytes)
      BY <2>2 DEF Results
    <3>3. MovesOn(buf, stored, char, buf', rest)
      <4> HIDE DEF rest
      <4> QED
        BY <3>1, <3>2, OneMoreOf
    <3> QED
      BY <3>3 DEF MovesOn
  <2>5. D!Decoded(encoding, src) = [chars |-> p \o from[s].chars, err |-> from[s].err]
    BY <1>1 DEF Halfway
  <2>6. D!Decoded(encoding, src) =
          [chars |-> SubSeq(buf', 1, stored + 1) \o next.chars, err |-> next.err]
    <3> HIDE DEF from, next, one
    <3> QED
      BY <2>3, <2>4, <2>5
  <2>7. D!Decoded(encoding, src)' = D!Decoded(encoding, src)
    BY <1>6 DEF D!Decoded, D!Left, D!EscapeAt
  <2>8. From(encoding, src)' = From(encoding, src)
    BY <1>6, SameFrom
  <2> HIDE DEF from
  <2> QED
    BY <1>6, <2>6, <2>7, <2>8 DEF Halfway, from
<1>10. Types'
  <2>1. s' \in Nat \ {0} /\ stored' \in Nat /\ err' \in {0, D!EINVAL}
    BY <1>1, <1>6, <1>7 DEF IInv, Types, TypeOK
  <2> QED
    BY <1>6, <2>1, DecodingTypes DEF IInv
<1>11. Counted' /\ Paged' /\ LineRight' /\ BuildFits'
  <2>1. Raw' = Raw
    BY <1>6 DEF Raw
  <2> QED
    BY <1>1, <2>1, DecodingKeeps
<1>12. D!DecodedRight'
  BY <1>6 DEF D!DecodedRight
<1>13. at' = at
  BY DEF lineVars
<1> QED
  BY <1>1, <1>6, <1>8, <1>9, <1>10, <1>11, <1>12, <1>13
     DEF IInv, Strings, DecodedRight, IsDecoded

\* To end the string where it has nothing more.
LEMMA StopKeeps ==
  ASSUME IInv, state = "on", UNCHANGED lineVars,
         NEW e \in {0, D!EINVAL}, D!Stop(e),
         From(encoding, src)[s] = Ended(e)
  PROVE  IInv'
<1>1. /\ s \in Nat \ {0} /\ stored \in 0 .. Len(buf) /\ buf \in Seq(Bytes)
      /\ at = "line" /\ IsDecoded /\ src \in Seq(Letters) /\ Halfway
  BY DEF IInv, Strings, Running
<1>2. /\ buf' = SubSeq(buf, 1, stored) /\ err' = e /\ state' = "done"
      /\ encoding' = encoding /\ src' = src /\ s' = s /\ stored' = stored
      /\ at' = at
  BY DEF D!Stop, lineVars
<1>3. D!DecodedRight'
  <2> DEFINE p == SubSeq(buf, 1, stored)
  <2>1. p \in Seq(Bytes)
    BY <1>1
  <2>2. p \o <<>> = p
    <3> HIDE DEF p
    <3> QED
      BY <2>1
  <2>3. Ended(e).chars = <<>> /\ Ended(e).err = e
    BY EndedIs
  <2>4. D!Decoded(encoding, src) = [chars |-> p, err |-> e]
    <3>1. D!Decoded(encoding, src) = [chars |-> p \o Ended(e).chars, err |-> Ended(e).err]
      BY <1>1 DEF Halfway
    <3> QED
      BY <2>2, <2>3, <3>1
  <2>5. D!Decoded(encoding, src)' = D!Decoded(encoding, src)
    BY <1>2 DEF D!Decoded, D!Left, D!EscapeAt
  <2> QED
    BY <1>2, <2>4, <2>5 DEF D!DecodedRight
<1>4. Types'
  BY <1>1, <1>2, DecodingTypes DEF IInv
<1>5. Counted' /\ Paged' /\ LineRight' /\ BuildFits'
  <2>1. Raw' = Raw
    BY <1>2 DEF Raw
  <2> QED
    BY <1>1, <2>1, DecodingKeeps
<1> QED
  BY <1>1, <1>2, <1>3, <1>4, <1>5 DEF IInv, Strings, DecodedRight, IsDecoded

\* What is known where a decoder takes its next step, and what the string has
\* there.
LEMMA AtStep ==
  ASSUME IInv, state = "on"
  PROVE  LET L == Len(src)
             from == From(encoding, src)
             left == D!Left(encoding, src, from, s)
         IN  /\ Running /\ src \in Seq(Letters) /\ encoding \in {"xnn", "qp"}
             /\ L \in Nat /\ s \in 1 .. L + 1 /\ s \in Nat /\ s \in 1 .. L + 4
             /\ from[s] = left
             /\ D!Char(s) # NUL <=> s <= L
             /\ s <= L => D!Char(s) = src[s] /\ src[s] \in Bytes
<1>1. Running /\ src \in Seq(Letters) /\ encoding \in {"xnn", "qp"}
  BY DEF IInv, Strings, IsDecoded
<1>2. Len(src) \in Nat /\ s \in 1 .. Len(src) + 1 /\ s \in Nat /\ s \in 1 .. Len(src) + 4
  BY <1>1 DEF Running
<1>3. From(encoding, src)[s] = D!Left(encoding, src, From(encoding, src), s)
  BY <1>1, <1>2, FromIs
<1>4. /\ s <= Len(src) => D!Char(s) = src[s] /\ src[s] \in Letters /\ src[s] # NUL
      /\ s > Len(src) => D!Char(s) = NUL
  BY <1>1, <1>2, CharIs
<1> QED
  BY <1>1, <1>2, <1>3, <1>4 DEF Bytes

LEMMA EscapeKeeps ==
  ASSUME IInv, UNCHANGED lineVars, D!Escape
  PROVE  IInv'
<1> DEFINE lead == D!Lead
           x == <<src[s + lead], src[s + lead + 1]>>
           from == From(encoding, src)
<1>1. /\ state = "on" /\ D!Char(s) # NUL /\ D!StartsEscape /\ D!HasDigits
      /\ D!Store(<<D!Char(s + D!Lead), D!Char(s + D!Lead + 1)>>, D!Lead + 2)
  BY DEF D!Escape, D!InLoop
<1>2. /\ Running /\ src \in Seq(Letters) /\ encoding \in {"xnn", "qp"}
      /\ s \in Nat /\ s \in 1 .. Len(src) + 4 /\ s <= Len(src) /\ Len(src) \in Nat
      /\ s \in 1 .. Len(src) + 1
      /\ from[s] = D!Left(encoding, src, from, s)
  BY <1>1, AtStep
<1>3. /\ lead = IF encoding = "xnn" THEN 2 ELSE 1
      /\ D!EscapeAt(encoding, src, s)
      /\ s + lead + 1 <= Len(src)
      /\ src[s + lead] \in HexDigits /\ src[s + lead + 1] \in HexDigits
      /\ D!Char(s + lead) = src[s + lead]
      /\ D!Char(s + lead + 1) = src[s + lead + 1]
  BY <1>1, <1>2, EscapeIs
<1>4. lead \in {1, 2}
  BY <1>3
<1>5. from[s] = With(x, from[s + lead + 2])
  BY <1>2, <1>3, LeftIs
<1>6. x \in Bytes /\ D!Store(x, lead + 2)
  BY <1>1, <1>3 DEF Bytes
<1>7. s + lead + 2 = s + (lead + 2) /\ lead + 2 \in Nat \ {0}
      /\ s + (lead + 2) \in 1 .. Len(src) + 1
  BY <1>2, <1>3, <1>4
<1>8. from[s] = With(x, from[s + (lead + 2)])
  BY <1>5, <1>7
<1> HIDE DEF x, lead
<1> QED
  BY <1>1, <1>6, <1>7, <1>8, StoreKeeps

LEMMA PlainKeeps ==
  ASSUME IInv, UNCHANGED lineVars, D!Plain
  PROVE  IInv'
<1> DEFINE from == From(encoding, src)
<1>1. /\ state = "on" /\ D!Char(s) # NUL /\ ~D!StartsEscape
      /\ ~D!Skipped(D!Char(s)) /\ ~D!Refused(D!Char(s))
      /\ D!Store(D!Char(s), 1)
  BY DEF D!Plain, D!InLoop
<1>2. /\ Running /\ src \in Seq(Letters) /\ encoding \in {"xnn", "qp"}
      /\ s \in Nat /\ s \in 1 .. Len(src) + 4 /\ s <= Len(src) /\ Len(src) \in Nat
      /\ s \in 1 .. Len(src) + 1
      /\ from[s] = D!Left(encoding, src, from, s)
      /\ D!Char(s) = src[s] /\ src[s] \in Bytes
  BY <1>1, AtStep
<1>3. ~D!EscapeAt(encoding, src, s)
  BY <1>1, <1>2, EscapeIs
<1>4. ~(encoding = "qp" /\ src[s] \in LineEnds \cup Unprintable)
  BY <1>1, <1>2 DEF D!Skipped, D!Refused
<1>5. from[s] = With(src[s], from[s + 1])
  <2>1. D!Left(encoding, src, from, s) = With(src[s], from[s + 1])
    <3> HIDE DEF from
    <3> QED
      BY <1>2, <1>3, <1>4, LeftCopies
  <2> QED
    BY <1>2, <2>1
<1>6. s + 1 \in 1 .. Len(src) + 1
  BY <1>2
<1> QED
  BY <1>1, <1>2, <1>5, <1>6, StoreKeeps

LEMMA StopsKeep ==
  ASSUME IInv, UNCHANGED lineVars, D!BadEscape \/ D!BadChar \/ D!End
  PROVE  IInv'
<1> DEFINE from == From(encoding, src)
<1>1. state = "on"
  BY DEF D!BadEscape, D!BadChar, D!End, D!InLoop
<1>2. /\ Running /\ src \in Seq(Letters) /\ encoding \in {"xnn", "qp"}
      /\ s \in Nat /\ s \in 1 .. Len(src) + 4 /\ Len(src) \in Nat
      /\ from[s] = D!Left(encoding, src, from, s)
      /\ D!Char(s) # NUL <=> s <= Len(src)
      /\ s <= Len(src) => D!Char(s) = src[s]
  BY <1>1, AtStep
<1>3. CASE D!BadEscape
  <2>1. s <= Len(src) /\ D!StartsEscape /\ ~D!HasDigits /\ D!Stop(D!EINVAL)
    BY <1>2, <1>3 DEF D!BadEscape, D!InLoop
  <2>2. from[s] = Ended(D!EINVAL)
    <3>1. /\ D!EscapeAt(encoding, src, s)
          /\ D!Lead = IF encoding = "xnn" THEN 2 ELSE 1
          /\ ~(/\ s + D!Lead + 1 <= Len(src)
               /\ src[s + D!Lead] \in HexDigits
               /\ src[s + D!Lead + 1] \in HexDigits)
      BY <1>2, <2>1, EscapeIs
    <3> QED
      BY <1>2, <2>1, <3>1, LeftIs
  <2> QED
    BY <1>1, <2>1, <2>2, StopKeeps
<1>4. CASE D!BadChar
  <2>1. s <= Len(src) /\ encoding = "qp" /\ src[s] \in Unprintable /\ D!Stop(D!EINVAL)
    BY <1>2, <1>4 DEF D!BadChar, D!InLoop, D!Refused
  <2>2. from[s] = Ended(D!EINVAL)
    BY <1>2, <2>1, LeftIs
  <2> QED
    BY <1>1, <2>1, <2>2, StopKeeps
<1>5. CASE D!End
  <2>1. s > Len(src) /\ D!Stop(0)
    BY <1>2, <1>5 DEF D!End
  <2>2. from[s] = Ended(0)
    BY <1>2, <2>1, LeftIs
  <2> QED
    BY <1>1, <2>1, <2>2, StopKeeps
<1> QED
  BY <1>3, <1>4, <1>5

LEMMA SkipKeeps ==
  ASSUME IInv, UNCHANGED lineVars, D!Skip
  PROVE  IInv'
<1> DEFINE from == From(encoding, src)
<1>1. /\ state = "on" /\ D!Char(s) # NUL /\ D!Skipped(D!Char(s))
      /\ s' = s + 1 /\ encoding' = encoding /\ src' = src /\ buf' = buf
      /\ stored' = stored /\ err' = err /\ state' = state /\ at' = at
  BY DEF D!Skip, D!InLoop, lineVars
<1>2. /\ Running /\ src \in Seq(Letters) /\ encoding \in {"xnn", "qp"}
      /\ s \in Nat /\ s \in 1 .. Len(src) + 4 /\ s <= Len(src) /\ Len(src) \in Nat
      /\ from[s] = D!Left(encoding, src, from, s)
      /\ D!Char(s) = src[s]
  BY <1>1, AtStep
<1>3. encoding = "qp" /\ src[s] \in LineEnds
  BY <1>1, <1>2 DEF D!Skipped
<1>4. from[s] = from[s + 1]
  BY <1>2, <1>3, LeftIs
<1>5. Running'
  BY <1>1, <1>2 DEF Running
<1>6. Halfway'
  <2>1. Halfway
    BY <1>1 DEF IInv, Strings
  <2>2. From(encoding, src)' = from
    BY <1>1, SameFrom
  <2>3. D!Decoded(encoding, src)' = D!Decoded(encoding, src)
    BY <1>1 DEF D!Decoded, D!Left, D!EscapeAt
  <2> QED
    BY <1>1, <1>4, <2>1, <2>2, <2>3 DEF Halfway
<1>7. Types'
  <2>1. s' \in Nat \ {0} /\ stored' \in Nat /\ err' \in {0, D!EINVAL}
    BY <1>1, <1>2 DEF IInv, Types, TypeOK
  <2> QED
    BY <1>1, <2>1, DecodingTypes DEF IInv
<1>8. Counted' /\ Paged' /\ LineRight' /\ BuildFits'
  <2>1. Raw' = Raw /\ at = "line"
    BY <1>1 DEF Raw, IInv, Strings
  <2> QED
    BY <1>1, <2>1, DecodingKeeps
<1>9. D!DecodedRight'
  BY <1>1 DEF D!DecodedRight
<1> QED
  BY <1>1, <1>2, <1>5, <1>6, <1>7, <1>8, <1>9
     DEF IInv, Strings, DecodedRight, IsDecoded

(***************************************************************************)
(* The steps of the reader.                                                *)
(***************************************************************************)
otherVars == <<text, endl, encoding, debug, src, s, stored, err, state, start>>

LEMMA Reading ==
  ASSUME IInv, at = "read"
  PROVE  /\ state = "off" /\ ~eof /\ eof \in BOOLEAN
         /\ segs # <<>> /\ len \in Nat
         /\ Joined(segs) \in Seq(Letters) /\ Len(Joined(segs)) <= len
         /\ segs \in Segments /\ Fits(segs)
         /\ text \in Seq(Chars) /\ Len(text) \in Nat
         /\ pos \in 0 .. Len(text) /\ pos \in Nat
         /\ start \in 0 .. pos /\ start \in Nat
<1>1. /\ state = "off" /\ ~eof /\ eof \in BOOLEAN
      /\ segs # <<>> /\ len \in Nat
      /\ segs \in Segments /\ Len(Joined(segs)) <= len
      /\ text \in Seq(Chars) /\ Len(text) \in Nat
      /\ pos \in 0 .. Len(text) /\ start \in 0 .. pos
  BY DEF IInv, Types, TypeOK, Counted, Segments
<1>2. Fits(segs)
  BY DEF IInv, Types, TypeOK, Fits
<1>3. Joined(segs) \in Seq(Letters)
  <2>1. <<>> \in Seq(Letters)
    OBVIOUS
  <2> QED
    BY <1>1, <1>2, <2>1, WithPageFits
<1> QED
  BY <1>1, <1>2, <1>3

\* What a step of the reader has to preserve.
LEMMA ReadingKeeps ==
  ASSUME IInv, at = "read", UNCHANGED otherVars,
         pos' \in pos .. Len(text), len' \in Nat, eof' \in BOOLEAN,
         segs' \in Segments, segs' # <<>>, Fits(segs)',
         at' \in {"read", "line"},
         at' = "read" => ~eof' /\ Len(Joined(segs)') <= len',
         at' = "line" => buf' \in Seq(Letters) /\ Len(buf') <= len',
         Paged', LineRight'
  PROVE  IInv'
<1>1. /\ text' = text /\ endl' = endl /\ encoding' = encoding /\ src' = src
      /\ s' = s /\ stored' = stored /\ err' = err /\ state' = state /\ start' = start
      /\ debug' = debug
  BY DEF otherVars
<1>2. /\ pos \in 0 .. Len(text) /\ start \in 0 .. pos /\ Len(text) \in Nat
      /\ state = "off"
  BY Reading
<1>3. Types'
  <2>1. pos' \in 0 .. Len(text') /\ start' \in 0 .. pos'
    BY <1>1, <1>2
  <2>2. \A i \in DOMAIN segs' : Len(segs'[i]) <= SegSize
    BY DEF Fits
  <2>3. segs' \in Seq(Seq(Seq(Letters))) /\ text' \in Seq(Chars)
    BY <1>1 DEF Segments, IInv, Types
  <2> QED
    BY <1>1, <2>1, <2>2, <2>3 DEF IInv, Types, TypeOK, D!EINVAL
<1>4. Counted'
  BY <1>1, <1>2 DEF Counted
<1>5. Strings' /\ DecodedRight'
  BY <1>1, <1>2 DEF Strings, DecodedRight, D!DecodedRight
<1>6. BuildFits'
  BY <1>1, <1>2 DEF BuildFits, Raw
<1> QED
  BY <1>3, <1>4, <1>5, <1>6 DEF IInv

\* A page that is not written keeps the list as long as it is.
LEMMA UnreadFits ==
  ASSUME segs \in Segments, segs # <<>>, Fits(segs)
  PROVE  /\ WithPage(Unread) \in Segments /\ WithPage(Unread) # <<>>
         /\ Fits(WithPage(Unread))
         /\ Joined(WithPage(Unread)) \in Seq(Letters)
         /\ Len(Joined(WithPage(Unread))) <= Len(Joined(segs))
<1> DEFINE page == segs[Len(segs)][1]
<1>1. Junk \in Letters
  BY SglAssumption DEF Letters
<1>2. Last(segs) = segs[Len(segs)]
  BY DEF Last
<1>3. CASE IsFull
  <2>1. segs[Len(segs)] \in Seq(Seq(Letters)) /\ segs[Len(segs)] # <<>>
    <3>1. <<>> \in Seq(Letters)
      OBVIOUS
    <3>2. segs[Len(segs)] # <<>>
      BY <1>3, <3>1, WithPageFits
    <3>3. segs[Len(segs)] \in Seq(Seq(Letters))
      <4> DEFINE V == Seq(Seq(Letters))
      <4>1. segs \in Seq(V)
        BY DEF Segments
      <4> HIDE DEF V
      <4>2. segs[Len(segs)] \in V
        BY <4>1
      <4> QED
        BY <4>2 DEF V
    <3> QED
      BY <3>2, <3>3
  <2>2. page \in Seq(Letters)
    <3> DEFINE seg == segs[Len(segs)]
               U == Seq(Letters)
    <3>1. seg \in Seq(U) /\ seg # <<>>
      BY <2>1
    <3> HIDE DEF seg, U
    <3>2. seg[1] \in U
      BY <3>1
    <3> QED
      BY <3>2 DEF seg, U
  <2>3. Unread = [i \in 1 .. Len(page) |-> Junk]
    BY <1>2, <1>3 DEF Unread
  <2>4. Unread \in Seq(Letters) /\ Len(Unread) = Len(page) /\ Len(page) \in Nat
    <3>1. Len(page) \in Nat
      BY <2>2
    <3> HIDE DEF page
    <3> QED
      BY <1>1, <2>3, <3>1
  <2>5. Len(Joined(WithPage(Unread))) = Len(Joined(segs)) - Len(page) + Len(Unread)
        /\ Joined(segs) \in Seq(Letters)
    BY <1>3, <2>4, WithPageFits
  <2>6. Len(Joined(WithPage(Unread))) <= Len(Joined(segs))
    <3>1. Len(Joined(segs)) \in Nat
      BY <2>5
    <3> HIDE DEF page
    <3> QED
      BY <2>4, <2>5, <3>1
  <2> QED
    BY <2>4, <2>6, WithPageFits
<1>4. CASE ~IsFull
  <2>1. Unread = <<>> /\ Unread \in Seq(Letters) /\ Len(Unread) = 0
    BY <1>4 DEF Unread
  <2>2. Len(Joined(WithPage(Unread))) <= Len(Joined(segs)) + 0
        /\ Joined(segs) \in Seq(Letters)
    BY <2>1, WithPageFits
  <2>3. Len(Joined(WithPage(Unread))) <= Len(Joined(segs))
    <3>1. Len(Joined(segs)) \in Nat
      BY <2>2
    <3> QED
      BY <2>2, <3>1
  <2> QED
    BY <2>1, <2>3, WithPageFits
<1> QED
  BY <1>3, <1>4

\* As long as a line fits, its next page has a slot of its own.
LEMMA PageFits ==
  ASSUME IInv, at = "read", UNCHANGED otherVars,
         NEW k \in 1 .. Room, pos' = pos + k,
         IsText', Len(Stretch') <= SegSize * W
  PROVE  /\ endl = NL
         /\ NL \notin Range(Stretch)
         /\ Stretch \in Seq(Chars) /\ Len(Stretch) = pos - start /\ len = pos - start
         /\ Stretch' \in Seq(Chars) /\ Len(Stretch') = pos + k - start
         /\ Len(segs) = 1 /\ ~IsFull
         /\ FlattenSeq(segs[1]) = Stretch
         /\ Len(segs[1]) \in Nat
         /\ Len(Stretch) = Len(segs[1]) * W
         /\ Stretch' = Stretch \o SubSeq(text, pos + 1, pos + k)
         /\ \A i \in 1 .. k : text[pos + i] # NUL
<1>1. /\ text' = text /\ endl' = endl /\ start' = start
      /\ text \in Seq(Chars) /\ Len(text) \in Nat
      /\ pos \in 0 .. Len(text) /\ pos \in Nat /\ start \in 0 .. pos /\ start \in Nat
      /\ segs \in Segments
  BY Reading DEF otherVars
<1>2. /\ Room \in 0 .. W /\ Room <= Len(text) - pos
  BY <1>1, SizesAre DEF Room
<1>3. pos + k \in pos .. Len(text) /\ pos + k \in start .. Len(text)
      /\ pos \in start .. Len(text) /\ pos < Len(text) /\ k \in Nat \ {0}
  BY <1>1, <1>2
<1>4. Stretch' = SubSeq(text, start + 1, pos + k)
  BY <1>1 DEF Stretch
<1>5. endl = NL /\ NUL \notin Range(SubSeq(text, start + 1, pos + k))
  BY <1>1, <1>4 DEF IsText
<1>6. \A i \in start + 1 .. pos + k : text[i] # NUL
  BY <1>1, <1>3, <1>5, LacksIs
<1>7. \A i \in 1 .. k : text[pos + i] # NUL
  <2> TAKE i \in 1 .. k
  <2>1. pos + i \in start + 1 .. pos + k
    BY <1>1, <1>3
  <2> QED
    BY <1>6, <2>1
<1>8. IsText
  <2>1. \A i \in start + 1 .. pos : text[i] # NUL
    BY <1>1, <1>3, <1>6
  <2>2. NUL \notin Range(SubSeq(text, start + 1, pos))
    BY <1>1, <1>3, <2>1, LacksIs
  <2> QED
    BY <1>5, <2>2 DEF IsText, Stretch
<1>9. /\ Stretch \in Seq(Chars) /\ Len(Stretch) = pos - start
      /\ Stretch' \in Seq(Chars) /\ Len(Stretch') = pos + k - start
  <2>1. /\ SubSeq(text, start + 1, pos) \in Seq(Chars)
        /\ Len(SubSeq(text, start + 1, pos)) = pos - start
    BY <1>1, <1>3, StretchIs
  <2>2. /\ SubSeq(text, start + 1, pos + k) \in Seq(Chars)
        /\ Len(SubSeq(text, start + 1, pos + k)) = pos + k - start
    BY <1>1, <1>3, StretchIs
  <2> QED
    BY <1>4, <2>1, <2>2 DEF Stretch
<1>10. Len(Stretch) < SegSize * W /\ SegSize * W \in Nat
  <2>1. SegSize * W \in Nat
    BY SizesAre, Products
  <2> QED
    BY <1>1, <1>3, <1>9, <2>1
<1>11. /\ NL \notin Range(Stretch) /\ len = Len(Stretch)
       /\ Len(segs) = 1 /\ FlattenSeq(segs[1]) = Stretch
       /\ Len(Stretch) = Len(segs[1]) * W
  BY <1>1, <1>3, <1>8, <1>9, <1>10 DEF IInv, Paged
<1>12. Len(segs[1]) \in Nat
  <2>1. segs[1] \in Seq(Seq(Letters))
    BY <1>1, <1>11, JoinedOne
  <2> QED
    BY <2>1
<1>13. ~IsFull
  <2>1. Len(segs[1]) < SegSize
    BY <1>10, <1>11, <1>12, SizesAre, Products
  <2> QED
    BY <1>11, <1>12, <2>1, SizesAre DEF IsFull, Last
<1>14. Stretch' = Stretch \o SubSeq(text, pos + 1, pos + k)
  BY <1>1, <1>3, <1>4, StretchGoesOn DEF Stretch
<1> QED
  BY <1>5, <1>7, <1>9, <1>11, <1>12, <1>13, <1>14

\* What one page is, and the two ways it is taken.
PageIs(k, m, string) ==
  /\ string = SubSeq(text, pos + 1, pos + m)
  /\ IsRead(k) /\ IsString(k, m)
  /\ pos' = pos + k

EndsLine(m, string) ==
  /\ m > 0
  /\ string[m] = NL
  /\ segs' = WithPage(Front(string))
  /\ Build(len + m - 1)

GoesOn(m, string) ==
  /\ ~(m > 0 /\ string[m] = NL)
  /\ segs' = WithPage(string)
  /\ len' = len + m
  /\ at' = at /\ buf' = buf

LEMMA PageTaken ==
  ASSUME IInv, ReadPage
  PROVE  \E k \in 1 .. Room, m \in Nat :
           LET string == SubSeq(text, pos + 1, pos + m)
           IN  /\ m \in 0 .. k
               /\ PageIs(k, m, string)
               /\ EndsLine(m, string) \/ GoesOn(m, string)
               /\ string \in Seq(Letters) /\ Len(string) = m
               /\ pos + k \in pos .. Len(text)
               /\ Room \in 0 .. W /\ Room <= Len(text) - pos
               /\ Room < W => Room = Len(text) - pos
               /\ \A i \in 1 .. m : string[i] = text[pos + i]
<1> DEFINE string(m) == SubSeq(text, pos + 1, pos + m)
<1>1. at = "read" /\ UNCHANGED <<text, endl, eof>>
  BY DEF ReadPage
<1>2. PICK k \in 1 .. Room : \E m \in 0 .. k :
        /\ IsRead(k) /\ IsString(k, m)
        /\ pos' = pos + k
        /\ IF m > 0 /\ Last(string(m)) = NL
           THEN segs' = WithPage(Front(string(m))) /\ Build(len + m - 1)
           ELSE segs' = WithPage(string(m)) /\ len' = len + m /\ UNCHANGED <<at, buf>>
  BY DEF ReadPage
<1>10. PICK m \in 0 .. k :
        /\ IsRead(k) /\ IsString(k, m)
        /\ pos' = pos + k
        /\ IF m > 0 /\ Last(string(m)) = NL
           THEN segs' = WithPage(Front(string(m))) /\ Build(len + m - 1)
           ELSE segs' = WithPage(string(m)) /\ len' = len + m /\ UNCHANGED <<at, buf>>
  BY <1>2
<1>3. k \in 0 .. Room /\ m \in Nat
  BY <1>2, <1>10
<1>4. /\ Room \in 0 .. W /\ Room <= Len(text) - pos
      /\ Room < W => Room = Len(text) - pos
      /\ pos + k \in 0 .. Len(text)
      /\ string(m) \in Seq(Letters)
      /\ Len(string(m)) = m
      /\ \A i \in 1 .. m : string(m)[i] = text[pos + i]
  BY <1>1, <1>2, <1>3, <1>10, Reading, PageRead
<1>5. pos + k \in pos .. Len(text)
  BY <1>1, <1>3, <1>4, Reading
<1>6. Last(string(m)) = string(m)[m]
  BY <1>4 DEF Last
<1> HIDE DEF string
<1>7. EndsLine(m, string(m)) \/ GoesOn(m, string(m))
  BY <1>6, <1>10 DEF EndsLine, GoesOn
<1>8. PageIs(k, m, string(m))
  BY <1>10 DEF PageIs, string
<1> QED
  BY <1>2, <1>3, <1>4, <1>5, <1>7, <1>8, <1>10 DEF string

\* Of a page of a line that fits, nothing is lost.
LEMMA WholePage ==
  ASSUME IInv, at = "read", UNCHANGED otherVars,
         NEW k \in 1 .. Room, NEW m \in Nat, m <= k, IsString(k, m),
         pos' = pos + k, IsText', Len(Stretch') <= SegSize * W
  PROVE  m = k
<1>1. \A i \in 1 .. k : text[pos + i] # NUL
  BY PageFits
<1>2. Room \in Nat
  BY Reading, SizesAre DEF Room
<1>3. ASSUME m < k PROVE FALSE
  <2>1. text[pos + m + 1] = NUL
    BY <1>3 DEF IsString
  <2>2. m + 1 \in 1 .. k /\ pos + (m + 1) = pos + m + 1
    BY <1>2, <1>3, Reading
  <2> QED
    BY <1>1, <2>1, <2>2
<1> QED
  BY <1>2, <1>3

LEMMA GoesOnPaged ==
  ASSUME IInv, at = "read", UNCHANGED otherVars,
         NEW k \in 1 .. Room, NEW m \in Nat, m <= k,
         NEW string, string \in Seq(Letters), Len(string) = m,
         \A i \in 1 .. m : string[i] = text[pos + i],
         Room \in 0 .. W, Room <= Len(text) - pos,
         Room < W => Room = Len(text) - pos,
         PageIs(k, m, string), GoesOn(m, string)
  PROVE  Paged'
<1> SUFFICES ASSUME IsText', Len(Stretch') <= SegSize * W
             PROVE  /\ NL \notin Range(Stretch')
                    /\ len' = Len(Stretch')
                    /\ Len(segs') = 1
                    /\ FlattenSeq(segs'[1]) = Stretch'
                    /\ Len(Stretch') <= Len(segs'[1]) * W
                    /\ pos' < Len(text') => Len(Stretch') = Len(segs'[1]) * W
  BY DEF Paged
<1>1. /\ text' = text /\ start' = start
      /\ text \in Seq(Chars) /\ Len(text) \in Nat
      /\ pos \in 0 .. Len(text) /\ pos \in Nat /\ start \in 0 .. pos /\ start \in Nat
      /\ segs \in Segments
  BY Reading DEF otherVars
<1>2. /\ endl = NL
      /\ NL \notin Range(Stretch)
      /\ Stretch \in Seq(Chars) /\ Len(Stretch) = pos - start /\ len = pos - start
      /\ Stretch' \in Seq(Chars) /\ Len(Stretch') = pos + k - start
      /\ Len(segs) = 1 /\ ~IsFull
      /\ FlattenSeq(segs[1]) = Stretch
      /\ Len(segs[1]) \in Nat
      /\ Len(Stretch) = Len(segs[1]) * W
      /\ Stretch' = Stretch \o SubSeq(text, pos + 1, pos + k)
  BY PageFits DEF PageIs
<1>3. m = k
  BY WholePage DEF PageIs
<1>4. k \in Nat \ {0} /\ pos + k \in pos .. Len(text) /\ k <= W /\ W \in Nat
  BY <1>1, SizesAre
<1>5. string = SubSeq(text, pos + 1, pos + k)
  BY <1>3 DEF PageIs
<1>6. /\ Len(segs') = 1
      /\ Len(segs'[1]) = Len(segs[1]) + 1
      /\ FlattenSeq(segs'[1]) = Stretch'
  <2>1. /\ Len(WithPage(string)) = 1
        /\ Len(WithPage(string)[1]) = Len(segs[1]) + 1
        /\ FlattenSeq(WithPage(string)[1]) = FlattenSeq(segs[1]) \o string
    BY <1>1, <1>2, OnePage
  <2> QED
    BY <1>2, <1>5, <2>1 DEF GoesOn
<1>7. text[pos + k] # NL
  <2>1. m > 0 /\ m \in 1 .. m
    BY <1>3, <1>4
  <2> QED
    BY <1>3, <2>1 DEF GoesOn
<1>8. k = Room /\ \A i \in 1 .. k : text[pos + i] # NL
  <2>1. ~EndsPage(k)
    BY <1>7 DEF EndsPage
  <2>2. k = Room /\ \A i \in 1 .. k - 1 : ~EndsPage(i)
    BY <1>2, <2>1, SglAssumption DEF PageIs, IsRead
  <2>3. \A i \in 1 .. k - 1 : text[pos + i] # NL
    BY <1>2, <2>2 DEF EndsPage
  <2>4. \A i \in 1 .. k : i = k \/ i \in 1 .. k - 1
    BY <1>4
  <2> QED
    BY <1>7, <2>2, <2>3, <2>4
<1>9. NL \notin Range(Stretch')
  <2>1. \A i \in start + 1 .. pos : text[i] # NL
    <3>1. NL \notin Range(SubSeq(text, start + 1, pos)) /\ pos \in start .. Len(text)
      BY <1>1, <1>2 DEF Stretch
    <3> QED
      BY SMTT(30), <1>1, <3>1, LacksIs
  <2>2. \A i \in pos + 1 .. pos + k : text[i] # NL
    <3> TAKE i \in pos + 1 .. pos + k
    <3>1. i - pos \in 1 .. k /\ pos + (i - pos) = i
      BY <1>1, <1>4
    <3> QED
      BY <1>8, <3>1
  <2>3. \A i \in start + 1 .. pos + k : text[i] # NL
    <3> TAKE i \in start + 1 .. pos + k
    <3>1. i \in start + 1 .. pos \/ i \in pos + 1 .. pos + k
      BY <1>1, <1>4
    <3> QED
      BY <2>1, <2>2, <3>1
  <2>4. pos + k \in start .. Len(text)
    BY <1>1, <1>4
  <2>5. NL \notin Range(SubSeq(text, start + 1, pos + k))
    BY <1>1, <2>3, <2>4, LacksIs
  <2> QED
    BY <1>1, <2>5 DEF Stretch, PageIs
<1>10. len' = Len(Stretch')
  BY <1>1, <1>2, <1>3, <1>4 DEF GoesOn
<1>11. Len(segs'[1]) * W = Len(Stretch) + W
  <2> DEFINE a == Len(segs[1])
  <2>1. a \in Nat /\ W \in Nat \ {0} /\ Len(Stretch) = a * W /\ Len(segs'[1]) = a + 1
    BY <1>2, <1>6, SizesAre
  <2> HIDE DEF a
  <2>2. (a + 1) * W = a * W + W
    BY <2>1, Products
  <2> QED
    BY <2>1, <2>2
<1>12. Len(Stretch') <= Len(segs'[1]) * W
  BY <1>1, <1>2, <1>4, <1>11
<1>13. ASSUME pos' < Len(text') PROVE Len(Stretch') = Len(segs'[1]) * W
  <2>1. Room = W
    BY <1>1, <1>4, <1>8, <1>13 DEF PageIs
  <2> QED
    BY <1>1, <1>2, <1>4, <1>8, <1>11, <2>1
<1> QED
  BY <1>6, <1>9, <1>10, <1>12, <1>13

LEMMA EndsLineRight ==
  ASSUME IInv, at = "read", UNCHANGED otherVars, eof' = eof,
         NEW k \in 1 .. Room, NEW m \in Nat, m <= k,
         NEW string, string \in Seq(Letters), Len(string) = m,
         \A i \in 1 .. m : string[i] = text[pos + i],
         Room \in 0 .. W, Room <= Len(text) - pos,
         PageIs(k, m, string), EndsLine(m, string)
  PROVE  LineRight'
<1> SUFFICES ASSUME IsText', Len(Stretch') <= SegSize * W
             PROVE  ReadWhole'
  BY SizesAre DEF LineRight
<1>1. /\ text' = text /\ start' = start /\ state' = state /\ state = "off" /\ ~eof
      /\ text \in Seq(Chars) /\ Len(text) \in Nat
      /\ pos \in 0 .. Len(text) /\ pos \in Nat /\ start \in 0 .. pos /\ start \in Nat
      /\ segs \in Segments /\ segs # <<>> /\ Fits(segs)
  BY Reading DEF otherVars
<1>2. /\ endl = NL
      /\ NL \notin Range(Stretch)
      /\ Stretch \in Seq(Chars) /\ Len(Stretch) = pos - start /\ len = pos - start
      /\ Stretch' \in Seq(Chars) /\ Len(Stretch') = pos + k - start
      /\ Len(segs) = 1 /\ ~IsFull
      /\ FlattenSeq(segs[1]) = Stretch
      /\ Stretch' = Stretch \o SubSeq(text, pos + 1, pos + k)
  BY PageFits DEF PageIs
<1>3. m = k
  BY WholePage DEF PageIs
<1>4. k \in Nat \ {0} /\ pos + k \in pos .. Len(text)
  BY <1>1, SizesAre
<1> DEFINE x == Front(string)
<1>5. /\ x \in Seq(Letters) /\ Len(x) = k - 1
      /\ \A i \in 1 .. k - 1 : x[i] = text[pos + i]
  <2>1. string # <<>>
    BY <1>3, <1>4
  <2>2. /\ x \in Seq(Letters) /\ Len(x) = k - 1
        /\ \A i \in 1 .. k - 1 : x[i] = string[i]
    BY <1>3, <2>1, FrontIs
  <2>3. \A i \in 1 .. k - 1 : string[i] = text[pos + i]
    BY <1>3, <1>4
  <2> HIDE DEF x
  <2> QED
    BY <2>2, <2>3
<1>6. text[pos + k] = NL
  BY <1>3, <1>4 DEF EndsLine
<1>7. x = SubSeq(text, pos + 1, pos + (k - 1))
  <2> DEFINE e == pos + (k - 1)
             y == SubSeq(text, pos + 1, e)
  <2>1. e \in pos .. Len(text) /\ e - pos = k - 1
    BY <1>1, <1>4
  <2>2. y \in Seq(Chars) /\ Len(y) = k - 1 /\ \A i \in 1 .. k - 1 : y[i] = text[pos + i]
    <3> HIDE DEF e
    <3> QED
      BY <1>1, <2>1, StretchIs
  <2>3. x \in Seq(Letters \cup Chars) /\ y \in Seq(Letters \cup Chars)
    <3> HIDE DEF x, y
    <3> QED
      BY <1>5, <2>2
  <2>4. Len(x) = Len(y) /\ \A i \in 1 .. Len(x) : x[i] = y[i]
    <3> HIDE DEF x, y
    <3> QED
      BY <1>5, <2>2
  <2>5. x = y
    <3> HIDE DEF x, y
    <3> QED
      BY <2>3, <2>4, SeqEqual
  <2> QED
    BY <2>5
<1> DEFINE line == SubSeq(text, start + 1, pos + (k - 1))
<1>8. /\ line = Stretch \o x
      /\ line \in Seq(Chars) /\ Len(line) = pos + k - start - 1
  <2> DEFINE e == pos + (k - 1)
  <2>1. e \in pos .. Len(text) /\ e \in start .. Len(text) /\ pos \in start .. Len(text)
        /\ e - start = pos + k - start - 1
    BY <1>1, <1>4
  <2> HIDE DEF e
  <2>2. SubSeq(text, start + 1, e) = SubSeq(text, start + 1, pos) \o SubSeq(text, pos + 1, e)
    BY <1>1, <2>1, StretchGoesOn
  <2>3. SubSeq(text, start + 1, e) \in Seq(Chars) /\ Len(SubSeq(text, start + 1, e)) = e - start
    BY <1>1, <2>1, StretchIs
  <2> QED
    BY <1>7, <2>1, <2>2, <2>3 DEF Stretch, e
<1>9. buf' = line
  <2>1. segs' = WithPage(x) /\ buf' = Joined(segs')
    BY DEF EndsLine, Build, Joined
  <2>2. WithPage(x) \in Segments
    BY <1>1, <1>5, WithPageFits
  <2>3. Len(WithPage(x)) = 1 /\ FlattenSeq(WithPage(x)[1]) = FlattenSeq(segs[1]) \o x
    BY <1>1, <1>2, <1>5, OnePage
  <2>4. Joined(WithPage(x)) = FlattenSeq(WithPage(x)[1])
    BY <2>2, <2>3, JoinedOne
  <2> HIDE DEF x, line
  <2> QED
    BY <1>2, <1>8, <2>1, <2>3, <2>4
<1>10. Stretch' = SubSeq(text, start + 1, pos + k)
  BY <1>1 DEF Stretch, PageIs
<1>11. \A i \in 1 .. Len(Stretch') : Stretch'[i] = text[start + i]
  <2>1. pos + k \in start .. Len(text)
    BY <1>1, <1>4
  <2>2. \A i \in 1 .. pos + k - start : SubSeq(text, start + 1, pos + k)[i] = text[start + i]
    BY <1>1, <2>1, StretchIs
  <2> QED
    BY <1>2, <1>10, <2>2
<1>12. Stretch' # <<>> /\ Last(Stretch') = NL
  <2>3. Len(Stretch') = pos + k - start
    BY <1>2
  <2>1. Len(Stretch') \in 1 .. Len(Stretch') /\ start + Len(Stretch') = pos + k
    BY <1>1, <1>4, <2>3
  <2>2. Stretch'[Len(Stretch')] = NL
    BY <1>6, <1>11, <2>1
  <2>4. Stretch' # <<>>
    <3> DEFINE w == Stretch'
    <3>1. w \in Seq(Chars) /\ Len(w) \in 1 .. Len(w)
      BY <1>2, <2>1
    <3> HIDE DEF w
    <3>2. w # <<>>
      BY <3>1
    <3> QED
      BY <3>2 DEF w
  <2> QED
    BY <2>2, <2>4 DEF Last
<1>13. Front(Stretch') = line /\ SubSeq(Stretch', 1, Len(Stretch') - 1) = line
  <2> DEFINE z == SubSeq(Stretch', 1, Len(Stretch') - 1)
             n == pos + k - start - 1
  <2>1. n \in Nat /\ Len(Stretch') - 1 = n /\ \A i \in 1 .. n : i \in 1 .. Len(Stretch')
    BY <1>1, <1>2, <1>4
  <2>2. z \in Seq(Chars) /\ Len(z) = n /\ \A i \in 1 .. n : z[i] = Stretch'[i]
    <3> DEFINE w == Stretch'
    <3>1. w \in Seq(Chars) /\ w # <<>> /\ Len(w) - 1 = n
      BY <1>2, <1>12, <2>1
    <3> HIDE DEF n, w
    <3>2. /\ Front(w) \in Seq(Chars) /\ Len(Front(w)) = Len(w) - 1
          /\ \A i \in 1 .. Len(w) - 1 : Front(w)[i] = w[i]
      BY <3>1, FrontIs
    <3> QED
      BY <3>1, <3>2 DEF Front, w
  <2>3. \A i \in 1 .. n : line[i] = text[start + i]
    <3> DEFINE e == pos + (k - 1)
    <3>1. e \in start .. Len(text) /\ e - start = n
      BY <1>1, <1>4
    <3> HIDE DEF e, n
    <3>2. \A i \in 1 .. n : SubSeq(text, start + 1, e)[i] = text[start + i]
      BY <1>1, <3>1, StretchIs
    <3> QED
      BY <3>2 DEF e
  <2>4. z = line
    <3>1. Len(line) = n
      BY <1>8
    <3>2. \A i \in 1 .. n : z[i] = line[i]
      <4> HIDE DEF z, line, n
      <4> QED
        BY <1>11, <2>1, <2>2, <2>3
    <3> HIDE DEF z, line, n
    <3> QED
      BY <1>8, <2>2, <3>1, <3>2, SeqEqual
  <2> QED
    BY <2>4 DEF Front
<1>14. NL \notin Range(line)
  <2>1. NL \notin Range(x)
    <3>1. \A i \in 1 .. k - 1 : text[pos + i] # NL
      BY <1>2 DEF PageIs, IsRead, EndsPage
    <3> HIDE DEF x
    <3> QED
      BY <1>5, <3>1, RangeIs
  <2>2. \A i \in start + 1 .. pos : text[i] # NL
    <3>1. NL \notin Range(SubSeq(text, start + 1, pos)) /\ pos \in start .. Len(text)
      BY <1>1, <1>2 DEF Stretch
    <3> QED
      BY <1>1, <3>1, LacksIs
  <2>3. \A i \in start + 1 .. pos + (k - 1) : text[i] # NL
    <3> TAKE i \in start + 1 .. pos + (k - 1)
    <3>1. i \in start + 1 .. pos \/ (i - pos \in 1 .. k - 1 /\ pos + (i - pos) = i)
      BY <1>1, <1>4
    <3>2. \A j \in 1 .. k - 1 : text[pos + j] # NL
      BY <1>2 DEF PageIs, IsRead, EndsPage
    <3> QED
      BY <2>2, <3>1, <3>2
  <2> DEFINE e == pos + (k - 1)
  <2>4. e \in start .. Len(text) /\ \A i \in start + 1 .. e : text[i] # NL
    BY <1>1, <1>4, <2>3
  <2>5. NL \notin Range(SubSeq(text, start + 1, e))
    <3> HIDE DEF e
    <3> QED
      BY <1>1, <2>4, LacksIs
  <2> QED
    BY <2>5
<1>15. Raw' = line /\ len' = Len(line) /\ ~eof'
  <2>1. Raw' = buf'
    BY <1>1 DEF Raw
  <2>2. len' = len + m - 1
    BY DEF EndsLine, Build
  <2>3. len + m - 1 = pos + k - start - 1
    BY <1>1, <1>2, <1>3, <1>4
  <2> QED
    BY <1>1, <1>8, <1>9, <2>1, <2>2, <2>3
<1> HIDE DEF line
<1> QED
  BY <1>12, <1>13, <1>14, <1>15 DEF ReadWhole

LEMMA ReadPageKeeps ==
  ASSUME IInv, UNCHANGED otherVars, ReadPage
  PROVE  IInv'
<1>1. at = "read" /\ eof' = eof
  BY DEF ReadPage
<1>2. /\ segs \in Segments /\ segs # <<>> /\ Fits(segs) /\ len \in Nat
      /\ ~eof' /\ eof' \in BOOLEAN
      /\ Joined(segs) \in Seq(Letters) /\ Len(Joined(segs)) <= len
  BY <1>1, Reading
<1> DEFINE str(m) == SubSeq(text, pos + 1, pos + m)
<1>3. PICK k \in 1 .. Room, m \in Nat :
        /\ m \in 0 .. k
        /\ PageIs(k, m, str(m))
        /\ EndsLine(m, str(m)) \/ GoesOn(m, str(m))
        /\ str(m) \in Seq(Letters) /\ Len(str(m)) = m
        /\ pos + k \in pos .. Len(text)
        /\ Room \in 0 .. W /\ Room <= Len(text) - pos
        /\ Room < W => Room = Len(text) - pos
        /\ \A i \in 1 .. m : str(m)[i] = text[pos + i]
  BY PageTaken
<1> DEFINE string == str(m)
<1>4. /\ k \in 1 .. Room /\ m \in Nat /\ m <= k
      /\ PageIs(k, m, string)
      /\ EndsLine(m, string) \/ GoesOn(m, string)
      /\ string \in Seq(Letters) /\ Len(string) = m
      /\ pos + k \in pos .. Len(text)
      /\ Room \in 0 .. W /\ Room <= Len(text) - pos
      /\ Room < W => Room = Len(text) - pos
      /\ \A i \in 1 .. m : string[i] = text[pos + i]
  BY SMTT(30), <1>3
<1> HIDE DEF string
<1>5. pos' \in pos .. Len(text)
  BY <1>4 DEF PageIs
<1>6. CASE GoesOn(m, string)
  <2>1. segs' = WithPage(string) /\ len' = len + m /\ at' = at
    BY <1>6 DEF GoesOn
  <2>2. /\ segs' \in Segments /\ segs' # <<>> /\ Fits(WithPage(string))
        /\ Joined(WithPage(string)) \in Seq(Letters)
        /\ Len(Joined(WithPage(string))) <= Len(Joined(segs)) + Len(string)
    BY <1>2, <1>4, <2>1, WithPageFits
  <2>3. Fits(segs)' /\ Joined(segs)' = Joined(WithPage(string))
    BY <2>1, <2>2 DEF Fits, Joined
  <2>4. len' \in Nat /\ Len(Joined(segs)') <= len'
    <3>1. Len(Joined(WithPage(string))) \in Nat /\ Len(Joined(segs)) \in Nat
      BY <1>2, <2>2
    <3> QED
      BY <1>2, <1>4, <2>1, <2>2, <2>3, <3>1
  <2>5. Paged'
    BY <1>1, <1>4, <1>6, GoesOnPaged
  <2>6. LineRight'
    BY <1>1, <2>1 DEF LineRight
  <2> QED
    BY <1>1, <1>2, <1>5, <2>1, <2>2, <2>3, <2>4, <2>5, <2>6, ReadingKeeps
<1>7. CASE EndsLine(m, string)
  <2> DEFINE x == Front(string)
  <2>1. segs' = WithPage(x) /\ len' = len + m - 1 /\ at' = "line" /\ m > 0
        /\ buf' = Joined(segs')
    BY <1>7 DEF EndsLine, Build, Joined
  <2>2. x \in Seq(Letters) /\ Len(x) = m - 1
    <3>1. string # <<>>
      BY <1>4, <2>1
    <3> QED
      BY <1>4, <3>1, FrontIs
  <2> HIDE DEF x
  <2>3. /\ segs' \in Segments /\ segs' # <<>> /\ Fits(WithPage(x))
        /\ Joined(WithPage(x)) \in Seq(Letters)
        /\ Len(Joined(WithPage(x))) <= Len(Joined(segs)) + Len(x)
    BY <1>2, <2>1, <2>2, WithPageFits
  <2>4. Fits(segs)' /\ buf' \in Seq(Letters) /\ buf' = Joined(WithPage(x))
    BY <2>1, <2>3 DEF Fits
  <2>5. len' \in Nat /\ Len(buf') <= len'
    <3>1. Len(Joined(WithPage(x))) \in Nat /\ Len(Joined(segs)) \in Nat
      BY <1>2, <2>3
    <3> QED
      BY <1>2, <1>4, <2>1, <2>2, <2>3, <2>4, <3>1
  <2>6. Paged'
    BY <2>1 DEF Paged
  <2>7. LineRight'
    BY <1>1, <1>4, <1>7, EndsLineRight
  <2> QED
    BY <1>1, <1>2, <1>5, <2>1, <2>3, <2>4, <2>5, <2>6, <2>7, ReadingKeeps
<1> QED
  BY <1>4, <1>6, <1>7

\* What the two steps that read no page have in common.
LEMMA NoPageKeeps ==
  ASSUME IInv, UNCHANGED otherVars, NEW atEnd \in BOOLEAN, NoPage(atEnd),
         pos' \in pos .. Len(text), LineRight'
  PROVE  IInv'
<1>1. /\ at = "read" /\ segs' = WithPage(Unread) /\ at' = "line" /\ len' = len
      /\ buf' = Joined(segs') /\ eof' = atEnd
  BY DEF NoPage, Build, Joined
<1>2. /\ segs \in Segments /\ segs # <<>> /\ Fits(segs) /\ len \in Nat
      /\ Joined(segs) \in Seq(Letters) /\ Len(Joined(segs)) <= len
  BY <1>1, Reading
<1>3. /\ WithPage(Unread) \in Segments /\ WithPage(Unread) # <<>>
      /\ Fits(WithPage(Unread))
      /\ Joined(WithPage(Unread)) \in Seq(Letters)
      /\ Len(Joined(WithPage(Unread))) <= Len(Joined(segs))
  BY <1>2, UnreadFits
<1>4. segs' \in Segments /\ segs' # <<>> /\ Fits(segs)' /\ buf' \in Seq(Letters)
  BY <1>1, <1>3 DEF Fits
<1>5. Len(buf') <= len'
  <2>1. Len(Joined(WithPage(Unread))) \in Nat /\ Len(Joined(segs)) \in Nat
    BY <1>2, <1>3
  <2> QED
    BY <1>1, <1>2, <1>3, <2>1
<1>6. Paged'
  BY <1>1 DEF Paged
<1> QED
  BY <1>1, <1>2, <1>4, <1>5, <1>6, ReadingKeeps

\* Nothing in a line that fits is an end of the line, if the page that is not
\* delivered has none.
LEMMA NoEnd ==
  ASSUME IInv, at = "read", UNCHANGED otherVars,
         NEW k \in 0 .. Room, Room \in 0 .. W, Room <= Len(text) - pos, pos' = pos + k,
         \A i \in 1 .. k : ~EndsPage(i),
         IsText', Len(Stretch') <= SegSize * W
  PROVE  /\ NL \notin Range(SubSeq(Stretch', 1, Len(Stretch') - 1))
         /\ Stretch' # <<>> => Last(Stretch') # NL
<1>1. /\ text' = text /\ start' = start /\ endl' = endl
      /\ text \in Seq(Chars) /\ Len(text) \in Nat
      /\ pos \in 0 .. Len(text) /\ pos \in Nat /\ start \in 0 .. pos /\ start \in Nat
  BY Reading DEF otherVars
<1> DEFINE e == pos + k
           w == SubSeq(text, start + 1, e)
<1>2. e \in start .. Len(text) /\ pos \in start .. e /\ pos \in start .. Len(text)
  BY <1>1, SizesAre
<1>3. Stretch' = w
  BY <1>1 DEF Stretch
<1>4. \A i \in start + 1 .. pos : text[i] # NL
  <2>1. endl = NL /\ NUL \notin Range(w)
    BY <1>1, <1>3 DEF IsText
  <2>2. \A i \in start + 1 .. e : text[i] # NUL
    <3> HIDE DEF e
    <3> QED
      BY <1>1, <1>2, <2>1, LacksIs DEF w
  <2>3. NUL \notin Range(SubSeq(text, start + 1, pos))
    <3>1. \A i \in start + 1 .. pos : text[i] # NUL
      BY <1>1, <1>2, <2>2
    <3> QED
      BY <1>1, <1>2, <3>1, LacksIs
  <2>4. IsText
    BY <2>1, <2>3 DEF IsText, Stretch
  <2>5. Len(Stretch) <= SegSize * W
    <3>1. Len(Stretch) = pos - start /\ Len(w) = pos + k - start
      <4>1. Len(Stretch) = pos - start
        BY <1>1, <1>2, StretchIs DEF Stretch
      <4>2. Len(w) = e - start
        <5> HIDE DEF e
        <5> QED
          BY <1>1, <1>2, StretchIs DEF w
      <4> HIDE DEF w
      <4> QED
        BY <1>1, <4>1, <4>2
    <3>2. SegSize * W \in Nat
      BY SizesAre, Products
    <3> HIDE DEF w
    <3>3. k \in Nat /\ Len(w) <= SegSize * W
      BY <1>3, SizesAre
    <3> QED
      BY <1>1, <3>1, <3>2, <3>3
  <2>6. NL \notin Range(SubSeq(text, start + 1, pos))
    BY <2>4, <2>5 DEF IInv, Paged, Stretch
  <2> QED
    BY <1>1, <1>2, <2>6, LacksIs
<1>5. \A i \in start + 1 .. e : text[i] # NL
  <2>1. endl = NL
    BY <1>1 DEF IsText
  <2> TAKE i \in start + 1 .. e
  <2>2. i \in start + 1 .. pos \/ (i - pos \in 1 .. k /\ pos + (i - pos) = i)
    BY <1>1, SizesAre
  <2> QED
    BY <1>4, <2>1, <2>2 DEF EndsPage
<1>6. /\ w \in Seq(Chars) /\ Len(w) = e - start
      /\ \A i \in 1 .. e - start : w[i] = text[start + i]
  <2> HIDE DEF e
  <2> QED
    BY <1>1, <1>2, StretchIs DEF w
<1>7. \A i \in 1 .. Len(w) : w[i] # NL
  <2> TAKE i \in 1 .. Len(w)
  <2>1. start + i \in start + 1 .. e /\ i \in 1 .. e - start
    <3> HIDE DEF e, w
    <3> QED
      BY <1>1, <1>2, <1>6
  <2> HIDE DEF w, e
  <2> QED
    BY <1>5, <1>6, <2>1
<1> HIDE DEF w, e
<1>8. CASE w = <<>>
  <2>1. SubSeq(w, 1, Len(w) - 1) = <<>>
    BY <1>8
  <2>2. NL \notin Range(<<>>)
    BY DEF Range
  <2> QED
    BY <1>3, <1>8, <2>1, <2>2
<1>9. CASE w # <<>>
  <2>1. Len(w) \in 1 .. Len(w) /\ Last(w) = w[Len(w)]
    BY <1>6, <1>9 DEF Last
  <2>2. /\ Front(w) \in Seq(Chars) /\ Len(Front(w)) = Len(w) - 1
        /\ \A i \in 1 .. Len(w) - 1 : Front(w)[i] = w[i]
    BY <1>6, <1>9, FrontIs
  <2>3. \A i \in 1 .. Len(Front(w)) : Front(w)[i] # NL
    BY <1>7, <2>1, <2>2
  <2>4. NL \notin Range(Front(w))
    BY <2>2, <2>3, RangeIs
  <2> QED
    BY <1>3, <1>7, <2>1, <2>4 DEF Front
<1> QED
  BY <1>8, <1>9

LEMMA EndOfFileKeeps ==
  ASSUME IInv, UNCHANGED otherVars, EndOfFile
  PROVE  IInv'
<1>1. Room = 0 /\ NoPage(TRUE) /\ pos' = pos /\ at = "read" /\ eof' = TRUE
      /\ text' = text
  BY DEF EndOfFile, NoPage
<1>2. pos \in 0 .. Len(text) /\ Len(text) \in Nat
  BY <1>1, Reading
<1>3. pos = Len(text) /\ 0 \in 0 .. Room /\ Room \in 0 .. W /\ Room <= Len(text) - pos
      /\ pos' = pos + 0
  BY <1>1, <1>2, SizesAre DEF Room
<1>4. LineRight'
  <2> SUFFICES ASSUME IsText', Len(Stretch') <= SegSize * W
               PROVE  ReadWhole'
    BY SizesAre DEF LineRight
  <2>1. /\ NL \notin Range(SubSeq(Stretch', 1, Len(Stretch') - 1))
        /\ Stretch' # <<>> => Last(Stretch') # NL
    BY <1>1, <1>3, NoEnd
  <2> QED
    BY <1>1, <1>3, <2>1 DEF ReadWhole
<1>5. pos' \in pos .. Len(text) /\ TRUE \in BOOLEAN
  BY <1>1, <1>2
<1> QED
  BY <1>1, <1>4, <1>5, NoPageKeeps

LEMMA ReadFailsKeeps ==
  ASSUME IInv, UNCHANGED otherVars, ReadFails
  PROVE  IInv'
<1>1. NoPage(FALSE) /\ at = "read" /\ eof' = FALSE
  BY DEF ReadFails, NoPage
<1>2. PICK k \in 0 .. Room :
        (\A i \in 1 .. k : ~EndsPage(i)) /\ pos' = pos + k
  BY DEF ReadFails
<1>3. pos \in 0 .. Len(text) /\ Len(text) \in Nat
  BY <1>1, Reading
<1>4. Room \in 0 .. W /\ Room <= Len(text) - pos
  BY <1>3, SizesAre DEF Room
<1>5. pos' \in pos .. Len(text)
  BY <1>2, <1>3, <1>4, SizesAre
<1>6. LineRight'
  <2> SUFFICES ASSUME IsText', Len(Stretch') <= SegSize * W
               PROVE  ReadWhole'
    BY SizesAre DEF LineRight
  <2>1. /\ NL \notin Range(SubSeq(Stretch', 1, Len(Stretch') - 1))
        /\ Stretch' # <<>> => Last(Stretch') # NL
    BY <1>1, <1>2, <1>4, NoEnd
  <2> QED
    BY <1>1, <2>1 DEF ReadWhole
<1> QED
  BY <1>1, <1>5, <1>6, NoPageKeeps

LEMMA FetchKeeps ==
  ASSUME IInv, NEW e \in Encodings, Fetch(e)
  PROVE  IInv'
<1>1. /\ ~eof /\ at' = "read" /\ endl' \in {NL, NUL} /\ segs' = << <<>> >>
      /\ len' = 0 /\ text' = text /\ pos' = pos /\ eof' = eof
      /\ encoding' = e /\ start' = pos /\ state' = "off"
      /\ src' = src /\ s' = s /\ stored' = stored /\ err' = err
      /\ debug' \in {debug, TRUE}
  BY DEF Fetch, Call
<1>2. text \in Seq(Chars) /\ pos \in 0 .. Len(text) /\ Len(text) \in Nat /\ pos \in Nat
  BY DEF IInv, Types, TypeOK
<1>3. /\ segs' \in Segments /\ segs' # <<>> /\ Len(segs') = 1 /\ segs'[1] = <<>>
      /\ Fits(segs)'
  <2> DEFINE V == Seq(Seq(Letters))
  <2>1. <<>> \in V
    OBVIOUS
  <2>2. << <<>> >> \in Seq(V)
    <3> HIDE DEF V
    <3> QED
      BY <2>1
  <2>3. \A i \in DOMAIN << <<>> >> : Len(<< <<>> >>[i]) <= SegSize
    BY SizesAre
  <2> QED
    BY <1>1, <2>2, <2>3 DEF Segments, Fits
<1>4. FlattenSeq(<<>>) = <<>>
  BY DEF FlattenSeq
<1>5. Joined(segs)' = <<>>
  <2>1. Joined(segs') = FlattenSeq(segs'[1])
    BY <1>3, JoinedOne
  <2> QED
    BY <1>3, <1>4, <2>1 DEF Joined
<1>6. Types'
  <2>1. \A i \in DOMAIN segs' : Len(segs'[i]) <= SegSize
    BY <1>3 DEF Fits
  <2>2. debug' \in BOOLEAN
    <3>1. debug \in BOOLEAN
      BY DEF IInv, Types, TypeOK
    <3>2. debug' = debug \/ debug' = TRUE
      BY <1>1
    <3> QED
      BY <3>1, <3>2
  <2> QED
    BY <1>1, <1>2, <1>3, <2>1, <2>2 DEF IInv, Types, TypeOK, Segments, D!EINVAL
<1>7. Counted'
  BY <1>1, <1>3, <1>5 DEF Counted
<1>8. Paged'
  <2> DEFINE w == SubSeq(text, pos + 1, pos)
  <2>1. Stretch' = w
    BY <1>1 DEF Stretch
  <2>2. w = <<>>
    <3>1. pos \in pos .. Len(text) /\ pos - pos = 0
      BY <1>2
    <3>2. w \in Seq(Chars) /\ Len(w) = 0
      BY <1>2, <3>1, StretchIs
    <3> HIDE DEF w
    <3> QED
      BY <3>2
  <2>3. NL \notin Range(<<>>)
    BY DEF Range
  <2>4. 0 * W = 0 /\ Len(<<>>) = 0
    BY SizesAre
  <2> HIDE DEF w
  <2> QED
    BY <1>1, <1>3, <1>4, <2>1, <2>2, <2>3, <2>4 DEF Paged
<1> QED
  BY <1>1, <1>6, <1>7, <1>8
     DEF IInv, Strings, BuildFits, LineRight, DecodedRight, D!DecodedRight

(***************************************************************************)
(* The theorems.                                                           *)
(***************************************************************************)
LEMMA InitIInv == Init => IInv
<1> SUFFICES ASSUME Init PROVE IInv
  OBVIOUS
<1>1. text \in Seq(Chars)
  <2>1. text \in Texts /\ text \in Seq(Range(text))
    BY SglAssumption DEF Init, SglInit
  <2>2. Range(text) \subseteq Chars
    BY <2>1 DEF Chars
  <2>3. \A i \in 1 .. Len(text) : text[i] \in Range(text)
    BY <2>1
  <2>4. \A i \in 1 .. Len(text) : text[i] \in Chars
    BY <2>2, <2>3
  <2> QED
    BY <2>1, <2>4
<1>2. /\ pos = 0 /\ endl = NL /\ at = "idle" /\ segs = <<>> /\ len = 0
      /\ eof = FALSE /\ encoding = "text" /\ src = <<>> /\ s = 1 /\ stored = 0
      /\ err = 0 /\ state = "off" /\ start = 0
  BY DEF Init, SglInit
<1>3. segs \in Seq(Seq(Seq(Letters)))
  <2> DEFINE V == Seq(Seq(Letters))
  <2>1. segs \in Seq(V)
    <3> HIDE DEF V
    <3> QED
      BY <1>2
  <2> QED
    BY <2>1
<1>4. Types
  <2>1. pos \in 0 .. Len(text) /\ start \in 0 .. pos
    BY <1>1, <1>2
  <2>2. \A i \in DOMAIN segs : Len(segs[i]) <= SegSize
    BY <1>2
  <2>3. /\ endl \in {NL, NUL} /\ at \in {"idle", "read", "line"}
        /\ len \in Nat /\ stored \in Nat /\ s \in Nat \ {0}
        /\ err \in {0, D!EINVAL} /\ state \in {"off", "on", "done"}
    BY <1>2
  <2>6. eof \in BOOLEAN /\ debug \in BOOLEAN
    <3>1. eof = FALSE /\ debug \in BOOLEAN
      BY <1>2 DEF Init
    <3> QED
      BY <3>1
  <2>4. encoding \in Encodings
    BY <1>2 DEF Encodings
  <2>5. TypeOK
    BY <2>1, <2>2, <2>3, <2>4, <2>6 DEF TypeOK
  <2> QED
    BY <1>1, <1>3, <2>5 DEF Types
<1> QED
  BY <1>2, <1>4 DEF IInv, Counted, Paged, Strings, BuildFits, LineRight,
                     DecodedRight, D!DecodedRight

LEMMA NextIInv == IInv /\ [Next]_vars => IInv'
<1> SUFFICES ASSUME IInv, [Next]_vars PROVE IInv'
  OBVIOUS
<1>1. CASE UNCHANGED vars
  <2>1. /\ text' = text /\ pos' = pos /\ endl' = endl /\ at' = at /\ segs' = segs
        /\ buf' = buf /\ len' = len /\ eof' = eof /\ encoding' = encoding
        /\ src' = src /\ s' = s /\ stored' = stored /\ err' = err
        /\ state' = state /\ start' = start /\ debug' = debug
    BY <1>1 DEF vars, sglVars
  <2>2. Types' /\ Counted'
    BY <2>1 DEF IInv, Types, TypeOK, Counted, D!EINVAL, Joined
  <2>3. Paged'
    BY <2>1 DEF IInv, Paged, IsText, Stretch
  <2>4. Strings'
    <3>2. D!Decoded(encoding, src)' = D!Decoded(encoding, src)
      BY <2>1 DEF D!Decoded, D!Left, D!EscapeAt
    <3>3. From(encoding, src)' = From(encoding, src)
      BY <2>1, SameFrom
    <3>1. Halfway => Halfway'
      BY <2>1, <3>2, <3>3 DEF Halfway
    <3> QED
      BY <2>1, <3>1 DEF IInv, Strings, Running, IsDecoded
  <2>5. BuildFits' /\ LineRight'
    BY <2>1 DEF IInv, BuildFits, LineRight, ReadWhole, Raw, IsText, Stretch
  <2>6. DecodedRight'
    <3>1. D!Decoded(encoding, src)' = D!Decoded(encoding, src)
      BY <2>1 DEF D!Decoded, D!Left, D!EscapeAt
    <3> QED
      BY <2>1, <3>1 DEF IInv, DecodedRight, D!DecodedRight
  <2> QED
    BY <2>2, <2>3, <2>4, <2>5, <2>6 DEF IInv
<1>2. CASE \E e \in Encodings : Fetch(e)
  BY <1>2, FetchKeeps
<1>3. CASE ReadLine
  <2>1. UNCHANGED otherVars
    BY <1>3 DEF ReadLine, ReadStep, ReadPage, EndOfFile, ReadFails, NoPage, otherVars
  <2>2. ReadPage \/ EndOfFile \/ ReadFails
    BY <1>3 DEF ReadLine, ReadStep
  <2> QED
    BY <2>1, <2>2, ReadPageKeeps, EndOfFileKeeps, ReadFailsKeeps
<1>4. CASE StartDecoding
  BY <1>4, StartKeeps
<1>5. CASE DecodeLine
  <2>1. UNCHANGED lineVars
    BY <1>5 DEF DecodeLine, lineVars
  <2>2. \/ D!Escape \/ D!BadEscape \/ D!Plain \/ D!Skip \/ D!BadChar \/ D!End
    BY <1>5 DEF DecodeLine, D!DecodeStep
  <2> QED
    BY <2>1, <2>2, EscapeKeeps, StopsKeep, PlainKeeps, SkipKeeps
<1> QED
  BY <1>1, <1>2, <1>3, <1>4, <1>5 DEF Next, Work

LEMMA IInvSafe == IInv => InPlaceSafe
<1> SUFFICES ASSUME IInv, state = "on"
             PROVE  /\ stored < s
                    /\ \A i \in s .. Len(src) : buf[i] = src[i]
                    /\ D!Char(s) # NUL => stored < Len(src)
  BY DEF InPlaceSafe, D!InPlaceSafe
<1>1. Running /\ s \in Nat /\ stored \in Nat /\ stored < s
  BY DEF IInv, Strings, Running
<1>2. D!Char(s) # NUL => s <= Len(src)
  BY AtStep
<1> QED
  BY <1>1, <1>2 DEF Running

LEMMA SpecIInv == Spec => []IInv
BY InitIInv, NextIInv, PTL DEF Spec

\* Every variable of the line reader has its type; what has been read is never
\* more than the file has, and no segment has more pages than SGL_SEGSIZE.
THEOREM ReaderTyped == Spec => []TypeOK
<1>1. IInv => TypeOK
  BY DEF IInv, Types
<1> QED
  BY <1>1, SpecIInv, PTL

\* sgl_str_build() never writes beyond the buffer of llen + 1 characters that
\* sgl_fgetline() allocates, for lines of any length, whatever pages get lost
\* and whenever reading fails.
THEOREM BufferLargeEnough == Spec => []BuildFits
<1>1. IInv => BuildFits
  BY DEF IInv
<1> QED
  BY <1>1, SpecIInv, PTL

\* sgl_fgetline() returns a line of a text that fits one segment of pages as it
\* is in the file, however it falls on the pages.
THEOREM LinesRead == Spec => []LineRight
<1>1. IInv => LineRight
  BY DEF IInv
<1> QED
  BY <1>1, SpecIInv, PTL

\* What the comments of get_line_xnn() and get_line_qp() claim: decoding a line
\* in the buffer that holds it never overwrites a character that is still to be
\* read, and the test for the size of the buffer never ends it.
THEOREM DecodingInPlace == Spec => []InPlaceSafe
BY IInvSafe, SpecIInv, PTL

\* xnn_decode_str() and qp_decode_str() yield what the line stands for, up to
\* its first error, and report that error.
THEOREM LinesDecoded == Spec => []DecodedRight
<1>1. IInv => DecodedRight
  BY DEF IInv
<1> QED
  BY <1>1, SpecIInv, PTL
=============================================================================
