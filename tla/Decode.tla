------------------------------- MODULE Decode -------------------------------
(***************************************************************************)
(* libcscript/xnn-decode-str.c and qp-decode-str.c: decode a string in the *)
(* buffer that holds it, one turn of the loop a step.                      *)
(*                                                                         *)
(* A string is a sequence; behind its last character is a '\0'.  The byte  *)
(* that two hexadecimal digits stand for is the pair of them.              *)
(***************************************************************************)
EXTENDS Integers, Sequences

CONSTANTS
  NUL,         \* '\0'
  Backslash,   \* what an escape starts with in xnn, before an x
  Ex,          \* x
  Equals,      \* what an escape starts with in quoted-printable
  HexDigits,
  LineEnds,    \* '\r' and '\n'
  Unprintable  \* what else quoted-printable does not allow

EINVAL == 22

VARIABLES
  code,  \* "xnn" or "qp"
  src,   \* history: the string to be decoded
  buf,   \* the buffer: at first src, in the end the decoded string
  s,     \* the next character to be decoded, counted from 1
  len,   \* how many have been stored
  err,   \* of the function; the caller puts it in lbuf->err
  state  \* "off", "on" or "done"

decodeVars == <<code, src, buf, s, len, err, state>>

\* A call with the same string as source and buffer, and its length as size.
Begin(c, string) ==
  /\ state' = "on"
  /\ code' = c
  /\ src' = string
  /\ buf' = string
  /\ s' = 1
  /\ len' = 0
  /\ err' = 0

Char(i) == IF i <= Len(buf) THEN buf[i] ELSE NUL

\* That len reaches the size, which is that of the string, is impossible: see
\* InPlaceSafe.
InLoop == state = "on" /\ Char(s) # NUL

\* Characters an escape starts with.
Lead == IF code = "xnn" THEN 2 ELSE 1

StartsEscape ==
  \/ code = "xnn" /\ Char(s) = Backslash /\ Char(s + 1) = Ex
  \/ code = "qp" /\ Char(s) = Equals

HasDigits ==
  /\ Char(s + Lead) \in HexDigits
  /\ Char(s + Lead + 1) \in HexDigits

\* A mutant: the buffer is terminated behind every character.
StoreTerminated(char, used) ==
  /\ buf' = [buf EXCEPT ![len + 1] = char, ![len + 2] = NUL]
  /\ len' = len + 1
  /\ s' = s + used
  /\ UNCHANGED <<code, src, err, state>>

Store(char, used) ==
  /\ buf' = [buf EXCEPT ![len + 1] = char]
  /\ len' = len + 1
  /\ s' = s + used
  /\ UNCHANGED <<code, src, err, state>>

\* A '\0' is stored behind what has been decoded.
Stop(e) ==
  /\ buf' = SubSeq(buf, 1, len)
  /\ err' = e
  /\ state' = "done"
  /\ UNCHANGED <<code, src, s, len>>

\* A mutant: the index of the source is not moved past the second digit.
EscapeShort ==
  /\ InLoop
  /\ StartsEscape
  /\ HasDigits
  /\ Store(<<Char(s + Lead), Char(s + Lead + 1)>>, Lead + 1)

Escape ==
  /\ InLoop
  /\ StartsEscape
  /\ HasDigits
  /\ Store(<<Char(s + Lead), Char(s + Lead + 1)>>, Lead + 2)

BadEscape ==
  /\ InLoop
  /\ StartsEscape
  /\ ~HasDigits
  /\ Stop(EINVAL)

Skipped(char) == code = "qp" /\ char \in LineEnds
Refused(char) == code = "qp" /\ char \in Unprintable

Plain ==
  /\ InLoop
  /\ ~StartsEscape
  /\ ~Skipped(Char(s)) /\ ~Refused(Char(s))
  /\ Store(Char(s), 1)

\* A mutant: the index of the source is not moved past the character.
SkipStuck ==
  /\ InLoop
  /\ Skipped(Char(s))
  /\ UNCHANGED decodeVars

Skip ==
  /\ InLoop
  /\ Skipped(Char(s))
  /\ s' = s + 1
  /\ UNCHANGED <<code, src, buf, len, err, state>>

BadChar ==
  /\ InLoop
  /\ Refused(Char(s))
  /\ Stop(EINVAL)

End ==
  /\ state = "on"
  /\ Char(s) = NUL
  /\ Stop(0)

DecodeStep ==
  \/ Escape \/ BadEscape \/ Plain \/ Skip \/ BadChar \/ End
-------------------------------------------------------------------------------
(***************************************************************************)
(* What the string decodes to, for reference: what is left of it from      *)
(* each character on.  An error ends the string and is marked by Wrong.    *)
(***************************************************************************)
EscapeAt(c, string, i) ==
  \/ c = "qp" /\ string[i] = Equals
  \/ c = "xnn" /\ i < Len(string) /\ string[i] = Backslash /\ string[i + 1] = Ex

\* What is left from i on, where later has what is left from later ones on.
Left(c, string, later, i) ==
  LET skip == IF c = "xnn" THEN 2 ELSE 1
  IN  CASE i > Len(string) -> [chars |-> <<>>, err |-> 0]
        [] i <= Len(string) /\ EscapeAt(c, string, i) ->
             IF /\ i + skip + 1 <= Len(string)
                /\ {string[i + skip], string[i + skip + 1]} \subseteq HexDigits
             THEN [later[i + skip + 2] EXCEPT !.chars =
                     <<<<string[i + skip], string[i + skip + 1]>>>> \o @]
             ELSE [chars |-> <<>>, err |-> EINVAL]
        [] i <= Len(string) /\ c = "qp" /\ string[i] \in LineEnds -> later[i + 1]
        [] i <= Len(string) /\ c = "qp" /\ string[i] \in Unprintable ->
             [chars |-> <<>>, err |-> EINVAL]
        [] OTHER -> [later[i + 1] EXCEPT !.chars = <<string[i]>> \o @]

Decoded(c, string) ==
  LET from[i \in 1 .. Len(string) + 4] == Left(c, string, from, i)
  IN from[1]
-------------------------------------------------------------------------------
\* Comment in qp-decode-str.c: decoding in place is safe, since what has been
\* decoded is never longer than what has been read.  Nothing is stored where a
\* character is still to be read, and as long as there is one, the size of the
\* buffer has not been reached.
InPlaceSafe ==
  state = "on" =>
    /\ len < s
    /\ \A i \in s .. Len(src) : buf[i] = src[i]
    /\ Char(s) # NUL => len < Len(src)

\* The decoder yields what the string decodes to, up to the first error.
DecodedRight ==
  state = "done" =>
    Decoded(code, src) = [chars |-> buf, err |-> err]
===============================================================================
