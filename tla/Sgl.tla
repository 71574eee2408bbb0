--------------------------------- MODULE Sgl ---------------------------------
(***************************************************************************)
(* libcscript/sgl-getline.c: read a line of any length.  The line is read  *)
(* a page at a time with fgets(), or with fgets_endl() if the end-of-line  *)
(* character is not '\n'; the pages hang in a scatter/gather list, a chain *)
(* of segments with SegSize slots each; at the end of the line they are    *)
(* put together in one buffer.                                             *)
(*                                                                         *)
(* A segment is the sequence of the strings in its pages, and the list a   *)
(* sequence of segments.                                                   *)
(***************************************************************************)
EXTENDS Integers, SequencesExt

CONSTANTS
  PageSize,   \* SGL_PAGESIZE
  SegSize,    \* SGL_SEGSIZE
  Texts,      \* what a file may contain
  NL, NUL,    \* '\n' and '\0'
  Junk,       \* a character of a page that has not been written, where it
              \* is taken for a string
  ReadMayFail \* may read() fail?

ASSUME SglAssumption ==
  /\ PageSize \in Nat /\ PageSize > 1
  /\ SegSize \in Nat \ {0}
  /\ ReadMayFail \in BOOLEAN
  /\ \A t \in Texts : t \in Seq(Range(t))
  /\ NUL \notin {NL, Junk}

VARIABLES
  text,  \* the contents of lbuf->f
  pos,   \* how much of it has been read
  endl,  \* the end-of-line character
  at,    \* "idle", "read" in the loop, or "line" when a line is there
  segs,  \* *lbuf->sgl
  buf,   \* the string in lbuf->buf
  len,   \* llen, then lbuf->len
  eof    \* lbuf->eof

sglVars == <<text, pos, endl, at, segs, buf, len, eof>>

SglInit ==
  /\ text \in Texts
  /\ pos = 0
  /\ endl = NL
  /\ at = "idle"
  /\ segs = <<>>
  /\ buf = <<>>
  /\ len = 0
  /\ eof = FALSE

\* Mutant of Call: the length of the line before is not forgotten.
CallUncounted(char) ==
  /\ at # "read"
  /\ ~eof
  /\ at' = "read"
  /\ endl' = char
  /\ segs' = << <<>> >>
  /\ buf' = <<>>
  /\ UNCHANGED <<text, pos, len, eof>>

\* linebuf_free() and linebuf_sgl_new()
Call(char) ==
  /\ at # "read"
  /\ ~eof
  /\ at' = "read"
  /\ endl' = char
  /\ segs' = << <<>> >>
  /\ buf' = <<>>
  /\ len' = 0
  /\ UNCHANGED <<text, pos, eof>>

(***************************************************************************)
(* sgl_append(): the list with one more page.                              *)
(***************************************************************************)

\* Mutant of IsFull: i <= SGL_SEGSIZE.
IsFullLate == Len(Last(segs)) > SegSize

IsFull == Len(Last(segs)) = SegSize

WithPage(string) ==
  IF IsFull THEN Append([segs EXCEPT ![Len(segs)][1] = string], <<>>)
            ELSE [segs EXCEPT ![Len(segs)] = Append(@, string)]

\* The page when nothing is read into it: its slen is that of its slot.
Unread ==
  IF IsFull THEN [i \in 1 .. Len(Last(segs)[1]) |-> Junk] ELSE <<>>

(***************************************************************************)
(* What one call of fgets() or fgets_endl() reads.                         *)
(***************************************************************************)
Room == IF Len(text) - pos < PageSize - 1 THEN Len(text) - pos
                                          ELSE PageSize - 1

\* fgets_endl() looks for its end-of-line character only if that is not '\0'.
EndsPage(i) == endl = NL /\ text[pos + i] = NL

\* How many characters are read.  If read() fails behind the first of them,
\* fgets_endl() returns the page it has.
IsRead(k) ==
  /\ k \in 1 .. Room
  /\ \A i \in 1 .. k - 1 : ~EndsPage(i)
  /\ \/ EndsPage(k)
     \/ k = Room
     \/ ReadMayFail /\ endl = NUL

\* How long the string is: it goes no further than the first '\0' read.
IsString(k, m) ==
  /\ \A i \in 1 .. m : text[pos + i] # NUL
  /\ m < k => text[pos + m + 1] = NUL

(***************************************************************************)
(* sgl_fgetline(), a turn of the loop a step.                              *)
(***************************************************************************)
\* sgl_str_build(): a segment with a free slot ends the pages, not the chain.
Build(length) ==
  /\ at' = "line"
  /\ buf' = FlattenSeq(FlattenSeq(segs'))
  /\ len' = length

\* A mutant: llen += slen is forgotten for a page without an end of line.
ReadPageUncounted ==
  /\ at = "read"
  /\ \E k \in 1 .. Room : \E m \in 0 .. k :
       LET string == SubSeq(text, pos + 1, pos + m) IN
       /\ IsRead(k) /\ IsString(k, m)
       /\ pos' = pos + k
       /\ IF m > 0 /\ Last(string) = NL
          THEN segs' = WithPage(Front(string)) /\ Build(len + m - 1)
          ELSE segs' = WithPage(string) /\ UNCHANGED <<at, buf, len>>
  /\ UNCHANGED <<text, endl, eof>>

ReadPage ==
  /\ at = "read"
  /\ \E k \in 1 .. Room : \E m \in 0 .. k :
       LET string == SubSeq(text, pos + 1, pos + m) IN
       /\ IsRead(k) /\ IsString(k, m)
       /\ pos' = pos + k
       /\ IF m > 0 /\ Last(string) = NL
          THEN segs' = WithPage(Front(string)) /\ Build(len + m - 1)
          ELSE segs' = WithPage(string) /\ len' = len + m /\ UNCHANGED <<at, buf>>
  /\ UNCHANGED <<text, endl, eof>>

\* fgets() returns NULL at the end of the file, and when reading fails.
NoPage(atEnd) ==
  /\ at = "read"
  /\ segs' = WithPage(Unread)
  /\ Build(len)
  /\ eof' = atEnd
  /\ UNCHANGED <<text, endl>>

EndOfFile == Room = 0 /\ NoPage(TRUE) /\ UNCHANGED pos

\* What fgets() has read before is lost; fgets_endl() returns it (see IsRead).
ReadFails ==
  /\ ReadMayFail
  /\ NoPage(FALSE)
  /\ \E k \in 0 .. Room :
       /\ endl = NUL => k = 0
       /\ \A i \in 1 .. k : ~EndsPage(i)
       /\ pos' = pos + k

ReadStep == ReadPage \/ EndOfFile \/ ReadFails
===============================================================================
