------------------------------- MODULE Reader -------------------------------
(***************************************************************************)
(* fgetline() of libush/run-interpret.c, with get_line_xnn() and           *)
(* get_line_qp(): read the next line of a script (module Sgl) and decode   *)
(* it in place (module Decode) as --encoding says, an option that may      *)
(* change from line to line.                                               *)
(***************************************************************************)
EXTENDS Sgl

CONSTANTS Backslash, Ex, Equals, HexDigits, LineEnds, Unprintable

\* Of the cases that the decoders tell apart, no two apply to one character.
ASSUME AlphabetAssumption ==
  /\ NUL \notin HexDigits \cup {Ex}
  /\ Equals \notin LineEnds \cup Unprintable
  /\ LineEnds \cap Unprintable = {}

VARIABLES
  encoding, \* script_encoding
  debug,    \* debug, which only --debug changes
  src, s, stored, err, state, \* see Decode; stored is its len
  start     \* history: where the current line begins

D == INSTANCE Decode WITH code <- encoding, len <- stored

vars == <<sglVars, encoding, debug, src, s, stored, err, state, start>>

Encodings == {"text", "null", "xnn", "qp"}

Init ==
  /\ SglInit
  /\ encoding = "text"
  /\ debug \in BOOLEAN
  /\ src = <<>>
  /\ s = 1
  /\ stored = 0
  /\ err = 0
  /\ state = "off"
  /\ start = 0

IsDecoded == encoding \in {"xnn", "qp"}

\* fgetline() has come to its end.  A line that cannot be decoded is there for
\* the caller all the same; get_line_xnn() and get_line_qp() only return NULL.
Finished == at = "line" /\ (IsDecoded => state = "done")

\* With --debug, though, fgetline() then takes strlen(NULL): nothing follows.
Crashed == Finished /\ IsDecoded /\ err # 0 /\ debug

Delivered == Finished /\ ~Crashed

\* The options in front of the line may have been --encoding and --debug.
Fetch(e) ==
  /\ at = "idle" \/ Delivered
  /\ Call(IF e = "null" THEN NUL ELSE NL)
  /\ encoding' = e
  /\ debug' \in {debug, TRUE}
  /\ start' = pos
  /\ state' = "off"
  /\ UNCHANGED <<src, s, stored, err>>

ReadLine ==
  /\ ReadStep
  /\ UNCHANGED <<encoding, debug, src, s, stored, err, state, start>>

\* Decoding changes the buffer, and nothing else of the line buffer.
StartDecoding ==
  /\ at = "line"
  /\ IsDecoded
  /\ state = "off"
  /\ D!Begin(encoding, buf)
  /\ UNCHANGED <<text, pos, endl, at, segs, len, eof, start, debug>>

DecodeLine ==
  /\ D!DecodeStep
  /\ UNCHANGED <<text, pos, endl, at, segs, len, eof, start, debug>>

Work == ReadLine \/ StartDecoding \/ DecodeLine

Next == (\E e \in Encodings : Fetch(e)) \/ Work

\* One thread runs all of this; reading a script does not block for ever.
Spec == Init /\ [][Next]_vars /\ WF_vars(Work)
-------------------------------------------------------------------------------
\* The line as it is in the file.
Raw == IF state = "off" THEN buf ELSE src

\* Every variable has its type.
TypeOK ==
  /\ pos \in 0 .. Len(text) /\ start \in 0 .. pos
  /\ endl \in {NL, NUL}
  /\ at \in {"idle", "read", "line"}
  /\ \A i \in DOMAIN segs : Len(segs[i]) <= SegSize
  /\ len \in Nat /\ stored \in Nat /\ s \in Nat \ {0}
  /\ eof \in BOOLEAN
  /\ encoding \in Encodings /\ debug \in BOOLEAN
  /\ err \in {0, D!EINVAL}
  /\ state \in {"off", "on", "done"}

\* What has been read for the current line.
Stretch == SubSeq(text, start + 1, pos)

\* (A '\0' in a line hides the rest of its page.)
IsText == endl = NL /\ NUL \notin Range(Stretch)

\* The reader stops behind the end of the line and returns all of it; it reports
\* end of file only if there is no such end.
ReadWhole ==
  /\ NL \notin Range(SubSeq(Stretch, 1, Len(Stretch) - 1))
  /\ IF Stretch # <<>> /\ Last(Stretch) = NL
     THEN ~eof /\ Raw = Front(Stretch) /\ len = Len(Raw)
     ELSE eof => pos = Len(text)

\* A line of a text that fits one segment of pages is read as it is, however
\* it falls on the pages.
LineRight ==
  /\ at = "line" /\ IsText
  /\ Len(Stretch) <= SegSize * (PageSize - 1)
  => ReadWhole

\* The buffer for the line, of len + 1 characters, is large enough for what the
\* pages hold, for lines of any length, though pages get lost.
BuildFits == at = "line" => Len(Raw) <= len

\* Decoding in place.
InPlaceSafe == D!InPlaceSafe
DecodedRight == D!DecodedRight

\* Reading and decoding a line comes to an end, or to strlen(NULL).
LineEnded == at = "read" ~> Delivered \/ Crashed

\* README: "libush has no arbitrary limits ... Line buffers grow as needed".  A
\* line of any length is read as it is.
NoLimits == at = "line" /\ IsText => ReadWhole
===============================================================================
