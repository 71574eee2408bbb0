------------------------------ MODULE MCReader ------------------------------
(***************************************************************************)
(* Instances of Reader for TLC: pages of three characters, segments of two *)
(* pages, and files that are put together from a few pieces, among them    *)
(* whole and broken escapes.                                               *)
(***************************************************************************)
EXTENDS Reader

CONSTANTS nl, nul, cr, bad, a

MCDigits == {a}
MCLineEnds == {nl, cr}
MCUnprintable == {bad}

Pieces ==
  {<<nl>>, <<nul>>, <<cr>>, <<bad>>, <<Ex>>, <<Backslash>>, <<Equals, a>>,
   <<a, a>>, <<Backslash, Ex, a, a>>}

MCTexts == {FlattenSeq(p) : p \in BoundedSeq(Pieces, 3)}
=============================================================================
