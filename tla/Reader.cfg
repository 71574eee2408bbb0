CONSTANTS
  nl = nl
  nul = nul
  cr = cr
  bad = bad
  a = a
  NL = nl
  NUL = nul
  Junk = Junk
  Backslash = Backslash
  Ex = Ex
  Equals = Equals
  HexDigits <- MCDigits
  LineEnds <- MCLineEnds
  Unprintable <- MCUnprintable
  Texts <- MCTexts
  PageSize = 4
  SegSize = 2
  ReadMayFail = TRUE

SPECIFICATION Spec
INVARIANT TypeOK
INVARIANT LineRight
INVARIANT BuildFits
INVARIANT InPlaceSafe
INVARIANT DecodedRight
PROPERTY LineEnded
\* Nothing is read after the end of the file.
CHECK_DEADLOCK FALSE
