CONSTANTS
  nl = nl
  nul = nul
  cr = cr
  bad = bad
  a = a
  NL = nl
  NUL = nul
  Junk = Junk
  Backslash = Backslash
  Ex = Ex
  Equals = Equals
  HexDigits <- MCDigits
  LineEnds <- MCLineEnds
  Unprintable <- MCUnprintable
  Texts <- MCTexts
  PageSize = 4
  SegSize = 2
  ReadMayFail = FALSE

SPECIFICATION Spec
INVARIANT NoLimits
\* Nothing is read after the end of the file.
CHECK_DEADLOCK FALSE
