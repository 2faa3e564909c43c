SPECIFICATION Spec
CONSTANTS
  MAX_BUF = 4
  WORD = 16
  Chars = {a, b}
  CR = CR
  NL = NL
  DEL = DEL
  NOBYTE = NOBYTE
  DISCIPLINED = FALSE
INVARIANT CommittedIsNotEdited
