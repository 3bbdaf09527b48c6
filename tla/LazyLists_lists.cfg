\* Two threads; a list over an iterator or over two cells, and the cells themselves.
SPECIFICATION Spec
SYMMETRY Symmetry
CHECK_DEADLOCK FALSE
CONSTANTS
  Caller = {c1, c2}
  View = {v1, v2}
  Cells = 2
  Length = 2
  MaxCalls = 3
  Deepest = 2
  Gone = Gone  None = None  Nil = Nil  Odd = Odd  Error = Error
  CellEnds = {None, Odd}
  Unforced = Unforced  Iter = Iter
INVARIANTS ViewsAreCovered CellAnswersOnce EndIsTrue AnswersAreTrue NoCircle
