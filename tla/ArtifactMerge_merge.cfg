\* One facet, three images, a merge, and a second one after a swap or a landing.
SPECIFICATION Spec
SYMMETRY Symmetric
CHECK_DEADLOCK FALSE
CONSTANTS
  Line = {a, b, c}
  Open = {z}
  Binary = Binary  None = None  Odd = Odd  Whole = Whole  Exact = Exact
  rw = rw  rx = rx  ro = ro
  me = me  other = other
  Facets <- MCFacets
  Images <- MCImages
INVARIANTS EditsOfBothAreMade LinesStayWhole SidesAreAlike RetryAddsNothing
