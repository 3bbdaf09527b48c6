\* Two threads rotate, recover and destroy; every call may be refused and the process die.
SPECIFICATION Spec
SYMMETRY Symmetry
CONSTANTS
  Caller = {c1, c2}
  NoCaller = NoCaller
  MaxId = 2
INVARIANTS ReportIsConsistent EvidenceHolds
PROPERTIES HeadOnlyAdvances
