SPECIFICATION Spec
CONSTANTS
  Cmd = {x1, x2}
  Desc = {d1, d2}
  MaxSessions = 2
  MaxAhead = 1
SYMMETRY Symmetry
INVARIANTS DialogConsent OneAnswerEach
