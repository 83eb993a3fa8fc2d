CONSTANTS
  Calls = {c1, c2}
  None = None
  MaxMishaps = 1
SPECIFICATION Spec
INVARIANTS
  TypeOK
  CallsSeparate
PROPERTIES
  StartsFresh
  TerminatedCallEnds
  EndedCallForgotten
