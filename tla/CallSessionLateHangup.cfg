CONSTANTS
  Calls = {c1, c2}
  None = None
  MaxMishaps = 0
SPECIFICATION Spec
PROPERTIES
  HangupIsForCaller
