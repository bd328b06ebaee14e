SPECIFICATION Spec
CONSTANTS
  IntMax = 127
  Other <- OtherCharacters
  Lines <- SomeLines
  Terms <- SomeTerms
CHECK_DEADLOCK FALSE
INVARIANTS
  ReadAsWritten
  WritesDerivative
  MalformedRejected
