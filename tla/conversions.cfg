SPECIFICATION Spec
CONSTANTS
  WordStep = 1
  MaxCount = 250
INVARIANT TempConvRight
INVARIANT BytesFit
INVARIANT LuxNotNegative
INVARIANT LuxFalls
CHECK_DEADLOCK FALSE
