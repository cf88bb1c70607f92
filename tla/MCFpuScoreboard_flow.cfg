SPECIFICATION Spec
CONSTANTS
  Operations <- MCOperations
  Idle = "zero"
  Results <- MCResults
  Unsupported = 99
  Dut <- MCDut
  Ref <- MCRef
  Zero = 0
  NumItems = 4
  NumExpected = 5
INVARIANT Paired
INVARIANT VerdictIsExact
PROPERTY ComparisonEnds
CHECK_DEADLOCK FALSE
