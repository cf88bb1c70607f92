SPECIFICATION Spec
CONSTANTS
  ExpBits = 4
  FracBits = 2
  Operands <- MCOperands
  Opcodes <- MCOpcodes
INVARIANT MatchesReference
INVARIANT ReferenceIsNearestEven
INVARIANT ExactnessIsRepresentability
