SPECIFICATION Spec
CONSTANTS
  ExpBits = 3
  FracBits = 2
  Operands <- MCOperands
  Opcodes <- MCOpcodes
INVARIANT ReferenceKeepsNegativeZero
