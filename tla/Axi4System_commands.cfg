\* Two words in each slave, addresses in both and beyond.
CONSTANTS
  Lanes = {0}
  Bytes = {0, 1}
  Addresses = {0, 1, 2, 3, 4}
  Ids = {0, 1}
  MEM_DEPTH = 2
SPECIFICATION LiveSpec
INVARIANTS
  InStep
PROPERTIES
  ImplementsCommands
  CommandsComplete
