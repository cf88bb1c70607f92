SPECIFICATION DifferentialSpec
CONSTANTS
  XLEN = 8
  PROGRAM_WORD_CAPACITY = 4
  INTEGER_REGISTER_COUNT = 4
  PROGRAM_BASE = 128
  SETUP_BASE = 192
  DATA_BASE = 224
  SPIKE_BOOT_INSTRUCTION_COUNT = 5
  BOOT_PC = 16
  LoopWord = 111
  DATA_WORDS = 16
  LeftoverWord = 2
  BootRegisters <- MCBootRegisters
  Decode <- MCDecode
  Requests <- MCRequests
  OtherLines <- MCOtherLines
  SmokeRequests <- MCSmokeRequests
  SmokeArguments <- MCSmokeArguments
INVARIANT FinalPcAgrees
CHECK_DEADLOCK FALSE
