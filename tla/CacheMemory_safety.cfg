\* Three words, of which 1 and 5 compete for line 1 of a cache of two lines;
\* two byte lanes, so that a write can be partial.
CONSTANTS
  Lanes = {0, 1}
  Bytes = {0, 1}
  Addresses = {0, 1, 5}
  NLINES = 2
  DEPTH_WORDS = 3
SPECIFICATION Spec
INVARIANTS
  TypeOK
  Coherent
  ReadsCurrentData
PROPERTY
  ImplementsAtomicMemory
