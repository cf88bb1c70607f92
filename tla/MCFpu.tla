--------------------------------- MODULE MCFpu ---------------------------------
(***************************************************************************)
(* Fpu with every pair of encodings of a small format, every operation and *)
(* an opcode without one.                                                  *)
(***************************************************************************)
EXTENDS Fpu

MCOperands == Word
MCOpcodes  == 0 .. 4
===============================================================================
