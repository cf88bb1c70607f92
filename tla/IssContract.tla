------------------------------ MODULE IssContract ------------------------------
(***************************************************************************)
(* scripts/riscv_iss/iss_contract.py: what a request, a commit and a       *)
(* result may be.  The dataclasses raise ValueError for anything else, so  *)
(* a set of records stands for a class with its __post_init__.             *)
(*                                                                         *)
(* The width of a word and the sizes of the program and of the register    *)
(* file are parameters (32, 64 and 32 in the code).                        *)
(***************************************************************************)
EXTENDS Integers, Sequences

CONSTANTS XLEN, PROGRAM_WORD_CAPACITY, INTEGER_REGISTER_COUNT

Modulus == 2^XLEN                                  \* UINT32_MASK + 1

ASSUME ContractAssumption ==
  /\ XLEN \in Nat /\ XLEN > 2
  /\ Modulus \in Nat /\ Modulus > 4 /\ Modulus % 4 = 0
  /\ PROGRAM_WORD_CAPACITY \in Nat \ {0} /\ 4 * PROGRAM_WORD_CAPACITY < Modulus
  /\ INTEGER_REGISTER_COUNT \in Nat \ {0}

Word      == 0 .. Modulus - 1
Registers == 0 .. INTEGER_REGISTER_COUNT - 1
RegisterFiles == {regs \in [Registers -> Word] : regs[0] = 0}

None   == -1                                       \* of rd, value and final_pc
NoRegs == <<>>                                     \* None of final_int_regs

ISSRequest ==
  [program            : [0 .. PROGRAM_WORD_CAPACITY - 1 -> Word],
   program_word_count : 0 .. PROGRAM_WORD_CAPACITY,
   initial_int_regs   : RegisterFiles,
   execution_limit    : Nat \ {0}]

ISSCommit ==
  {c \in [pc : Word, instruction : Word, rd_valid : BOOLEAN,
          rd : Registers \cup {None}, value : Word \cup {None}] :
     /\ c.pc % 4 = 0
     /\ IF c.rd_valid THEN c.rd # None /\ c.value # None
                      ELSE c.rd = None /\ c.value = None}

\* A commit with and without a destination register.
Commit(pc, instruction, rd, value) ==
  [pc |-> pc, instruction |-> instruction, rd_valid |-> TRUE, rd |-> rd, value |-> value]
CommitOnly(pc, instruction) ==
  [pc |-> pc, instruction |-> instruction, rd_valid |-> FALSE, rd |-> None, value |-> None]

\* The error text is left out.
Failure == [status |-> "FAIL", final_pc |-> None, final_int_regs |-> NoRegs,
            executed_count |-> 0, trace |-> <<>>]

\* The construction of a PASS result inside a try: what ISSResult refuses becomes
\* the FAIL result of the except clause.
Passed(final_pc, regs, trace) ==
  IF final_pc % 4 = 0 /\ regs \in RegisterFiles
  THEN [status |-> "PASS", final_pc |-> final_pc, final_int_regs |-> regs,
        executed_count |-> Len(trace), trace |-> trace]
  ELSE Failure

ISSResult ==
  {Failure} \cup
  {r \in [status : {"PASS"}, final_pc : Nat, final_int_regs : RegisterFiles,
          executed_count : Nat, trace : Seq(ISSCommit)] :
     r.final_pc % 4 = 0 /\ r.executed_count = Len(r.trace)}
===============================================================================
