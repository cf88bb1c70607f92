--------------------------------- MODULE Rv32i ---------------------------------
(***************************************************************************)
(* The instructions and the arithmetic of rv32i_emulator_backend.py.       *)
(*                                                                         *)
(* The bit fields of an instruction word are a parameter: Decode gives for *)
(* a word its kind (opcode with funct3 and funct7), its registers and its  *)
(* sign-extended immediate.                                                *)
(***************************************************************************)
EXTENDS IssContract

CONSTANT Decode

RTypes    == {"add", "sub", "and", "or", "xor", "sll", "sra", "slt"}
Supported == RTypes \cup {"addi", "beq", "lw", "sw"}

\* Every kind of the five opcodes: LOAD, STORE, BRANCH and OP-IMM, with one kind for
\* the reserved functions of each, and OP.  The words of OP with another funct7 have
\* a kind for each operation that funct3 and bit 5 of funct7 select.
LoadKinds      == {"lb", "lh", "lw", "lbu", "lhu", "load_reserved"}
StoreKinds     == {"sb", "sh", "sw", "store_reserved"}
BranchKinds    == {"beq", "bne", "blt", "bge", "bltu", "bgeu", "branch_reserved"}
ImmediateKinds == {"addi", "slti", "sltiu", "xori", "ori", "andi", "slli", "srli", "srai",
                   "op_imm_reserved"}
OtherOps       == [op_add |-> "add", op_sub |-> "sub", op_and |-> "and", op_or |-> "or",
                   op_xor |-> "xor", op_sll |-> "sll", op_sra |-> "sra", op_slt |-> "slt",
                   op_none |-> "none"]
OpKinds        == RTypes \cup {"srl", "sltu"} \cup DOMAIN OtherOps

ASSUME DecodeAssumption ==
  Decode \in [Word -> [kind : STRING, rd : Registers, rs1 : Registers,
                       rs2 : Registers, imm : Int]]

_u32(value) == value % Modulus

\* Words stay unsigned (a mutant of _signed32).
_signed32_unsigned(value) == value

_signed32(value) == IF value >= Modulus \div 2 THEN value - Modulus ELSE value

\* A word as the set of the positions of its ones, and back.
BitSet(word) == {i \in 0 .. XLEN - 1 : (word \div 2^i) % 2 = 1}
FromBits(S)  == CHOOSE word \in Word : BitSet(word) = S

\* What the proofs need to know of powers.
ASSUME PowersOfTwo ==
  2^0 = 1 /\ \A i \in 0 .. XLEN - 1 : 2^i \in Nat \ {0} /\ 2^(i + 1) = 2 * 2^i

\* Binary notation: every set of positions is one word, and no two.
ASSUME BinaryNotation ==
  /\ \A S \in SUBSET (0 .. XLEN - 1) : \E word \in Word : BitSet(word) = S
  /\ \A word \in Word : FromBits(BitSet(word)) = word

\* The value of an R-type instruction before _u32.  A right shift of a Python
\* integer rounds down, as \div does.
_r_type(kind, left, right) ==
  LET shift == right % XLEN
  IN  CASE kind = "add" -> left + right
        [] kind = "sub" -> left - right
        [] kind = "and" -> FromBits(BitSet(left) \cap BitSet(right))
        [] kind = "or"  -> FromBits(BitSet(left) \cup BitSet(right))
        [] kind = "xor" -> FromBits((BitSet(left) \cup BitSet(right))
                                      \ (BitSet(left) \cap BitSet(right)))
        [] kind = "sll" -> left * 2^shift
        [] kind = "sra" -> _signed32(left) \div 2^shift
        [] kind = "slt" -> IF _signed32(left) < _signed32(right) THEN 1 ELSE 0

-------------------------------------------------------------------------------
\* The registers a trace tells of: a register holds the value of the last of the
\* first n commits that writes it, or its initial value.  SpikeBackend.execute
\* computes its final registers from the trace in this way.
Writers(trace, n, r) == {j \in 1 .. n : trace[j].rd_valid /\ trace[j].rd = r}

Latest(S) == CHOOSE j \in S : \A k \in S : k <= j

RegisterAfter(initial, trace, n, r) ==
  IF r = 0 THEN 0
  ELSE IF Writers(trace, n, r) = {} THEN initial[r]
  ELSE trace[Latest(Writers(trace, n, r))].value

RegistersAfter(initial, trace) ==
  [r \in Registers |-> RegisterAfter(initial, trace, Len(trace), r)]
===============================================================================
