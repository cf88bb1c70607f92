----------------------------- MODULE SpikeBackend ------------------------------
(***************************************************************************)
(* SpikeBackend.execute: the scope check, the ELF image, the instruction   *)
(* limit, the run of Spike, and the result recovered from its commit log.  *)
(*                                                                         *)
(* Spike is external: machine is its state, and the steps that change it   *)
(* are those of an RV32I machine with RAM from PROGRAM_BASE upwards, whose *)
(* boot code leaves nonzero words in some registers.  A trap goes to a     *)
(* vector outside of the program and commits nothing there any more.       *)
(***************************************************************************)
EXTENDS CommitTraces

CONSTANTS SETUP_BASE, DATA_BASE,
          SPIKE_BOOT_INSTRUCTION_COUNT,
          BootRegisters,       \* what the boot code leaves in the registers
          BOOT_PC,             \* where the boot code is
          LoopWord,            \* the encoding of jal x0, 0
          OtherLines,          \* lines Spike may write that are no commit of the program
          SmokeRequests        \* the requests with one of them in the log

VARIABLES request,
          stage,        \* "validate", "build", "run", "parse", "done"
          limit,        \* spike_instruction_limit
          machine,      \* of Spike: pc, regs, ram, steps, trapped
          log,          \* lines of spike.log
          spike_result

spike_vars == <<stage, limit, machine, log, spike_result>>

-------------------------------------------------------------------------------
\* What the assembler makes of li: one instruction for a small immediate or for
\* one without low bits, else two, the first of which leaves the high bits.
LowBits(value)  == value % 16
LoadImmediate(r, value) ==
  IF value < 16 \/ LowBits(value) = 0 THEN <<[rd |-> r, value |-> value]>>
  ELSE <<[rd |-> r, value |-> value - LowBits(value)], [rd |-> r, value |-> value]>>

\* _write_assembly: a load of every initial register that is not zero, in order;
\* the jump to the program follows.
Loads[n \in Registers] ==
  IF n = 0 THEN <<>>
  ELSE LET value == request.initial_int_regs[n]
       IN  Loads[n - 1] \o (IF value = 0 THEN <<>> ELSE LoadImmediate(n, value))

Setup == Loads[INTEGER_REGISTER_COUNT - 1]

\* One instruction for every register (a mutant of _count_setup_instructions).
_count_setup_registers ==
  1 + Len(SelectSeq([r \in 1 .. INTEGER_REGISTER_COUNT - 1 |-> request.initial_int_regs[r]],
                    LAMBDA value : value # 0))

\* The size of .text.setup, the jump included.
_count_setup_instructions == Len(Setup) + 1

program_end == PROGRAM_BASE + 4 * request.program_word_count

\* The image: the program, and in .data a zero word before a jump to itself.  The
\* rest of the RAM reads zero; the words of the setup code stay abstract.
Ram == {a \in Word : a >= PROGRAM_BASE /\ a % 4 = 0}
Image == [a \in Ram |->
            IF a < program_end THEN request.program[(a - PROGRAM_BASE) \div 4]
            ELSE IF a = DATA_BASE + 4 THEN LoopWord ELSE 0]

\* _write_expected_trace
ExpectedTrace ==
  [i \in 1 .. request.program_word_count |->
     Line("entry", 0, PROGRAM_BASE + 4 * (i - 1), request.program[i - 1], None, None)]

-------------------------------------------------------------------------------
\* Opcodes 0x03, 0x13, 0x23, 0x33 and 0x63, whatever the functions.
Accepted == LoadKinds \cup ImmediateKinds \cup StoreKinds \cup OpKinds \cup BranchKinds

InScope(req) ==
  /\ req.program_word_count > 0
  /\ \A i \in 0 .. req.program_word_count - 1 : Decode[req.program[i]].kind \in Accepted

PoweredOff == [pc |-> BOOT_PC, regs |-> ZeroRegisters, ram |-> <<>>,
               steps |-> 0, trapped |-> FALSE]

Called ==
  /\ stage = "validate"
  /\ limit = 0 /\ log = <<>>
  /\ machine = PoweredOff
  /\ spike_result = Failure

Validate ==
  /\ stage = "validate"
  /\ stage' = IF InScope(request) THEN "build" ELSE "done"
  /\ UNCHANGED <<request, limit, machine, log, spike_result>>

\* A missing tool, a build or an objdump that fails, a Spike that exits nonzero:
\* each raises RuntimeError or OSError.
ToolFails ==
  /\ stage \in {"build", "run"}
  /\ stage' = "done"
  /\ spike_result' = Failure
  /\ UNCHANGED <<request, limit, machine, log>>

\* _write_assembly up to _count_setup_instructions.
Build ==
  /\ stage = "build"
  /\ limit' = SPIKE_BOOT_INSTRUCTION_COUNT + _count_setup_instructions
                + request.execution_limit
  /\ machine' = [PoweredOff EXCEPT !.ram = Image]
  /\ stage' = "run"
  /\ UNCHANGED <<request, log, spike_result>>

-------------------------------------------------------------------------------
\* The machine of Spike.  Its arithmetic is that of the instruction set, stated on
\* bits and on unsigned words.
Half   == Modulus \div 2
IsaAlu(kind, x, y) ==
  LET shift == y % XLEN
  IN  CASE kind = "add" -> (x + y) % Modulus
        [] kind = "sub" -> (x + (Modulus - y)) % Modulus
        [] kind = "and" -> FromBits({i \in BitSet(x) : i \in BitSet(y)})
        [] kind = "or"  -> FromBits(BitSet(x) \cup BitSet(y))
        [] kind = "xor" -> FromBits({i \in 0 .. XLEN - 1 : (i \in BitSet(x)) # (i \in BitSet(y))})
        [] kind = "sll" -> FromBits({i \in shift .. XLEN - 1 : i - shift \in BitSet(x)})
        [] kind = "srl" -> x \div 2^shift
        [] kind = "sra" -> FromBits({i \in 0 .. XLEN - 1 :
                             (IF i + shift < XLEN THEN i + shift ELSE XLEN - 1) \in BitSet(x)})
        [] kind = "slt" -> IF (x + Half) % Modulus < (y + Half) % Modulus THEN 1 ELSE 0
        [] kind = "sltu" -> IF x < y THEN 1 ELSE 0

Running == stage = "run" /\ machine.steps < limit /\ ~ machine.trapped

\* Commits with a register write, x0 excepted, name the register and its value.
Retire(rd, value, ram, pc) ==
  /\ machine' = [machine EXCEPT !.pc = pc, !.ram = ram, !.steps = @ + 1,
                                !.regs = IF rd = 0 THEN @ ELSE [@ EXCEPT ![rd] = value]]
  /\ log' = Append(log, Line("commit", 0, machine.pc, machine.ram[machine.pc],
                             IF rd = 0 THEN None ELSE rd,
                             IF rd = 0 THEN None ELSE value))
  /\ UNCHANGED <<request, stage, limit, spike_result>>

\* Boot and setup code commit like any other; their words are left abstract.  The
\* boot code is out of the reach of a program's branches and runs once.
Boot ==
  /\ Running /\ machine.steps = 0
  /\ machine' = [machine EXCEPT !.pc = SETUP_BASE, !.regs = BootRegisters,
                                !.steps = SPIKE_BOOT_INSTRUCTION_COUNT]
  /\ log' = log \o [i \in 1 .. SPIKE_BOOT_INSTRUCTION_COUNT |->
                      Line("commit", 0, BOOT_PC + 4 * (i - 1), 0, None, None)]
  /\ UNCHANGED <<request, stage, limit, spike_result>>

InSetup == SETUP_BASE <= machine.pc /\ machine.pc <= SETUP_BASE + 4 * Len(Setup)

RunSetup ==
  /\ Running /\ InSetup
  /\ LET i == (machine.pc - SETUP_BASE) \div 4 + 1
     IN  IF i > Len(Setup) THEN Retire(0, None, machine.ram, PROGRAM_BASE)
         ELSE Retire(Setup[i].rd, Setup[i].value, machine.ram, machine.pc + 4)

\* An instruction of the program, or whatever else the RAM holds at the pc.
Fetches == Running /\ machine.steps > 0 /\ ~ InSetup /\ machine.pc \in Ram

Current == Decode[machine.ram[machine.pc]]
Left    == machine.regs[Current.rs1]
Right   == machine.regs[Current.rs2]
Sum     == (Left + Current.imm) % Modulus
Target  == (machine.pc + Current.imm) % Modulus

Taken == \/ Current.kind = "beq" /\ Left = Right
         \/ Current.kind = "bne" /\ Left # Right
         \/ Current.kind = "blt" /\ IsaAlu("slt", Left, Right) = 1
         \/ Current.kind = "bge" /\ IsaAlu("slt", Left, Right) = 0
         \/ Current.kind = "bltu" /\ IsaAlu("sltu", Left, Right) = 1
         \/ Current.kind = "bgeu" /\ IsaAlu("sltu", Left, Right) = 0
         \/ Current.kind = "jal"

\* The other instructions on immediates.
ImmediateOps == [slti |-> "slt", sltiu |-> "sltu", xori |-> "xor", ori |-> "or",
                 andi |-> "and", slli |-> "sll", srli |-> "srl", srai |-> "sra"]

\* Accesses to bytes, of which a word has four, and to half words: the bits of them
\* go to or come from the low bits of a register.
NarrowLoads  == {"lb", "lbu", "lh", "lhu"}
NarrowStores == {"sb", "sh"}

Size      == IF Current.kind \in {"lb", "lbu", "sb"} THEN 1 ELSE 2
ByteBits  == XLEN \div 4
First     == ByteBits * (Sum % 4)
Moved     == ByteBits * Size
Container == Sum - (Sum % 4)

NarrowLoaded ==
  LET word == BitSet(machine.ram[Container])
  IN  FromBits({i \in 0 .. XLEN - 1 :
                  \/ i < Moved /\ First + i \in word
                  \/ i >= Moved /\ Current.kind \in {"lb", "lh"} /\ First + Moved - 1 \in word})

NarrowStored ==
  FromBits({i \in 0 .. XLEN - 1 : IF i \in First .. First + Moved - 1 THEN i - First \in BitSet(Right)
                                 ELSE i \in BitSet(machine.ram[Container])})

\* What is reserved, or of an extension, is illegal under --isa=rv32i.
Illegal == DOMAIN OtherOps
             \cup {"load_reserved", "store_reserved", "branch_reserved", "op_imm_reserved"}

\* An illegal instruction, a misaligned target, a misaligned access or one outside
\* of the RAM.
Traps == \/ Current.kind \notin (Accepted \ Illegal) \cup {"jal"}
         \/ Taken /\ Target % 4 # 0
         \/ Current.kind \in {"lw", "sw"} /\ Sum \notin Ram
         \/ /\ Current.kind \in NarrowLoads \cup NarrowStores
            /\ Sum % Size # 0 \/ Container \notin Ram

RunInstruction ==
  LET next == (machine.pc + 4) % Modulus
      k    == Current.kind
  IN  /\ Fetches /\ ~ Traps
      /\ \/ k = "addi" /\ Retire(Current.rd, Sum, machine.ram, next)
         \/ k \in DOMAIN ImmediateOps
              /\ Retire(Current.rd, IsaAlu(ImmediateOps[k], Left, Current.imm % Modulus),
                        machine.ram, next)
         \/ k \in RTypes \cup {"srl", "sltu"}
              /\ Retire(Current.rd, IsaAlu(k, Left, Right), machine.ram, next)
         \/ k \in BranchKinds
              /\ Retire(0, None, machine.ram, IF Taken THEN Target ELSE next)
         \/ k = "jal" /\ Retire(Current.rd, next, machine.ram, Target)
         \/ k = "lw" /\ Retire(Current.rd, machine.ram[Sum], machine.ram, next)
         \/ k = "sw" /\ Retire(0, None, [machine.ram EXCEPT ![Sum] = Right], next)
         \/ k \in NarrowLoads /\ Retire(Current.rd, NarrowLoaded, machine.ram, next)
         \/ k \in NarrowStores
              /\ Retire(0, None, [machine.ram EXCEPT ![Container] = NarrowStored], next)

Trap ==
  /\ Running
  /\ \/ Fetches /\ Traps
     \/ machine.steps > 0 /\ ~ InSetup /\ machine.pc \notin Ram
  /\ machine' = [machine EXCEPT !.trapped = TRUE]
  /\ UNCHANGED <<request, stage, limit, log, spike_result>>

\* A line of another core, one that no pattern matches, or one that is malformed.
WritesOther ==
  /\ stage = "run" /\ request \in SmokeRequests
  /\ \A i \in DOMAIN log : log[i] \notin OtherLines
  /\ \E l \in OtherLines : log' = Append(log, l)
  /\ UNCHANGED <<request, stage, limit, machine, spike_result>>

\* Spike ends at its instruction limit, with status zero.
SpikeExits ==
  /\ stage = "run" /\ (machine.steps = limit \/ machine.trapped)
  /\ stage' = "parse"
  /\ UNCHANGED <<request, limit, machine, log, spike_result>>

-------------------------------------------------------------------------------
\* _derive_final_pc: the word after the last commit.
_derive_final_pc(trace) == trace[Len(trace)].pc + 4

\* The error of the parser is not caught (a mutant of Parse).
Parse_uncaught ==
  \E parsed \in {parse_log(log, PROGRAM_BASE, program_end, load_expected_trace(ExpectedTrace))} :
    /\ stage = "parse" /\ ~ parsed.error
    /\ stage' = "done"
    /\ spike_result' = Passed(_derive_final_pc(parsed.commits),
                              RegistersAfter(request.initial_int_regs, parsed.commits),
                              parsed.commits)
    /\ UNCHANGED <<request, limit, machine, log>>

\* _parse_trace, the loop over the commits, and the result.
Parse ==
  /\ stage = "parse"
  /\ stage' = "done"
  /\ \E expected \in {load_expected_trace(ExpectedTrace)} :
     \E parsed \in {parse_log(log, PROGRAM_BASE, program_end, expected)} :
       LET trace == parsed.commits
       IN  spike_result' =
             IF expected.error \/ parsed.error THEN Failure
             ELSE Passed(_derive_final_pc(trace),
                         RegistersAfter(request.initial_int_regs, trace), trace)
  /\ UNCHANGED <<request, limit, machine, log>>

SpikeNext == \/ Validate \/ ToolFails \/ Build
             \/ Boot \/ RunSetup \/ RunInstruction \/ Trap \/ WritesOther \/ SpikeExits
             \/ Parse
===============================================================================
