-------------------------------- MODULE CpuExec --------------------------------
(***************************************************************************)
(* The execution core (rtl/cpu_exec_core.sv with its control unit, ALU,    *)
(* register file and data memory), clocked by a testbench as               *)
(* tests/cpu_exec_spike_diff_smoke_tb.sv and the UVM driver do: programs   *)
(* are loaded under reset, registers are initialised before execution is   *)
(* enabled, and every commit is written to a trace.                        *)
(*                                                                         *)
(* One action is one positive edge, or the whole of the reset phase, in    *)
(* which nothing but the instruction memory can change.  The floating-     *)
(* point registers, which no decoded instruction reads, are left out.      *)
(***************************************************************************)
EXTENDS CommitTraces

CONSTANTS DATA_WORDS,        \* entries of the data memory
          LeftoverWord       \* what an earlier program left in the instruction memory

VARIABLES request,
          bench,             \* "off", "idle", "init", "run", "done"
          next_init,         \* registers below are initialised
          instr_mem, int_regs, data_mem, core_pc,
          edges,             \* number of edges with execution enabled
          dut_trace

core     == <<int_regs, data_mem, core_pc>>
cpu_vars == <<bench, next_init, instr_mem, core, edges, dut_trace>>

-------------------------------------------------------------------------------
\* The control unit looks at the opcode: every OP writes a register, every LOAD a whole
\* word to one, every STORE a whole word to memory, whatever the functions; of BRANCH
\* four kinds can be taken; the rest is a NOP.
Branches == {"beq", "bne", "blt", "bge"}

instruction == instr_mem[(core_pc \div 4) % PROGRAM_WORD_CAPACITY]
decoded     == Decode[instruction]
mem_read    == decoded.kind \in LoadKinds
reg_write   == mem_read \/ decoded.kind \in OpKinds

mem_write   == decoded.kind \in StoreKinds

RegisterFile(r) == IF r = 0 THEN 0 ELSE int_regs[r]
reg1_data == RegisterFile(decoded.rs1)
reg2_data == RegisterFile(decoded.rs2)

\* The right shift is not arithmetic (a mutant of alu).
alu_logical(op, A, B) ==
  IF op = "sra" THEN A \div 2^(B % XLEN)
  ELSE IF op \in RTypes THEN _u32(_r_type(op, A, B)) ELSE 0

\* Bit 5 is all that funct7 is looked at for.
ALU_op(kind) == IF kind \in DOMAIN OtherOps THEN OtherOps[kind] ELSE kind

\* The eight operations on words; SRL, SLTU and the other codes give zero.
alu(op, A, B) == IF op \in RTypes THEN _u32(_r_type(op, A, B)) ELSE 0

\* The data memory is indexed by the low bits of the byte address.
mem_index == alu("add", reg1_data, decoded.imm) % DATA_WORDS

writeback_data == IF mem_read THEN data_mem[mem_index]
                  ELSE alu(ALU_op(decoded.kind), reg1_data, reg2_data)

branch_taken ==
  CASE decoded.kind = "beq" -> reg1_data = reg2_data
    [] decoded.kind = "bne" -> reg1_data # reg2_data
    [] decoded.kind = "blt" -> _signed32(reg1_data) < _signed32(reg2_data)
    [] decoded.kind = "bge" -> _signed32(reg1_data) >= _signed32(reg2_data)
    [] OTHER -> FALSE

next_pc == _u32(core_pc + (IF branch_taken THEN decoded.imm ELSE 4))

-------------------------------------------------------------------------------
\* The write port of the register file, taken by the initialisation when it is
\* enabled.  Neither it nor the data memory looks at execution_enable.
NoInit == [enable |-> FALSE, addr |-> 0, data |-> 0]

\* The instruction keeps the write port (a mutant of WritePort).
WritePort_shared(init) ==
  IF reg_write THEN [enable |-> TRUE, addr |-> decoded.rd, data |-> writeback_data] ELSE init

WritePort(init) ==
  IF init.enable THEN init
  ELSE [enable |-> reg_write, addr |-> decoded.rd, data |-> writeback_data]

registers_after(init) ==
  LET port == WritePort(init)
  IN  IF port.enable /\ port.addr # 0 THEN [int_regs EXCEPT ![port.addr] = port.data]
      ELSE int_regs

\* A positive edge with reset released.  A zero word holds the pc.
Edge(init, execution_enable) ==
  /\ int_regs' = registers_after(init)
  /\ data_mem' = IF mem_write THEN [data_mem EXCEPT ![mem_index] = reg2_data]
                 ELSE data_mem
  /\ core_pc'  = IF execution_enable /\ instruction # 0 THEN next_pc ELSE core_pc
  /\ UNCHANGED <<request, instr_mem>>

\* The commit ports of the wrapper, written to the trace behind the edge.
TraceLine ==
  IF reg_write /\ decoded.rd # 0
  THEN Line("dut_commit", 0, core_pc, instruction, decoded.rd, registers_after(NoInit)[decoded.rd])
  ELSE Line("dut_commit", 0, core_pc, instruction, None, None)

-------------------------------------------------------------------------------
ZeroMemory == [w \in 0 .. DATA_WORDS - 1 |-> 0]

PoweredOff ==
  /\ bench = "off" /\ next_init = 1 /\ edges = 0 /\ dut_trace = <<>>
  /\ instr_mem = [i \in 0 .. PROGRAM_WORD_CAPACITY - 1 |-> LeftoverWord]
  /\ int_regs = ZeroRegisters /\ data_mem = ZeroMemory /\ core_pc = 0

\* Reset clears the core but not the instruction memory, of which the words of the
\* program are written.
LoadProgram ==
  /\ bench = "off" /\ bench' = "idle"
  /\ instr_mem' = [i \in DOMAIN instr_mem |->
                     IF i < request.program_word_count THEN request.program[i] ELSE instr_mem[i]]
  /\ int_regs' = ZeroRegisters /\ data_mem' = ZeroMemory /\ core_pc' = 0
  /\ UNCHANGED <<request, next_init, edges, dut_trace>>

\* One edge passes between the release of reset and the first initialisation.
IdleEdge ==
  /\ bench = "idle" /\ bench' = "init"
  /\ Edge(NoInit, FALSE)
  /\ UNCHANGED <<next_init, edges, dut_trace>>

\* Registers with a nonzero initial value are written, in order.
Pending == {r \in Registers : r >= next_init /\ request.initial_int_regs[r] # 0}

InitRegister ==
  /\ bench = "init"
  /\ \E r \in Pending :
       /\ \A q \in Pending : r <= q
       /\ Edge([enable |-> TRUE, addr |-> r, data |-> request.initial_int_regs[r]], FALSE)
       /\ next_init' = r + 1
  /\ UNCHANGED <<bench, edges, dut_trace>>

Enable ==
  /\ bench = "init" /\ Pending = {}
  /\ bench' = "run"
  /\ UNCHANGED <<request, next_init, instr_mem, core, edges, dut_trace>>

\* The testbench checks a known number of commits, and writes the final pc.
Execute(commits) ==
  /\ bench = "run" /\ edges < commits
  /\ Edge(NoInit, TRUE)
  /\ edges' = edges + 1
  /\ dut_trace' = IF instruction # 0 THEN Append(dut_trace, TraceLine) ELSE dut_trace
  /\ UNCHANGED <<bench, next_init>>

Stop(commits) ==
  /\ bench = "run" /\ edges = commits
  /\ bench' = "done"
  /\ dut_trace' = Append(dut_trace, Line("final_pc", 0, core_pc, 0, None, None))
  /\ UNCHANGED <<request, next_init, instr_mem, core, edges>>

CpuNext(commits) ==
  LoadProgram \/ IdleEdge \/ InitRegister \/ Enable \/ Execute(commits) \/ Stop(commits)

-------------------------------------------------------------------------------
\* cpu_driver.sv:213 has the core not execute before execution is enabled.  The
\* instruction at address zero does write on each of those edges, but what it makes
\* of zeros is zero, and the initialisation takes its write port: execution starts
\* from pc zero, the program and exactly the registers asked for, and from a clear
\* memory unless that instruction is a store, of whatever width.
StartsAsAsked ==
  bench = "run" /\ edges = 0 =>
    /\ core_pc = 0
    /\ int_regs = request.initial_int_regs
    /\ \A i \in 0 .. request.program_word_count - 1 : instr_mem[i] = request.program[i]
    /\ ~ mem_write => data_mem = ZeroMemory
===============================================================================
