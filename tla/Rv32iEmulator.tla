----------------------------- MODULE Rv32iEmulator -----------------------------
(***************************************************************************)
(* RV32IEmulatorBackend.execute: the scope check, one action for one       *)
(* instruction of each format, and the three ways to end.                  *)
(***************************************************************************)
EXTENDS Rv32i

CONSTANT Requests
ASSUME RequestsAssumption == Requests \subseteq ISSRequest

VARIABLES request,
          phase,        \* "start", "run", "done"
          regs, memory, pc, trace,
          result

state == <<regs, memory, pc, trace>>
vars  == <<request, phase, state, result>>

\* The dictionary of the words stored so far.
NoMemory == [address \in {} |-> 0]
memory_get(address) == IF address \in DOMAIN memory THEN memory[address] ELSE 0

-------------------------------------------------------------------------------
InScope(req) ==
  /\ req.program_word_count > 0
  /\ \A i \in 0 .. req.program_word_count - 1 : Decode[req.program[i]].kind \in Supported

Init ==
  /\ request \in Requests
  /\ phase = "start"
  /\ regs = request.initial_int_regs
  /\ memory = NoMemory /\ pc = 0 /\ trace = <<>>
  /\ result = Failure

\* _validate_request_scope
Validate ==
  /\ phase = "start"
  /\ phase' = IF InScope(request) THEN "run" ELSE "done"
  /\ UNCHANGED <<request, state, result>>

\* One instruction too many (a mutant of Looping).
Looping_inclusive == phase = "run" /\ Len(trace) <= request.execution_limit

\* The condition of the loop, and its two early ends.
Looping == phase = "run" /\ Len(trace) < request.execution_limit

Misaligned   == pc % 4 # 0
OutOfProgram == pc \div 4 >= request.program_word_count

Fetched == request.program[pc \div 4]
Executes(kinds) ==
  /\ Looping /\ ~ Misaligned /\ ~ OutOfProgram
  /\ Decode[Fetched].kind \in kinds

\* The commit is appended, x0 is zero again, and the loop goes to next_pc.
WriteRegister(rd, value) ==
  LET written == IF rd = 0 THEN 0 ELSE value
  IN  /\ regs' = [regs EXCEPT ![rd] = written]
      /\ trace' = Append(trace, Commit(pc, Fetched, rd, written))

Continue(next_pc) ==
  /\ pc' = next_pc
  /\ UNCHANGED <<request, phase, result>>

\* The sum is not cut to a word (a mutant of ExecuteAddi).
ExecuteAddi_unmasked ==
  LET i == Decode[Fetched]
  IN  /\ Executes({"addi"})
      /\ WriteRegister(i.rd, regs[i.rs1] + i.imm)
      /\ UNCHANGED memory
      /\ Continue(pc + 4)

ExecuteAddi ==
  LET i == Decode[Fetched]
  IN  /\ Executes({"addi"})
      /\ WriteRegister(i.rd, _u32(regs[i.rs1] + i.imm))
      /\ UNCHANGED memory
      /\ Continue(pc + 4)

ExecuteRType ==
  LET i == Decode[Fetched]
  IN  /\ Executes(RTypes)
      /\ WriteRegister(i.rd, _u32(_r_type(i.kind, regs[i.rs1], regs[i.rs2])))
      /\ UNCHANGED memory
      /\ Continue(pc + 4)

\* The target is relative to the next instruction (a mutant of ExecuteBeq).
ExecuteBeq_next ==
  LET i == Decode[Fetched]
  IN  /\ Executes({"beq"})
      /\ trace' = Append(trace, CommitOnly(pc, Fetched))
      /\ UNCHANGED <<regs, memory>>
      /\ Continue(IF regs[i.rs1] = regs[i.rs2] THEN _u32(pc + 4 + i.imm) ELSE pc + 4)

ExecuteBeq ==
  LET i == Decode[Fetched]
  IN  /\ Executes({"beq"})
      /\ trace' = Append(trace, CommitOnly(pc, Fetched))
      /\ UNCHANGED <<regs, memory>>
      /\ Continue(IF regs[i.rs1] = regs[i.rs2] THEN _u32(pc + i.imm) ELSE pc + 4)

Address == LET i == Decode[Fetched] IN _u32(regs[i.rs1] + i.imm)

ExecuteLw ==
  /\ Executes({"lw"})
  /\ Address % 4 = 0
  /\ WriteRegister(Decode[Fetched].rd, memory_get(Address))
  /\ UNCHANGED memory
  /\ Continue(pc + 4)

\* A word stored once is never replaced (a mutant of ExecuteSw).
ExecuteSw_once ==
  /\ Executes({"sw"})
  /\ Address % 4 = 0
  /\ memory' = [a \in DOMAIN memory \cup {Address} |->
                  IF a \in DOMAIN memory THEN memory[a] ELSE regs[Decode[Fetched].rs2]]
  /\ trace' = Append(trace, CommitOnly(pc, Fetched))
  /\ UNCHANGED regs
  /\ Continue(pc + 4)

ExecuteSw ==
  /\ Executes({"sw"})
  /\ Address % 4 = 0
  /\ memory' = [a \in DOMAIN memory \cup {Address} |->
                  IF a = Address THEN regs[Decode[Fetched].rs2] ELSE memory[a]]
  /\ trace' = Append(trace, CommitOnly(pc, Fetched))
  /\ UNCHANGED regs
  /\ Continue(pc + 4)

\* A ValueError of the loop: a misaligned pc or data address.
Fail ==
  /\ Looping
  /\ \/ Misaligned
     \/ Executes({"lw", "sw"}) /\ Address % 4 # 0
  /\ phase' = "done"
  /\ result' = Failure
  /\ UNCHANGED <<request, state>>

\* The limit is reached or the pc has left the program.
Finish ==
  /\ phase = "run"
  /\ Len(trace) < request.execution_limit => ~ Misaligned /\ OutOfProgram
  /\ phase' = "done"
  /\ result' = Passed(pc, regs, trace)
  /\ UNCHANGED <<request, state>>

Next == \/ Validate
        \/ ExecuteAddi \/ ExecuteRType \/ ExecuteBeq \/ ExecuteLw \/ ExecuteSw
        \/ Fail \/ Finish

\* execute is a loop of one thread: it runs until it returns.
Spec == Init /\ [][Next]_vars /\ WF_vars(Next)

-------------------------------------------------------------------------------
TypeOK ==
  /\ request \in ISSRequest
  /\ phase \in {"start", "run", "done"}
  /\ regs \in RegisterFiles
  /\ \A a \in DOMAIN memory : a \in Word /\ a % 4 = 0 /\ memory[a] \in Word
  /\ pc \in Nat
  /\ trace \in Seq(ISSCommit) /\ Len(trace) <= request.execution_limit
  /\ result \in ISSResult

\* What a trace t of the request says of the machine just before its commit j.
RegisterBefore(t, j, r) == RegisterAfter(request.initial_int_regs, t, j - 1, r)

Instruction(t, j) == Decode[t[j].instruction]

DataAddress(t, j) ==
  LET i == Instruction(t, j) IN _u32(RegisterBefore(t, j, i.rs1) + i.imm)

Stores(t, n, address) ==
  {j \in 1 .. n : Instruction(t, j).kind = "sw" /\ DataAddress(t, j) = address}

MemoryAfter(t, n, address) ==
  LET stores == Stores(t, n, address)
  IN  IF stores = {} THEN 0
      ELSE RegisterBefore(t, Latest(stores), Instruction(t, Latest(stores)).rs2)

TakesBranch(t, j) ==
  LET i == Instruction(t, j)
  IN  i.kind = "beq" /\ RegisterBefore(t, j, i.rs1) = RegisterBefore(t, j, i.rs2)

PcAfter(t, n) ==
  IF n = 0 THEN 0
  ELSE IF TakesBranch(t, n) THEN _u32(t[n].pc + Instruction(t, n).imm)
  ELSE t[n].pc + 4

\* What an instruction writes, given its two registers and the word at its address.
Written(i, left, right, word) ==
  CASE i.kind = "addi"    -> _u32(left + i.imm)
    [] i.kind \in RTypes  -> _u32(_r_type(i.kind, left, right))
    [] i.kind = "lw"      -> word

\* What commit j must report when the trace before it is as it is.
Reported(t, j) ==
  LET i     == Instruction(t, j)
      word  == MemoryAfter(t, j - 1, DataAddress(t, j))
      value == Written(i, RegisterBefore(t, j, i.rs1), RegisterBefore(t, j, i.rs2), word)
  IN  IF i.kind \in {"beq", "sw"} THEN CommitOnly(t[j].pc, t[j].instruction)
      ELSE Commit(t[j].pc, t[j].instruction, i.rd, IF i.rd = 0 THEN 0 ELSE value)

\* The hidden state of the loop (regs, memory, pc) is at every step what the trace
\* alone says it is: a reader of the trace, which is all SpikeBackend and the
\* comparator are, misses nothing.
StateFollowsTrace ==
  /\ \A r \in Registers : regs[r] = RegisterAfter(request.initial_int_regs, trace, Len(trace), r)
  /\ \A a \in DOMAIN memory : memory[a] = MemoryAfter(trace, Len(trace), a)
  /\ \A j \in DOMAIN trace : Instruction(trace, j).kind = "sw" =>
                               DataAddress(trace, j) \in DOMAIN memory
  /\ pc = PcAfter(trace, Len(trace))

\* Every commit is the one its instruction, taken from the program at the pc the
\* commits before lead to, makes of the registers and words the commits before
\* have left, whatever their order and however often a loop repeats them.
TraceReplays ==
  \A j \in DOMAIN trace :
    /\ trace[j].pc = PcAfter(trace, j - 1)
    /\ trace[j].pc \div 4 < request.program_word_count
    /\ trace[j].instruction = request.program[trace[j].pc \div 4]
    /\ trace[j] = Reported(trace, j)

\* A run that passes has used up its limit or has left the program, and reports
\* the trace it made; it fails only for a program out of scope, or at the
\* misaligned pc or data address it has come to.
ResultIsAccounted ==
  phase = "done" =>
    \/ /\ result.status = "PASS"
       /\ result.trace = trace
       /\ result.executed_count = request.execution_limit
            \/ result.final_pc \div 4 >= request.program_word_count
    \/ /\ result = Failure
       /\ \/ ~ InScope(request) /\ trace = <<>>
          \/ Misaligned
          \/ Decode[Fetched].kind \in {"lw", "sw"} /\ Address % 4 # 0
===============================================================================
