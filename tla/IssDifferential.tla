---------------------------- MODULE IssDifferential ----------------------------
(***************************************************************************)
(* One request given to both simulators, RV32IEmulatorBackend (extended    *)
(* here) and SpikeBackend, and compare_results on the result of the first  *)
(* and the normalized result of the second.                                *)
(*                                                                         *)
(* What Spike has left goes on to one of its two other readers: the log to *)
(* the command line of the smoke test, or the trace to the comparison with *)
(* the core, which runs as many instructions as the trace has commits, and *)
(* none when Spike has failed                                              *)
(* (tests/riscv_iss/test_dut_spike_integration.py).  Calls are sequential. *)
(***************************************************************************)
EXTENDS Rv32iEmulator, CommitTraces, FiniteSets

CONSTANTS SETUP_BASE, DATA_BASE, SPIKE_BOOT_INSTRUCTION_COUNT,
          BootRegisters, BOOT_PC, LoopWord, OtherLines, SmokeRequests,
          SmokeArguments,      \* of the command line, for a request
          DATA_WORDS, LeftoverWord

\* The setup code, at most two instructions a register and the jump, lies between the
\* program, with RAM left behind it, and the data.  Lines of another core, without a
\* match or malformed are all that Spike can write of the program besides its commits.
ASSUME SpikeAssumption ==
  /\ {SETUP_BASE, DATA_BASE, BOOT_PC, LoopWord} \subseteq Word /\ SETUP_BASE % 4 = 0
  /\ PROGRAM_BASE + 4 * PROGRAM_WORD_CAPACITY < SETUP_BASE
  /\ SETUP_BASE + 8 * INTEGER_REGISTER_COUNT <= DATA_BASE
  /\ SPIKE_BOOT_INSTRUCTION_COUNT \in Nat \ {0}
  /\ BOOT_PC + 4 * SPIKE_BOOT_INSTRUCTION_COUNT <= PROGRAM_BASE
  /\ BootRegisters \in RegisterFiles
  /\ SmokeRequests \subseteq Requests
  /\ OtherLines \subseteq Lines
  /\ \A l \in OtherLines : l.kind = "commit" /\ l.core = 0 =>
       l.pc % 4 # 0 \/ l.rd \notin Registers \cup {None}

ASSUME ArgumentsAssumption ==
  \A q \in SmokeRequests : \A a \in SmokeArguments[q] : a.expected_file \in Seq(Lines)

ASSUME CpuAssumption == DATA_WORDS \in Nat \ {0} /\ LeftoverWord \in Word

VARIABLES stage, limit, machine, log, spike_result,               \* the Spike backend
          verdict,                                     \* whether done, and the mismatches
          args, step, code, printed,                              \* the command line
          bench, next_init, instr_mem, int_regs, data_mem, core_pc, edges, dut_trace

Spike  == INSTANCE SpikeBackend
Runner == INSTANCE SpikeRunner
Cpu    == INSTANCE CpuExec

\* The RAM behind the program reads zero, which is no instruction.
ASSUME ZeroIsIllegal == Decode[0].kind \notin Spike!Accepted \cup {"jal"}

emulator_vars     == <<phase, state, result>>
spike_vars        == <<stage, limit, machine, log, spike_result>>
runner_vars       == <<args, step, code, printed>>
cpu_vars          == <<bench, next_init, instr_mem, int_regs, data_mem, core_pc, edges, dut_trace>>
differential_vars == <<request, emulator_vars, spike_vars, verdict, runner_vars, cpu_vars>>

-------------------------------------------------------------------------------
NoVerdict == [done |-> FALSE, mismatches |-> {}]

DifferentialInit ==
  /\ Init /\ Spike!Called /\ verdict = NoVerdict
  /\ Runner!NotCalled /\ Cpu!PoweredOff

RunEmulator == Next /\ UNCHANGED <<spike_vars, verdict, runner_vars, cpu_vars>>

RunSpike ==
  /\ phase = "done" /\ Spike!SpikeNext
  /\ UNCHANGED <<emulator_vars, verdict, runner_vars, cpu_vars>>

Compare ==
  /\ stage = "done" /\ ~ verdict.done
  /\ verdict' = [done |-> TRUE,
                 mismatches |-> compare_results(result, normalize_spike_result(spike_result))]
  /\ UNCHANGED <<request, emulator_vars, spike_vars, runner_vars, cpu_vars>>

RunSmokeTest ==
  /\ verdict.done /\ bench = "off" /\ request \in SmokeRequests
  /\ (\E a \in SmokeArguments[request] : Runner!Call(a)) \/ Runner!RunnerNext
  /\ UNCHANGED <<request, emulator_vars, stage, limit, machine, spike_result, verdict, cpu_vars>>

RunDut ==
  /\ verdict.done /\ step = "off"
  /\ Cpu!CpuNext(Len(spike_result.trace))
  /\ UNCHANGED <<emulator_vars, spike_vars, verdict, runner_vars>>

DifferentialNext == RunEmulator \/ RunSpike \/ Compare \/ RunSmokeTest \/ RunDut

\* One thread that waits for what it starts: whoever is called goes on.
DifferentialSpec ==
  DifferentialInit /\ [][DifferentialNext]_differential_vars
    /\ WF_differential_vars(DifferentialNext)

-------------------------------------------------------------------------------
Normalized == normalize_spike_trace(spike_result.trace)

\* Requests on which two of the machines are the same.  Spike has code and data in
\* one memory, with memory only in part of the addresses, and boot code that leaves
\* words in registers; what can be told of this is told of a trace t.
DataApart(t, j) ==
  Instruction(t, j).kind \in {"lw", "sw"} =>
    DataAddress(t, j) >= DATA_BASE /\ DataAddress(t, j) # DATA_BASE + 4

ReadsBootRegister(t, j) ==
  \E r \in {Instruction(t, j).rs1, Instruction(t, j).rs2} :
    request.initial_int_regs[r] = 0 /\ BootRegisters[r] # 0

\* The emulator in addition reports a write of x0, and commits a branch before it
\* looks at the target.
Comparable ==
  /\ result.status = "PASS" /\ trace # <<>>
  /\ \A j \in DOMAIN trace : /\ DataApart(trace, j)
                             /\ ~ ReadsBootRegister(trace, j)
                             /\ trace[j].rd # 0
  /\ Len(trace) < request.execution_limit => pc = 4 * request.program_word_count

EndsInTakenBranch == TakesBranch(trace, Len(trace))

NoToolFailure == spike_result.status = "PASS"

\* On such requests the Spike backend, whatever the number of instructions its
\* setup code takes, recovers from the log the very trace and registers of the
\* emulator, and the final pc unless the run ends in a taken branch.
BackendsAgree ==
  verdict.done /\ Comparable /\ NoToolFailure /\ ~ EndsInTakenBranch =>
    passed(verdict.mismatches)

\* README.md:593-595 has the comparator compare the final pc as well, and the
\* accepted scope (spike_backend.py:125) has branches, but a run whose last commit
\* is a taken branch gets the pc after the branch and not its target.
FinalPcAgrees ==
  verdict.done /\ Comparable /\ NoToolFailure =>
    Mismatch(-1, "final_pc") \notin verdict.mismatches

Inside == {i \in DOMAIN log : Accepts(log[i], PROGRAM_BASE, Spike!program_end)}

\* The limit given to Spike leaves it exactly execution_limit instructions after
\* boot and setup: the backend reports no more than were asked for, and as many
\* unless the run has trapped or has left the program.
BudgetIsExact ==
  stage = "done" /\ spike_result.status = "PASS" =>
    LET n == spike_result.executed_count
    IN  /\ n = Cardinality(Inside)
        /\ n <= request.execution_limit
        /\ n < request.execution_limit =>
             \/ machine.trapped
             \/ \E i \in Inside, k \in DOMAIN log \ Inside : i < k

\* A comparison passes when the two results are the same result, up to the base of
\* the program, and in no other case; two failures are the same result.
VerdictIsExact ==
  verdict.done =>
    (passed(verdict.mismatches) <=> result = normalize_spike_result(spike_result))

-------------------------------------------------------------------------------
\* The core has no immediate arithmetic, no logical right shift, no unsigned comparison
\* and no access narrower than a word, its data memory keeps the low bits of an
\* address only, and a store at address zero is repeated while the registers are
\* initialised.
SharesAWord(t, i, j) ==
  /\ {Instruction(t, i).kind, Instruction(t, j).kind} \subseteq {"lw", "sw"}
  /\ DataAddress(t, i) # DataAddress(t, j)
  /\ DataAddress(t, i) % DATA_WORDS = DataAddress(t, j) % DATA_WORDS

DutComparable ==
  /\ spike_result.status = "PASS"
  /\ \A j \in DOMAIN Normalized :
       /\ Instruction(Normalized, j).kind \in RTypes \cup Cpu!Branches \cup {"lw", "sw"}
       /\ DataApart(Normalized, j) /\ ~ ReadsBootRegister(Normalized, j)
       /\ \A i \in 1 .. j - 1 : ~ SharesAWord(Normalized, i, j)
  /\ Instruction(Normalized, 1).kind # "sw"
  /\ \A i, k \in Inside : i .. k \subseteq Inside

\* On such programs the core commits what Spike commits, instruction by instruction,
\* and its trace is one the parser accepts: initialisation under a running decoder,
\* the held zero words and the words an earlier program has left behind the end of
\* this one do not show.
DutAgrees ==
  bench = "done" /\ DutComparable =>
    LET observed == parse_trace(dut_trace)
    IN  ~ observed.error /\ passed(compare_traces(observed.commits, Normalized))

\* The component modules' own claims, in this composition.
StartsAsAsked  == Cpu!StartsAsAsked
ZeroMeansTrace == Runner!ZeroMeansTrace

\* Both simulators return, the comparison is made, and whatever is then started,
\* the command line or the testbench, comes to its end.
ComparisonEnds ==
  /\ <>verdict.done
  /\ step # "off" ~> step = "exited"
  /\ bench # "off" ~> bench = "done"
===============================================================================
