------------------------------ MODULE SpikeRunner ------------------------------
(***************************************************************************)
(* scripts/riscv_iss/spike_runner.py, the command line of the smoke test,  *)
(* with the parser it starts (main of spike_commit_parser.py).  The log is *)
(* what the run of Spike has written, the expected trace a file of the     *)
(* caller.                                                                 *)
(***************************************************************************)
EXTENDS CommitTraces

VARIABLES log,              \* of Spike
          args,             \* [instructions, program_base, program_end, expected_file]
          step,             \* "off", "arguments", "spike", "parser", "exited"
          code,             \* exit status
          printed           \* the registers on standard output

runner_vars == <<args, step, code, printed>>

NoArguments == [instructions |-> 0, program_base |-> 0, program_end |-> 0, expected_file |-> <<>>]

NotCalled == args = NoArguments /\ step = "off" /\ code = 0 /\ printed = NoRegs

Call(a) ==
  /\ step = "off" /\ step' = "arguments"
  /\ args' = a
  /\ UNCHANGED <<log, code, printed>>

Exit(status) == step' = "exited" /\ code' = status

CheckArguments ==
  /\ step = "arguments"
  /\ IF args.instructions <= 0 \/ args.program_end <= args.program_base
     THEN Exit(1)
     ELSE step' = "spike" /\ UNCHANGED code
  /\ UNCHANGED <<log, args, printed>>

\* The runner returns a status of Spike other than zero as its own.
SpikeExits ==
  /\ step = "spike"
  /\ \/ step' = "parser" /\ UNCHANGED code
     \/ Exit(2)
  /\ UNCHANGED <<log, args, printed>>

\* The parser's errors end it with status one, which the runner returns.
RunParser ==
  LET expected == load_expected_trace(args.expected_file)
      parsed   == parse_log(log, args.program_base, args.program_end, expected)
  IN  /\ step = "parser"
      /\ IF expected.error \/ parsed.error
         THEN Exit(1) /\ UNCHANGED printed
         ELSE Exit(0) /\ printed' = log_registers(parsed)
      /\ UNCHANGED <<log, args>>

RunnerNext == CheckArguments \/ SpikeExits \/ RunParser

-------------------------------------------------------------------------------
Ours(l) == Accepts(l, args.program_base, args.program_end)

\* The registers after n lines, line by line: a line that is skipped, or that names
\* no register or x0, leaves them alone.
AfterLines[n \in 0 .. Len(log)] ==
  IF n = 0 THEN ZeroRegisters
  ELSE IF Ours(log[n]) /\ log[n].rd \notin {None, 0}
       THEN [AfterLines[n - 1] EXCEPT ![log[n].rd] = log[n].value]
       ELSE AfterLines[n - 1]

\* Status zero means a trace: a log of which nothing is of the program, one with a
\* misaligned or unreadable commit of the program, and a Spike that failed are all
\* reported, and a later line never hides an earlier one.  The printed registers
\* are then those the lines lead to.
ZeroMeansTrace ==
  step = "exited" /\ code = 0 =>
    /\ \E n \in DOMAIN log : Ours(log[n])
    /\ \A n \in DOMAIN log : Ours(log[n]) => CommitOf(log[n]) \in ISSCommit
    /\ \E n \in DOMAIN args.expected_file : args.expected_file[n].kind = "entry"
    /\ printed = AfterLines[Len(log)]
===============================================================================
