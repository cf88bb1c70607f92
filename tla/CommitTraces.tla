----------------------------- MODULE CommitTraces ------------------------------
(***************************************************************************)
(* The pure functions between two simulators and a verdict:                *)
(* spike_commit_parser.py, dut_commit_parser.py and                        *)
(* differential_compare.py.                                                *)
(*                                                                         *)
(* A line of a log is a record of what its regular expression captures:    *)
(* kind says which of the patterns matches, rd and value are None together *)
(* when the optional group is absent (so a destination without a value,    *)
(* for which parse_log has an error, does not occur).                      *)
(***************************************************************************)
EXTENDS Rv32i

CONSTANTS PROGRAM_BASE

ASSUME BaseAssumption == PROGRAM_BASE \in Word /\ PROGRAM_BASE % 4 = 0

Line(kind, core, pc, instruction, rd, value) ==
  [kind |-> kind, core |-> core, pc |-> pc, instruction |-> instruction,
   rd |-> rd, value |-> value]

\* What a line can hold: pc, instruction and value are of the width of the machine,
\* a register number is what its digits say.
LineKinds == {"commit", "dut_commit", "final_pc", "entry", "blank", "other"}
Lines ==
  {l \in [kind : LineKinds, core : Nat, pc : Word, instruction : Word,
          rd : Nat \cup {None}, value : Word \cup {None}] : l.rd = None <=> l.value = None}

CommitOf(l) ==
  [pc |-> l.pc, instruction |-> l.instruction, rd_valid |-> l.rd # None,
   rd |-> l.rd, value |-> l.value]

\* A parser raises an error or returns commits.
Error           == [error |-> TRUE, commits |-> <<>>]
Parsed(commits) == [error |-> FALSE, commits |-> commits]

\* The loop over the lines of a file: those at the positions in S are appended.
SelectedTo(lines, S) ==
  LET upto[n \in 0 .. Len(lines)] ==
        IF n = 0 THEN <<>>
        ELSE IF n \in S THEN Append(upto[n - 1], lines[n])
        ELSE upto[n - 1]
  IN  upto

Selected(lines, S) == SelectedTo(lines, S)[Len(lines)]

-------------------------------------------------------------------------------
\* spike_commit_parser.py

\* Lines without a match, of another core, or outside of the program are skipped.
Accepts(l, program_base, program_end) ==
  /\ l.kind = "commit" /\ l.core = 0
  /\ program_base <= l.pc /\ l.pc < program_end

\* Any register number is read (a mutant of Malformed).
Malformed_pc_only(l) == l.pc % 4 # 0

Malformed(l) == l.pc % 4 # 0 \/ (l.rd # None /\ l.rd \notin Registers)

\* The trace expected by the caller is an argument that parse_log does not use.
parse_log(lines, program_base, program_end, expected_trace) ==
  LET accepted == Selected(lines, {i \in DOMAIN lines :
                                     Accepts(lines[i], program_base, program_end)})
  IN  IF accepted = <<>> \/ \E i \in DOMAIN accepted : Malformed(accepted[i])
      THEN Error
      ELSE Parsed([i \in DOMAIN accepted |-> CommitOf(accepted[i])])

\* The registers parse_log returns with the commits start from zero.
ZeroRegisters        == [r \in Registers |-> 0]
log_registers(parsed) == RegistersAfter(ZeroRegisters, parsed.commits)

\* A line with other than two fields, or two that are not numbers, is an error,
\* and so is a file without an entry.
load_expected_trace(lines) ==
  LET entries == Selected(lines, {i \in DOMAIN lines : lines[i].kind # "blank"})
  IN  IF entries = <<>> \/ \E i \in DOMAIN entries : entries[i].kind # "entry"
      THEN Error
      ELSE Parsed([i \in DOMAIN entries |-> <<entries[i].pc, entries[i].instruction>>])

-------------------------------------------------------------------------------
\* dut_commit_parser.py: any line that is not blank, not the final pc and not a
\* commit is an error, as is a commit ISSCommit refuses.
parse_trace(lines) ==
  LET kept    == Selected(lines, {i \in DOMAIN lines :
                                    lines[i].kind \notin {"blank", "final_pc"}})
      commits == [i \in DOMAIN kept |-> CommitOf(kept[i])]
  IN  IF kept = <<>> \/ \E i \in DOMAIN kept :
                          kept[i].kind # "dut_commit" \/ commits[i] \notin ISSCommit
      THEN Error
      ELSE Parsed(commits)

-------------------------------------------------------------------------------
\* differential_compare.py

normalize_spike_pc(pc) == _u32(pc - PROGRAM_BASE)

normalize_spike_commit(c) == [c EXCEPT !.pc = normalize_spike_pc(@)]

normalize_spike_trace(trace) == [i \in DOMAIN trace |-> normalize_spike_commit(trace[i])]

normalize_spike_result(r) ==
  [r EXCEPT !.final_pc = IF @ # None THEN normalize_spike_pc(@) ELSE None,
            !.trace    = normalize_spike_trace(@)]

\* Where two traces and two results differ: an index of a commit and a field.
Mismatch(index, field) == [commit_index |-> index, field |-> field]

Fields == {"pc", "instruction", "rd_valid", "rd", "value"}

compare_traces(expected, observed) ==
  LET common == DOMAIN expected \cap DOMAIN observed
  IN  {Mismatch(p[1], p[2]) : p \in {q \in common \X Fields :
                                       expected[q[1]][q[2]] # observed[q[1]][q[2]]}}
      \cup (IF Len(expected) = Len(observed) THEN {}
            ELSE {Mismatch(1 + (IF Len(expected) < Len(observed) THEN Len(expected)
                                                                 ELSE Len(observed)),
                           "commit_count")})

\* The final pc is not compared (a mutant of compare_results).
compare_results_regs(expected, observed) ==
  compare_traces(expected.trace, observed.trace)
    \cup (IF expected.final_int_regs = observed.final_int_regs THEN {}
          ELSE {Mismatch(-1, "final_int_regs")})

\* The status and the error of the results are not compared.
compare_results(expected, observed) ==
  compare_traces(expected.trace, observed.trace)
    \cup (IF expected.final_pc = observed.final_pc THEN {} ELSE {Mismatch(-1, "final_pc")})
    \cup (IF expected.final_int_regs = observed.final_int_regs THEN {}
          ELSE {Mismatch(-1, "final_int_regs")})

passed(mismatches) == mismatches = {}
===============================================================================
