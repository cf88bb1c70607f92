----------------------------- MODULE FpuScoreboard -----------------------------
(***************************************************************************)
(* The loop that checks the FPU against the Python reference: the driver,  *)
(* monitor and scoreboard of uvm_tb/fpu_agent/fpu_pkg.sv, the reset of     *)
(* tb_top_fpu.sv, and reference/scoreboard_bridge.py, which the scoreboard *)
(* runs once on the file of all collected operations.                      *)
(*                                                                         *)
(* An operation stands for the triple (a, b, op).  What the registered FPU *)
(* and the reference answer to it are parameters: module Fpu is about      *)
(* them, this module is about who is compared with whom.                   *)
(***************************************************************************)
EXTENDS Integers, Sequences, FiniteSets, FiniteSetTheorems, TLAPS

CONSTANTS Operations,    \* the operations a sequence may send
          Idle,          \* the operation on the wires at time zero
          Results,       \* 32-bit words
          Zero,          \* the reset value of the result register
          Unsupported,   \* the answer of the bridge without a word
          Dut,           \* what the FPU computes
          Ref,           \* what reference_model answers
          NumItems,      \* items of the sequence
          NumExpected    \* num_expected: transactions the scoreboard waits for

ASSUME ScoreboardAssumption ==
  /\ Idle \in Operations
  /\ Zero \in Results /\ Unsupported \notin Results
  /\ Dut \in [Operations -> Results]
  /\ Ref \in [Operations -> Results \cup {Unsupported}]
  /\ NumItems \in Nat \ {0}
  /\ NumExpected \in Nat \ {0}

VARIABLES rst,           \* reset wire, high at first, released once
          wires,         \* vif.a, vif.b, vif.op
          result,        \* the result register of the FPU
          sent,          \* items the driver has taken from the sequence
          have_prev,     \* the monitor has seen an operation since the reset
          prev,          \* prev_a, prev_b, prev_op
          tx_queue,      \* transactions collected by the scoreboard
          phase,         \* "collect", "compare", "done"
          expected,      \* lines of scoreboard_out.txt
          mismatches, unsupported, errors

vars == <<rst, wires, result, sent, have_prev, prev, tx_queue, phase, expected,
          mismatches, unsupported, errors>>
drive   == <<rst, wires, result, sent, have_prev, prev>>
verdict == <<mismatches, unsupported, errors>>


-------------------------------------------------------------------------------
(***************************************************************************)
(* scoreboard_bridge.py.  A line with three words is asked of the          *)
(* reference; blank lines, comments and lines of another shape are skipped *)
(* without an answer.                                                      *)
(***************************************************************************)
Line(o) == [words |-> 3, operation |-> o]

\* The positions in S of a file, in order: the n-th line of them.
Nth(S, n) == CHOOSE i \in S : Cardinality({j \in S : j <= i}) = n

\* Unsupported operations get no line (a mutant of BridgeOutput).
BridgeOutput_silent(lines) ==
  LET asked == {i \in DOMAIN lines : lines[i].words = 3 /\ Ref[lines[i].operation] # Unsupported}
  IN  [n \in 1 .. Cardinality(asked) |-> Ref[lines[Nth(asked, n)].operation]]

BridgeOutput(lines) ==
  LET asked == {i \in DOMAIN lines : lines[i].words = 3}
  IN  [n \in 1 .. Cardinality(asked) |-> Ref[lines[Nth(asked, n)].operation]]

-------------------------------------------------------------------------------
Init ==
  /\ rst = TRUE
  /\ wires = Idle /\ result = Zero /\ sent = 0
  /\ have_prev = FALSE /\ prev = Idle
  /\ tx_queue = <<>> /\ phase = "collect" /\ expected = <<>>
  /\ mismatches = 0 /\ unsupported = 0 /\ errors = 0

\* Edges under reset leave the register and the monitor as they are.
Release ==
  /\ rst
  /\ rst' = FALSE
  /\ UNCHANGED <<wires, result, sent, have_prev, prev,
                 tx_queue, phase, expected, verdict>>

\* The clock waits for an item (a mutant of DriveNext).
DriveNext_blocks ==
  \E n \in (IF sent = 0 THEN {1, 2} ELSE {1}) :
    /\ sent + n <= NumItems
    /\ sent' = sent + n
    /\ wires' \in Operations

\* The driver puts the next item on the wires, with a nonblocking assignment, at
\* the edge that samples the item before it; after the last item the wires keep
\* their values.  The sequence starts at the time of the first edge out of reset,
\* so its first item may be on the wires before or after that edge: in the first
\* case the driver takes two items there and the first is never sampled.
DriveNext ==
  \/ \E n \in (IF sent = 0 THEN {1, 2} ELSE {1}) :
       /\ sent + n <= NumItems
       /\ sent' = sent + n
       /\ wires' \in Operations
  \/ /\ sent = NumItems
     /\ UNCHANGED <<sent, wires>>

\* The monitor samples at the edge, before the driver (a mutant of Edge).
Edge_samples_early ==
  /\ ~ rst /\ phase = "collect" /\ Len(tx_queue) < NumExpected
  /\ result' = Dut[wires]
  /\ DriveNext
  /\ have_prev' = TRUE
  /\ prev' = wires
  /\ tx_queue' = IF have_prev
                 THEN Append(tx_queue, [operation |-> prev, result |-> result'])
                 ELSE tx_queue
  /\ UNCHANGED <<rst, phase, expected, verdict>>

\* One edge out of reset, while the scoreboard still collects.  The monitor looks
\* at the wires one time unit after the edge: the result belongs to the operation
\* it saw after the edge before.
Edge ==
  /\ ~ rst /\ phase = "collect" /\ Len(tx_queue) < NumExpected
  /\ result' = Dut[wires]
  /\ DriveNext
  /\ have_prev' = TRUE
  /\ prev' = wires'
  /\ tx_queue' = IF have_prev
                 THEN Append(tx_queue, [operation |-> prev, result |-> result'])
                 ELSE tx_queue
  /\ UNCHANGED <<rst, phase, expected, verdict>>

\* compare_all up to the return of $system: all operations are written to the
\* file, one line each, and the bridge answers them.
RunBridge ==
  /\ phase = "collect" /\ Len(tx_queue) = NumExpected
  /\ expected' = BridgeOutput([i \in DOMAIN tx_queue |-> Line(tx_queue[i].operation)])
  /\ phase' = "compare"
  /\ UNCHANGED <<drive, tx_queue, verdict>>

\* A file that cannot be opened or a bridge that fails ends the comparison.
BridgeFails ==
  /\ phase = "collect" /\ Len(tx_queue) = NumExpected
  /\ errors' = errors + 1
  /\ phase' = "done"
  /\ UNCHANGED <<drive, tx_queue, expected, mismatches, unsupported>>

\* The loop of compare_all over the queue and the answers, line by line, up to the
\* first missing answer.
Compare ==
  LET answered == {i \in DOMAIN tx_queue : i \in DOMAIN expected}
      without  == {i \in answered : expected[i] = Unsupported}
      wrong    == {i \in answered \ without : tx_queue[i].result # expected[i]}
  IN  /\ phase = "compare"
      /\ unsupported' = Cardinality(without)
      /\ mismatches' = Cardinality(wrong)
      /\ errors' = errors + Cardinality(wrong)
                          + (IF answered # DOMAIN tx_queue THEN 1 ELSE 0)
      /\ phase' = "done"
      /\ UNCHANGED <<drive, tx_queue, expected>>

Next == Release \/ Edge \/ RunBridge \/ BridgeFails \/ Compare

\* The clock runs, the testbench releases the reset after a fixed delay, and the
\* scoreboard is never blocked once it has its transactions.
Spec == Init /\ [][Next]_vars /\ WF_vars(Next)

-------------------------------------------------------------------------------
\* The registered result of a transaction is the result of its own operation: the
\* monitor (fpu_pkg.sv, run_phase) never pairs an operation with the result of its
\* neighbour, through the latency of one edge, the reset and the race at the start
\* of the sequence.
Paired ==
  \A i \in DOMAIN tx_queue : tx_queue[i].result = Dut[tx_queue[i].operation]

\* The verdict counts exactly the transactions the reference supports and answers
\* differently, and the unsupported ones, or reports that it could not compare:
\* the answers of the bridge stay in step with the transactions.
VerdictIsExact ==
  phase = "done" =>
    LET op(i) == tx_queue[i].operation
        differ == {i \in DOMAIN tx_queue : Ref[op(i)] \notin {Unsupported, Dut[op(i)]}}
        without == {i \in DOMAIN tx_queue : Ref[op(i)] = Unsupported}
    IN  \/ expected = <<>> /\ errors > 0
        \/ /\ mismatches = Cardinality(differ)
           /\ unsupported = Cardinality(without)
           /\ errors = mismatches

\* The comparison always ends, even when the sequence has fewer items than the
\* scoreboard waits for: the driver holds the wires and the monitor repeats.
ComparisonEnds == <>(phase = "done")

-------------------------------------------------------------------------------
\* The monitor's sample is what the wires still carry: the driver changes them at
\* an edge only, and the monitor looks after it.
SampleIsOnWires ==
  /\ wires \in Operations
  /\ have_prev => prev = wires
  /\ tx_queue \in Seq([operation : Operations, result : Results])

PairedInv == SampleIsOnWires /\ Paired

LEMMA PairedStep == PairedInv /\ [Next]_vars => PairedInv'
<1> SUFFICES ASSUME PairedInv, [Next]_vars PROVE PairedInv'
  OBVIOUS
<1> USE DEF PairedInv, SampleIsOnWires, Paired
<1>1. CASE Release
  BY <1>1 DEF Release
<1>2. CASE Edge
  <2>1. wires' \in Operations /\ prev' = wires'
    BY <1>2 DEF Edge, DriveNext
  <2>2. CASE have_prev
    <3>1. result' = Dut[prev] /\ result' \in Results /\ prev \in Operations
      BY <1>2, <2>2, ScoreboardAssumption DEF Edge
    <3> DEFINE t == [operation |-> prev, result |-> result']
    <3>2. tx_queue' = Append(tx_queue, t)
      BY <1>2, <2>2 DEF Edge
    <3>3. t \in [operation : Operations, result : Results]
      BY <3>1
    <3>4. t.result = Dut[t.operation]
      BY <3>1
    <3> HIDE DEF t
    <3>5. \A i \in DOMAIN tx_queue' :
            \/ tx_queue'[i] = t
            \/ i \in DOMAIN tx_queue /\ tx_queue'[i] = tx_queue[i]
      BY <3>2, <3>3
    <3>6. Paired'
      BY <3>4, <3>5
    <3>7. QED BY <2>1, <3>2, <3>3, <3>6
  <2>3. CASE ~ have_prev
    BY <1>2, <2>1, <2>3 DEF Edge
  <2>4. QED BY <2>2, <2>3
<1>3. CASE RunBridge
  BY <1>3 DEF RunBridge, drive
<1>4. CASE BridgeFails
  BY <1>4 DEF BridgeFails, drive
<1>5. CASE Compare
  BY <1>5 DEF Compare, drive
<1>6. CASE UNCHANGED vars
  BY <1>6 DEF vars
<1>7. QED BY <1>1, <1>2, <1>3, <1>4, <1>5, <1>6 DEF Next

\* Whatever the FPU computes and however long the sequence is, the monitor of
\* fpu_pkg.sv never pairs an operation with the result of its neighbour.
THEOREM ResultsArePaired == Spec => []Paired
<1>1. Init => PairedInv
  BY ScoreboardAssumption DEF Init, PairedInv, SampleIsOnWires, Paired
<1>2. PairedInv => Paired
  BY DEF PairedInv
<1>3. QED BY <1>1, <1>2, PairedStep, PTL DEF Spec

-------------------------------------------------------------------------------
\* The positions of all lines, in order, are the numbers of the lines.
LEMMA NthOfAll ==
  ASSUME NEW k \in Nat, NEW n \in 1 .. k
  PROVE  Nth(1 .. k, n) = n
<1>1. \A i \in 1 .. k : Cardinality({j \in 1 .. k : j <= i}) = i
  <2> SUFFICES ASSUME NEW i \in 1 .. k
               PROVE  Cardinality({j \in 1 .. k : j <= i}) = i
    OBVIOUS
  <2>1. {j \in 1 .. k : j <= i} = 1 .. i
    OBVIOUS
  <2>2. Cardinality(1 .. i) = i
    BY FS_Interval
  <2>3. QED BY <2>1, <2>2
<1>2. QED BY <1>1 DEF Nth

\* The bridge answers as many lines as it is asked, each in its place.
LEMMA BridgeAnswers ==
  ASSUME NEW queue \in Seq([operation : Operations, result : Results])
  PROVE  BridgeOutput([i \in DOMAIN queue |-> Line(queue[i].operation)])
           = [i \in DOMAIN queue |-> Ref[queue[i].operation]]
<1> DEFINE lines == [i \in DOMAIN queue |-> Line(queue[i].operation)]
<1>1. DOMAIN queue = 1 .. Len(queue) /\ Len(queue) \in Nat
  OBVIOUS
<1>2. {i \in DOMAIN lines : lines[i].words = 3} = 1 .. Len(queue)
  BY <1>1 DEF Line
<1>3. Cardinality(1 .. Len(queue)) = Len(queue)
  BY <1>1, FS_Interval
<1>4. \A n \in 1 .. Len(queue) : lines[Nth(1 .. Len(queue), n)].operation = queue[n].operation
  BY <1>1, NthOfAll DEF Line
<1> HIDE DEF lines
<1>5. BridgeOutput(lines) = [n \in 1 .. Len(queue) |-> Ref[queue[n].operation]]
  BY <1>2, <1>3, <1>4 DEF BridgeOutput
<1>6. QED BY <1>1, <1>5 DEF lines

\* The counts are zero until the comparison, which has one answer for every
\* transaction; where it ends without a comparison there is an error.
VerdictInv ==
  /\ PairedInv
  /\ phase \in {"collect", "compare", "done"}
  /\ phase # "done" => mismatches = 0 /\ unsupported = 0 /\ errors = 0
  /\ phase = "collect" => expected = <<>>
  /\ phase = "compare" => expected = [i \in DOMAIN tx_queue |-> Ref[tx_queue[i].operation]]
  /\ VerdictIsExact

LEMMA VerdictStep == VerdictInv /\ [Next]_vars => VerdictInv'
<1> SUFFICES ASSUME VerdictInv, [Next]_vars PROVE VerdictInv'
  OBVIOUS
<1>1. PairedInv'
  BY PairedStep DEF VerdictInv
<1>2. CASE Release
  BY <1>1, <1>2 DEF Release, VerdictInv, VerdictIsExact, verdict
<1>3. CASE Edge
  BY <1>1, <1>3 DEF Edge, VerdictInv, VerdictIsExact, verdict
<1>4. CASE RunBridge
  <2>1. expected' = [i \in DOMAIN tx_queue |-> Ref[tx_queue[i].operation]]
    BY <1>4, BridgeAnswers DEF RunBridge, VerdictInv, PairedInv, SampleIsOnWires
  <2>2. QED BY <1>1, <1>4, <2>1 DEF RunBridge, VerdictInv, VerdictIsExact, verdict
<1>5. CASE BridgeFails
  <2>1. expected' = <<>> /\ errors' > 0 /\ phase' = "done"
    BY <1>5 DEF BridgeFails, VerdictInv
  <2>2. QED BY <1>1, <2>1 DEF VerdictInv, VerdictIsExact
<1>6. CASE Compare
  <2> DEFINE answered == {i \in DOMAIN tx_queue : i \in DOMAIN expected}
             without  == {i \in answered : expected[i] = Unsupported}
             wrong    == {i \in answered \ without : tx_queue[i].result # expected[i]}
             differ   == {i \in DOMAIN tx_queue :
                            Ref[tx_queue[i].operation] \notin
                              {Unsupported, Dut[tx_queue[i].operation]}}
             refused  == {i \in DOMAIN tx_queue : Ref[tx_queue[i].operation] = Unsupported}
  <2>1. /\ expected = [i \in DOMAIN tx_queue |-> Ref[tx_queue[i].operation]]
        /\ errors = 0
    BY <1>6 DEF Compare, VerdictInv
  <2>2. \A i \in DOMAIN tx_queue : tx_queue[i].result = Dut[tx_queue[i].operation]
    BY DEF VerdictInv, PairedInv, Paired
  <2>3. answered = DOMAIN tx_queue /\ without = refused /\ wrong = differ
    BY <2>1, <2>2
  <2>4. /\ unsupported' = Cardinality(refused)
        /\ mismatches' = Cardinality(differ)
        /\ errors' = Cardinality(differ)
        /\ phase' = "done" /\ UNCHANGED <<tx_queue, expected>>
    <3>1. IsFiniteSet(DOMAIN tx_queue)
      <4>1. DOMAIN tx_queue = 1 .. Len(tx_queue) /\ Len(tx_queue) \in Nat
        BY DEF VerdictInv, PairedInv, SampleIsOnWires
      <4>2. QED BY <4>1, FS_Interval
    <3>2. Cardinality(differ) \in Nat
      BY <3>1, FS_Subset, FS_CardinalityType
    <3> HIDE DEF answered, without, wrong, differ, refused
    <3>3. /\ unsupported' = Cardinality(without)
          /\ mismatches' = Cardinality(wrong)
          /\ errors' = errors + Cardinality(wrong)
                           + (IF answered # DOMAIN tx_queue THEN 1 ELSE 0)
          /\ phase' = "done" /\ UNCHANGED <<tx_queue, expected>>
      BY <1>6 DEF Compare, answered, without, wrong
    <3>4. QED BY <2>1, <2>3, <3>2, <3>3
  <2>5. VerdictIsExact'
    BY <2>4 DEF VerdictIsExact
  <2>6. QED BY <1>1, <2>4, <2>5 DEF VerdictInv
<1>7. CASE UNCHANGED vars
  BY <1>1, <1>7 DEF vars, VerdictInv, VerdictIsExact
<1>8. QED BY <1>2, <1>3, <1>4, <1>5, <1>6, <1>7 DEF Next

\* Whatever the FPU and the reference answer and however many transactions are
\* waited for, the scoreboard (compare_all) counts what differs and what is
\* unsupported, no more and no less, or reports an error.
THEOREM VerdictCounts == Spec => []VerdictIsExact
<1>1. Init => VerdictInv
  BY ScoreboardAssumption
  DEF Init, VerdictInv, VerdictIsExact, PairedInv, SampleIsOnWires, Paired
<1>2. VerdictInv => VerdictIsExact
  BY DEF VerdictInv
<1>3. QED BY <1>1, <1>2, VerdictStep, PTL DEF Spec
===============================================================================
