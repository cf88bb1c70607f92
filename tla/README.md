# TLA+ models of the RISC-V verification project's hardware

The repository holds synthesizable blocks (a network on chip, a cache with its
memory controller, AXI4 blocks, a power-gated domain, a small CPU core and an
FPU), the environments that test them, and, in Python, the reference of the FPU
and the instruction-set simulators with their differential comparison. This
directory models all of them but the superseded core and cache and the pure
stimulus, checks the models with TLC and proves the main results with TLAPS.

In the hardware modules **a step is a rising clock edge**: the primed variables are the
registers after it, the combinational logic is a set of operators on the
registers and inputs before it, and `Reset` is an edge with `rst = 1`, which may
happen at any time.

## Inventory

| Component | State | Operations (per clock edge) | Interacts through | Hard behaviour | What makes it correct |
|---|---|---|---|---|---|
| NoC router `rtl/noc_router.sv` | five one-packet input buffers, five round-robin pointers | accept into an empty buffer, discard an illegal destination, grant, transfer, move the pointer, reset | valid/ready on five inputs and five outputs, all in one cycle | five outputs arbitrate at once; arrivals during a stall; fairness | bounded service, stability under stall, only legal packets stored |
| NoC mesh `rtl/noc_mesh_2x2.sv` | four routers | one edge for all routers | internal links wire one router's output to its neighbour's input; boundary ports tied off | multi-hop ordering, loss, duplication, cyclic waiting | per-flow FIFO delivery, delivery at the destination, progress |
| Cache V2 `rtl/cache_v2.sv` | state machine, 16 lines, captured request, response register | accept, look up, refill, write through, respond, reset | request/response with the CPU side, `mem_*` with the controller | line and memory change together or not; reset in mid-request | no stale line, read-your-writes, atomicity |
| Memory controller `rtl/memory_controller.sv` | 256 words | combinational read, strobed write | `mem_*` | partial writes, address wrap | as above |
| AXI4 master, interconnect, slave `rtl/axi4/`, `rtl/interconnect/` | master's state machine and latched command; tracked targets; slave's pending flags, response registers and memory | command, AW, W, B, AR, R, completion | five channels each side | responses routed by a remembered target; unmapped addresses answered locally; read and write channels run independently | each command is answered once, by the right slave, with the right id |
| Power-aware domain `rtl/power_aware/` | controller state; block register and retained copy | power down, save, isolate, off, restore | save/restore/isolation signals | what is saved while data still arrives; pulses missed in transit | state restored is state saved; output clamped whenever the domain is off |
| CPU execution core `rtl/cpu_exec_core.sv` with `cu`, `alu`, `register_file`, `mmu` | pc, registers, instruction and data memory | one instruction per edge, program load, register initialisation | - | writes not gated by `execution_enable`; index wrap; halt on instruction 0 | agrees with the reference step |
| FPU `rtl/fpu*.sv` | result register | add, sub, mul, div, reset | operands and opcode from the driver | alignment, sticky bits, rounding, subnormals, overflow | agrees with the binary32 reference |
| FPU reference `reference/` | none | decode, round, encode; the bridge answers a file of operations | one line asked, one line answered | two roundings at two scales; signed zero | nearest, ties to even; exactness is representability |
| FPU scoreboard `uvm_tb/fpu_agent` | monitor's previous operation, queue of transactions | drive, sample, run the bridge, compare | wires, the result register, a file for the bridge | latency of one edge, the race at the start of the sequence, a bridge that fails | results paired with their operands, an exact verdict |
| RV32I emulator `rv32i_emulator_backend.py` | registers, memory, pc, trace | validate, one action per instruction format, finish, fail | request in, result out | loops, misaligned targets and addresses, the limit | the trace accounts for the machine |
| Spike backend `spike_backend.py`, `spike_commit_parser.py` | stage, instruction limit, the log, the result | validate, build, run Spike, parse the log | an external Spike, its log | one budget for boot, setup and program; boot registers; shared RAM; tool failures | recovers the trace of the machine |
| Comparison `differential_compare.py`, `dut_commit_parser.py`; runner `spike_runner.py` | verdict; exit status | normalize, compare; run, parse, print | results, logs | results of failed backends; malformed lines | an exact verdict; status zero means a trace |
| UVM, SVA, formal tops, testbenches | - | - | - | - | not part of the program; their assertions are a source of properties |
| Legacy `cpu_core.sv`, `cache.sv` | - | - | - | - | superseded, outside the declared scope |

## What is modelled

### The network on chip

| Module | Models |
|---|---|
| `NocRouterOps` | the combinational logic of a router and the next value of its registers, as operators on an explicit state `(x, y, s, ptr, ready, in)`; no behaviour |
| `NocRouter` | one router in an arbitrary environment: `Cycle(in)` is `always_ff` with `rst = 0`, `Reset` with `rst = 1` |
| `NocRouterService` | `NocRouter` with a history variable that counts how often each buffered packet was overtaken |
| `NocMesh` | the four routers stepping together, wired by `Links`, `Neighbor`, `Opposite`; endpoints inject and accept |
| `NocFlows` | the abstract network: sixteen bounded FIFO channels |
| `NocMeshLiveness` | `NocMesh` with the parity of the clock, and the fairness |
| `NocRouterOpsProofs` | lemmas on the operators of a router, shared by the next two |
| `NocRouterProofs` | theorems on one router |
| `NocMeshProofs` | theorems on the mesh, and its refinement of `NocFlows` |
| `MCNocRouterService`, `MCNocMesh` | the packets, arrivals and traffic of the runs |

State. `slot[i]` is `slot_packet[i]` where `slot_valid[i]` is 1 and `NoPacket`
where it is 0 (the stale packet of an invalid slot is never read);
`rr_pointer[o]` is the register of that name, of the five directions. The
inputs of a cycle are the packets offered (chosen by the step) and the
`out_ready` of the receivers, which is a variable because the properties speak
of the outputs presented before the step. A packet is a record with the
`dst_id` the router reads; `src_id`, and `body` for `txn_id` and `payload`, are
there only to tell packets apart. `in_ready` is `slot = NoPacket`, as in the
code, so a buffer that is emptied in a cycle is not filled in the same cycle.

The arbiter's loop over offsets is stated as what it computes: `grant` is the
requester at the least rotation distance from the pointer.

In the mesh, `Ready(r)` and `Offered(r, p)` are the wires of
`noc_mesh_2x2.sv`: an output is ready when the facing input is empty, an input
is offered what the facing output presents, tied-off ports never do either.
Nothing combinational closes a loop, because `in_ready` depends on registers
only.

The routers' `error_*` outputs, which keep no state and are unconnected in the
mesh, are left out.

### Cache and memory

| Module | Models |
|---|---|
| `MemoryWords` | words as functions from byte lanes, strobes as sets of lanes, requests |
| `CacheV2` | the cache: one action per move of its state machine |
| `MemoryController` | the storage, the read and the strobed write |
| `CacheMemory` | the two wired together: the memory handshake is one step of both |
| `AtomicMemory` | the abstract memory: one request at a time, performed atomically |
| `CacheMemoryProofs` | the theorems |

Addresses are word addresses, since requests are word aligned; `index` and
`tag` are the remainder and quotient by `NLINES`, `word_index` the remainder by
`DEPTH_WORDS`. Edges at which the machine waits (no request, receiver not ready)
change nothing and are stuttering; the controller is ready whenever `rst` is 0,
so the memory handshake never waits. `rst` clears the cache and leaves the
storage alone, and no memory handshake completes on a reset edge.

### AXI4

| Module | Models |
|---|---|
| `Axi4Words` | requests with transaction ids |
| `Axi4Slave` | the two slaves: what an edge does to one side of a slave when a handshake completes |
| `Axi4Interconnect` | decoding, tracking and local responses, with the slaves behind it and a master that may offer anything |
| `Axi4Ports` | the abstract bus: one memory with a write port and a read port |
| `Axi4Master` | the master: one action per move of its state machine |
| `Axi4System` | master, interconnect and slaves wired as in `tests/axi4_master_interconnect_tb.sv` |
| `Axi4Commands` | the abstract system: one command at a time, performed atomically |
| `Axi4Proofs` | the theorems on interconnect and slaves, then on the system with its master |

State. `aw_target` is `aw_pending`, `aw_unmapped` and `aw_target` of the RTL in
one: `"none"` when nothing is pending, `"unmapped"`, or the slave; `ar_target`
likewise. `b_unmapped` and `r_unmapped` are the valid and id registers of the
local responses. In a slave, `s_aw` is `aw_pending` with the captured id and
address, `s_b` and `s_r` are the response registers with their valid bits; what
such a register holds while its bit is 0 is never used and is left out
(`Nothing`), as are the captured id and address of a read, which nothing reads.
`len`, `last` and the data of an unmapped read, which is always zero, are
constants. Addresses are word addresses.

An edge of `Axi4Interconnect` is a `WriteEdge` and a `ReadEdge` together: each
side completes one handshake or none. The conditions of AW, W and B exclude one
another in the code, and so do those of AR and R, so no edge is left out. A
handshake is written as one operator from the master's port through the
interconnect to the slave, since the ready and valid wires are combinational. In
`Axi4System` the master has one command at a time, so only one side moves; the
interleaving of reads and writes is the subject of `axi4_ports`.

The AXI response registers are loaded from the memory on the edge that takes the
read address, so a read that meets a write to the same word on one edge returns
the old word. `Axi4Ports` says so in `PerformRead`.

### Power-aware domain

`PowerAware` is the controller, the block with its retention register and the
isolation boundary, wired as in `tests/power_aware_tb.sv`. `Edge` is a clock
edge of all registers, `Reset` the asynchronous reset, `Drive` a change of one
wire between edges; requests may come and go at any time and contradict each
other. `seen` is a history variable, the word the consumer sampled last while
the isolation was open; what is promised of a power cycle is promised to the
consumer. The assertions of `sva/power_aware_sva.sv` (order of the states, clamp
while isolated) are what `next_state` and `data_out` say; the properties are
what these are for.

### FPU, its reference and its scoreboard

| Module | Models |
|---|---|
| `Binary32` | `reference/binary32.py`: fields, classes, exact fractions, the rounding |
| `FpuReference` | `reference/fpu_reference_model.py` |
| `FpuUnits` | `fpu_add`, `fpu_sub`, `fpu_mul`, `fpu_div` as functions of two encodings |
| `Fpu` | `fpu.sv`, the units behind the result register, and its properties against the reference |
| `FpuScoreboard` | driver, registered FPU, monitor, `scoreboard_bridge.py`, `compare_all` |

Both field widths are parameters (8 and 23 in the code). The constants of the
RTL that depend on them (extra quotient bits, sticky positions) are expressed by
them as they stand in the code. An exact value is a pair of integers, whose
terms nothing depends on. In `FpuScoreboard` what the FPU and the reference
answer is a parameter, since it is about who is compared with whom; the times of
the nonblocking assignment, of the sampling one unit behind the edge and of the
start of the sequence are what its actions are about.

### Simulators, comparison and the execution core

| Module | Models |
|---|---|
| `IssContract` | `iss_contract.py`: the classes as sets of records, their constructors' checks as membership |
| `Rv32i` | arithmetic and the registers a trace tells of |
| `Rv32iEmulator` | `RV32IEmulatorBackend.execute`: one action per instruction format, and the ways to end |
| `CommitTraces` | the two log parsers and `differential_compare.py` |
| `SpikeBackend` | `SpikeBackend.execute` around an external Spike, whose machine, boot code and log are modelled from the options and the linker script it is given |
| `SpikeRunner` | `spike_runner.py` with the parser it starts |
| `CpuExec` | `cpu_exec_core.sv` with `cu`, `alu`, `register_file`, `mmu`, under a testbench that loads, initialises and executes |
| `IssDifferential` | all of these on one request, in the order the tests call them |
| `MCIssDifferential` | the table of instructions, the programs, the logs' other lines |
| `IssDifferentialProofs` | the theorems |

The encoding of instruction words is a parameter: `Decode` gives for a word its
kind, registers and immediate. Word width, program capacity and number of
registers are parameters too. A line of a log is a record of what its regular
expression captures. What the emulator computes with unbounded Python integers
is followed by `_u32` where the code has it and nowhere else; Spike's arithmetic
is stated on bits and unsigned words instead, so that `BackendsAgree` compares
two formulations. `CpuExec` has one action per edge, except that the reset phase
is a single step; the floating-point registers, which no decoded instruction
reads, are left out.

`Rv32i` names the instructions of the five opcodes the backend accepts, a reserved
function of each included. The emulator takes the twelve of `Supported`. Spike
takes all but the reserved ones. The core's control unit looks at the opcode and
little else: it stores a word on every store and loads one on every load, whatever
the width, it writes a register on every word of the opcode of `add`, of which bit
5 is all it sees of `funct7` (`OtherOps` says as which operation), and gives zero
for the operations it does not have; the rest is a NOP. `Accepted`, `Illegal`,
`mem_read`, `mem_write`, `reg_write` and `ALU_op` are these three views of one
table. `DutAgrees` is about the kinds on which core and Spike agree, and
`StartsAsAsked` about all of them.

One request goes through the emulator, then Spike, then the comparison; then
either the log goes to the smoke test's runner, or the core runs as many edges
as Spike's trace has commits (none when Spike has failed) and its trace is parsed
and compared (`tests/riscv_iss/test_dut_spike_integration.py`).

## The runs

| Run | Instance | Shows |
|---|---|---|
| `router_service` | router (0,0) as the block tests drive it, packets for two destinations and an illegal one, any arrivals and any stall | only legal packets are stored; a stalled output stays valid, keeps its pointer and moves only to a requester nearer to it; bounded service, and the rotation order behind it |
| `router_stability` | the same router with the arrivals of the mesh | **violated**: a stalled packet does not stay presented (see Findings) |
| `mesh_ring` | EP0, EP1 and EP3 send to EP0, EP0 to EP3, EP1 also an illegal packet; EP0 may stall | packets only where XY routing can bring them, at most three contenders and none at a tied-off port, refinement of `NocFlows`, every buffered packet moves on |
| `cache_memory` | three words, two of them on one line of a cache of two lines; words of two lanes of one bit; resets anywhere | no stale line at any edge, responses current while they wait, refinement of `AtomicMemory` |
| `axi4_ports` | two slaves of two words, five addresses of which one is unmapped, two ids, any master | no slave is left with an untracked or missing response, and the bus refines `Axi4Ports` with a write and a read in flight at once |
| `axi4_commands` | the same bus behind the master | the master's state, the tracking and the slaves agree on how far a command is; refinement of `Axi4Commands`; every command completes |
| `fpu_operands` | every pair of encodings with four exponent and two fraction bits, the four operations and an undefined opcode | RTL and reference give one word, the reference is nearest-even, `is_exact_binary32` is representability |
| `fpu_negative_zero` | the same | **violated**: -0 + -0 is +0 in the reference |
| `fpu_scoreboard` | sequences of four items, five transactions awaited, operations on which the two agree, differ, or one gives no answer | results paired with their operations, an exact verdict, the comparison ends |
| `iss_differential` | programs of three instructions in words of eight bits; see below | the trace determines the machine and follows from it; simulators and core agree where they are the same machine; budget, verdict and exit status are exact; what is started ends |
| `iss_final_pc` | the same | **violated**: the final pc behind a taken branch |
| `power_cycle` | three words, any requests, data and resets | a power cycle is invisible to the consumer, power switches behind the isolation, a held wake request is served |

Bounds. In the network there is no counter to cap: buffers hold one packet,
pointers rotate, and `waited` is bounded by the property itself. The traffic of
the mesh is restricted to a few flows because the state space is the product of
the buffers; these use all links of the ring in a direction that closes it,
have the longest routes, three competitors at one router, two packets of one
flow that can be told apart, and back pressure that reaches the far corner. One
cache line with two competing addresses, a second line and a second lane are the
least in which a line can be replaced, left alone and partially written. For
AXI4, two words in each of two slaves and one address beyond them give every
boundary of the decoder, and two ids tell a response from one of another
request; strobes are over one lane, as merging is the cache's run's subject.

With four exponent and two fraction bits the FPU has subnormals of every length,
ties, carries out of the rounding into the exponent and from subnormal to
normal, underflow to zero, overflow to infinity, and alignments beyond all
extra bits, and every pair of operands is visited. More bits repeat
these cases.

`iss_differential` has four registers (one of them left nonzero by the boot
code), a program of up to three instructions in a memory of four, and addresses
of which the upper half stands for those from `0x80000000` on. There are five
groups of requests: all programs over nine instructions, with a limit of three,
and over five of them from a second register file; loops, misaligned addresses
and a shorter program in the same memory, with a limit of six; instructions only
Spike, only the core or nobody accepts, and a branch into the loop behind the
program; byte and half word accesses, immediate and unsigned operations, a store
with a reserved width and an operation with another `funct7`, with a further
register to initialise, so that a narrow store at address zero is repeated with
a register that is initialised already; and the requests of the smoke test, in
whose log one further line may stand at any place (`OtherLines`, at most one). The core's data memory
has 16 entries for 32 addresses of the data section, so that addresses can
collide. Execution limits are the bounds of the loops, in the code as here.

Deadlock is checked where the system runs for ever (all of the hardware). It is
switched off where a run ends: the simulators and the scoreboard return.

Fairness. In `mesh_ring` the clock keeps running (`WF_clk(Tick)`), and each
endpoint is ready infinitely often. The second is the contract's own proviso: it
counts service in opportunities at which the receiver is ready
(`docs/noc_rtl_interface_contract.md`, 9.3). Nothing is assumed of arrivals, of
other endpoints' traffic or of the arbiter. `clk` is a parity bit, so that an
edge which changes no register still counts as an edge.

In `axi4_commands`, `WF(Transfer)` says that the clock runs: a handshake of which
both sides are ready takes place at the next edge, and nothing in the RTL can
withdraw it but a reset. `WF(Respond)` says that the command side takes its
response at some time. Nothing is assumed of when commands or resets come. In
`power_cycle`, `WF(Edge)` is the clock; nothing is assumed of requests, which is
why only a held request is served. The scoreboard and the simulators are single
threads that wait for what they start (`$system`, `subprocess.run`), with a
testbench's clock beside the first: `WF(Next)`.

## Findings

`router_stability`. The contract (`docs/noc_rtl_interface_contract.md:380-384`)
and the bound assertion (`sva/noc_router_sva.sv:130-136`) say that a packet
presented while `out_ready = 0` stays presented unchanged. The arbiter of
`rtl/noc_router.sv:325` is combinational: it chooses again in each cycle, from
the pointer, which has not moved. A packet that arrives at an input between the
pointer and the selected one replaces the packet on the stalled output. No
packet is lost by it, and `BoundedService` still holds; what remains true under
a stall is `StalledSelectionOnlyAdvances`. In the mesh the two ends of a link
see the same cycle, so a change during a stall does no harm to delivery
(`ImplementsFlows`); an endpoint that relies on the rule can see it broken.

`fpu_negative_zero`. `binary32_from_fraction` (`reference/binary32.py:254`)
returns 0 for every exact zero, and a `Fraction` has no signed zero, so the
reference answers +0 for -0 + -0. The adder and the verification matrix
(`docs/fpu_ieee754_verification_matrix.md:177`) say -0. `MatchesReference`
excepts exactly these two operations (`NegativeZeroSum`).

`iss_final_pc`. `_derive_final_pc` (`spike_backend.py:383`) adds four to the last
commit's pc. Branches are in the accepted scope (`spike_backend.py:125`) and the
comparator compares the final pc (`README.md:593-595`), so a correct run that
ends in a taken branch is reported as a mismatch. `BackendsAgree` excepts
exactly these runs (`EndsInTakenBranch`).

## What is proved

`NocRouterProofs`, for every router position, set of packets, arrival pattern
and set of receivers (`PacketsAssumption`, `RouterAssumption`: destinations are
three bits wide, the position is one of the four, arrivals are packets):

- `RouterTypeCorrect`: `Spec => []TypeOK`.
- `OvertakersBehind`: `ServiceSpec => [](ServiceTypeOK /\ OvertakersAreBehind)`.
- `ServiceIsBounded`: `ServiceSpec => []BoundedService`. The bound is not
  inductive: the count of overtakings says nothing about who may still overtake.
  `OvertakersAreBehind` is the strengthening: the number of overtakings is at
  most the number of eligible inputs that are behind the packet in the rotation.
  Each transfer to another input puts the pointer just behind that input, which
  thereby moves behind the waiting packet and keeps the others there
  (`RotationAfterService`). The packet itself is never behind itself, whence the
  bound.
- `StallOnlyAdvances`: `Spec => StalledSelectionOnlyAdvances`, from the type
  invariant and the fact that a packet whose output is not ready keeps its buffer.

`NocMeshProofs`, for every set of packets, whatever the endpoints send and
whichever of them stall (`PacketsAssumption`, `MeshAssumption`: a source number
is that of the endpoint):

- `RoutesAreXY`: `Spec => []PacketsOnRoute`, from the inductive `MeshInv`, which
  adds the types and the legality of what is buffered. A hop keeps a packet on its
  route (`HopOnRoute`): the input a packet leaves and the output it asks for
  determine where its source and destination are. The types of the pointers are
  needed because an arbiter that starts nowhere might present nothing.
- `ContentionIsBounded`: `Spec => []AtMostThreeContend`. Packets are only in the
  local and the wired inputs, of which each router has three.
- `MeshImplementsFlows`: `Spec => ImplementsFlows`. A packet that is served is in
  the next buffer after the same edge (`ServedIsPassedOn`), and what arrives in a
  buffer has been served at the other end of its link (`ArrivalWasServed`), so the
  one, two or three buffers of a flow are a pipeline; `TwoPlaces` and
  `ThreePlaces` say what a step of a pipeline does to the concatenation of its
  contents. The flows are told apart by shape: within a router, straight, turning.

`CacheMemoryProofs`, for every number of lines, shape of words, depth of the
storage and set of requested addresses without aliases (`WordsAssumption`,
`CacheAssumption`, `NoAliasAssumption`):

- `CacheTypeCorrect`, `CacheIsCoherent`: from the inductive `Inv`, the
  conjunction of the two. Coherence alone is not inductive because a refill must
  be known to be for a read, and a write-through for a write, of a requested
  address.
- `ResponsesAreCurrent`: with coherence, a hit and a refill both load the
  memory's word, and nothing writes the memory before the response is taken.
- `CacheImplementsAtomicMemory`: the refinement. A lookup that hits and a refill
  are the atomic read, the write-through is the atomic write, a lookup that
  misses stutters, a reset abandons the request.

`NoAliasAssumption` is needed: the controller drops the address bits above 9,
the cache keeps them in its tags, so two addresses 0x400 apart would be two
lines of the cache and one word of the memory. The repository's requirements
make no claim about such addresses.

`Axi4Proofs`, for every size of the slaves' memories, shape of words, set of ids
and of addresses, and every behaviour of the master (`WordsAssumption`,
`IdsAssumption`, `SlaveAssumption`):

- `BusTypeCorrect`, `TargetsTracked`: from the inductive `WriteInv /\ ReadInv`,
  which is `BusTypeOK /\ OnlyTargetsBusy` sorted by side, because the handshakes
  of a side look at that side's registers only (a read also needs the memories to
  hold words).
- `BusImplementsPorts`: `BusSpec => ImplementsPorts`. `WriteView` and `ReadView`
  say what each port is seen doing in each state of the registers; `WordPlace`
  says that a word of a slave stands at one address of the single memory. With
  them each handshake is a step of its port (`WritePort`, `ReadPort`).

The second part of `Axi4Proofs`, from the same assumptions, is about the system
with its master:

- `CommandsInStep`: `Spec => []InStep`, the types included, from the inductive
  `SystemInv`. `InStep` promises an answer with the command's id where the master
  waits for one; before that the id and the address are in a slave's or the
  interconnect's registers, and `CommandCarried` says that they are the command's.
- `SystemImplementsCommands`: `Spec => ImplementsCommands`. The command is performed
  on the edge of its write data or its read address (`WEffect`, `ArEffect`); the
  other handshakes stutter, the completion responds and a reset abandons.

`PowerAwareProofs`, for every set of data: `PowerTypes`, `Retention`
(`Spec => []RetainsLastSeen`), `TransparentWake` and `IsolatedPower`. Retention
alone is not inductive: before the isolation closes the word being saved must be
known to be the one the consumer is looking at, which `Inv` adds.

`FpuScoreboard` holds its two theorems itself, for all operations, whatever the
FPU and the reference answer and however many items there are:

- `ResultsArePaired` (`Spec => []Paired`). The strengthening says that the
  monitor's last sample is what the wires still carry.
- `VerdictCounts` (`Spec => []VerdictIsExact`). The bridge answers the lines it
  does not skip, in order; the scoreboard writes one line per transaction and
  none of another shape (`NthOfAll`), so the answers line up with the queue. The
  invariant says that of the file, the answers and the queue at each stage.

`IssDifferentialProofs` is about `DifferentialSpec`, both simulators, the
comparison and what is started after it, for every word width above two,
every assignment of instructions to words (`DecodeAssumption`), program
capacity, number of registers, set of requests, boot code and further lines of
the log. `ContractAssumption` and `SpikeAssumption` state what the contract's
constants and the linker script have in the code: the sections are aligned and
follow one another, RAM is left between a program of full length and the setup
code (256 bytes of 0x1000), the setup code fits before the data, and a line of
the log that Spike does not write for an instruction is no well-formed commit of
core 0. `ZeroIsIllegal` says of that RAM, which reads zero, that it holds no
instruction: a run that leaves the program traps. `ArgumentsAssumption` says that the
file a caller gives the runner consists of lines. `PowersOfTwo` and
`BinaryNotation` are two facts of arithmetic that no prover here can find by
itself, the first for want of exponentiation, the second for want of induction;
both speak of `Modulus` words only and TLC evaluates them with the others.

- `EmulatorTypes`, `TraceTellsState`, `CommitsReplay`, `ResultsAccounted`,
  from the inductive `EmulatorInv`, their conjunction with two facts on the
  phases. None of them is inductive alone: that a commit reports what the trace
  tells needs the state to be what the trace tells, which after the commit needs
  the commit to be right. `CommitKeeps` is the common step: a commit that reports
  what the state holds, with a state that follows it, keeps both, whatever the
  instruction. A misaligned address or target is found before anything changes,
  hence the result that goes with it.
- `VerdictsExact`, from `ComparisonInv`, which adds the types of the Spike side
  (`SpikeTypeOK`). The comparison is over the commits present in both traces and
  the two lengths; that an empty set of mismatches means equal traces needs both
  to be sequences of commits (`SameTraces`), hence that the parser returns
  commits or an error whatever the log holds (`ParsedLog`), hence that every
  line Spike writes has fields of the machine's width.
- `BudgetsExact`, from `BudgetInv`. The log of a run is followed through boot,
  the setup code and the program: in the first two no line is one of the program
  and each step counts against the part of the limit added for them; from then
  on there is at least one step for each commit, and more only once the log has
  a line from outside. Where the limit or a trap ends the run, the count of
  steps becomes the count of commits. The size of the setup code is what
  `_count_setup_instructions` says it is (`LayoutFacts`), and it depends on the
  registers asked for.
- `BackendsReallyAgree`, from `SimInv` and `RunInv`. `RunInv` is about the emulator:
  of a run on a request both machines take alike every commit is one of an
  instruction in scope at aligned data, and the result is that of the state it
  ended in. `SimInv` is a forward simulation by the trace the emulator left, which
  stays as it is while Spike runs. Through the setup code the machine has the image
  it was linked with and the registers the loads done so far give; `SetupEnd` + j
  steps after boot it has the registers, the memory and the pc that the first j
  commits of the trace tell, and the commits of the program in the log are those j.
  `NextCommit` is the step: from such a state Spike performs the instruction of
  commit j + 1 and logs it. The two models compute differently, the emulator on
  signed integers and Spike on bits and unsigned words; `AluAgrees` is the proof
  that they are one. `BehindProgram` and `EndsAtLastCommit` are the end: no commit
  beyond the last of the trace is in the log. `NormalizedSpikeTrace` takes the log
  back to the trace through the parser and the normalization.
- `CoreStartsAsAsked`, from `StartInv`: the program is in the instruction memory
  from the loading on (`Loaded`), whatever an earlier one has left behind it, and on
  each edge of the initialisation the registers below the next one are the ones
  asked for and the others are zero. The instruction at address zero is decoded and
  writes on each of these edges; the invariant holds because it computes on zeros
  before the first, and because the port of the initialisation is the one that is
  taken after it. The data memory stays clear unless that instruction is a store,
  of any width: then the core has stored words of registers initialised so far. The
  registers are initialised in ascending order, as the testbench does; another
  order is not modelled.
- `CoreAgreesWithSpike` (`DifferentialSpec => []DutAgrees`), from `OwnInv` and
  `DutInv`. The two machines never run at the same time, and the emulator need not
  have come through, so there is no simulation to build: Spike's trace has to speak
  for itself. `Replays` says of a trace that each commit is the instruction the
  program has at the pc the commits before lead to, with the value the commits
  before give it. `OwnInv` has the trace in Spike's log replay the program while
  Spike runs, and Spike's machine be where that trace ends (`IsAt`); the backend's
  result then replays it too. It needs that Spike has come through and two further
  provisos of `DutComparable`: the trace
  stays in what is common (`InCommon`), and the lines of the program stand
  together (`Contiguous`), because code that Spike runs elsewhere before it comes
  back may change anything, and leaves nothing in the trace (`AppendInside`).
  `DutInv` has the program in the instruction memory from the loading on, and
  after n edges with execution enabled the core where the first n commits leave it
  (`CoreIsAt`) and the testbench's trace those n commits. Of the data memory only
  the entries the trace uses are told; `OwnEntries`, the third proviso, keeps a
  store from changing the entry of another address. `CoreReads`, `CoreWrites` and
  `CoreFollows` are the step, `CoreAtStart` takes its beginning from `StartInv`
  (the last proviso is that the first instruction is no store, which initialisation
  would repeat), and `CoreFetches` shows that the zero word which would hold the core is never
  fetched (`ZeroIsIllegal`). `DutParses` takes the lines back to the commits.
- `StatusZeroMeansTrace`, from `RunnerInv`: what the runner prints is a fold over
  the lines of the log, and the registers of the trace are told by its last
  writers; that the two agree is an induction over the log (`RegistersOfLog`).

## What is only model-checked

- Liveness under fairness, everywhere: `ENABLED` is out of the prover's reach.
- The FPU (`MatchesReference`, `ReferenceIsNearestEven`,
  `ExactnessIsRepresentability`): bit lengths and powers, where the provers have
  no arithmetic.

The library's induction theorems take an operator as a parameter, which no prover
here can instantiate. Where a recursive function had to be reasoned about
(`SelectedTo` of the parsers, `Loads` of the setup code, `AfterLines` of the
runner), the proofs use the least counterexample of a set instead, from the
well-foundedness of the naturals (`Least`, `InductionTo`), and the existence of
the function from the same (`RecursionExists`).

## What is not modelled

- `rtl/cpu_core.sv` and `rtl/cache.sv`: superseded by `cpu_exec_core` and
  `cache_v2`, outside of the repository's declared verification scope.
- UVM agents other than the FPU's, coverage, formal tops and directed
  testbenches: stimulus and observation. The clocking of the execution core's
  testbench is part of `CpuExec`; assertions were read as claims about the RTL.
- The routers' `error_*` outputs, `len` and `last` of AXI4, the floating-point
  registers of the core: they keep no state that anything modelled reads.
- The encoding of instruction words, regular expressions, assembler text and
  files: modelled by what they carry.
- Addresses of memory that alias beyond the controller's storage (excluded by
  `NoAliasAssumption`), a handshake during reset, the expected trace that
  `parse_log` is given and does not use: the repository makes no claim about them.
