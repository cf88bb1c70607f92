------------------------- MODULE IssDifferentialProofs -------------------------
(***************************************************************************)
(* Theorems about the differential flow for every width of a word, number  *)
(* of registers, capacity of the program, decode table, set of requests,   *)
(* layout of the memory and length of the boot code: the emulator's trace  *)
(* and its result, the verdict, the limit and the log of Spike, and what   *)
(* is then started, the command line and the core.                         *)
(***************************************************************************)
EXTENDS IssDifferential, WellFoundedInduction, FiniteSetTheorems, TLAPS

-----------------------------------------------------------------------------
(* Least members, and the trace of the emulator.                           *)

(* The order of the naturals is well founded: induction below goes by the  *)
(* least counterexample.                                                   *)
LEMMA NatLess == IsWellFoundedOn({p \in Nat \X Nat : p[1] < p[2]}, Nat)
BY NatLessThanWellFounded DEF OpToRel

(* A set of naturals that is not empty has a least member.                 *)
LEMMA Least == \A T \in SUBSET Nat : T # {} => \E x \in T : \A y \in T : x <= y
<1> SUFFICES ASSUME NEW T \in SUBSET Nat, T # {}
             PROVE  \E x \in T : \A y \in T : x <= y
  OBVIOUS
<1> DEFINE R == {p \in Nat \X Nat : p[1] < p[2]}
<1>1. PICK x \in T : \A y \in T : ~(<<y, x>> \in R)
  <2> HIDE DEF R
  <2> QED BY NatLess, WFMin DEF R
<1>2. \A y \in T : ~(y < x)
  BY <1>1
<1>3. QED BY <1>2

(* The last writer of a register is one, and the last.                     *)
LEMMA LatestExists ==
  ASSUME NEW n \in Nat, NEW S \in SUBSET (1 .. n), S # {}
  PROVE  /\ Latest(S) \in S
         /\ \A k \in S : k <= Latest(S)
<1> DEFINE T == {n - k : k \in S}
<1>0. \A k \in S : k \in 1 .. n /\ n - k \in Nat
  OBVIOUS
<1>1. T \in SUBSET Nat /\ T # {}
  BY <1>0
<1>2. PICK x \in T : \A y \in T : x <= y
  BY <1>1, Least
<1>3. PICK j \in S : x = n - j
  BY <1>2
<1>4. \A k \in S : k <= j
  <2> TAKE k \in S
  <2>1. n - k \in T
    OBVIOUS
  <2>2. n - j <= n - k /\ k \in Nat /\ j \in Nat
    BY <1>0, <1>2, <1>3, <2>1
  <2> QED BY <2>2
<1>5. QED BY <1>4 DEF Latest

(* A writer after which there is none is the last one.                     *)
LEMMA LatestIs ==
  ASSUME NEW n \in Nat, NEW S \in SUBSET (1 .. n), NEW j \in S, \A k \in S : k <= j
  PROVE  Latest(S) = j
<1>1. Latest(S) \in S /\ j <= Latest(S)
  BY LatestExists
<1>2. Latest(S) <= j /\ Latest(S) \in 1 .. n /\ j \in 1 .. n
  BY <1>1
<1>3. QED BY <1>1, <1>2

(* Two traces with the same first n commits tell the same of them,         *)
(* whatever is asked of the past: registers, addresses, memory, pc and     *)
(* reports.                                                                *)
SameTo(t, u, n) == \A j \in 1 .. n : t[j] = u[j]

(* Registers depend on the commits so far.                                 *)
LEMMA SameRegisters ==
  ASSUME NEW initial, NEW t, NEW u, NEW n \in Nat, SameTo(t, u, n), NEW k \in 0 .. n, NEW r
  PROVE  RegisterAfter(initial, t, k, r) = RegisterAfter(initial, u, k, r)
<1>0. k \in Nat
  OBVIOUS
<1>1. Writers(t, k, r) = Writers(u, k, r) /\ Writers(t, k, r) \in SUBSET (1 .. k)
  BY DEF SameTo, Writers
<1>2. CASE Writers(t, k, r) # {}
  <2>1. Latest(Writers(t, k, r)) \in Writers(t, k, r)
    BY <1>0, <1>1, <1>2, LatestExists
  <2>a. Latest(Writers(t, k, r)) \in 1 .. n
    BY <1>1, <2>1
  <2>2. t[Latest(Writers(t, k, r))] = u[Latest(Writers(t, k, r))]
    BY <2>a DEF SameTo
  <2>3. QED BY <1>1, <1>2, <2>2 DEF RegisterAfter
<1>3. CASE Writers(t, k, r) = {}
  BY <1>1, <1>3 DEF RegisterAfter
<1>4. QED BY <1>2, <1>3

(* So do the instruction of a commit, its operands, its address and its    *)
(* branch.                                                                 *)
LEMMA SameBefore ==
  ASSUME NEW t, NEW u, NEW n \in Nat, SameTo(t, u, n), NEW j \in 1 .. n
  PROVE  /\ t[j] = u[j]
         /\ Instruction(t, j) = Instruction(u, j)
         /\ \A r : RegisterBefore(t, j, r) = RegisterBefore(u, j, r)
         /\ DataAddress(t, j) = DataAddress(u, j)
         /\ TakesBranch(t, j) = TakesBranch(u, j)
<1>1. t[j] = u[j]
  BY DEF SameTo
<1>2. Instruction(t, j) = Instruction(u, j)
  BY <1>1 DEF Instruction
<1>3. j - 1 \in 0 .. n
  OBVIOUS
<1>4. \A r : RegisterBefore(t, j, r) = RegisterBefore(u, j, r)
  BY <1>3, SameRegisters DEF RegisterBefore
<1>5. QED BY <1>1, <1>2, <1>4 DEF DataAddress, TakesBranch

(* So does the memory.                                                     *)
LEMMA SameMemory ==
  ASSUME NEW t, NEW u, NEW n \in Nat, SameTo(t, u, n), NEW k \in 0 .. n, NEW a
  PROVE  MemoryAfter(t, k, a) = MemoryAfter(u, k, a)
<1>1. \A j \in 1 .. k : /\ Instruction(t, j) = Instruction(u, j)
                        /\ DataAddress(t, j) = DataAddress(u, j)
  BY SameBefore
<1>2. Stores(t, k, a) = Stores(u, k, a) /\ Stores(t, k, a) \in SUBSET (1 .. k)
  BY <1>1 DEF Stores
<1>3. CASE Stores(t, k, a) # {}
  <2> DEFINE j == Latest(Stores(t, k, a))
  <2>0. j \in Stores(t, k, a)
    BY <1>2, <1>3, LatestExists
  <2>1. j \in 1 .. n
    BY <1>2, <2>0
  <2> HIDE DEF j
  <2>2. /\ Instruction(t, j) = Instruction(u, j)
        /\ \A r : RegisterBefore(t, j, r) = RegisterBefore(u, j, r)
    BY <2>1, SameBefore
  <2>3. QED BY <1>2, <1>3, <2>2 DEF MemoryAfter, j
<1>4. CASE Stores(t, k, a) = {}
  BY <1>2, <1>4 DEF MemoryAfter
<1>5. QED BY <1>3, <1>4

(* So does the pc.                                                         *)
LEMMA SamePc ==
  ASSUME NEW t, NEW u, NEW n \in Nat, SameTo(t, u, n), NEW k \in 0 .. n
  PROVE  PcAfter(t, k) = PcAfter(u, k)
<1>1. CASE k = 0
  BY <1>1 DEF PcAfter
<1>2. CASE k # 0
  <2>1. k \in 1 .. n
    BY <1>2
  <2>2. QED BY <1>2, <2>1, SameBefore DEF PcAfter
<1>3. QED BY <1>1, <1>2

(* So does what a commit must report.                                      *)
LEMMA SameReport ==
  ASSUME NEW t, NEW u, NEW n \in Nat, SameTo(t, u, n), NEW j \in 1 .. n
  PROVE  Reported(t, j) = Reported(u, j)
<1>1. /\ t[j] = u[j]
      /\ Instruction(t, j) = Instruction(u, j)
      /\ \A r : RegisterBefore(t, j, r) = RegisterBefore(u, j, r)
      /\ DataAddress(t, j) = DataAddress(u, j)
  BY SameBefore
<1>2. j - 1 \in 0 .. n
  OBVIOUS
<1>3. MemoryAfter(t, j - 1, DataAddress(t, j)) = MemoryAfter(u, j - 1, DataAddress(u, j))
  BY <1>1, <1>2, SameMemory
<1>4. QED BY <1>1, <1>3 DEF Reported

(* The written value for each format.                                      *)
LEMMA WrittenValues ==
  ASSUME NEW i, NEW left, NEW right, NEW word
  PROVE  /\ i.kind = "addi" => Written(i, left, right, word) = _u32(left + i.imm)
         /\ i.kind \in RTypes =>
              Written(i, left, right, word) = _u32(_r_type(i.kind, left, right))
         /\ i.kind = "lw" => Written(i, left, right, word) = word
BY DEF Written, RTypes

(* One commit more leaves the commits before it.                           *)
LEMMA AppendIsSame ==
  ASSUME NEW S, NEW t \in Seq(S), NEW c \in S
  PROVE  /\ Append(t, c) \in Seq(S)
         /\ Len(t) \in Nat /\ Len(Append(t, c)) = Len(t) + 1
         /\ Append(t, c)[Len(t) + 1] = c
         /\ SameTo(Append(t, c), t, Len(t))
BY DEF SameTo

(* A writer behind all of them is the last one.                            *)
LEMMA LatestOfMore ==
  ASSUME NEW n \in Nat, NEW S, S \subseteq 1 .. n
  PROVE  Latest(S \cup {n + 1}) = n + 1
<1>1. S \cup {n + 1} \in SUBSET (1 .. n + 1) /\ n + 1 \in Nat
  OBVIOUS
<1>2. \A k \in S \cup {n + 1} : k <= n + 1
  OBVIOUS
<1>3. QED BY <1>1, <1>2, LatestIs

(* A register after one commit more: what the commit writes, or what it    *)
(* was.                                                                    *)
LEMMA AppendRegister ==
  ASSUME NEW initial, NEW S, NEW t \in Seq(S), NEW c \in S, NEW r
  PROVE  RegisterAfter(initial, Append(t, c), Len(t) + 1, r) =
           IF r # 0 /\ c.rd_valid /\ c.rd = r THEN c.value
           ELSE RegisterAfter(initial, t, Len(t), r)
<1> DEFINE n == Len(t)
           u == Append(t, c)
<1>1. n \in Nat /\ u[n + 1] = c /\ SameTo(u, t, n)
  BY AppendIsSame
<1> HIDE DEF n, u
<1>2. Writers(u, n, r) = Writers(t, n, r) /\ Writers(t, n, r) \subseteq 1 .. n
  BY <1>1 DEF Writers, SameTo
<1>3. Writers(u, n + 1, r) = Writers(t, n, r) \cup (IF c.rd_valid /\ c.rd = r THEN {n + 1} ELSE {})
  BY <1>1, <1>2 DEF Writers
<1>4. CASE r # 0 /\ c.rd_valid /\ c.rd = r
  <2>1. Writers(u, n + 1, r) = Writers(t, n, r) \cup {n + 1}
    BY <1>3, <1>4
  <2>2. Latest(Writers(u, n + 1, r)) = n + 1
    BY <1>1, <1>2, <2>1, LatestOfMore
  <2>3. RegisterAfter(initial, u, n + 1, r) = c.value
    BY <1>1, <1>4, <2>1, <2>2 DEF RegisterAfter
  <2>4. QED BY <1>4, <2>3 DEF n, u
<1>5. CASE ~ (c.rd_valid /\ c.rd = r)
  <2>1. Writers(u, n + 1, r) = Writers(u, n, r)
    BY <1>2, <1>3, <1>5
  <2>2. RegisterAfter(initial, u, n + 1, r) = RegisterAfter(initial, u, n, r)
    BY <2>1 DEF RegisterAfter
  <2>3. RegisterAfter(initial, u, n, r) = RegisterAfter(initial, t, n, r)
    BY <1>1, SameRegisters
  <2>4. QED BY <1>5, <2>2, <2>3 DEF n, u
<1>6. CASE r = 0
  BY <1>6 DEF RegisterAfter
<1>7. QED BY <1>4, <1>5, <1>6

(* The new commit's instruction, and the registers it finds.               *)
LEMMA AppendBefore ==
  ASSUME NEW S, NEW t \in Seq(S), NEW c \in S
  PROVE  /\ Instruction(Append(t, c), Len(t) + 1) = Decode[c.instruction]
         /\ \A r : RegisterBefore(Append(t, c), Len(t) + 1, r) =
                    RegisterAfter(request.initial_int_regs, t, Len(t), r)
<1>1. /\ Len(t) \in Nat /\ Append(t, c)[Len(t) + 1] = c
      /\ SameTo(Append(t, c), t, Len(t))
  BY AppendIsSame
<1>2. Len(t) + 1 - 1 = Len(t) /\ Len(t) \in 0 .. Len(t)
  BY <1>1
<1>3. QED BY <1>1, <1>2, SameRegisters DEF Instruction, RegisterBefore

(* The memory after one commit more: what the commit stores, or what it    *)
(* was.                                                                    *)
LEMMA AppendMemory ==
  ASSUME NEW S, NEW t \in Seq(S), NEW c \in S, NEW a
  PROVE  MemoryAfter(Append(t, c), Len(t) + 1, a) =
           IF /\ Decode[c.instruction].kind = "sw"
              /\ DataAddress(Append(t, c), Len(t) + 1) = a
           THEN RegisterAfter(request.initial_int_regs, t, Len(t), Decode[c.instruction].rs2)
           ELSE MemoryAfter(t, Len(t), a)
<1> DEFINE n == Len(t)
           u == Append(t, c)
           new == Decode[c.instruction].kind = "sw" /\ DataAddress(u, n + 1) = a
<1>1. n \in Nat /\ u[n + 1] = c /\ SameTo(u, t, n)
  BY AppendIsSame
<1>2. /\ Instruction(u, n + 1) = Decode[c.instruction]
      /\ \A r : RegisterBefore(u, n + 1, r) = RegisterAfter(request.initial_int_regs, t, n, r)
  BY AppendBefore
<1> HIDE DEF n, u
<1>3. Stores(u, n + 1, a) = Stores(u, n, a) \cup (IF new THEN {n + 1} ELSE {})
  BY <1>1, <1>2 DEF Stores
<1>4. Stores(u, n, a) \subseteq 1 .. n
  BY DEF Stores
<1>5. CASE new
  <2>1. Stores(u, n + 1, a) = Stores(u, n, a) \cup {n + 1}
    BY <1>3, <1>5
  <2>2. Latest(Stores(u, n + 1, a)) = n + 1
    BY <1>1, <1>4, <2>1, LatestOfMore
  <2>3. MemoryAfter(u, n + 1, a) =
          RegisterAfter(request.initial_int_regs, t, n, Decode[c.instruction].rs2)
    BY <1>2, <2>1, <2>2 DEF MemoryAfter
  <2>4. QED BY <1>5, <2>3 DEF n, u
<1>6. CASE ~ new
  <2>1. Stores(u, n + 1, a) = Stores(u, n, a)
    BY <1>3, <1>6
  <2>2. MemoryAfter(u, n + 1, a) = MemoryAfter(u, n, a)
    BY <2>1 DEF MemoryAfter
  <2>3. MemoryAfter(u, n, a) = MemoryAfter(t, n, a)
    BY <1>1, SameMemory
  <2>4. QED BY <1>6, <2>2, <2>3 DEF n, u
<1>7. QED BY <1>5, <1>6

-----------------------------------------------------------------------------
(* Words are naturals, and _u32 makes one of any integer.                  *)
LEMMA WordFacts ==
  /\ \A x \in Int : _u32(x) \in Word
  /\ \A w \in Word : w \in Int /\ w \in Nat
  /\ Word \subseteq Nat /\ 0 \in Word
  /\ \A x \in Word : _u32(x) = x
BY ContractAssumption DEF _u32, Word

(* The fields of an instruction word.                                      *)
LEMMA DecodeFacts ==
  ASSUME NEW w \in Word
  PROVE  /\ Decode[w].rd \in Registers /\ Decode[w].rs1 \in Registers
         /\ Decode[w].rs2 \in Registers /\ Decode[w].imm \in Int
BY DecodeAssumption

(* A set of positions is a word.                                           *)
LEMMA FromBitsIsWord ==
  \A S \in SUBSET (0 .. XLEN - 1) :
    FromBits(S) \in Word /\ FromBits(S) \in Int /\ BitSet(FromBits(S)) = S
<1>1. \A S \in SUBSET (0 .. XLEN - 1) : FromBits(S) \in Word /\ BitSet(FromBits(S)) = S
  BY BinaryNotation DEF FromBits
<1>2. \A w \in Word : w \in Int
  BY ContractAssumption DEF Word
<1>3. QED BY <1>1, <1>2

(* The R-type operations on words give integers, whatever the width.       *)
LEMMA RTypeIsInteger ==
  ASSUME NEW kind \in RTypes, NEW left \in Word, NEW right \in Word
  PROVE  _r_type(kind, left, right) \in Int
<1>1. left \in Int /\ right \in Int /\ Modulus \in Int /\ _signed32(left) \in Int
  BY ContractAssumption DEF Word, _signed32
<1>3. 2^(right % XLEN) \in Nat \ {0}
  BY <1>1, ContractAssumption, PowersOfTwo
<1>4. /\ BitSet(left) \in SUBSET (0 .. XLEN - 1)
      /\ BitSet(right) \in SUBSET (0 .. XLEN - 1)
  BY DEF BitSet
<1>5. CASE kind \in {"add", "sub", "slt"}
  BY <1>1, <1>5 DEF _r_type
<1>6. CASE kind = "and"
  <2>1. BitSet(left) \cap BitSet(right) \in SUBSET (0 .. XLEN - 1)
    BY <1>4
  <2>2. FromBits(BitSet(left) \cap BitSet(right)) \in Int
    BY <2>1, FromBitsIsWord
  <2>3. QED BY <1>6, <2>2 DEF _r_type
<1>7. CASE kind = "or"
  <2>1. BitSet(left) \cup BitSet(right) \in SUBSET (0 .. XLEN - 1)
    BY <1>4
  <2>2. FromBits(BitSet(left) \cup BitSet(right)) \in Int
    BY <2>1, FromBitsIsWord
  <2>3. QED BY <1>7, <2>2 DEF _r_type
<1>8. CASE kind = "xor"
  <2> DEFINE S == (BitSet(left) \cup BitSet(right)) \ (BitSet(left) \cap BitSet(right))
  <2>1. S \in SUBSET (0 .. XLEN - 1)
    BY <1>4
  <2>2. FromBits(S) \in Int
    BY <2>1, FromBitsIsWord
  <2>3. QED BY <1>8, <2>2 DEF _r_type
<1>9. CASE kind = "sll"
  BY <1>1, <1>3, <1>9 DEF _r_type
<1>10. CASE kind = "sra"
  BY <1>1, <1>3, <1>10 DEF _r_type
<1>11. QED BY <1>5, <1>6, <1>7, <1>8, <1>9, <1>10 DEF RTypes

(* The three properties of the emulator with what its phases add.          *)
EmulatorInv ==
  /\ TypeOK
  /\ StateFollowsTrace
  /\ TraceReplays
  /\ ResultIsAccounted
  /\ phase = "start" => trace = <<>>
  /\ phase # "done" => result = Failure

(* The registers and the trace the invariant is about.                     *)
LEMMA RegisterFacts ==
  ASSUME EmulatorInv
  PROVE  /\ \A r \in Registers : regs[r] \in Word
         /\ 0 \in Registers /\ regs[0] = 0
         /\ trace \in Seq(ISSCommit) /\ Len(trace) \in Nat
BY ContractAssumption DEF EmulatorInv, TypeOK, RegisterFiles, Registers

(* At an aligned pc inside of the program there is a word to fetch, and    *)
(* the next pc needs no mask.                                              *)
LEMMA FetchFacts ==
  ASSUME EmulatorInv, ~ Misaligned, ~ OutOfProgram
  PROVE  /\ pc \in Word /\ pc % 4 = 0 /\ pc + 4 \in Nat
         /\ pc \div 4 < request.program_word_count
         /\ Fetched = request.program[pc \div 4]
         /\ Fetched \in Word
<1>1. /\ pc \in Nat /\ request.program_word_count \in 0 .. PROGRAM_WORD_CAPACITY
      /\ request.program \in [0 .. PROGRAM_WORD_CAPACITY - 1 -> Word]
  BY DEF EmulatorInv, TypeOK, ISSRequest
<1>2. /\ PROGRAM_WORD_CAPACITY \in Nat /\ Modulus \in Nat
      /\ 4 * PROGRAM_WORD_CAPACITY < Modulus
  BY ContractAssumption
<1>3. pc % 4 = 0 /\ pc \div 4 < request.program_word_count
  BY <1>1 DEF Misaligned, OutOfProgram
<1>4. pc \div 4 \in 0 .. PROGRAM_WORD_CAPACITY - 1
  BY <1>1, <1>2, <1>3
<1>5. pc < Modulus
  BY <1>1, <1>2, <1>3
<1>6. QED BY <1>1, <1>2, <1>3, <1>4, <1>5 DEF Fetched, Word

(* What a step does that commits c, whatever the instruction: c reports    *)
(* what the instruction makes of the state, and the state follows c.       *)
Follows(c) ==
  LET i == Decode[Fetched]
      written == Written(i, regs[i.rs1], regs[i.rs2], memory_get(Address))
  IN  /\ request' = request /\ trace' = Append(trace, c)
      /\ c = IF i.kind \in {"beq", "sw"} THEN CommitOnly(pc, Fetched)
             ELSE Commit(pc, Fetched, i.rd, IF i.rd = 0 THEN 0 ELSE written)
      /\ \A r \in Registers :
           regs'[r] = IF r # 0 /\ c.rd_valid /\ c.rd = r THEN c.value ELSE regs[r]
      /\ pc' = IF i.kind = "beq" /\ regs[i.rs1] = regs[i.rs2] THEN _u32(pc + i.imm) ELSE pc + 4
      /\ i.kind # "sw" => memory' = memory
      /\ i.kind = "sw" => memory' = [a \in DOMAIN memory \cup {Address} |->
                                       IF a = Address THEN regs[i.rs2] ELSE memory[a]]

(* A commit that follows the trace keeps what the trace tells of the       *)
(* state.                                                                  *)
LEMMA CommitKeeps ==
  ASSUME EmulatorInv, ~ Misaligned, ~ OutOfProgram, NEW c \in ISSCommit, Follows(c)
  PROVE  StateFollowsTrace' /\ TraceReplays'
<1> DEFINE i == Decode[Fetched]
           n == Len(trace)
           u == Append(trace, c)
<1>1. /\ i.rd \in Registers /\ i.rs1 \in Registers /\ i.rs2 \in Registers
  BY FetchFacts, DecodeFacts
<1>2. /\ c.pc = pc /\ c.instruction = Fetched
  BY DEF Follows, Commit, CommitOnly
<1>3. /\ n \in Nat /\ u \in Seq(ISSCommit) /\ Len(u) = n + 1
      /\ u[n + 1] = c /\ SameTo(u, trace, n) /\ trace \in Seq(ISSCommit)
  BY RegisterFacts, AppendIsSame
<1>4. \A r \in Registers : regs[r] = RegisterAfter(request.initial_int_regs, trace, n, r)
  BY DEF EmulatorInv, StateFollowsTrace
<1>5. /\ Instruction(u, n + 1) = i
      /\ \A r \in Registers : RegisterBefore(u, n + 1, r) = regs[r]
  BY <1>2, <1>3, <1>4, AppendBefore
<1>6. /\ DataAddress(u, n + 1) = Address
      /\ TakesBranch(u, n + 1) <=> i.kind = "beq" /\ regs[i.rs1] = regs[i.rs2]
  BY <1>1, <1>5 DEF DataAddress, TakesBranch, Address
<1>7. request' = request /\ trace' = u
  BY DEF Follows
<1>8. \A a : MemoryAfter(u, n + 1, a) =
                IF i.kind = "sw" /\ Address = a THEN regs[i.rs2] ELSE MemoryAfter(trace, n, a)
  BY <1>1, <1>2, <1>3, <1>4, <1>6, AppendMemory
<1>9. MemoryAfter(u, n, Address) = memory_get(Address)
  <2>1. MemoryAfter(u, n, Address) = MemoryAfter(trace, n, Address)
    BY <1>3, SameMemory
  <2>2. CASE Address \in DOMAIN memory
    BY <2>1, <2>2 DEF memory_get, EmulatorInv, StateFollowsTrace
  <2>3. CASE Address \notin DOMAIN memory
    <3>1. Stores(trace, n, Address) = {}
      BY <1>3, <2>3 DEF Stores, EmulatorInv, StateFollowsTrace
    <3>2. QED BY <2>1, <2>3, <3>1 DEF memory_get, MemoryAfter
  <2>4. QED BY <2>2, <2>3
<1> HIDE DEF u, i, n
<1>10. \A r \in Registers : regs'[r] = RegisterAfter(request.initial_int_regs, u, n + 1, r)
  <2>1. \A r \in Registers : RegisterAfter(request.initial_int_regs, u, n + 1, r) =
           IF r # 0 /\ c.rd_valid /\ c.rd = r THEN c.value
           ELSE RegisterAfter(request.initial_int_regs, trace, n, r)
    BY <1>3, AppendRegister DEF u, n
  <2>2. QED BY <1>4, <2>1 DEF Follows
<1>11. \A a \in DOMAIN memory' : memory'[a] = MemoryAfter(u, n + 1, a)
  <2>1. \A a \in DOMAIN memory : memory[a] = MemoryAfter(trace, n, a)
    BY DEF EmulatorInv, StateFollowsTrace, n
  <2>2. CASE i.kind = "sw"
    BY <1>8, <2>1, <2>2 DEF Follows, i
  <2>3. CASE i.kind # "sw"
    BY <1>8, <2>1, <2>3 DEF Follows, i
  <2>4. QED BY <2>2, <2>3
<1>12. \A j \in 1 .. n + 1 : Instruction(u, j).kind = "sw" => DataAddress(u, j) \in DOMAIN memory'
  <2> SUFFICES ASSUME NEW j \in 1 .. n + 1, Instruction(u, j).kind = "sw"
               PROVE  DataAddress(u, j) \in DOMAIN memory'
    OBVIOUS
  <2>1. DOMAIN memory \subseteq DOMAIN memory'
    BY DEF Follows
  <2>2. CASE j = n + 1
    BY <1>5, <1>6, <2>2 DEF Follows, i
  <2>3. CASE j # n + 1
    <3>1. j \in 1 .. n
      BY <1>3, <2>3
    <3>2. Instruction(trace, j).kind = "sw" /\ DataAddress(u, j) = DataAddress(trace, j)
      BY <1>3, <3>1, SameBefore
    <3>3. j \in DOMAIN trace
      BY <1>3, <3>1 DEF n
    <3>4. QED BY <2>1, <3>2, <3>3 DEF EmulatorInv, StateFollowsTrace
  <2>4. QED BY <2>2, <2>3
<1>13. pc' = PcAfter(u, n + 1)
  <2>1. n + 1 # 0
    BY <1>3
  <2>2. QED BY <1>2, <1>3, <1>5, <1>6, <2>1 DEF PcAfter, Follows, i
<1>14. c = Reported(u, n + 1)
  <2>1. Reported(u, n + 1) =
          IF i.kind \in {"beq", "sw"} THEN CommitOnly(c.pc, c.instruction)
          ELSE Commit(c.pc, c.instruction, i.rd, IF i.rd = 0 THEN 0
                      ELSE Written(i, regs[i.rs1], regs[i.rs2], memory_get(Address)))
    <3>1. n + 1 - 1 = n
      BY <1>3
    <3>2. QED BY <1>1, <1>3, <1>5, <1>6, <1>9, <3>1 DEF Reported
  <2>2. QED BY <1>2, <2>1 DEF Follows, i
<1>15. \A j \in 1 .. n + 1 :
         /\ u[j].pc = PcAfter(u, j - 1)
         /\ u[j].pc \div 4 < request.program_word_count
         /\ u[j].instruction = request.program[u[j].pc \div 4]
         /\ u[j] = Reported(u, j)
  <2> TAKE j \in 1 .. n + 1
  <2>1. CASE j = n + 1
    <3>1. j - 1 = n /\ n \in 0 .. n
      BY <1>3, <2>1
    <3>2. PcAfter(u, n) = PcAfter(trace, n) /\ pc = PcAfter(trace, n)
      BY <1>3, <3>1, SamePc DEF EmulatorInv, StateFollowsTrace, n
    <3>3. QED BY <1>2, <1>3, <1>14, <2>1, <3>1, <3>2, FetchFacts
  <2>2. CASE j # n + 1
    <3>1. j \in 1 .. n /\ j - 1 \in 0 .. n /\ j \in DOMAIN trace
      BY <1>3, <2>2 DEF n
    <3>2. u[j] = trace[j] /\ PcAfter(u, j - 1) = PcAfter(trace, j - 1)
      BY <1>3, <3>1, SamePc, SMTT(30) DEF SameTo
    <3>3. Reported(u, j) = Reported(trace, j)
      BY <1>3, <3>1, SameReport
    <3>4. QED BY <3>1, <3>2, <3>3 DEF EmulatorInv, TraceReplays
  <2>3. QED BY <2>1, <2>2
<1>16. Len(trace') = n + 1 /\ DOMAIN trace' = 1 .. n + 1
  BY <1>3, <1>7
<1>17. StateFollowsTrace'
  BY <1>3, <1>7, <1>10, <1>11, <1>12, <1>13, <1>16
  DEF StateFollowsTrace, MemoryAfter, PcAfter, Instruction, DataAddress, Stores,
      RegisterBefore, TakesBranch
<1>18. TraceReplays'
  <2>1. \A j \in Nat : PcAfter(trace, j)' = PcAfter(u, j)
    BY <1>7 DEF PcAfter, Instruction, TakesBranch, RegisterBefore
  <2>2. \A j \in 1 .. n + 1 : Reported(trace, j)' = Reported(u, j)
    BY <1>7 DEF Reported, Instruction, MemoryAfter, Stores, DataAddress, RegisterBefore
  <2>3. \A j \in 1 .. n + 1 : j - 1 \in Nat
    BY <1>3
  <2>4. QED BY <1>7, <1>15, <1>16, <2>1, <2>2, <2>3 DEF TraceReplays
<1>19. QED BY <1>17, <1>18

(* The emulator starts in the invariant.                                   *)
LEMMA EmulatorInit == Init => EmulatorInv
<1> SUFFICES ASSUME Init PROVE EmulatorInv
  OBVIOUS
<1>1. request \in ISSRequest /\ trace = <<>> /\ Len(trace) = 0 /\ DOMAIN trace = {}
  BY RequestsAssumption DEF Init
<1>2. request.initial_int_regs \in RegisterFiles /\ request.execution_limit \in Nat
  BY <1>1 DEF ISSRequest
<1>3. TypeOK
  BY <1>1, <1>2 DEF Init, TypeOK, NoMemory, ISSResult
<1>4. StateFollowsTrace
  <2>1. \A r \in Registers : RegisterAfter(request.initial_int_regs, trace, 0, r) =
                               request.initial_int_regs[r]
    <3>1. \A r : Writers(trace, 0, r) = {}
      BY DEF Writers
    <3>2. request.initial_int_regs[0] = 0
      BY <1>2 DEF RegisterFiles
    <3>3. QED BY <3>1, <3>2 DEF RegisterAfter
  <2>2. QED BY <1>1, <2>1 DEF Init, StateFollowsTrace, NoMemory, PcAfter
<1>5. TraceReplays
  BY <1>1 DEF TraceReplays
<1>6. QED BY <1>1, <1>3, <1>4, <1>5 DEF EmulatorInv, Init, ResultIsAccounted

(* What an executed instruction has to leave for the invariant to go on.   *)
LEMMA ExecuteKeeps ==
  ASSUME EmulatorInv, Looping, ~ Misaligned, ~ OutOfProgram,
         NEW c \in ISSCommit, Follows(c),
         UNCHANGED <<phase, result>>,
         regs' \in RegisterFiles, pc' \in Nat,
         \A a \in DOMAIN memory' : a \in Word /\ a % 4 = 0 /\ memory'[a] \in Word
  PROVE  EmulatorInv'
<1>1. StateFollowsTrace' /\ TraceReplays'
  BY CommitKeeps
<1>2. trace' \in Seq(ISSCommit) /\ Len(trace') <= request'.execution_limit
  <2>1. /\ Len(trace) \in Nat /\ Len(trace) < request.execution_limit
        /\ request.execution_limit \in Nat
    BY DEF Looping, EmulatorInv, TypeOK, ISSRequest
  <2>2. QED BY <2>1, RegisterFacts, AppendIsSame DEF Follows
<1>3. TypeOK'
  BY <1>2 DEF EmulatorInv, TypeOK, Follows
<1>4. phase' = "run" /\ result' = Failure
  BY DEF Looping, EmulatorInv
<1>5. QED BY <1>1, <1>3, <1>4 DEF EmulatorInv, ResultIsAccounted

(* A register write commits the register and its value.                    *)
LEMMA WriteRegisterFollows ==
  ASSUME EmulatorInv, ~ Misaligned, ~ OutOfProgram, NEW value \in Word,
         WriteRegister(Decode[Fetched].rd, value), UNCHANGED <<request, memory>>,
         Decode[Fetched].kind \notin {"beq", "sw"}, pc' = pc + 4,
         value = Written(Decode[Fetched], regs[Decode[Fetched].rs1], regs[Decode[Fetched].rs2],
                         memory_get(Address))
  PROVE  /\ \E c \in ISSCommit : Follows(c)
         /\ regs' \in RegisterFiles
<1> DEFINE i == Decode[Fetched]
           v == IF i.rd = 0 THEN 0 ELSE value
           c == Commit(pc, Fetched, i.rd, v)
<1>1. i.rd \in Registers /\ i.rd \in Int /\ v \in Word /\ pc \in Word /\ pc % 4 = 0 /\ Fetched \in Word
  <2>1. pc \in Word /\ pc % 4 = 0 /\ Fetched \in Word
    BY FetchFacts
  <2>2. i.rd \in Registers
    BY <2>1, DecodeFacts
  <2>3. i.rd \in Int
    BY <2>2 DEF Registers
  <2>4. QED BY <2>1, <2>2, <2>3, WordFacts
<1>2. \A x \in Registers \cup Word : x # None
  BY ContractAssumption DEF Registers, Word, None
<1>3. c \in ISSCommit
  BY <1>1, <1>2 DEF ISSCommit, Commit
<1>4. regs \in RegisterFiles /\ regs' = [regs EXCEPT ![i.rd] = v] /\ trace' = Append(trace, c)
  BY DEF WriteRegister, EmulatorInv, TypeOK
<1>5. regs' \in RegisterFiles
  <2>1. regs \in [Registers -> Word] /\ regs[0] = 0 /\ 0 \in Registers
    BY <1>4, RegisterFacts DEF RegisterFiles
  <2>2. regs' \in [Registers -> Word]
    BY <1>1, <1>4, <2>1
  <2>3. regs'[0] = 0
    BY <1>1, <1>4, <2>1
  <2>4. QED BY <2>2, <2>3 DEF RegisterFiles
<1>6. \A r \in Registers : regs'[r] = IF r # 0 /\ r = i.rd THEN v ELSE regs[r]
  <2>1. regs \in [Registers -> Word] /\ regs[0] = 0
    BY <1>4 DEF RegisterFiles
  <2>2. QED BY <1>1, <1>4, <2>1
<1>7. c.rd_valid /\ c.rd = i.rd /\ c.value = v
  BY DEF Commit
<1> HIDE DEF c, v
<1>8. c = Commit(pc, Fetched, i.rd, IF i.rd = 0 THEN 0 ELSE value)
  BY DEF c, v
<1> HIDE DEF i
<1>9. Follows(c)
  BY <1>4, <1>6, <1>7, <1>8 DEF Follows, i
<1>10. QED BY <1>3, <1>5, <1>9

(* A branch and a store commit no register.                                *)
LEMMA CommitOnlyTyped ==
  ASSUME EmulatorInv, ~ Misaligned, ~ OutOfProgram
  PROVE  CommitOnly(pc, Fetched) \in ISSCommit
BY FetchFacts DEF CommitOnly, ISSCommit

(* What the trace tells of the state stays true while neither changes.     *)
LEMMA SameState ==
  ASSUME EmulatorInv, UNCHANGED <<request, regs, memory, pc, trace>>
  PROVE  StateFollowsTrace' /\ TraceReplays'
<1>1. \A t, j, r : RegisterBefore(t, j, r)' = RegisterBefore(t, j, r)
  BY DEF RegisterBefore
<1>2. \A t, j : DataAddress(t, j)' = DataAddress(t, j)
  BY DEF DataAddress, Instruction, RegisterBefore
<1>3. \A t, j : PcAfter(t, j)' = PcAfter(t, j)
  BY DEF PcAfter, Instruction, TakesBranch, RegisterBefore
<1>4. \A t, n, a : MemoryAfter(t, n, a)' = MemoryAfter(t, n, a)
  BY DEF MemoryAfter, Stores, DataAddress, Instruction, RegisterBefore
<1>5. \A t, j : Reported(t, j)' = Reported(t, j)
  BY DEF Reported, MemoryAfter, Stores, DataAddress, Instruction, RegisterBefore
<1>6. QED BY <1>1, <1>2, <1>3, <1>4, <1>5 DEF EmulatorInv, StateFollowsTrace, TraceReplays

(* Every instruction that writes a register keeps the invariant.           *)
LEMMA WriteKeeps ==
  ASSUME EmulatorInv, Looping, ~ Misaligned, ~ OutOfProgram,
         NEW value \in Word, WriteRegister(Decode[Fetched].rd, value), UNCHANGED memory,
         Decode[Fetched].kind \notin {"beq", "sw"}, Continue(pc + 4),
         value = Written(Decode[Fetched], regs[Decode[Fetched].rs1], regs[Decode[Fetched].rs2],
                         memory_get(Address))
  PROVE  EmulatorInv'
<1>1. UNCHANGED <<request, memory, phase, result>> /\ pc' = pc + 4
  BY DEF Continue
<1>2. (\E c \in ISSCommit : Follows(c)) /\ regs' \in RegisterFiles
  BY <1>1, WriteRegisterFollows
<1>3. pc' \in Nat
  BY <1>1 DEF EmulatorInv, TypeOK
<1>4. \A a \in DOMAIN memory' : a \in Word /\ a % 4 = 0 /\ memory'[a] \in Word
  BY <1>1 DEF EmulatorInv, TypeOK
<1>5. QED BY <1>1, <1>2, <1>3, <1>4, ExecuteKeeps

(* Every step of the emulator keeps the invariant.                         *)
LEMMA EmulatorStep == EmulatorInv /\ Next => EmulatorInv'
<1> SUFFICES ASSUME EmulatorInv, Next PROVE EmulatorInv'
  OBVIOUS
<1> DEFINE i == Decode[Fetched]
<1>0. ASSUME Looping, ~ Misaligned, ~ OutOfProgram
      PROVE  /\ Fetched \in Word
             /\ i.rs1 \in Registers /\ i.rs2 \in Registers /\ i.imm \in Int
             /\ regs[i.rs1] \in Word /\ regs[i.rs2] \in Word
             /\ regs[i.rs1] \in Int /\ Address \in Word
  <2>1. Fetched \in Word
    BY <1>0, FetchFacts
  <2>2. i.rs1 \in Registers /\ i.rs2 \in Registers /\ i.imm \in Int
    BY <2>1, DecodeFacts
  <2>3. regs[i.rs1] \in Word /\ regs[i.rs2] \in Word
    BY <2>2, RegisterFacts
  <2>4. regs[i.rs1] \in Int
    BY <2>3, WordFacts
  <2>5. QED BY <2>1, <2>2, <2>3, <2>4, WordFacts DEF Address
<1>1. CASE Validate
  <2>1. StateFollowsTrace' /\ TraceReplays'
    BY <1>1, SameState DEF Validate, state
  <2>2. TypeOK'
    BY <1>1 DEF Validate, state, EmulatorInv, TypeOK
  <2>3. QED BY <1>1, <2>1, <2>2 DEF Validate, state, EmulatorInv, ResultIsAccounted, InScope
<1>2. CASE ExecuteAddi
  <2>1. Looping /\ ~ Misaligned /\ ~ OutOfProgram /\ i.kind = "addi"
    BY <1>2 DEF ExecuteAddi, Executes
  <2>2. _u32(regs[i.rs1] + i.imm) \in Word
    BY <1>0, <2>1, WordFacts
  <2>3. _u32(regs[i.rs1] + i.imm) = Written(i, regs[i.rs1], regs[i.rs2], memory_get(Address))
    BY <2>1, WrittenValues
  <2>4. QED BY <1>2, <2>1, <2>2, <2>3, WriteKeeps DEF ExecuteAddi
<1>3. CASE ExecuteRType
  <2> DEFINE value == _u32(_r_type(i.kind, regs[i.rs1], regs[i.rs2]))
  <2>1. Looping /\ ~ Misaligned /\ ~ OutOfProgram /\ i.kind \in RTypes
    BY <1>3 DEF ExecuteRType, Executes
  <2>2. value \in Word
    BY <1>0, <2>1, RTypeIsInteger, WordFacts
  <2>3. value = Written(i, regs[i.rs1], regs[i.rs2], memory_get(Address))
    BY <2>1, WrittenValues
  <2>4. i.kind \notin {"beq", "sw"}
    BY <2>1 DEF RTypes
  <2>5. /\ WriteRegister(i.rd, value) /\ UNCHANGED memory /\ Continue(pc + 4)
    BY <1>3 DEF ExecuteRType
  <2> HIDE DEF value
  <2>6. QED BY <2>1, <2>2, <2>3, <2>4, <2>5, WriteKeeps
<1>4. CASE ExecuteBeq
  <2>1. Looping /\ ~ Misaligned /\ ~ OutOfProgram /\ i.kind = "beq"
    BY <1>4 DEF ExecuteBeq, Executes
  <2>2. CommitOnly(pc, Fetched) \in ISSCommit /\ ~ CommitOnly(pc, Fetched).rd_valid
    BY <2>1, CommitOnlyTyped DEF CommitOnly
  <2>3. /\ UNCHANGED <<regs, memory, request, phase, result>>
        /\ pc' = IF regs[i.rs1] = regs[i.rs2] THEN _u32(pc + i.imm) ELSE pc + 4
        /\ trace' = Append(trace, CommitOnly(pc, Fetched))
    BY <1>4 DEF ExecuteBeq, Continue
  <2>4. pc' \in Nat
    <3>1. i.imm \in Int /\ pc \in Int /\ pc + 4 \in Nat
      BY <1>0, <2>1 DEF EmulatorInv, TypeOK
    <3>2. pc + i.imm \in Int
      BY <3>1
    <3>3. _u32(pc + i.imm) \in Nat
      BY <3>2, ContractAssumption DEF _u32
    <3>4. QED BY <2>3, <3>1, <3>3
  <2> HIDE DEF i
  <2>5. Follows(CommitOnly(pc, Fetched))
    BY <2>1, <2>2, <2>3 DEF Follows, i
  <2>6. /\ regs' \in RegisterFiles
        /\ \A a \in DOMAIN memory' : a \in Word /\ a % 4 = 0 /\ memory'[a] \in Word
    BY <2>3 DEF EmulatorInv, TypeOK
  <2>7. QED BY <2>1, <2>2, <2>3, <2>4, <2>5, <2>6, ExecuteKeeps
<1>5. CASE ExecuteLw
  <2>1. Looping /\ ~ Misaligned /\ ~ OutOfProgram /\ i.kind = "lw"
    BY <1>5 DEF ExecuteLw, Executes
  <2>2. memory_get(Address) \in Word
    BY WordFacts DEF memory_get, EmulatorInv, TypeOK
  <2>3. memory_get(Address) = Written(i, regs[i.rs1], regs[i.rs2], memory_get(Address))
    BY <2>1, WrittenValues
  <2>4. QED BY <1>5, <2>1, <2>2, <2>3, WriteKeeps DEF ExecuteLw
<1>6. CASE ExecuteSw
  <2>1. Looping /\ ~ Misaligned /\ ~ OutOfProgram /\ i.kind = "sw" /\ Address % 4 = 0
    BY <1>6 DEF ExecuteSw, Executes
  <2>2. CommitOnly(pc, Fetched) \in ISSCommit /\ ~ CommitOnly(pc, Fetched).rd_valid
    BY <2>1, CommitOnlyTyped DEF CommitOnly
  <2>3. /\ UNCHANGED <<regs, request, phase, result>>
        /\ pc' = pc + 4
        /\ trace' = Append(trace, CommitOnly(pc, Fetched))
        /\ memory' = [a \in DOMAIN memory \cup {Address} |->
                        IF a = Address THEN regs[i.rs2] ELSE memory[a]]
    BY <1>6 DEF ExecuteSw, Continue
  <2>4. pc' \in Nat /\ regs' \in RegisterFiles
    BY <2>3 DEF EmulatorInv, TypeOK
  <2>5. \A a \in DOMAIN memory' : a \in Word /\ a % 4 = 0 /\ memory'[a] \in Word
    BY <1>0, <2>1, <2>3 DEF EmulatorInv, TypeOK
  <2> HIDE DEF i
  <2>6. Follows(CommitOnly(pc, Fetched))
    BY <2>1, <2>2, <2>3 DEF Follows, i
  <2>7. QED BY <2>1, <2>2, <2>3, <2>4, <2>5, <2>6, ExecuteKeeps
<1>7. CASE Fail
  <2>1. UNCHANGED <<request, regs, memory, pc, trace>> /\ phase' = "done" /\ result' = Failure
    BY <1>7 DEF Fail, state
  <2>2. StateFollowsTrace' /\ TraceReplays'
    BY <2>1, SameState
  <2>3. TypeOK'
    BY <2>1 DEF EmulatorInv, TypeOK, ISSResult
  <2>4. Misaligned \/ (i.kind \in {"lw", "sw"} /\ Address % 4 # 0)
    BY <1>7 DEF Fail, Executes
  <2>5. Misaligned' = Misaligned /\ Fetched' = Fetched /\ Address' = Address
    BY <2>1 DEF Misaligned, Fetched, Address
  <2>6. ResultIsAccounted'
    BY <2>1, <2>4, <2>5 DEF ResultIsAccounted
  <2>7. QED BY <2>1, <2>2, <2>3, <2>6 DEF EmulatorInv
<1>8. CASE Finish
  <2>1. /\ UNCHANGED <<request, regs, memory, pc, trace>> /\ phase' = "done"
        /\ result' = Passed(pc, regs, trace)
        /\ Len(trace) < request.execution_limit => ~ Misaligned /\ OutOfProgram
    BY <1>8 DEF Finish, state
  <2>2. StateFollowsTrace' /\ TraceReplays'
    BY <2>1, SameState
  <2>3. /\ regs \in RegisterFiles /\ pc \in Nat /\ trace \in Seq(ISSCommit)
        /\ Len(trace) \in Nat /\ Len(trace) <= request.execution_limit
        /\ request.execution_limit \in Nat
    BY RegisterFacts DEF EmulatorInv, TypeOK, ISSRequest
  <2>4. result' \in ISSResult
    BY <2>1, <2>3 DEF Passed, ISSResult
  <2>5. TypeOK'
    BY <2>1, <2>4 DEF EmulatorInv, TypeOK
  <2>6. Misaligned' = Misaligned /\ OutOfProgram' = OutOfProgram
    BY <2>1 DEF Misaligned, OutOfProgram
  <2>7. ResultIsAccounted'
    BY <2>1, <2>3, <2>6 DEF ResultIsAccounted, Passed, Misaligned, OutOfProgram
  <2>8. QED BY <2>1, <2>2, <2>5, <2>7 DEF EmulatorInv
<1>9. QED BY <1>1, <1>2, <1>3, <1>4, <1>5, <1>6, <1>7, <1>8 DEF Next

(* And so does every step of the others.                                   *)
LEMMA EmulatorStutter ==
  ASSUME EmulatorInv, UNCHANGED <<request, emulator_vars>>
  PROVE  EmulatorInv'
<1>1. UNCHANGED <<request, regs, memory, pc, trace, phase, result>>
  BY DEF emulator_vars, state
<1>2. StateFollowsTrace' /\ TraceReplays'
  BY <1>1, SameState
<1>3. TypeOK'
  BY <1>1 DEF EmulatorInv, TypeOK
<1>4. ResultIsAccounted'
  <2>1. /\ Misaligned' = Misaligned /\ Fetched' = Fetched /\ Address' = Address
        /\ InScope(request)' = InScope(request)
    BY <1>1 DEF Misaligned, Fetched, Address, InScope
  <2>2. QED BY <1>1, <2>1 DEF EmulatorInv, ResultIsAccounted
<1>5. QED BY <1>1, <1>2, <1>3, <1>4 DEF EmulatorInv

-----------------------------------------------------------------------------
(* Recursive functions, and the loops over the lines of a file.            *)

(* Induction over the numbers up to N, for a set of numbers.               *)
LEMMA InductionTo ==
  ASSUME NEW N \in Nat, NEW S, 0 \in S, \A n \in 1 .. N : n - 1 \in S => n \in S
  PROVE  \A n \in 0 .. N : n \in S
<1> SUFFICES ASSUME NEW k \in 0 .. N, k \notin S PROVE FALSE
  OBVIOUS
<1> DEFINE T == {n \in Nat : n <= N /\ n \notin S}
<1>1. T \in SUBSET Nat /\ T # {}
  OBVIOUS
<1>2. PICK x \in T : \A y \in T : x <= y
  BY <1>1, Least
<1>3. x \in 1 .. N /\ x - 1 \in Nat /\ x - 1 \notin T
  BY <1>2
<1>4. x - 1 \in S
  BY <1>3
<1>5. QED BY <1>2, <1>3, <1>4

(* A function given by its value at 0 and a step exists.                   *)
Recurses(f, N, v, advance) == f[0] = v /\ \A n \in 1 .. N : f[n] = advance[<<n, f[n - 1]>>]

(* A function given by a first value and a step exists.                    *)
LEMMA RecursionExists ==
  ASSUME NEW N \in Nat, NEW V, NEW v \in V, NEW advance \in [(1 .. N) \X V -> V]
  PROVE  \E f \in [0 .. N -> V] : Recurses(f, N, v, advance)
<1> DEFINE S == {k \in Nat : \E f \in [0 .. k -> V] : Recurses(f, k, v, advance)}
<1>1. 0 \in S
  <2> DEFINE f == [i \in 0 .. 0 |-> v]
  <2>1. f \in [0 .. 0 -> V] /\ Recurses(f, 0, v, advance)
    BY DEF Recurses
  <2>2. QED BY <2>1
<1>2. ASSUME NEW n \in 1 .. N, n - 1 \in S
      PROVE  n \in S
  <2>1. PICK f \in [0 .. n - 1 -> V] : Recurses(f, n - 1, v, advance)
    BY <1>2
  <2> DEFINE g == [i \in 0 .. n |-> IF i = n THEN advance[<<n, f[n - 1]>>] ELSE f[i]]
  <2>2. n - 1 \in 0 .. n - 1 /\ <<n, f[n - 1]>> \in (1 .. N) \X V
    BY <2>1
  <2>3. g \in [0 .. n -> V]
    BY <2>1, <2>2
  <2>4. g[0] = v
    BY <2>1 DEF Recurses
  <2>5. \A i \in 1 .. n : g[i] = advance[<<i, g[i - 1]>>]
    <3> TAKE i \in 1 .. n
    <3>1. i - 1 \in 0 .. n /\ i - 1 # n /\ g[i - 1] = f[i - 1]
      OBVIOUS
    <3>2. CASE i = n
      BY <3>1, <3>2
    <3>3. CASE i # n
      <4>1. i \in 1 .. n - 1
        BY <3>3
      <4>2. f[i] = advance[<<i, f[i - 1]>>]
        BY <2>1, <4>1 DEF Recurses
      <4>3. QED BY <3>1, <3>3, <4>2
    <3>4. QED BY <3>2, <3>3
  <2>6. Recurses(g, n, v, advance)
    BY <2>4, <2>5 DEF Recurses
  <2>7. QED BY <2>3, <2>6
<1> HIDE DEF S
<1>3. N \in S
  BY <1>1, <1>2, InductionTo
<1>4. QED BY <1>3 DEF S

-----------------------------------------------------------------------------
(* The equation SelectedTo is given by.                                    *)
UpToEquation(f, lines, S) ==
  f = [n \in 0 .. Len(lines) |->
         IF n = 0 THEN <<>>
         ELSE IF n \in S THEN Append(f[n - 1], lines[n])
         ELSE f[n - 1]]

(* SelectedTo satisfies its equation.                                      *)
LEMMA SelectedToEquation ==
  ASSUME NEW L, NEW lines \in Seq(L), NEW S
  PROVE  /\ UpToEquation(SelectedTo(lines, S), lines, S)
         /\ SelectedTo(lines, S) \in [0 .. Len(lines) -> Seq(L)]
<1> DEFINE N == Len(lines)
           V == Seq(L)
           advance == [p \in (1 .. N) \X V |-> IF p[1] \in S THEN Append(p[2], lines[p[1]]) ELSE p[2]]
<1>1. N \in Nat /\ <<>> \in V
  OBVIOUS
<1>2. \A n \in 1 .. N : lines[n] \in L
  OBVIOUS
<1>3. advance \in [(1 .. N) \X V -> V]
  <2>1. \A p \in (1 .. N) \X V : p[1] \in 1 .. N /\ p[2] \in V
    OBVIOUS
  <2>2. \A p \in (1 .. N) \X V : Append(p[2], lines[p[1]]) \in V
    BY <1>2, <2>1
  <2>3. QED BY <2>1, <2>2
<1>4. \A n \in 1 .. N, s \in V : advance[<<n, s>>] = IF n \in S THEN Append(s, lines[n]) ELSE s
  OBVIOUS
<1> HIDE DEF N, V, advance
<1>5. PICK f \in [0 .. N -> V] : Recurses(f, N, <<>>, advance)
  BY <1>1, <1>3, RecursionExists
<1>6. \A n \in 0 .. N : n # 0 => n \in 1 .. N /\ n - 1 \in 0 .. N
  BY <1>1
<1>7. \A n \in 0 .. N : f[n] = IF n = 0 THEN <<>>
                              ELSE IF n \in S THEN Append(f[n - 1], lines[n]) ELSE f[n - 1]
  <2> TAKE n \in 0 .. N
  <2>1. CASE n = 0
    BY <1>5, <2>1 DEF Recurses
  <2>2. CASE n # 0
    <3>1. n \in 1 .. N /\ f[n - 1] \in V
      BY <1>5, <1>6, <2>2
    <3>2. f[n] = advance[<<n, f[n - 1]>>]
      BY <1>5, <3>1 DEF Recurses
    <3>3. QED BY <1>4, <2>2, <3>1, <3>2
  <2>3. QED BY <2>1, <2>2
<1>8. UpToEquation(f, lines, S)
  BY <1>5, <1>7 DEF UpToEquation, N
<1>9. SelectedTo(lines, S) = CHOOSE g : UpToEquation(g, lines, S)
  BY DEF SelectedTo, UpToEquation
<1>10. UpToEquation(SelectedTo(lines, S), lines, S)
  BY <1>8, <1>9
<1>11. ASSUME NEW g, UpToEquation(g, lines, S)
       PROVE  g \in [0 .. N -> V]
  <2> DEFINE T == {n \in 0 .. N : g[n] \in V}
  <2>0. DOMAIN g = 0 .. N /\ g = [n \in 0 .. N |-> g[n]]
    BY <1>11 DEF UpToEquation, N
  <2>1. \A n \in 0 .. N : g[n] = IF n = 0 THEN <<>>
                                ELSE IF n \in S THEN Append(g[n - 1], lines[n]) ELSE g[n - 1]
    BY <1>11 DEF UpToEquation, N
  <2>2. 0 \in T
    BY <1>1, <2>1
  <2>3. ASSUME NEW n \in 1 .. N, n - 1 \in T
        PROVE  n \in T
    <3>1. g[n - 1] \in Seq(L) /\ n # 0 /\ n \in 0 .. N /\ lines[n] \in L
      BY <1>2, <2>3 DEF V
    <3>2. g[n] = IF n \in S THEN Append(g[n - 1], lines[n]) ELSE g[n - 1]
      BY <2>1, <3>1
    <3>3. Append(g[n - 1], lines[n]) \in Seq(L)
      BY <3>1
    <3>4. g[n] \in V
      BY <3>1, <3>2, <3>3 DEF V
    <3>5. QED BY <3>1, <3>4
  <2> HIDE DEF T
  <2>4. \A n \in 0 .. N : n \in T
    BY <1>1, <2>2, <2>3, InductionTo
  <2>5. QED BY <2>0, <2>4 DEF T
<1>12. QED BY <1>10, <1>11 DEF N, V

(* Line by line: a selected line is appended, another is not.              *)
LEMMA SelectedSteps ==
  ASSUME NEW L, NEW lines \in Seq(L), NEW S
  PROVE  LET upto == SelectedTo(lines, S)
         IN  /\ upto[0] = <<>>
             /\ \A n \in 0 .. Len(lines) : upto[n] \in Seq(L)
             /\ \A n \in 1 .. Len(lines) :
                  upto[n] = IF n \in S THEN Append(upto[n - 1], lines[n]) ELSE upto[n - 1]
             /\ Selected(lines, S) = upto[Len(lines)]
<1> DEFINE upto == SelectedTo(lines, S)
<1>1. UpToEquation(upto, lines, S) /\ upto \in [0 .. Len(lines) -> Seq(L)] /\ Len(lines) \in Nat
  BY SelectedToEquation
<1>2. Selected(lines, S) = upto[Len(lines)]
  BY DEF Selected
<1> HIDE DEF upto
<1>3. \A n \in 0 .. Len(lines) :
        upto[n] = IF n = 0 THEN <<>>
                  ELSE IF n \in S THEN Append(upto[n - 1], lines[n]) ELSE upto[n - 1]
  BY <1>1 DEF UpToEquation
<1>4. 0 \in 0 .. Len(lines) /\ \A n \in 1 .. Len(lines) : n \in 0 .. Len(lines) /\ n # 0
  BY <1>1
<1>5. QED BY <1>1, <1>2, <1>3, <1>4 DEF upto

(* What is selected are the lines at the positions in S, as many as there  *)
(* are.                                                                    *)
HoldsLines(s, lines, S) ==
  /\ Len(s) = Cardinality(S \cap DOMAIN lines)
  /\ \A k \in DOMAIN s : \E n \in S \cap DOMAIN lines : s[k] = lines[n]
  /\ \A n \in S \cap DOMAIN lines : \E k \in DOMAIN s : s[k] = lines[n]

(* The loop over a file keeps exactly the lines at the positions in S,     *)
(* each once.                                                              *)
LEMMA SelectedFacts ==
  ASSUME NEW L, NEW lines \in Seq(L), NEW S
  PROVE  Selected(lines, S) \in Seq(L) /\ HoldsLines(Selected(lines, S), lines, S)
<1> DEFINE N == Len(lines)
           upto == SelectedTo(lines, S)
           Exact(n) == LET s == upto[n]
                       IN  /\ Len(s) = Cardinality(S \cap (1 .. n))
                           /\ IsFiniteSet(S \cap (1 .. n))
                           /\ \A k \in 1 .. Len(s) : \E i \in S \cap (1 .. n) : s[k] = lines[i]
                           /\ \A i \in S \cap (1 .. n) : \E k \in 1 .. Len(s) : s[k] = lines[i]
           T == {n \in 0 .. N : Exact(n)}
<1>1. N \in Nat /\ DOMAIN lines = 1 .. N
  OBVIOUS
<1>2. /\ upto[0] = <<>>
      /\ \A n \in 0 .. N : upto[n] \in Seq(L)
      /\ \A n \in 1 .. N : upto[n] = IF n \in S THEN Append(upto[n - 1], lines[n]) ELSE upto[n - 1]
      /\ Selected(lines, S) = upto[N]
  BY SelectedSteps
<1> HIDE DEF upto, N
<1>3. 0 \in T
  <2>1. S \cap (1 .. 0) = {} /\ 0 \in 0 .. N
    BY <1>1
  <2>2. QED BY <1>2, <2>1, FS_EmptySet
<1>4. ASSUME NEW n \in 1 .. N, n - 1 \in T
      PROVE  n \in T
  <2> DEFINE s == upto[n - 1]
             I == S \cap (1 .. n - 1)
             J == S \cap (1 .. n)
  <2>1. /\ s \in Seq(L) /\ Len(s) = Cardinality(I) /\ IsFiniteSet(I)
        /\ \A k \in 1 .. Len(s) : \E i \in I : s[k] = lines[i]
        /\ \A i \in I : \E k \in 1 .. Len(s) : s[k] = lines[i]
    <3>1. n - 1 \in 0 .. N
      BY <1>1
    <3>2. QED BY <1>2, <1>4, <3>1
  <2>2. CASE n \in S
    <3>1. J = I \cup {n} /\ n \notin I
      BY <1>1, <2>2
    <3>2. upto[n] = Append(s, lines[n])
      BY <1>2, <2>2
    <3> HIDE DEF s, I, J
    <3>3. IsFiniteSet(J) /\ Cardinality(J) = Cardinality(I) + 1
      BY <2>1, <3>1, FS_AddElement
    <3>4. /\ Len(upto[n]) = Len(s) + 1 /\ Len(s) \in Nat
          /\ \A k \in 1 .. Len(s) : upto[n][k] = s[k]
          /\ upto[n][Len(s) + 1] = lines[n]
      BY <2>1, <3>2
    <3>5. \A k \in 1 .. Len(upto[n]) : \E i \in J : upto[n][k] = lines[i]
      <4> TAKE k \in 1 .. Len(upto[n])
      <4>1. CASE k = Len(s) + 1
        BY <3>1, <3>4, <4>1
      <4>2. CASE k # Len(s) + 1
        <5>1. k \in 1 .. Len(s)
          BY <3>4, <4>2
        <5>2. QED BY <2>1, <3>1, <3>4, <5>1
      <4>3. QED BY <4>1, <4>2
    <3>6. \A i \in J : \E k \in 1 .. Len(upto[n]) : upto[n][k] = lines[i]
      <4> TAKE i \in J
      <4>1. CASE i = n
        <5>1. Len(s) + 1 \in 1 .. Len(upto[n])
          BY <3>4
        <5>2. QED BY <3>4, <4>1, <5>1
      <4>2. CASE i # n
        <5>1. PICK k \in 1 .. Len(s) : s[k] = lines[i]
          BY <2>1, <3>1, <4>2
        <5>2. k \in 1 .. Len(upto[n]) /\ upto[n][k] = lines[i]
          BY <3>4, <5>1
        <5>3. QED BY <5>2
      <4>3. QED BY <4>1, <4>2
    <3>7. n \in 0 .. N /\ Len(upto[n]) = Cardinality(J)
      BY <1>1, <2>1, <3>3, <3>4
    <3>8. QED BY <3>3, <3>5, <3>6, <3>7 DEF J
  <2>3. CASE n \notin S
    <3>1. J = I /\ upto[n] = s /\ n \in 0 .. N
      BY <1>1, <1>2, <2>3
    <3> HIDE DEF s, I
    <3>2. QED BY <2>1, <3>1
  <2>4. QED BY <2>2, <2>3
<1> HIDE DEF T
<1>5. N \in T
  BY <1>1, <1>3, <1>4, InductionTo
<1>6. Exact(N)
  BY <1>5 DEF T
<1>7. DOMAIN upto[N] = 1 .. Len(upto[N]) /\ upto[N] \in Seq(L)
  BY <1>1, <1>2
<1>8. QED BY <1>1, <1>2, <1>6, <1>7 DEF HoldsLines

-----------------------------------------------------------------------------
(* The comparison of two results.                                          *)

(* The commits the comparator looks at: after normalization the pc is a    *)
(* word.                                                                   *)
ComparedCommits ==
  [pc : Word, instruction : Word, rd_valid : BOOLEAN,
   rd : Registers \cup {None}, value : Word \cup {None}]

(* Two commits with the same fields are the same commit.                   *)
LEMMA FieldsTellCommitsApart ==
  ASSUME NEW c \in ComparedCommits, NEW d \in ComparedCommits,
         \A f \in Fields : c[f] = d[f]
  PROVE  c = d
<1>1. c.pc = d.pc /\ c.instruction = d.instruction /\ c.rd_valid = d.rd_valid
        /\ c.rd = d.rd /\ c.value = d.value
  BY DEF Fields
<1>2. QED BY <1>1 DEF ComparedCommits

(* compare_traces finds nothing between equal traces, and something        *)
(* between others.                                                         *)
LEMMA SameTraces ==
  ASSUME NEW a \in Seq(ComparedCommits), NEW b \in Seq(ComparedCommits)
  PROVE  compare_traces(a, b) = {} <=> a = b
<1> DEFINE common == DOMAIN a \cap DOMAIN b
           fields == {q \in common \X Fields : a[q[1]][q[2]] # b[q[1]][q[2]]}
<1>1. compare_traces(a, b) = {} <=> fields = {} /\ Len(a) = Len(b)
  BY Zenon DEF compare_traces
<1>2. ASSUME fields = {}, Len(a) = Len(b)
      PROVE  a = b
  <2>1. DOMAIN a = 1 .. Len(a) /\ DOMAIN b = 1 .. Len(a) /\ common = 1 .. Len(a)
    BY <1>2
  <2>2. \A i \in 1 .. Len(a), f \in Fields : a[i][f] = b[i][f]
    <3> SUFFICES ASSUME NEW i \in 1 .. Len(a), NEW f \in Fields, a[i][f] # b[i][f]
                 PROVE  FALSE
      OBVIOUS
    <3>1. <<i, f>> \in common \X Fields /\ <<i, f>>[1] = i /\ <<i, f>>[2] = f
      BY <2>1
    <3>2. <<i, f>> \in fields
      BY <3>1
    <3>3. QED BY <1>2, <3>2
  <2>3. \A i \in 1 .. Len(a) : a[i] = b[i]
    <3> TAKE i \in 1 .. Len(a)
    <3>1. a[i] \in ComparedCommits /\ b[i] \in ComparedCommits
      BY <2>1
    <3>2. QED BY <2>2, <3>1, FieldsTellCommitsApart
  <2>4. QED BY <1>2, <2>1, <2>3
<1>3. ASSUME a = b
      PROVE  fields = {} /\ Len(a) = Len(b)
  BY <1>3
<1>4. QED BY <1>1, <1>2, <1>3

(* A commit with its pc made relative to the program.                      *)
LEMMA NormalizedCommit ==
  ASSUME NEW c \in ISSCommit
  PROVE  normalize_spike_commit(c) \in ComparedCommits /\ c \in ComparedCommits
<1>1. c.pc \in Int /\ PROGRAM_BASE \in Int
  BY ContractAssumption, BaseAssumption DEF ISSCommit, Word
<1>2. normalize_spike_pc(c.pc) \in Word
  BY <1>1, WordFacts DEF normalize_spike_pc
<1>3. QED BY <1>2 DEF normalize_spike_commit, ISSCommit, ComparedCommits

(* A trace with its addresses made relative to the program is as long as   *)
(* it was.                                                                 *)
LEMMA NormalizedTrace ==
  ASSUME NEW t \in Seq(ISSCommit)
  PROVE  /\ t \in Seq(ComparedCommits)
         /\ normalize_spike_trace(t) \in Seq(ComparedCommits)
         /\ Len(normalize_spike_trace(t)) = Len(t)
<1>1. DOMAIN t = 1 .. Len(t) /\ \A i \in 1 .. Len(t) : t[i] \in ISSCommit
  OBVIOUS
<1>2. normalize_spike_trace(t) = [i \in 1 .. Len(t) |-> normalize_spike_commit(t[i])]
  BY <1>1 DEF normalize_spike_trace
<1>3. QED BY <1>1, <1>2, NormalizedCommit

(* compare_results, which looks at three of the five fields, finds nothing *)
(* exactly between a result and an equal one: a status goes with its final *)
(* pc, a count with its trace.                                             *)
LEMMA ComparisonIsExact ==
  ASSUME NEW r \in ISSResult, NEW s \in ISSResult
  PROVE  compare_results(r, normalize_spike_result(s)) = {} <=> r = normalize_spike_result(s)
<1> DEFINE n == normalize_spike_result(s)
<1>1. CASE s = Failure
  <2>0. normalize_spike_trace(<<>>) = <<>>
    <3>1. <<>> \in Seq(ISSCommit) /\ Len(<<>>) = 0
      OBVIOUS
    <3>2. /\ normalize_spike_trace(<<>>) \in Seq(ComparedCommits)
          /\ Len(normalize_spike_trace(<<>>)) = 0
      BY <3>1, NormalizedTrace
    <3>3. QED BY <3>2
  <2>1. n = Failure
    <3>1. s.final_pc = None /\ s.trace = <<>>
      BY <1>1 DEF Failure
    <3>2. n = [s EXCEPT !.final_pc = None, !.trace = <<>>]
      BY <2>0, <3>1 DEF normalize_spike_result
    <3>3. QED BY <1>1, <3>2 DEF Failure
  <2>2. CASE r = Failure
    <3>0. <<>> \in Seq(ComparedCommits)
      OBVIOUS
    <3>1. compare_traces(<<>>, <<>>) = {}
      BY <3>0, SameTraces
    <3>2. QED BY <2>1, <2>2, <3>1 DEF compare_results, Failure
  <2>3. CASE r # Failure
    <3>1. r.final_pc \in Nat /\ r.status = "PASS"
      BY <2>3 DEF ISSResult
    <3>2. r.final_pc # Failure.final_pc /\ r # Failure
      BY <3>1 DEF Failure, None
    <3>3. QED BY <2>1, <3>2 DEF compare_results
  <2>4. QED BY <2>2, <2>3
<1>2. CASE s # Failure
  <2>1. /\ s \in [status : {"PASS"}, final_pc : Nat, final_int_regs : RegisterFiles,
                  executed_count : Nat, trace : Seq(ISSCommit)]
        /\ s.executed_count = Len(s.trace)
    BY <1>2 DEF ISSResult
  <2>2. s.final_pc # None /\ s.final_pc \in Int /\ PROGRAM_BASE \in Int
    BY <2>1, BaseAssumption, ContractAssumption DEF None, Word
  <2>3. n = [status |-> "PASS", final_pc |-> normalize_spike_pc(s.final_pc),
             final_int_regs |-> s.final_int_regs, executed_count |-> s.executed_count,
             trace |-> normalize_spike_trace(s.trace)]
    <3>1. n = [s EXCEPT !.final_pc = normalize_spike_pc(s.final_pc),
                        !.trace = normalize_spike_trace(s.trace)]
      BY <2>2 DEF normalize_spike_result
    <3>2. QED BY <2>1, <3>1
  <2>4. normalize_spike_pc(s.final_pc) \in Nat
    BY <2>2, ContractAssumption DEF normalize_spike_pc, _u32
  <2>5. CASE r = Failure
    <3>1. r.final_pc # n.final_pc
      BY <2>3, <2>4, <2>5 DEF Failure, None
    <3>2. QED BY <3>1 DEF compare_results
  <2>6. CASE r # Failure
    <3>1. /\ r \in [status : {"PASS"}, final_pc : Nat, final_int_regs : RegisterFiles,
                    executed_count : Nat, trace : Seq(ISSCommit)]
          /\ r.executed_count = Len(r.trace)
      BY <2>6 DEF ISSResult
    <3>2. compare_traces(r.trace, n.trace) = {} <=> r.trace = n.trace
      BY <2>1, <2>3, <3>1, NormalizedTrace, SameTraces
    <3>3. n.executed_count = Len(n.trace)
      BY <2>1, <2>3, NormalizedTrace
    <3>4. r = n <=> r.final_pc = n.final_pc /\ r.final_int_regs = n.final_int_regs
                     /\ r.trace = n.trace
      BY <2>3, <3>1, <3>3
    <3>5. QED BY <3>2, <3>4 DEF compare_results
  <2>7. QED BY <2>5, <2>6
<1>3. QED BY <1>1, <1>2

-----------------------------------------------------------------------------
(* The Spike backend: the setup code.                                      *)

(* SpikeBackend's own copies of the shared definitions are these.          *)
LEMMA SpikeContract ==
  /\ Spike!Modulus = Modulus /\ Spike!Word = Word /\ Spike!Registers = Registers
  /\ Spike!RegisterFiles = RegisterFiles /\ Spike!ISSCommit = ISSCommit
  /\ Spike!ISSRequest = ISSRequest /\ Spike!None = None /\ Spike!Failure = Failure
  /\ \A pc_, regs_, t : Spike!Passed(pc_, regs_, t) = Passed(pc_, regs_, t)
<1>1. Spike!Modulus = Modulus /\ Spike!None = None
  BY DEF Spike!Modulus, Modulus, Spike!None, None
<1>2. Spike!Word = Word /\ Spike!Registers = Registers
  BY <1>1 DEF Spike!Word, Word, Spike!Registers, Registers
<1>3. Spike!RegisterFiles = RegisterFiles
  BY <1>2 DEF Spike!RegisterFiles, RegisterFiles
<1>4. Spike!ISSCommit = ISSCommit
  BY <1>1, <1>2 DEF Spike!ISSCommit, ISSCommit
<1>5. Spike!ISSRequest = ISSRequest
  BY <1>2, <1>3 DEF Spike!ISSRequest, ISSRequest
<1>6. Spike!Failure = Failure
  BY <1>1 DEF Spike!Failure, Failure, Spike!NoRegs, NoRegs
<1>7. \A pc_, regs_, t : Spike!Passed(pc_, regs_, t) = Passed(pc_, regs_, t)
  BY <1>3, <1>6 DEF Spike!Passed, Passed
<1>8. QED BY <1>1, <1>2, <1>3, <1>4, <1>5, <1>6, <1>7

(* Its copies of the instructions.                                         *)
LEMMA SpikeInstructions ==
  /\ Spike!RTypes = RTypes /\ Spike!Supported = Supported
  /\ \A x : Spike!BitSet(x) = BitSet(x)
  /\ \A S : Spike!FromBits(S) = FromBits(S)
  /\ Spike!ZeroRegisters = ZeroRegisters
  /\ \A initial, t : Spike!RegistersAfter(initial, t) = RegistersAfter(initial, t)
<1>1. Spike!RTypes = RTypes /\ Spike!Supported = Supported
  BY DEF Spike!RTypes, RTypes, Spike!Supported, Supported
<1>2. \A x : Spike!BitSet(x) = BitSet(x)
  BY DEF Spike!BitSet, BitSet
<1>3. \A S : Spike!FromBits(S) = FromBits(S)
  BY <1>2, SpikeContract DEF Spike!FromBits, FromBits
<1>4. Spike!ZeroRegisters = ZeroRegisters
  BY SpikeContract DEF Spike!ZeroRegisters, ZeroRegisters
<1>5. \A initial, t, n, r : Spike!RegisterAfter(initial, t, n, r) = RegisterAfter(initial, t, n, r)
  BY DEF Spike!RegisterAfter, RegisterAfter, Spike!Writers, Writers, Spike!Latest, Latest
<1>6. \A initial, t : Spike!RegistersAfter(initial, t) = RegistersAfter(initial, t)
  BY <1>5, SpikeContract DEF Spike!RegistersAfter, RegistersAfter
<1>7. QED BY <1>1, <1>2, <1>3, <1>4, <1>6

(* Its copies of the kinds.                                                *)
LEMMA SpikeKinds ==
  /\ Spike!LoadKinds = LoadKinds /\ Spike!StoreKinds = StoreKinds
  /\ Spike!BranchKinds = BranchKinds /\ Spike!ImmediateKinds = ImmediateKinds
  /\ Spike!OtherOps = OtherOps /\ Spike!OpKinds = OpKinds
<1>1. /\ Spike!LoadKinds = LoadKinds /\ Spike!StoreKinds = StoreKinds
      /\ Spike!BranchKinds = BranchKinds /\ Spike!ImmediateKinds = ImmediateKinds
  BY DEF Spike!LoadKinds, LoadKinds, Spike!StoreKinds, StoreKinds, Spike!BranchKinds, BranchKinds,
         Spike!ImmediateKinds, ImmediateKinds
<1>2. Spike!OtherOps = OtherOps
  BY DEF Spike!OtherOps, OtherOps
<1>3. Spike!OpKinds = OpKinds
  BY <1>2, SpikeInstructions DEF Spike!OpKinds, OpKinds
<1>4. QED BY <1>1, <1>2, <1>3

(* Its copies of the lines and the parsers.                                *)
LEMMA SpikeParsers ==
  /\ \A k, c, p, i, r, v : Spike!Line(k, c, p, i, r, v) = Line(k, c, p, i, r, v)
  /\ \A l, b, e : Spike!Accepts(l, b, e) = Accepts(l, b, e)
  /\ \A lines, b, e, x : Spike!parse_log(lines, b, e, x) = parse_log(lines, b, e, x)
  /\ \A lines : Spike!load_expected_trace(lines) = load_expected_trace(lines)
<1>1. \A k, c, p, i, r, v : Spike!Line(k, c, p, i, r, v) = Line(k, c, p, i, r, v)
  BY DEF Spike!Line, Line
<1>2. \A l, b, e : Spike!Accepts(l, b, e) = Accepts(l, b, e)
  BY DEF Spike!Accepts, Accepts
<1>3. \A lines, S : Spike!Selected(lines, S) = Selected(lines, S)
  BY DEF Spike!Selected, Selected, Spike!SelectedTo, SelectedTo
<1>4. \A l : Spike!Malformed(l) = Malformed(l) /\ Spike!CommitOf(l) = CommitOf(l)
  BY SpikeContract DEF Spike!Malformed, Malformed, Spike!CommitOf, CommitOf
<1>5. Spike!Error = Error /\ \A commits : Spike!Parsed(commits) = Parsed(commits)
  BY DEF Spike!Error, Error, Spike!Parsed, Parsed
<1>6. \A lines, b, e, x : Spike!parse_log(lines, b, e, x) = parse_log(lines, b, e, x)
  <2> TAKE lines, b, e, x
  <2> DEFINE S == {i \in DOMAIN lines : Accepts(lines[i], b, e)}
             accepted == Selected(lines, S)
  <2>1. {i \in DOMAIN lines : Spike!Accepts(lines[i], b, e)} = S
    BY <1>2
  <2> HIDE DEF S
  <2>2. Spike!Selected(lines, S) = accepted
    BY <1>3
  <2> HIDE DEF accepted
  <2>3. [i \in DOMAIN accepted |-> Spike!CommitOf(accepted[i])] =
          [i \in DOMAIN accepted |-> CommitOf(accepted[i])]
    BY <1>4
  <2>4. Spike!parse_log(lines, b, e, x) =
          IF accepted = <<>> \/ \E i \in DOMAIN accepted : Malformed(accepted[i]) THEN Error
          ELSE Parsed([i \in DOMAIN accepted |-> CommitOf(accepted[i])])
    BY <1>4, <1>5, <2>1, <2>2, <2>3 DEF Spike!parse_log
  <2>5. QED BY <2>4 DEF parse_log, S, accepted
<1>7. \A lines : Spike!load_expected_trace(lines) = load_expected_trace(lines)
  BY <1>3, <1>5 DEF Spike!load_expected_trace, load_expected_trace
<1>8. QED BY <1>1, <1>2, <1>6, <1>7

-----------------------------------------------------------------------------
(* The loads of the setup code.                                            *)
SetupEntries == [rd : Registers \ {0}, value : Word]

(* li takes at most two instructions.                                      *)
LEMMA LoadImmediateFacts ==
  ASSUME NEW r \in Registers \ {0}, NEW value \in Word
  PROVE  /\ Spike!LoadImmediate(r, value) \in Seq(SetupEntries)
         /\ Len(Spike!LoadImmediate(r, value)) <= 2
<1>1. value - (value % 16) \in Word
  BY ContractAssumption DEF Word
<1>2. [rd |-> r, value |-> value] \in SetupEntries
        /\ [rd |-> r, value |-> value - (value % 16)] \in SetupEntries
  BY <1>1 DEF SetupEntries
<1>3. CASE value < 16 \/ value % 16 = 0
  <2>1. Spike!LoadImmediate(r, value) = <<[rd |-> r, value |-> value]>>
    BY <1>3 DEF Spike!LoadImmediate, Spike!LowBits
  <2>2. QED BY <1>2, <2>1
<1>4. CASE ~ (value < 16 \/ value % 16 = 0)
  <2>1. Spike!LoadImmediate(r, value) =
          <<[rd |-> r, value |-> value - (value % 16)], [rd |-> r, value |-> value]>>
    BY <1>4 DEF Spike!LoadImmediate, Spike!LowBits
  <2>2. QED BY <1>2, <2>1
<1>5. QED BY <1>3, <1>4

(* What the setup code of one register is.                                 *)
LoadOf(n) == LET value == request.initial_int_regs[n]
             IN  IF value = 0 THEN <<>> ELSE Spike!LoadImmediate(n, value)

(* At most two for every register.                                         *)
LEMMA LoadOfFacts ==
  ASSUME request \in ISSRequest, NEW n \in Registers \ {0}
  PROVE  LoadOf(n) \in Seq(SetupEntries) /\ Len(LoadOf(n)) \in Nat /\ Len(LoadOf(n)) <= 2
<1>1. request.initial_int_regs[n] \in Word
  BY DEF ISSRequest, RegisterFiles
<1>2. CASE request.initial_int_regs[n] = 0
  BY <1>2 DEF LoadOf
<1>3. CASE request.initial_int_regs[n] # 0
  <2>1. LoadOf(n) = Spike!LoadImmediate(n, request.initial_int_regs[n])
    BY <1>3 DEF LoadOf
  <2>2. LoadOf(n) \in Seq(SetupEntries) /\ Len(LoadOf(n)) <= 2
    BY <1>1, <2>1, LoadImmediateFacts
  <2>3. Len(LoadOf(n)) \in Nat
    BY <2>2
  <2>4. QED BY <2>2, <2>3
<1>4. QED BY <1>2, <1>3

(* The equation Loads is given by.                                         *)
LoadsEquation(f) ==
  f = [n \in Registers |->
         IF n = 0 THEN <<>>
         ELSE LET value == request.initial_int_regs[n]
              IN  f[n - 1] \o (IF value = 0 THEN <<>> ELSE Spike!LoadImmediate(n, value))]

(* The same, with the code of one register named.                          *)
LEMMA LoadsStep ==
  ASSUME NEW f
  PROVE  LoadsEquation(f) <=>
           f = [n \in Registers |-> IF n = 0 THEN <<>> ELSE f[n - 1] \o LoadOf(n)]
BY DEF LoadsEquation, LoadOf

(* Loads satisfies its equation.                                           *)
LEMMA LoadsAreDefined ==
  ASSUME request \in ISSRequest
  PROVE  LoadsEquation(Spike!Loads)
<1> DEFINE N == INTEGER_REGISTER_COUNT - 1
           V == Seq(SetupEntries)
           advance == [p \in (1 .. N) \X V |-> p[2] \o LoadOf(p[1])]
<1>1. N \in Nat /\ Registers = 0 .. N /\ <<>> \in V
  BY ContractAssumption DEF Registers
<1>2. \A n \in 1 .. N : LoadOf(n) \in V
  BY <1>1, LoadOfFacts
<1>3. advance \in [(1 .. N) \X V -> V]
  <2>1. \A p \in (1 .. N) \X V : p[1] \in 1 .. N /\ p[2] \in V
    OBVIOUS
  <2>2. \A p \in (1 .. N) \X V : p[2] \o LoadOf(p[1]) \in V
    BY <1>2, <2>1
  <2>3. QED BY <2>1, <2>2
<1>4. \A n \in 1 .. N, s \in V : advance[<<n, s>>] = s \o LoadOf(n)
  OBVIOUS
<1> HIDE DEF N, V, advance
<1>5. PICK f \in [0 .. N -> V] : Recurses(f, N, <<>>, advance)
  BY <1>1, <1>3, RecursionExists
<1>6. \A n \in 0 .. N : f[n] = IF n = 0 THEN <<>> ELSE f[n - 1] \o LoadOf(n)
  <2> TAKE n \in 0 .. N
  <2>1. CASE n = 0
    BY <1>5, <2>1 DEF Recurses
  <2>2. CASE n # 0
    <3>1. n \in 1 .. N /\ n - 1 \in 0 .. N
      BY <1>1, <2>2
    <3>2. f[n] = advance[<<n, f[n - 1]>>] /\ f[n - 1] \in V
      BY <1>5, <3>1 DEF Recurses
    <3>3. QED BY <1>4, <2>2, <3>1, <3>2
  <2>3. QED BY <2>1, <2>2
<1>7. LoadsEquation(f)
  BY <1>1, <1>5, <1>6, LoadsStep
<1>8. Spike!Loads = CHOOSE g : LoadsEquation(g)
  BY SpikeContract DEF Spike!Loads, LoadsEquation
<1>9. QED BY <1>7, <1>8

(* The setup code is a sequence of loads, at most two for every register   *)
(* but x0.                                                                 *)
LEMMA SetupFacts ==
  ASSUME request \in ISSRequest
  PROVE  /\ Spike!Setup \in Seq(SetupEntries)
         /\ Len(Spike!Setup) \in Nat
         /\ Len(Spike!Setup) <= 2 * (INTEGER_REGISTER_COUNT - 1)
<1> DEFINE N == INTEGER_REGISTER_COUNT - 1
           f == Spike!Loads
           T == {n \in 0 .. N : f[n] \in Seq(SetupEntries) /\ Len(f[n]) <= 2 * n}
<1>1. N \in Nat /\ Registers = 0 .. N
  BY ContractAssumption DEF Registers
<1>2. f[0] = <<>> /\ \A n \in 1 .. N : f[n] = f[n - 1] \o LoadOf(n)
  <2>1. \A n \in 0 .. N : f[n] = IF n = 0 THEN <<>> ELSE f[n - 1] \o LoadOf(n)
    <3>1. LoadsEquation(f)
      BY LoadsAreDefined
    <3>2. f = [n \in Registers |-> IF n = 0 THEN <<>> ELSE f[n - 1] \o LoadOf(n)]
      BY <3>1, LoadsStep
    <3> HIDE DEF f
    <3>3. QED BY <1>1, <3>2
  <2> HIDE DEF f, N
  <2>2. 0 \in 0 .. N /\ \A n \in 1 .. N : n \in 0 .. N /\ n # 0
    BY <1>1
  <2>3. QED BY <2>1, <2>2
<1> HIDE DEF f, N
<1>3. 0 \in T
  <2>1. f[0] \in Seq(SetupEntries) /\ Len(f[0]) = 0 /\ 0 \in 0 .. N
    BY <1>1, <1>2
  <2>2. QED BY <2>1
<1>4. ASSUME NEW n \in 1 .. N, n - 1 \in T
      PROVE  n \in T
  <2>1. /\ f[n - 1] \in Seq(SetupEntries) /\ Len(f[n - 1]) \in Nat
        /\ Len(f[n - 1]) <= 2 * (n - 1) /\ n \in 0 .. N
    BY <1>1, <1>4
  <2>2. LoadOf(n) \in Seq(SetupEntries) /\ Len(LoadOf(n)) \in Nat /\ Len(LoadOf(n)) <= 2
    BY <1>1, LoadOfFacts
  <2>3. f[n - 1] \o LoadOf(n) \in Seq(SetupEntries)
          /\ Len(f[n - 1] \o LoadOf(n)) = Len(f[n - 1]) + Len(LoadOf(n))
    BY <2>1, <2>2
  <2>4. f[n] \in Seq(SetupEntries) /\ Len(f[n]) <= 2 * n
    <3>1. f[n] = f[n - 1] \o LoadOf(n)
      BY <1>2
    <3>2. Len(f[n - 1]) + Len(LoadOf(n)) <= 2 * n
      <4>1. /\ Len(f[n - 1]) \in Nat /\ Len(LoadOf(n)) \in Nat /\ Len(LoadOf(n)) <= 2 /\ n \in Nat
            /\ Len(f[n - 1]) <= 2 * (n - 1)
        BY <1>1, <2>1, <2>2
      <4>2. QED BY <4>1
    <3>3. QED BY <2>3, <3>1, <3>2
  <2>5. QED BY <2>1, <2>4
<1> HIDE DEF T
<1>5. N \in T
  BY <1>1, <1>3, <1>4, InductionTo
<1>6. Spike!Setup = f[N]
  BY DEF Spike!Setup, f, N
<1>7. QED BY <1>1, <1>5, <1>6 DEF T, N

-----------------------------------------------------------------------------
(* Spike's machine.                                                        *)

(* A logical right shift gives a word.                                     *)
LEMMA ShiftedRight ==
  ASSUME NEW x \in Word, NEW d \in Nat \ {0}
  PROVE  x \div d \in Word
<1>1. x \div d \in Int /\ x = (d * (x \div d)) + (x % d) /\ x % d \in 0 .. d - 1 /\ x \in Nat
  BY ContractAssumption DEF Word
<1>2. x \div d >= 0 /\ x \div d <= x
  BY <1>1
<1>3. QED BY <1>1, <1>2, ContractAssumption DEF Word

(* The operations of the machine give words.                               *)
LEMMA IsaAluFacts ==
  ASSUME NEW k \in RTypes \cup {"srl", "sltu"}, NEW x \in Word, NEW y \in Word
  PROVE  Spike!IsaAlu(k, x, y) \in Word
<1>1. x \in Int /\ y \in Int /\ Modulus \in Int /\ y % XLEN \in 0 .. XLEN - 1
  BY ContractAssumption DEF Word
<1>2. \A z \in Int : z % Modulus \in Word
  BY ContractAssumption DEF Word
<1>3. \A S \in SUBSET (0 .. XLEN - 1) : Spike!FromBits(S) \in Word
  BY FromBitsIsWord, SpikeInstructions
<1>4. CASE k \in {"add", "sub"}
  BY <1>1, <1>2, <1>4, SpikeContract DEF Spike!IsaAlu
<1>5. CASE k \in {"and", "or"}
  <2> DEFINE A == {i \in BitSet(x) : i \in BitSet(y)}
             O == BitSet(x) \cup BitSet(y)
  <2>1. A \in SUBSET (0 .. XLEN - 1) /\ O \in SUBSET (0 .. XLEN - 1)
    BY DEF BitSet
  <2>2. Spike!FromBits(A) \in Word /\ Spike!FromBits(O) \in Word
    BY <1>3, <2>1
  <2>3. {i \in Spike!BitSet(x) : i \in Spike!BitSet(y)} = A
          /\ Spike!BitSet(x) \cup Spike!BitSet(y) = O
    BY SpikeInstructions
  <2> HIDE DEF A, O
  <2>4. QED BY <1>5, <2>2, <2>3 DEF Spike!IsaAlu
<1>6. CASE k \in {"xor", "sll", "sra"}
  <2> DEFINE X == {i \in 0 .. XLEN - 1 : (i \in Spike!BitSet(x)) # (i \in Spike!BitSet(y))}
             L == {i \in y % XLEN .. XLEN - 1 : i - (y % XLEN) \in Spike!BitSet(x)}
             A == {i \in 0 .. XLEN - 1 :
                    (IF i + (y % XLEN) < XLEN THEN i + (y % XLEN) ELSE XLEN - 1) \in Spike!BitSet(x)}
  <2>1. X \in SUBSET (0 .. XLEN - 1) /\ A \in SUBSET (0 .. XLEN - 1)
    OBVIOUS
  <2>2. L \in SUBSET (0 .. XLEN - 1)
    BY <1>1
  <2>3. Spike!FromBits(X) \in Word /\ Spike!FromBits(L) \in Word /\ Spike!FromBits(A) \in Word
    <3> HIDE DEF X, L, A
    <3> QED BY <1>3, <2>1, <2>2
  <2>4. CASE k = "xor"
    BY <2>3, <2>4 DEF Spike!IsaAlu
  <2>5. CASE k = "sll"
    BY <2>3, <2>5 DEF Spike!IsaAlu
  <2>6. CASE k = "sra"
    BY <2>3, <2>6 DEF Spike!IsaAlu
  <2>7. QED BY <1>6, <2>4, <2>5, <2>6
<1>7. CASE k = "srl"
  <2>1. 2^(y % XLEN) \in Nat \ {0}
    BY <1>1, PowersOfTwo
  <2>2. x \div 2^(y % XLEN) \in Word
    BY <2>1, ShiftedRight
  <2>3. QED BY <1>7, <2>2 DEF Spike!IsaAlu
<1>8. CASE k \in {"slt", "sltu"}
  <2>1. 0 \in Word /\ 1 \in Word
    BY ContractAssumption DEF Word
  <2>2. QED BY <1>8, <2>1 DEF Spike!IsaAlu
<1>9. QED BY <1>4, <1>5, <1>6, <1>7, <1>8 DEF RTypes

(* The operations on immediates are among them.                            *)
LEMMA ImmediateOpsFacts ==
  ASSUME NEW k \in DOMAIN Spike!ImmediateOps
  PROVE  Spike!ImmediateOps[k] \in RTypes \cup {"srl", "sltu"}
BY DEF Spike!ImmediateOps, RTypes

(* What a narrow access moves makes a word.                                *)
LEMMA NarrowWords ==
  Spike!NarrowLoaded \in Word /\ Spike!NarrowStored \in Word
<1>1. \A S \in SUBSET (0 .. XLEN - 1) : Spike!FromBits(S) \in Word
  BY FromBitsIsWord, SpikeInstructions
<1>2. Spike!NarrowLoaded \in Word
  <2> DEFINE word == Spike!BitSet(machine.ram[Spike!Container])
             S == {i \in 0 .. XLEN - 1 :
                     \/ i < Spike!Moved /\ Spike!First + i \in word
                     \/ /\ i >= Spike!Moved /\ Spike!Current.kind \in {"lb", "lh"}
                        /\ Spike!First + Spike!Moved - 1 \in word}
  <2>1. S \in SUBSET (0 .. XLEN - 1)
    OBVIOUS
  <2>2. Spike!NarrowLoaded = Spike!FromBits(S)
    BY DEF Spike!NarrowLoaded
  <2> HIDE DEF S
  <2>3. QED BY <1>1, <2>1, <2>2
<1>3. Spike!NarrowStored \in Word
  <2> DEFINE S == {i \in 0 .. XLEN - 1 :
                     IF i \in Spike!First .. Spike!First + Spike!Moved - 1
                     THEN i - Spike!First \in Spike!BitSet(Spike!Right)
                     ELSE i \in Spike!BitSet(machine.ram[Spike!Container])}
  <2>1. S \in SUBSET (0 .. XLEN - 1)
    OBVIOUS
  <2>2. Spike!NarrowStored = Spike!FromBits(S)
    BY DEF Spike!NarrowStored
  <2> HIDE DEF S
  <2>3. QED BY <1>1, <2>1, <2>2
<1>4. QED BY <1>2, <1>3

(* The instructions of the emulator and of the core.                       *)
PlainKinds == RTypes \cup {"addi", "beq", "bne", "blt", "bge", "lw", "sw"}

(* Spike takes them for legal ones, and for none of the others.            *)
LEMMA PlainKindsFacts ==
  ASSUME NEW k \in PlainKinds
  PROVE  /\ k \in Spike!Accepted \ Spike!Illegal
         /\ k \notin Spike!NarrowLoads \cup Spike!NarrowStores
         /\ k \notin DOMAIN Spike!ImmediateOps
         /\ k \notin {"jal", "srl", "sltu", "bltu", "bgeu", "branch_reserved"}
<1>1. /\ k \notin Spike!NarrowLoads \cup Spike!NarrowStores
      /\ k \notin {"jal", "srl", "sltu", "bltu", "bgeu", "branch_reserved"}
  BY DEF PlainKinds, RTypes, Spike!NarrowLoads, Spike!NarrowStores
<1>2. k \notin DOMAIN Spike!ImmediateOps
  BY DEF PlainKinds, RTypes, Spike!ImmediateOps
<1>3. k \in Spike!Accepted
  BY SpikeKinds DEF PlainKinds, Spike!Accepted, LoadKinds, StoreKinds, BranchKinds, ImmediateKinds,
                    OpKinds
<1>4. k \notin Spike!Illegal
  <2>1. k \notin DOMAIN OtherOps
    BY DEF PlainKinds, RTypes, OtherOps
  <2>2. k \notin {"load_reserved", "store_reserved", "branch_reserved", "op_imm_reserved"}
    BY DEF PlainKinds, RTypes
  <2>3. QED BY <2>1, <2>2, SpikeKinds DEF Spike!Illegal
<1>5. QED BY <1>1, <1>2, <1>3, <1>4

(* What Spike makes of them.                                               *)
LEMMA RunPlainInstruction ==
  ASSUME Spike!RunInstruction, Spike!Current.kind \in PlainKinds
  PROVE  LET k    == Spike!Current.kind
             rd   == Spike!Current.rd
             next == (machine.pc + 4) % Modulus
         IN  \/ k = "addi" /\ Spike!Retire(rd, Spike!Sum, machine.ram, next)
             \/ /\ k \in RTypes
                /\ Spike!Retire(rd, Spike!IsaAlu(k, Spike!Left, Spike!Right), machine.ram, next)
             \/ /\ k \in {"beq", "bne", "blt", "bge"}
                /\ Spike!Retire(0, None, machine.ram, IF Spike!Taken THEN Spike!Target ELSE next)
             \/ k = "lw" /\ Spike!Retire(rd, machine.ram[Spike!Sum], machine.ram, next)
             \/ k = "sw" /\ Spike!Retire(0, None, [machine.ram EXCEPT ![Spike!Sum] = Spike!Right], next)
<1> DEFINE k == Spike!Current.kind
           rd == Spike!Current.rd
           next == (machine.pc + 4) % Modulus
<1>1. /\ k \notin Spike!NarrowLoads \cup Spike!NarrowStores
      /\ k \notin DOMAIN Spike!ImmediateOps
      /\ k \notin {"jal", "srl", "sltu", "bltu", "bgeu", "branch_reserved"}
  BY PlainKindsFacts
<1>2. \/ k = "addi" /\ Spike!Retire(rd, Spike!Sum, machine.ram, next)
      \/ /\ k \in RTypes \cup {"srl", "sltu"}
         /\ Spike!Retire(rd, Spike!IsaAlu(k, Spike!Left, Spike!Right), machine.ram, next)
      \/ /\ k \in BranchKinds
         /\ Spike!Retire(0, None, machine.ram, IF Spike!Taken THEN Spike!Target ELSE next)
      \/ k = "lw" /\ Spike!Retire(rd, machine.ram[Spike!Sum], machine.ram, next)
      \/ k = "sw" /\ Spike!Retire(0, None, [machine.ram EXCEPT ![Spike!Sum] = Spike!Right], next)
  BY <1>1, SpikeContract, SpikeInstructions, SpikeKinds DEF Spike!RunInstruction
<1> HIDE DEF k, rd, next
<1>3. k \in BranchKinds => k \in {"beq", "bne", "blt", "bge"}
  BY <1>1 DEF BranchKinds
<1>4. k \in RTypes \cup {"srl", "sltu"} => k \in RTypes
  BY <1>1
<1>5. QED BY <1>2, <1>3, <1>4 DEF k, rd, next

(* Spike's machine between two of its instructions.                        *)
Machines == [pc : Nat, regs : RegisterFiles, ram : [Spike!Ram -> Word] \cup {<<>>},
             steps : Nat, trapped : BOOLEAN]

(* The types of the Spike backend.  The pc is aligned once the boot code   *)
(* has run.                                                                *)
SpikeTypeOK ==
  /\ request \in ISSRequest
  /\ stage \in {"validate", "build", "run", "parse", "done"}
  /\ limit \in Nat
  /\ machine \in Machines
  /\ stage = "run" => machine.ram \in [Spike!Ram -> Word]
  /\ machine.steps > 0 => machine.pc % 4 = 0
  /\ machine.steps = 0 => machine.pc = BOOT_PC
  /\ log \in Seq(Lines)
  /\ spike_result \in ISSResult

(* The setup code is in the RAM.                                           *)
LEMMA SetupInRam ==
  ASSUME request \in ISSRequest, machine \in Machines, Spike!InSetup, machine.pc % 4 = 0
  PROVE  machine.pc \in Spike!Ram
<1>1. /\ PROGRAM_BASE \in Nat /\ SETUP_BASE \in Nat /\ DATA_BASE \in 0 .. Modulus - 1
      /\ Modulus \in Nat /\ INTEGER_REGISTER_COUNT \in Nat /\ PROGRAM_WORD_CAPACITY \in Nat
      /\ PROGRAM_BASE + 4 * PROGRAM_WORD_CAPACITY < SETUP_BASE
      /\ SETUP_BASE + 8 * INTEGER_REGISTER_COUNT <= DATA_BASE
  BY ContractAssumption, BaseAssumption, SpikeAssumption DEF Word
<1>2. Len(Spike!Setup) \in Nat /\ Len(Spike!Setup) <= 2 * (INTEGER_REGISTER_COUNT - 1)
  BY SetupFacts
<1>3. /\ machine.pc \in Nat /\ SETUP_BASE <= machine.pc
      /\ machine.pc <= SETUP_BASE + 4 * Len(Spike!Setup)
  BY DEF Machines, Spike!InSetup
<1>4. machine.pc \in 0 .. Modulus - 1 /\ PROGRAM_BASE <= machine.pc
  BY <1>1, <1>2, <1>3
<1>5. QED BY <1>4, SpikeContract DEF Spike!Ram, Word

(* An address of the RAM is a word, and holds one.                         *)
LEMMA RamFacts ==
  ASSUME NEW ram \in [Spike!Ram -> Word], NEW a \in Spike!Ram
  PROVE  a \in Word /\ a \in Nat /\ ram[a] \in Word
BY SpikeContract, ContractAssumption DEF Spike!Ram, Word

(* A retired instruction writes a word to a register or no register.       *)
LEMMA RetireKeepsTypes ==
  ASSUME SpikeTypeOK, stage = "run", machine.pc \in Spike!Ram,
         NEW rd \in Registers, NEW value, rd # 0 => value \in Word,
         NEW ram \in [Spike!Ram -> Word], NEW pc_ \in Nat, pc_ % 4 = 0,
         Spike!Retire(rd, value, ram, pc_)
  PROVE  SpikeTypeOK'
<1> DEFINE l == Line("commit", 0, machine.pc, machine.ram[machine.pc],
                     IF rd = 0 THEN None ELSE rd, IF rd = 0 THEN None ELSE value)
           regs_ == IF rd = 0 THEN machine.regs ELSE [machine.regs EXCEPT ![rd] = value]
<1>1. machine.pc \in Word /\ machine.ram[machine.pc] \in Word
  BY RamFacts DEF SpikeTypeOK
<1>2. rd # 0 => rd # None /\ value # None /\ rd \in Nat
  BY ContractAssumption DEF Registers, Word, None
<1>3. l \in Lines
  BY <1>1, <1>2 DEF Lines, LineKinds, Line
<1>4. regs_ \in RegisterFiles
  <2>1. machine.regs \in RegisterFiles
    BY DEF SpikeTypeOK, Machines
  <2>2. CASE rd = 0
    BY <2>1, <2>2
  <2>3. CASE rd # 0
    <3>1. machine.regs \in [Registers -> Word] /\ machine.regs[0] = 0 /\ 0 \in Registers
      BY <2>1, ContractAssumption DEF RegisterFiles, Registers
    <3>2. [machine.regs EXCEPT ![rd] = value] \in [Registers -> Word]
      BY <2>3, <3>1
    <3>3. [machine.regs EXCEPT ![rd] = value][0] = 0
      BY <2>3, <3>1
    <3>4. QED BY <2>3, <3>2, <3>3 DEF RegisterFiles
  <2>4. QED BY <2>2, <2>3
<1>5. /\ log' = Append(log, l) /\ UNCHANGED <<request, stage, limit, spike_result>>
      /\ machine' = [machine EXCEPT !.pc = pc_, !.ram = ram, !.steps = machine.steps + 1,
                                    !.regs = regs_]
  BY SpikeParsers, SpikeContract DEF Spike!Retire
<1> HIDE DEF l, regs_
<1>6. log' \in Seq(Lines)
  BY <1>3, <1>5 DEF SpikeTypeOK
<1>7. machine' = [pc |-> pc_, regs |-> regs_, ram |-> ram, steps |-> machine.steps + 1,
                  trapped |-> machine.trapped]
      /\ machine.steps + 1 \in Nat /\ machine.trapped \in BOOLEAN
  <2>1. machine \in Machines
    BY DEF SpikeTypeOK
  <2> HIDE DEF SpikeTypeOK
  <2>2. machine = [pc |-> machine.pc, regs |-> machine.regs, ram |-> machine.ram,
                   steps |-> machine.steps, trapped |-> machine.trapped]
    BY <2>1 DEF Machines
  <2>3. machine.steps \in Nat /\ machine.trapped \in BOOLEAN
    BY <2>1 DEF Machines
  <2>4. machine' = [pc |-> pc_, regs |-> regs_, ram |-> ram, steps |-> machine.steps + 1,
                    trapped |-> machine.trapped]
    BY <1>5, <2>2
  <2>5. QED BY <2>3, <2>4
<1>8. machine' \in Machines /\ machine'.ram = ram /\ machine'.pc = pc_
  BY <1>4, <1>7 DEF Machines
<1>8a. machine'.steps # 0
  BY <1>7 DEF SpikeTypeOK, Machines
<1>9. QED BY <1>5, <1>6, <1>8, <1>8a DEF SpikeTypeOK, Machines, Spike!Ram

(* The image is a memory.                                                  *)
LEMMA ImageTyped ==
  ASSUME request \in ISSRequest
  PROVE  Spike!Image \in [Spike!Ram -> Word]
<1>1. /\ request.program_word_count \in 0 .. PROGRAM_WORD_CAPACITY
      /\ request.program \in [0 .. PROGRAM_WORD_CAPACITY - 1 -> Word]
      /\ PROGRAM_WORD_CAPACITY \in Nat /\ PROGRAM_BASE \in Nat
  BY ContractAssumption, BaseAssumption DEF ISSRequest, Word
<1>2. 0 \in Word /\ LoopWord \in Word
  BY ContractAssumption, SpikeAssumption DEF Word
<1>3. ASSUME NEW a \in Spike!Ram, a < Spike!program_end
      PROVE  request.program[(a - PROGRAM_BASE) \div 4] \in Word
  <2>1. a \in Nat /\ a >= PROGRAM_BASE /\ a < PROGRAM_BASE + 4 * request.program_word_count
    BY <1>3, SpikeContract, ContractAssumption DEF Spike!Ram, Spike!program_end, Word
  <2>2. (a - PROGRAM_BASE) \div 4 \in 0 .. PROGRAM_WORD_CAPACITY - 1
    BY <1>1, <2>1
  <2>3. QED BY <1>1, <2>2
<1>4. QED BY <1>2, <1>3 DEF Spike!Image

(* The boot code's lines are lines of a log.                               *)
LEMMA BootLinesTyped ==
  [i \in 1 .. SPIKE_BOOT_INSTRUCTION_COUNT |->
     Line("commit", 0, BOOT_PC + 4 * (i - 1), 0, None, None)] \in Seq(Lines)
<1>1. /\ BOOT_PC \in Nat /\ PROGRAM_BASE \in 0 .. Modulus - 1 /\ Modulus \in Nat
      /\ SPIKE_BOOT_INSTRUCTION_COUNT \in Nat
      /\ BOOT_PC + 4 * SPIKE_BOOT_INSTRUCTION_COUNT <= PROGRAM_BASE
  BY ContractAssumption, BaseAssumption, SpikeAssumption DEF Word
<1>2. \A i \in 1 .. SPIKE_BOOT_INSTRUCTION_COUNT : BOOT_PC + 4 * (i - 1) \in 0 .. Modulus - 1
  BY <1>1
<1>3. 0 \in Word
  BY ContractAssumption DEF Word
<1>4. \A i \in 1 .. SPIKE_BOOT_INSTRUCTION_COUNT :
        Line("commit", 0, BOOT_PC + 4 * (i - 1), 0, None, None) \in Lines
  BY <1>2, <1>3 DEF Lines, LineKinds, Line, Word
<1>5. QED BY <1>1, <1>4

(* The lines parse_log appends, before it has looked at their fields.      *)
AcceptedAt(lines, base, end) == {i \in DOMAIN lines : Accepts(lines[i], base, end)}

(* What the parser makes of a log: commits, or an error.                   *)
LEMMA ParsedLog ==
  ASSUME NEW lines \in Seq(Lines), NEW base, NEW end, NEW expected
  PROVE  LET parsed   == parse_log(lines, base, end, expected)
             accepted == Selected(lines, AcceptedAt(lines, base, end))
         IN  /\ parsed.error \in BOOLEAN
             /\ ~ parsed.error =>
                  /\ parsed.commits \in Seq(ISSCommit)
                  /\ Len(parsed.commits) = Len(accepted) /\ Len(accepted) > 0
                  /\ \A i \in DOMAIN lines : Accepts(lines[i], base, end) =>
                       ~ Malformed(lines[i]) /\ CommitOf(lines[i]) \in ISSCommit
<1> DEFINE S == AcceptedAt(lines, base, end)
           accepted == Selected(lines, S)
           parsed == parse_log(lines, base, end, expected)
           commits == [i \in DOMAIN accepted |-> CommitOf(accepted[i])]
<1>1. parsed = IF accepted = <<>> \/ \E i \in DOMAIN accepted : Malformed(accepted[i]) THEN Error
               ELSE Parsed(commits)
  BY DEF parse_log, AcceptedAt
<1> HIDE DEF S
<1>2a. accepted \in Seq(Lines) /\ HoldsLines(accepted, lines, S)
  BY SelectedFacts
<1>2. /\ accepted \in Seq(Lines)
      /\ \A k \in DOMAIN accepted : \E n \in S \cap DOMAIN lines : accepted[k] = lines[n]
      /\ \A n \in S \cap DOMAIN lines : \E k \in DOMAIN accepted : accepted[k] = lines[n]
  BY <1>2a DEF HoldsLines
<1> HIDE DEF S, accepted, parsed
<1>3. CASE accepted = <<>> \/ \E i \in DOMAIN accepted : Malformed(accepted[i])
  <2>1. parsed.error = TRUE
    BY <1>1, <1>3 DEF Error
  <2>2. QED BY <2>1 DEF parsed
<1>4. CASE accepted # <<>> /\ \A i \in DOMAIN accepted : ~ Malformed(accepted[i])
  <2>1. parsed.error = FALSE /\ parsed.commits = commits
    BY <1>1, <1>4 DEF Parsed
  <2>2. ASSUME NEW l \in Lines, ~ Malformed(l)
        PROVE  CommitOf(l) \in ISSCommit
    BY <2>2 DEF Lines, Malformed, CommitOf, ISSCommit
  <2>3. \A i \in 1 .. Len(accepted) : CommitOf(accepted[i]) \in ISSCommit
    BY <1>2, <1>4, <2>2
  <2>4. DOMAIN accepted = 1 .. Len(accepted) /\ Len(accepted) \in Nat /\ Len(accepted) > 0
    BY <1>2, <1>4
  <2>5. commits \in Seq(ISSCommit) /\ Len(commits) = Len(accepted)
    BY <2>3, <2>4
  <2>6. \A i \in DOMAIN lines : Accepts(lines[i], base, end) => ~ Malformed(lines[i])
    BY <1>2, <1>4 DEF S, AcceptedAt
  <2>7. \A i \in DOMAIN lines : Accepts(lines[i], base, end) =>
          ~ Malformed(lines[i]) /\ CommitOf(lines[i]) \in ISSCommit
    BY <2>2, <2>6
  <2> HIDE DEF commits
  <2>8. QED BY <2>1, <2>4, <2>5, <2>7 DEF parsed, accepted, S, commits
<1>5. QED BY <1>3, <1>4

(* The commits are read off the lines one by one.                          *)
LEMMA ParsedTrace ==
  ASSUME NEW lines, NEW base, NEW end, NEW expected,
         ~ parse_log(lines, base, end, expected).error
  PROVE  LET accepted == Selected(lines, AcceptedAt(lines, base, end))
         IN  parse_log(lines, base, end, expected).commits =
               [i \in DOMAIN accepted |-> CommitOf(accepted[i])]
<1> DEFINE accepted == Selected(lines, AcceptedAt(lines, base, end))
           commits == [i \in DOMAIN accepted |-> CommitOf(accepted[i])]
           parsed == parse_log(lines, base, end, expected)
<1>1. parsed = IF accepted = <<>> \/ \E i \in DOMAIN accepted : Malformed(accepted[i]) THEN Error
               ELSE Parsed(commits)
  BY DEF parse_log, AcceptedAt
<1>2. ~ parsed.error
  OBVIOUS
<1> HIDE DEF parsed, accepted, commits
<1>3. parsed.commits = commits
  BY <1>1, <1>2 DEF Error, Parsed
<1>4. QED BY <1>3 DEF parsed, commits, accepted

(* A log without an error has at least one commit.                         *)
LEMMA ParsedCommits ==
  ASSUME NEW lines \in Seq(Lines), NEW base, NEW end, NEW expected,
         ~ parse_log(lines, base, end, expected).error
  PROVE  /\ parse_log(lines, base, end, expected).commits \in Seq(ISSCommit)
         /\ Len(parse_log(lines, base, end, expected).commits) \in Nat \ {0}
<1> DEFINE accepted == Selected(lines, AcceptedAt(lines, base, end))
           parsed == parse_log(lines, base, end, expected)
<1>1. ~ parsed.error => /\ parsed.commits \in Seq(ISSCommit)
                        /\ Len(parsed.commits) = Len(accepted) /\ Len(accepted) > 0
  BY ParsedLog
<1>2. ~ parsed.error
  OBVIOUS
<1> HIDE DEF accepted, parsed
<1>3. Len(parsed.commits) \in Nat
  BY <1>1, <1>2
<1>4. QED BY <1>1, <1>2, <1>3 DEF parsed

(* The types at the call.                                                  *)
LEMMA SpikeTypesInit ==
  ASSUME request \in ISSRequest, Spike!Called
  PROVE  SpikeTypeOK
<1>1. ZeroRegisters \in RegisterFiles
  BY ContractAssumption DEF ZeroRegisters, RegisterFiles, Registers, Word
<1>2. BOOT_PC \in Nat
  BY SpikeAssumption, ContractAssumption DEF Word
<1>3. /\ Spike!PoweredOff \in Machines /\ Spike!PoweredOff.steps = 0
      /\ Spike!PoweredOff.pc = BOOT_PC
  BY <1>1, <1>2, SpikeInstructions DEF Spike!PoweredOff, Machines
<1>4. <<>> \in Seq(Lines) /\ Failure \in ISSResult
  BY DEF ISSResult
<1>5. QED BY <1>3, <1>4, SpikeContract DEF Spike!Called, SpikeTypeOK

(* An instruction that is fetched, its operands and its targets.           *)
LEMMA FetchedInRam ==
  ASSUME SpikeTypeOK, Spike!Fetches
  PROVE  /\ stage = "run" /\ machine.pc \in Spike!Ram
         /\ machine.pc \in Nat /\ machine.pc % 4 = 0
         /\ machine.ram[machine.pc] \in Word
         /\ Spike!Current.rd \in Registers /\ Spike!Current.imm \in Int
         /\ Spike!Left \in Word /\ Spike!Right \in Word
         /\ Spike!Sum \in Word /\ Spike!Target \in Nat
<1>1. stage = "run" /\ machine.pc \in Spike!Ram /\ machine.ram \in [Spike!Ram -> Word]
  BY DEF Spike!Fetches, Spike!Running, SpikeTypeOK
<1>2. machine.pc \in Nat /\ machine.ram[machine.pc] \in Word
  BY <1>1, RamFacts
<1>3. /\ Spike!Current.rd \in Registers /\ Spike!Current.rs1 \in Registers
      /\ Spike!Current.rs2 \in Registers /\ Spike!Current.imm \in Int
  BY <1>2, DecodeFacts DEF Spike!Current
<1>4. machine.regs \in [Registers -> Word]
  BY DEF SpikeTypeOK, Machines, RegisterFiles
<1>5. Spike!Left \in Word /\ Spike!Right \in Word
  BY <1>3, <1>4 DEF Spike!Left, Spike!Right
<1>6. Spike!Sum \in Word /\ Spike!Target \in Nat
  <2>1. Spike!Left + Spike!Current.imm \in Int /\ machine.pc + Spike!Current.imm \in Int
    BY <1>2, <1>3, <1>5, ContractAssumption DEF Word
  <2>2. QED BY <2>1, SpikeContract, ContractAssumption DEF Spike!Sum, Spike!Target, Word
<1>7. machine.pc % 4 = 0
  BY DEF Spike!Fetches, SpikeTypeOK, Machines
<1>8. QED BY <1>1, <1>2, <1>3, <1>5, <1>6, <1>7

(* A step of the machine that retires an instruction, with its types.      *)
Retires(rd, value, ram, pc_) ==
  /\ Spike!Retire(rd, value, ram, pc_)
  /\ rd \in Registers /\ ram \in [Spike!Ram -> Word] /\ pc_ \in Nat /\ pc_ % 4 = 0
  /\ rd # 0 => value \in Word

(* Every kind of instruction retires: a word or nothing is written to a    *)
(* register, the memory stays a memory, and the next pc is aligned.        *)
LEMMA RunInstructionRetires ==
  ASSUME SpikeTypeOK, Spike!RunInstruction
  PROVE  /\ stage = "run" /\ machine.pc \in Spike!Ram
         /\ \E rd, value, ram, pc_ : Retires(rd, value, ram, pc_)
<1> DEFINE i == Spike!Current
           k == i.kind
           next == (machine.pc + 4) % Modulus
<1>0. /\ Spike!Fetches /\ ~ Spike!Traps
      /\ \/ k = "addi" /\ Spike!Retire(i.rd, Spike!Sum, machine.ram, next)
         \/ k \in DOMAIN Spike!ImmediateOps
              /\ Spike!Retire(i.rd, Spike!IsaAlu(Spike!ImmediateOps[k], Spike!Left, i.imm % Modulus),
                              machine.ram, next)
         \/ k \in RTypes \cup {"srl", "sltu"}
              /\ Spike!Retire(i.rd, Spike!IsaAlu(k, Spike!Left, Spike!Right), machine.ram, next)
         \/ k \in BranchKinds
              /\ Spike!Retire(0, None, machine.ram, IF Spike!Taken THEN Spike!Target ELSE next)
         \/ k = "jal" /\ Spike!Retire(i.rd, next, machine.ram, Spike!Target)
         \/ k = "lw" /\ Spike!Retire(i.rd, machine.ram[Spike!Sum], machine.ram, next)
         \/ k = "sw" /\ Spike!Retire(0, None, [machine.ram EXCEPT ![Spike!Sum] = Spike!Right], next)
         \/ k \in Spike!NarrowLoads /\ Spike!Retire(i.rd, Spike!NarrowLoaded, machine.ram, next)
         \/ /\ k \in Spike!NarrowStores
            /\ Spike!Retire(0, None, [machine.ram EXCEPT ![Spike!Container] = Spike!NarrowStored],
                            next)
  BY SpikeContract, SpikeInstructions, SpikeKinds DEF Spike!RunInstruction
<1>1. /\ machine.pc \in Spike!Ram /\ machine.pc \in Nat /\ machine.pc % 4 = 0
      /\ i.rd \in Registers /\ Spike!Left \in Word /\ Spike!Right \in Word
      /\ Spike!Sum \in Word /\ Spike!Target \in Nat /\ machine.ram \in [Spike!Ram -> Word]
  BY <1>0, FetchedInRam DEF SpikeTypeOK
<1>2. next \in Word /\ next \in Nat /\ next % 4 = 0 /\ 0 \in Registers
  <2>1. /\ machine.pc \in 0 .. Modulus - 1 /\ machine.pc % 4 = 0
        /\ Modulus \in Nat /\ Modulus % 4 = 0
    BY <1>1, SpikeContract, ContractAssumption DEF Spike!Ram, Word
  <2>2. machine.pc + 4 <= Modulus
    BY <2>1
  <2>3. next = IF machine.pc + 4 = Modulus THEN 0 ELSE machine.pc + 4
    BY <2>1, <2>2
  <2>4. next \in 0 .. Modulus - 1 /\ next % 4 = 0
    BY <2>1, <2>2, <2>3
  <2>5. QED BY <2>4, ContractAssumption DEF Registers, Word
<1>2a. stage = "run"
  BY <1>0, FetchedInRam
<1>3. Spike!Taken => Spike!Target % 4 = 0
  BY <1>0 DEF Spike!Traps
<1>4. /\ k \in {"lw", "sw"} => Spike!Sum \in Spike!Ram
      /\ k \in Spike!NarrowStores => Spike!Container \in Spike!Ram
  BY <1>0 DEF Spike!Traps
<1>5. k = "jal" => Spike!Taken
  BY DEF Spike!Taken
<1>5a. i.imm % Modulus \in Word
  <2>1. i.imm \in Int
    BY <1>0, FetchedInRam
  <2>2. QED BY <2>1, ContractAssumption DEF Word
<1> HIDE DEF k, i, next
<1>6. CASE k = "addi" /\ Spike!Retire(i.rd, Spike!Sum, machine.ram, next)
  <2>1. Retires(i.rd, Spike!Sum, machine.ram, next)
    BY <1>1, <1>2, <1>6 DEF Retires
  <2>2. QED BY <1>1, <1>2a, <2>1
<1>6a. CASE /\ k \in DOMAIN Spike!ImmediateOps
            /\ Spike!Retire(i.rd, Spike!IsaAlu(Spike!ImmediateOps[k], Spike!Left, i.imm % Modulus),
                            machine.ram, next)
  <2> DEFINE v == Spike!IsaAlu(Spike!ImmediateOps[k], Spike!Left, i.imm % Modulus)
  <2>1. v \in Word
    BY <1>1, <1>5a, <1>6a, IsaAluFacts, ImmediateOpsFacts
  <2>2. Spike!Retire(i.rd, v, machine.ram, next)
    BY <1>6a
  <2> HIDE DEF v
  <2>3. Retires(i.rd, v, machine.ram, next)
    BY <1>1, <1>2, <2>1, <2>2 DEF Retires
  <2>4. QED BY <1>1, <1>2a, <2>3
<1>7. CASE /\ k \in RTypes \cup {"srl", "sltu"}
           /\ Spike!Retire(i.rd, Spike!IsaAlu(k, Spike!Left, Spike!Right), machine.ram, next)
  <2>1. Spike!IsaAlu(k, Spike!Left, Spike!Right) \in Word
    BY <1>1, <1>7, IsaAluFacts
  <2>2. Retires(i.rd, Spike!IsaAlu(k, Spike!Left, Spike!Right), machine.ram, next)
    BY <1>1, <1>2, <1>7, <2>1 DEF Retires
  <2>3. QED BY <1>1, <1>2a, <2>2
<1>8. CASE Spike!Retire(0, None, machine.ram, IF Spike!Taken THEN Spike!Target ELSE next)
  <2>1. (IF Spike!Taken THEN Spike!Target ELSE next) \in Nat
          /\ (IF Spike!Taken THEN Spike!Target ELSE next) % 4 = 0
    BY <1>1, <1>2, <1>3
  <2>2. Retires(0, None, machine.ram, IF Spike!Taken THEN Spike!Target ELSE next)
    BY <1>1, <1>2, <1>8, <2>1 DEF Retires
  <2>3. QED BY <1>1, <1>2a, <2>2
<1>9. CASE k = "jal" /\ Spike!Retire(i.rd, next, machine.ram, Spike!Target)
  <2>1. Retires(i.rd, next, machine.ram, Spike!Target)
    BY <1>1, <1>2, <1>3, <1>5, <1>9 DEF Retires
  <2>2. QED BY <1>1, <1>2a, <2>1
<1>10. CASE k = "lw" /\ Spike!Retire(i.rd, machine.ram[Spike!Sum], machine.ram, next)
  <2>1. machine.ram[Spike!Sum] \in Word
    BY <1>1, <1>4, <1>10
  <2>2. Retires(i.rd, machine.ram[Spike!Sum], machine.ram, next)
    BY <1>1, <1>2, <1>10, <2>1 DEF Retires
  <2>3. QED BY <1>1, <1>2a, <2>2
<1>11. CASE k = "sw" /\ Spike!Retire(0, None, [machine.ram EXCEPT ![Spike!Sum] = Spike!Right], next)
  <2>1. [machine.ram EXCEPT ![Spike!Sum] = Spike!Right] \in [Spike!Ram -> Word]
    BY <1>1, <1>4, <1>11
  <2>2. Retires(0, None, [machine.ram EXCEPT ![Spike!Sum] = Spike!Right], next)
    BY <1>1, <1>2, <1>11, <2>1 DEF Retires
  <2>3. QED BY <1>1, <1>2a, <2>2
<1>12. CASE Spike!Retire(i.rd, Spike!NarrowLoaded, machine.ram, next)
  <2>1. Retires(i.rd, Spike!NarrowLoaded, machine.ram, next)
    BY <1>1, <1>2, <1>12, NarrowWords DEF Retires
  <2>2. QED BY <1>1, <1>2a, <2>1
<1>13. CASE /\ k \in Spike!NarrowStores
            /\ Spike!Retire(0, None, [machine.ram EXCEPT ![Spike!Container] = Spike!NarrowStored],
                            next)
  <2> DEFINE ram == [machine.ram EXCEPT ![Spike!Container] = Spike!NarrowStored]
  <2>1. ram \in [Spike!Ram -> Word]
    BY <1>1, <1>4, <1>13, NarrowWords
  <2>2. Spike!Retire(0, None, ram, next)
    BY <1>13
  <2> HIDE DEF ram
  <2>3. Retires(0, None, ram, next)
    BY <1>1, <1>2, <2>1, <2>2 DEF Retires
  <2>4. QED BY <1>1, <1>2a, <2>3
<1>14. QED BY <1>0, <1>6, <1>6a, <1>7, <1>8, <1>9, <1>10, <1>11, <1>12, <1>13

(* The setup code retires its loads and the jump.                          *)
LEMMA RunSetupRetires ==
  ASSUME SpikeTypeOK, Spike!RunSetup, machine.steps > 0
  PROVE  /\ stage = "run" /\ machine.pc \in Spike!Ram
         /\ \E rd, value, ram, pc_ :
              /\ Retires(rd, value, ram, pc_)
              /\ pc_ = IF (machine.pc - SETUP_BASE) \div 4 + 1 > Len(Spike!Setup)
                       THEN PROGRAM_BASE ELSE machine.pc + 4
<1>1. /\ stage = "run" /\ machine \in Machines /\ machine.pc % 4 = 0
      /\ Spike!InSetup /\ machine.ram \in [Spike!Ram -> Word]
  BY DEF SpikeTypeOK, Spike!RunSetup, Spike!Running
<1>2. machine.pc \in Spike!Ram /\ machine.pc \in Nat /\ machine.pc + 4 \in Nat
        /\ (machine.pc + 4) % 4 = 0
  BY <1>1, SetupInRam DEF SpikeTypeOK, Machines
<1>3. PROGRAM_BASE \in Nat /\ PROGRAM_BASE % 4 = 0 /\ 0 \in Registers
  BY ContractAssumption, BaseAssumption DEF Word, Registers
<1> DEFINE i == (machine.pc - SETUP_BASE) \div 4 + 1
<1>4. \/ i > Len(Spike!Setup) /\ Spike!Retire(0, None, machine.ram, PROGRAM_BASE)
      \/ /\ i <= Len(Spike!Setup)
         /\ Spike!Retire(Spike!Setup[i].rd, Spike!Setup[i].value, machine.ram, machine.pc + 4)
  <2>1. i \in Int /\ Len(Spike!Setup) \in Nat
    <3>1. SETUP_BASE \in Nat
      BY SpikeAssumption, ContractAssumption DEF Word
    <3>2. QED BY <1>2, <3>1, SetupFacts DEF SpikeTypeOK
  <2>2. QED BY <2>1, SpikeContract DEF Spike!RunSetup
<1>5. CASE i > Len(Spike!Setup) /\ Spike!Retire(0, None, machine.ram, PROGRAM_BASE)
  <2>1. Retires(0, None, machine.ram, PROGRAM_BASE)
    BY <1>1, <1>3, <1>5 DEF Retires
  <2>2. QED BY <1>1, <1>2, <1>5, <2>1
<1>5a. Len(Spike!Setup) \in Nat /\ i \in Int
  <2>1. SETUP_BASE \in Nat
    BY SpikeAssumption, ContractAssumption DEF Word
  <2>2. QED BY <1>2, <2>1, SetupFacts DEF SpikeTypeOK
<1>6. CASE /\ i <= Len(Spike!Setup)
           /\ Spike!Retire(Spike!Setup[i].rd, Spike!Setup[i].value, machine.ram, machine.pc + 4)
  <2>1. i \in 1 .. Len(Spike!Setup)
    <3>1. SETUP_BASE \in Nat /\ SETUP_BASE <= machine.pc
      BY <1>1, SpikeAssumption, ContractAssumption DEF Word, Spike!InSetup
    <3>2. QED BY <1>2, <1>6, <3>1
  <2>2. Spike!Setup[i] \in SetupEntries
    <3>1. Spike!Setup \in Seq(SetupEntries)
      BY SetupFacts DEF SpikeTypeOK
    <3> HIDE DEF i
    <3>2. QED BY <2>1, <3>1
  <2> HIDE DEF i
  <2>3. Spike!Setup[i].rd \in Registers /\ Spike!Setup[i].value \in Word
    BY <2>2 DEF SetupEntries
  <2>4. Retires(Spike!Setup[i].rd, Spike!Setup[i].value, machine.ram, machine.pc + 4)
    BY <1>1, <1>2, <1>6, <2>3 DEF Retires
  <2>5. ~ (i > Len(Spike!Setup))
    BY <1>5a, <1>6
  <2>6. QED BY <1>1, <1>2, <2>4, <2>5 DEF i
<1>7. QED BY <1>4, <1>5, <1>6

(* _write_assembly and _count_setup_instructions keep the types.           *)
LEMMA BuildTypes ==
  ASSUME SpikeTypeOK, Spike!Build
  PROVE  SpikeTypeOK'
<1>1. request \in ISSRequest /\ request.execution_limit \in Nat
  BY DEF SpikeTypeOK, ISSRequest
<1>2. limit' \in Nat
  <2>1. Len(Spike!Setup) \in Nat /\ SPIKE_BOOT_INSTRUCTION_COUNT \in Nat
    BY <1>1, SetupFacts, SpikeAssumption
  <2>2. QED BY <1>1, <2>1 DEF Spike!Build, Spike!_count_setup_instructions
<1>3. Spike!Image \in [Spike!Ram -> Word]
  BY <1>1, ImageTyped
<1>4. ZeroRegisters \in RegisterFiles /\ BOOT_PC \in Nat
  BY ContractAssumption, SpikeAssumption DEF ZeroRegisters, RegisterFiles, Registers, Word
<1>5. machine' = [pc |-> BOOT_PC, regs |-> ZeroRegisters, ram |-> Spike!Image,
                  steps |-> 0, trapped |-> FALSE]
  BY SpikeInstructions DEF Spike!Build, Spike!PoweredOff
<1>6. machine' \in Machines /\ machine'.ram \in [Spike!Ram -> Word]
      /\ machine'.steps = 0 /\ machine'.pc = BOOT_PC
  BY <1>3, <1>4, <1>5 DEF Machines
<1>7. stage' = "run" /\ UNCHANGED <<request, log, spike_result>>
  BY DEF Spike!Build
<1>8. QED BY <1>2, <1>6, <1>7 DEF SpikeTypeOK, Machines, Spike!Ram

(* So does the boot code,                                                  *)
LEMMA BootTypes ==
  ASSUME SpikeTypeOK, Spike!Boot
  PROVE  SpikeTypeOK'
<1>1. machine \in Machines /\ stage = "run" /\ log \in Seq(Lines)
      /\ machine.ram \in [Spike!Ram -> Word]
  BY DEF SpikeTypeOK, Spike!Boot, Spike!Running
<1>2. /\ SETUP_BASE \in Nat /\ SETUP_BASE % 4 = 0
      /\ SPIKE_BOOT_INSTRUCTION_COUNT \in Nat \ {0} /\ BootRegisters \in RegisterFiles
  BY SpikeAssumption, ContractAssumption DEF Word
<1>3. machine' = [pc |-> SETUP_BASE, regs |-> BootRegisters, ram |-> machine.ram,
                  steps |-> SPIKE_BOOT_INSTRUCTION_COUNT, trapped |-> machine.trapped]
  <2>1. machine' = [machine EXCEPT !.pc = SETUP_BASE, !.regs = BootRegisters,
                                   !.steps = SPIKE_BOOT_INSTRUCTION_COUNT]
    BY DEF Spike!Boot
  <2>2. machine = [pc |-> machine.pc, regs |-> machine.regs, ram |-> machine.ram,
                   steps |-> machine.steps, trapped |-> machine.trapped]
    BY <1>1 DEF Machines
  <2>3. QED BY <2>1, <2>2
<1>4. machine' \in Machines /\ machine'.ram = machine.ram
      /\ machine'.steps # 0 /\ machine'.pc % 4 = 0
  BY <1>1, <1>2, <1>3 DEF Machines
<1> DEFINE boot == [i \in 1 .. SPIKE_BOOT_INSTRUCTION_COUNT |->
                      Line("commit", 0, BOOT_PC + 4 * (i - 1), 0, None, None)]
<1>5. boot \in Seq(Lines)
  BY BootLinesTyped
<1>6. log' = log \o boot /\ UNCHANGED <<request, stage, limit, spike_result>>
  BY SpikeContract, SpikeParsers DEF Spike!Boot
<1> HIDE DEF boot
<1>7. log' \in Seq(Lines)
  BY <1>1, <1>5, <1>6
<1>8. QED BY <1>1, <1>4, <1>6, <1>7 DEF SpikeTypeOK, Spike!Ram

(* which is not in the setup code.                                         *)
LEMMA SetupComesLater ==
  ASSUME SpikeTypeOK, Spike!InSetup
  PROVE  machine.steps > 0
<1>1. machine.steps \in Nat /\ (machine.steps = 0 => machine.pc = BOOT_PC)
      /\ machine.pc >= SETUP_BASE
  BY DEF SpikeTypeOK, Machines, Spike!InSetup
<1>2. /\ BOOT_PC \in Nat /\ PROGRAM_BASE \in Nat /\ SETUP_BASE \in Nat
      /\ PROGRAM_WORD_CAPACITY \in Nat /\ SPIKE_BOOT_INSTRUCTION_COUNT \in Nat \ {0}
      /\ PROGRAM_BASE + 4 * PROGRAM_WORD_CAPACITY < SETUP_BASE
      /\ BOOT_PC + 4 * SPIKE_BOOT_INSTRUCTION_COUNT <= PROGRAM_BASE
  BY ContractAssumption, BaseAssumption, SpikeAssumption DEF Word
<1>3. BOOT_PC < SETUP_BASE
  BY <1>2
<1>4. QED BY <1>1, <1>2, <1>3

(* A trap keeps the types.                                                 *)
LEMMA TrapTypes ==
  ASSUME SpikeTypeOK, Spike!Trap
  PROVE  SpikeTypeOK'
<1>1. /\ machine \in Machines
      /\ machine' = [machine EXCEPT !.trapped = TRUE]
      /\ UNCHANGED <<request, stage, limit, log, spike_result>>
  BY DEF SpikeTypeOK, Spike!Trap
<1>2. machine' = [pc |-> machine.pc, regs |-> machine.regs, ram |-> machine.ram,
                  steps |-> machine.steps, trapped |-> TRUE]
  <2>2. machine = [pc |-> machine.pc, regs |-> machine.regs, ram |-> machine.ram,
                   steps |-> machine.steps, trapped |-> machine.trapped]
    BY <1>1 DEF Machines
  <2>3. QED BY <1>1, <2>2
<1>3. machine' \in Machines /\ machine'.ram = machine.ram /\ machine'.pc = machine.pc
      /\ machine'.steps = machine.steps
  BY <1>1, <1>2 DEF Machines
<1>4. QED BY <1>1, <1>3 DEF SpikeTypeOK, Spike!Ram

(* A result of ISSResult, whatever the log.                                *)
LEMMA ParseTypes ==
  ASSUME SpikeTypeOK, Spike!Parse
  PROVE  spike_result' \in ISSResult
<1> DEFINE expected == load_expected_trace(Spike!ExpectedTrace)
           parsed == parse_log(log, PROGRAM_BASE, Spike!program_end, expected)
           t == parsed.commits
<1>1. spike_result' = IF expected.error \/ parsed.error THEN Failure
                      ELSE Passed(Spike!_derive_final_pc(t),
                                  RegistersAfter(request.initial_int_regs, t), t)
  BY SpikeParsers, SpikeContract, SpikeInstructions, Zenon DEF Spike!Parse
<1>2. Failure \in ISSResult
  BY DEF ISSResult
<1>3. ASSUME ~ parsed.error
      PROVE  t \in Seq(ISSCommit) /\ Len(t) > 0
  <2>1. log \in Seq(Lines) /\ PROGRAM_BASE \in Nat /\ Spike!program_end \in Nat
    BY ContractAssumption, BaseAssumption DEF SpikeTypeOK, Spike!program_end, ISSRequest, Word
  <2> HIDE DEF expected
  <2>2. QED BY <1>3, <2>1, ParsedCommits
<1>4. ASSUME ~ parsed.error
      PROVE  Passed(Spike!_derive_final_pc(t),
                    RegistersAfter(request.initial_int_regs, t), t) \in ISSResult
  <2> HIDE DEF parsed
  <2>1. t[Len(t)] \in ISSCommit
    BY <1>3, <1>4
  <2>2. Spike!_derive_final_pc(t) \in Nat
    BY <2>1, ContractAssumption DEF Spike!_derive_final_pc, ISSCommit, Word
  <2>3. Len(t) \in Nat /\ t \in Seq(ISSCommit)
    BY <1>3, <1>4
  <2> HIDE DEF t
  <2>4. QED BY <2>2, <2>3 DEF Passed, ISSResult
<1> HIDE DEF parsed, expected
<1>5. QED BY <1>1, <1>2, <1>4

-----------------------------------------------------------------------------
(* Both simulators.                                                        *)

(* Every step of the Spike backend keeps the types.                        *)
LEMMA SpikeStep ==
  ASSUME SpikeTypeOK, Spike!SpikeNext
  PROVE  SpikeTypeOK'
<1>1. CASE Spike!Validate
  BY <1>1 DEF Spike!Validate, SpikeTypeOK, Machines, Spike!Ram
<1>2. CASE Spike!ToolFails
  <2>1. Failure \in ISSResult
    BY DEF ISSResult
  <2>2. QED BY <1>2, <2>1, SpikeContract DEF Spike!ToolFails, SpikeTypeOK, Machines, Spike!Ram
<1>3. CASE Spike!Build
  BY <1>3, BuildTypes
<1>4. CASE Spike!Boot
  BY <1>4, BootTypes
<1>5. CASE Spike!RunSetup
  <2>1. machine.steps > 0
    BY <1>5, SetupComesLater DEF Spike!RunSetup
  <2>2. /\ stage = "run" /\ machine.pc \in Spike!Ram
        /\ \E rd, value, ram, pc_ : Retires(rd, value, ram, pc_)
    BY <1>5, <2>1, RunSetupRetires, Zenon
  <2>3. QED BY <2>2, RetireKeepsTypes DEF Retires
<1>6. CASE Spike!RunInstruction
  <2>1. /\ stage = "run" /\ machine.pc \in Spike!Ram
        /\ \E rd, value, ram, pc_ : Retires(rd, value, ram, pc_)
    BY <1>6, RunInstructionRetires
  <2>2. QED BY <2>1, RetireKeepsTypes DEF Retires
<1>7. CASE Spike!Trap
  BY <1>7, TrapTypes
<1>8. CASE Spike!WritesOther
  <2>1. log' \in Seq(Lines)
    BY <1>8, SpikeAssumption DEF Spike!WritesOther, SpikeTypeOK
  <2>2. QED BY <1>8, <2>1 DEF Spike!WritesOther, SpikeTypeOK, Machines, Spike!Ram
<1>9. CASE Spike!SpikeExits
  BY <1>9 DEF Spike!SpikeExits, SpikeTypeOK, Machines, Spike!Ram
<1>10. CASE Spike!Parse
  <2>1. spike_result' \in ISSResult
    BY <1>10, ParseTypes
  <2>2. QED BY <1>10, <2>1 DEF Spike!Parse, SpikeTypeOK, Machines, Spike!Ram
<1>11. QED BY <1>1, <1>2, <1>3, <1>4, <1>5, <1>6, <1>7, <1>8, <1>9, <1>10 DEF Spike!SpikeNext

-----------------------------------------------------------------------------
(* The two simulators one after the other, and the comparison after both.  *)
ComparisonInv ==
  /\ EmulatorInv
  /\ SpikeTypeOK
  /\ stage # "validate" => phase = "done"
  /\ verdict.done => stage = "done"
  /\ VerdictIsExact

(* The composition starts in its invariant.                                *)
LEMMA ComparisonInit == DifferentialInit => ComparisonInv
<1> SUFFICES ASSUME DifferentialInit PROVE ComparisonInv
  OBVIOUS
<1>1. EmulatorInv /\ request \in ISSRequest
  BY EmulatorInit DEF DifferentialInit, EmulatorInv, TypeOK
<1>2. SpikeTypeOK
  BY <1>1, SpikeTypesInit DEF DifferentialInit
<1>3. stage = "validate" /\ verdict.done = FALSE
  BY DEF DifferentialInit, Spike!Called, NoVerdict
<1>4. QED BY <1>1, <1>2, <1>3 DEF ComparisonInv, VerdictIsExact

(* What the others leave alone keeps its types,                            *)
LEMMA SpikeStutter ==
  ASSUME SpikeTypeOK, UNCHANGED <<request, spike_vars>>
  PROVE  SpikeTypeOK'
BY DEF spike_vars, SpikeTypeOK, Machines, Spike!Ram

(* and the verdict what it says.                                           *)
LEMMA VerdictStutter ==
  ASSUME VerdictIsExact, UNCHANGED <<verdict, result, spike_result>>
  PROVE  VerdictIsExact'
BY DEF VerdictIsExact

(* The rest of the composition runs after the verdict and leaves what it   *)
(* compared.                                                               *)
LEMMA ComparisonStep ==
  ASSUME ComparisonInv, [DifferentialNext]_differential_vars
  PROVE  ComparisonInv'
<1>0. /\ EmulatorInv /\ SpikeTypeOK /\ VerdictIsExact
      /\ stage # "validate" => phase = "done"
      /\ verdict.done => stage = "done"
  BY DEF ComparisonInv
<1>1. CASE RunEmulator
  <2>1. EmulatorInv'
    BY <1>0, <1>1, EmulatorStep DEF RunEmulator
  <2>2. phase # "done" /\ UNCHANGED <<request, spike_vars, verdict>>
    BY <1>1 DEF RunEmulator, Next, Validate, ExecuteAddi, ExecuteRType, ExecuteBeq, ExecuteLw,
                ExecuteSw, Fail, Finish, Executes, Looping, Continue
  <2>3. SpikeTypeOK'
    BY <1>0, <2>2, SpikeStutter
  <2>4. stage' = "validate" /\ stage = "validate" /\ ~ verdict'.done
    BY <1>0, <2>2 DEF spike_vars
  <2>5. QED BY <2>1, <2>3, <2>4 DEF ComparisonInv, VerdictIsExact
<1>2. CASE RunSpike
  <2>1. SpikeTypeOK'
    BY <1>0, <1>2, SpikeStep DEF RunSpike
  <2>2. /\ phase = "done" /\ stage # "done"
        /\ UNCHANGED <<request, emulator_vars, verdict>>
    BY <1>2 DEF RunSpike, Spike!SpikeNext, Spike!Validate, Spike!ToolFails, Spike!Build,
                Spike!Boot, Spike!RunSetup, Spike!RunInstruction, Spike!Trap,
                Spike!WritesOther, Spike!SpikeExits, Spike!Parse, Spike!Running,
                Spike!Fetches, Spike!Retire
  <2>3. EmulatorInv'
    BY <1>0, <2>2, EmulatorStutter
  <2>4. phase' = "done" /\ ~ verdict'.done
    BY <1>0, <2>2 DEF emulator_vars
  <2>5. QED BY <2>1, <2>3, <2>4 DEF ComparisonInv, VerdictIsExact
<1>3. CASE Compare
  <2>1. EmulatorInv' /\ SpikeTypeOK'
    BY <1>0, <1>3, EmulatorStutter, SpikeStutter DEF Compare
  <2>2. result \in ISSResult /\ spike_result \in ISSResult
    BY <1>0 DEF EmulatorInv, TypeOK, SpikeTypeOK
  <2>3. /\ UNCHANGED <<result, spike_result, stage, phase>> /\ stage = "done"
        /\ verdict'.mismatches =
             compare_results(result, normalize_spike_result(spike_result))
    BY <1>3 DEF Compare, emulator_vars, spike_vars
  <2>4. VerdictIsExact'
    BY <2>2, <2>3, ComparisonIsExact DEF VerdictIsExact, passed
  <2>5. QED BY <1>0, <2>1, <2>3, <2>4 DEF ComparisonInv
<1>4. CASE RunSmokeTest
  <2>1. /\ UNCHANGED <<request, emulator_vars, stage, limit, machine, spike_result, verdict>>
    BY <1>4 DEF RunSmokeTest
  <2>2. UNCHANGED log
    BY <1>4 DEF RunSmokeTest, Runner!Call, Runner!RunnerNext, Runner!CheckArguments,
                Runner!SpikeExits, Runner!RunParser
  <2>3. QED BY <1>0, <2>1, <2>2, EmulatorStutter, SpikeStutter, VerdictStutter
               DEF ComparisonInv, emulator_vars, spike_vars
<1>5. CASE RunDut
  <2>1. UNCHANGED <<request, emulator_vars, spike_vars, verdict>>
    BY <1>5 DEF RunDut, Cpu!CpuNext, Cpu!LoadProgram, Cpu!IdleEdge, Cpu!InitRegister,
                Cpu!Enable, Cpu!Execute, Cpu!Stop, Cpu!Edge
  <2>2. QED BY <1>0, <2>1, EmulatorStutter, SpikeStutter, VerdictStutter
               DEF ComparisonInv, emulator_vars, spike_vars
<1>6. CASE UNCHANGED differential_vars
  BY <1>0, <1>6, EmulatorStutter, SpikeStutter, VerdictStutter
     DEF ComparisonInv, emulator_vars, spike_vars, differential_vars
<1>7. QED BY <1>1, <1>2, <1>3, <1>4, <1>5, <1>6 DEF DifferentialNext

(* The invariant of the composition.                                       *)
LEMMA ComparisonInvariant == DifferentialSpec => []ComparisonInv
<1>1. DifferentialInit => ComparisonInv
  BY ComparisonInit
<1>2. ComparisonInv /\ [DifferentialNext]_differential_vars => ComparisonInv'
  BY ComparisonStep
<1>3. QED BY <1>1, <1>2, PTL DEF DifferentialSpec

(* The emulator keeps its types: registers and stored words stay words, x0 *)
(* stays zero, the memory has aligned addresses only, and the trace is no  *)
(* longer than the limit.                                                  *)
THEOREM EmulatorTypes == DifferentialSpec => []TypeOK
<1>1. ComparisonInv => TypeOK
  BY DEF ComparisonInv, EmulatorInv
<1>2. QED BY <1>1, ComparisonInvariant, PTL

(* Registers, memory and pc of the loop in RV32IEmulatorBackend.execute    *)
(* are at every step what the trace alone tells of them.                   *)
THEOREM TraceTellsState == DifferentialSpec => []StateFollowsTrace
<1>1. ComparisonInv => StateFollowsTrace
  BY DEF ComparisonInv, EmulatorInv
<1>2. QED BY <1>1, ComparisonInvariant, PTL

(* Every commit of the emulator's trace is the one its instruction makes   *)
(* of the registers and words the commits before it have left.             *)
THEOREM CommitsReplay == DifferentialSpec => []TraceReplays
<1>1. ComparisonInv => TraceReplays
  BY DEF ComparisonInv, EmulatorInv
<1>2. QED BY <1>1, ComparisonInvariant, PTL

(* The emulator's result is its trace and has a reason to end: the limit,  *)
(* the end of the program, a program out of scope, or a misaligned         *)
(* address.                                                                *)
THEOREM ResultsAccounted == DifferentialSpec => []ResultIsAccounted
<1>1. ComparisonInv => ResultIsAccounted
  BY DEF ComparisonInv, EmulatorInv
<1>2. QED BY <1>1, ComparisonInvariant, PTL

(* The comparison passes exactly when the emulator's result and the        *)
(* normalized result of Spike are the same.                                *)
THEOREM VerdictsExact == DifferentialSpec => []VerdictIsExact
<1>1. ComparisonInv => VerdictIsExact
  BY DEF ComparisonInv
<1>2. QED BY <1>1, ComparisonInvariant, PTL

-----------------------------------------------------------------------------
(* The core under its testbench.                                           *)

(* CpuExec's own copies of the shared definitions are these.               *)
LEMMA CpuContract ==
  /\ Cpu!Modulus = Modulus /\ Cpu!Word = Word /\ Cpu!Registers = Registers
  /\ Cpu!ZeroRegisters = ZeroRegisters
  /\ \A x : Cpu!_u32(x) = _u32(x)
  /\ \A kind, x, y : Cpu!_r_type(kind, x, y) = _r_type(kind, x, y)
  /\ Cpu!RTypes = RTypes
  /\ Cpu!LoadKinds = LoadKinds /\ Cpu!StoreKinds = StoreKinds
  /\ Cpu!OtherOps = OtherOps /\ Cpu!OpKinds = OpKinds
<1>1. Cpu!Modulus = Modulus
  BY DEF Cpu!Modulus, Modulus
<1>2. Cpu!Word = Word /\ Cpu!Registers = Registers
  BY <1>1 DEF Cpu!Word, Word, Cpu!Registers, Registers
<1>3. Cpu!ZeroRegisters = ZeroRegisters
  BY <1>2 DEF Cpu!ZeroRegisters, ZeroRegisters
<1>4. \A x : Cpu!_u32(x) = _u32(x)
  BY <1>1 DEF Cpu!_u32, _u32
<1>5. \A x : Cpu!BitSet(x) = BitSet(x)
  BY DEF Cpu!BitSet, BitSet
<1>6. \A S : Cpu!FromBits(S) = FromBits(S)
  BY <1>2, <1>5 DEF Cpu!FromBits, FromBits
<1>7. \A x : Cpu!_signed32(x) = _signed32(x)
  BY <1>1 DEF Cpu!_signed32, _signed32
<1>8. \A kind, x, y : Cpu!_r_type(kind, x, y) = _r_type(kind, x, y)
  <2> SUFFICES ASSUME NEW kind, NEW x, NEW y
               PROVE  Cpu!_r_type(kind, x, y) = _r_type(kind, x, y)
    OBVIOUS
  <2>1. /\ Cpu!BitSet(x) = BitSet(x) /\ Cpu!BitSet(y) = BitSet(y)
        /\ Cpu!_signed32(x) = _signed32(x) /\ Cpu!_signed32(y) = _signed32(y)
    BY <1>5, <1>7, Zenon
  <2>2. QED BY <1>6, <2>1, Zenon DEF Cpu!_r_type, _r_type
<1>9. Cpu!RTypes = RTypes
  BY DEF Cpu!RTypes, RTypes
<1>10. /\ Cpu!LoadKinds = LoadKinds /\ Cpu!StoreKinds = StoreKinds /\ Cpu!OtherOps = OtherOps
  BY DEF Cpu!LoadKinds, LoadKinds, Cpu!StoreKinds, StoreKinds, Cpu!OtherOps, OtherOps
<1>11. Cpu!OpKinds = OpKinds
  BY <1>9, <1>10 DEF Cpu!OpKinds, OpKinds
<1>12. QED BY <1>1, <1>2, <1>3, <1>4, <1>8, <1>9, <1>10, <1>11

(* What the eight operations make of two zero words.                       *)
LEMMA ZeroOperands ==
  ASSUME NEW kind \in RTypes
  PROVE  _u32(_r_type(kind, 0, 0)) = 0
<1>1. /\ XLEN \in Nat /\ XLEN > 2 /\ Modulus \in Nat /\ Modulus > 4 /\ 0 \in Word
  BY ContractAssumption DEF Word
<1>2. 0 % XLEN = 0 /\ 2^0 = 1
  BY <1>1, PowersOfTwo
<1>3. BitSet(0) = {}
  <2>1. \A i \in 0 .. XLEN - 1 : 0 \div 2^i = 0
    BY PowersOfTwo
  <2>2. \A i \in 0 .. XLEN - 1 : (0 \div 2^i) % 2 # 1
    <3> SUFFICES ASSUME NEW i \in 0 .. XLEN - 1 PROVE (0 \div 2^i) % 2 # 1
      OBVIOUS
    <3> DEFINE q == 0 \div 2^i
    <3>1. q = 0
      BY <2>1
    <3> HIDE DEF q
    <3>2. q % 2 # 1
      BY <3>1
    <3>3. QED BY <3>2 DEF q
  <2>3. QED BY <2>2 DEF BitSet
<1>4. FromBits({}) = 0
  BY <1>1, <1>3, BinaryNotation
<1>5. _signed32(0) = 0
  BY <1>1 DEF _signed32
<1>6. _u32(0) = 0
  BY <1>1 DEF _u32
<1>7. CASE kind \in {"add", "sub", "slt"}
  <2>1. _r_type(kind, 0, 0) = 0
    BY <1>5, <1>7 DEF _r_type
  <2>2. QED BY <1>6, <2>1
<1>8. CASE kind \in {"and", "or", "xor"}
  <2>1. /\ BitSet(0) \cap BitSet(0) = {} /\ BitSet(0) \cup BitSet(0) = {}
        /\ (BitSet(0) \cup BitSet(0)) \ (BitSet(0) \cap BitSet(0)) = {}
    BY <1>3
  <2>2. _r_type(kind, 0, 0) = FromBits({})
    BY <1>8, <2>1, Zenon DEF _r_type
  <2>3. QED BY <1>4, <1>6, <2>2
<1>9. CASE kind = "sll"
  <2>1. _r_type(kind, 0, 0) = 0 * 2^(0 % XLEN)
    BY <1>9 DEF _r_type
  <2>2. QED BY <1>2, <1>6, <2>1
<1>10. CASE kind = "sra"
  <2>1. _r_type(kind, 0, 0) = _signed32(0) \div 2^(0 % XLEN)
    BY <1>10 DEF _r_type
  <2>2. _signed32(0) \div 2^(0 % XLEN) = 0 \div 1
    BY <1>2, <1>5
  <2>3. 0 \div 1 = 0
    OBVIOUS
  <2>4. QED BY <1>6, <2>1, <2>2, <2>3
<1>11. QED BY <1>7, <1>8, <1>9, <1>10 DEF RTypes

-----------------------------------------------------------------------------
(* The register file while the registers below n are initialised.          *)
AskedBelow(n) == [r \in Registers |-> IF r < n THEN request.initial_int_regs[r] ELSE 0]

(* The program is in the instruction memory, with something behind it.     *)
Loaded ==
  /\ instr_mem \in [0 .. PROGRAM_WORD_CAPACITY - 1 -> Word]
  /\ \A i \in 0 .. request.program_word_count - 1 : instr_mem[i] = request.program[i]

(* The core while the testbench prepares it.                               *)
StartInv ==
  /\ request \in ISSRequest
  /\ edges \in Nat /\ next_init \in Nat \ {0}
  /\ instr_mem \in [0 .. PROGRAM_WORD_CAPACITY - 1 -> Word]
  /\ bench \in {"off", "idle"} => next_init = 1
  /\ bench = "idle" => core_pc = 0 /\ int_regs = ZeroRegisters /\ data_mem = Cpu!ZeroMemory
  /\ bench = "init" => /\ core_pc = 0 /\ int_regs = AskedBelow(next_init)
                       /\ ~ Cpu!mem_write => data_mem = Cpu!ZeroMemory
  /\ bench # "off" => Loaded
  /\ StartsAsAsked

(* The instruction at address zero, with its fields.                       *)
LEMMA DecodedFacts ==
  ASSUME StartInv, core_pc = 0
  PROVE  /\ Cpu!instruction \in Word
         /\ Cpu!decoded.rd \in Registers /\ Cpu!decoded.rs1 \in Registers
         /\ Cpu!decoded.rs2 \in Registers /\ Cpu!decoded.imm \in Int
<1>1. PROGRAM_WORD_CAPACITY \in Nat \ {0}
  BY ContractAssumption
<1>2. (core_pc \div 4) % PROGRAM_WORD_CAPACITY \in 0 .. PROGRAM_WORD_CAPACITY - 1
  BY <1>1
<1>3. Cpu!instruction \in Word
  BY <1>2 DEF Cpu!instruction, StartInv
<1>4. QED BY <1>3, DecodeFacts DEF Cpu!decoded

(* On the one edge before the initialisation the decoded instruction       *)
(* computes on zeros, and makes zero of them.                              *)
LEMMA IdleEdgeWritesZero ==
  ASSUME StartInv, bench = "idle"
  PROVE  /\ Cpu!registers_after(Cpu!NoInit) = ZeroRegisters
         /\ Cpu!reg_write => Cpu!writeback_data = 0
<1>1. core_pc = 0 /\ int_regs = ZeroRegisters /\ data_mem = Cpu!ZeroMemory
  BY DEF StartInv
<1>2. /\ Cpu!decoded.rd \in Registers /\ Cpu!decoded.rs1 \in Registers
      /\ Cpu!decoded.rs2 \in Registers /\ Cpu!decoded.imm \in Int
  BY <1>1, DecodedFacts
<1>3. \A r \in Registers : Cpu!RegisterFile(r) = 0
  BY <1>1 DEF Cpu!RegisterFile, ZeroRegisters
<1>4. Cpu!reg1_data = 0 /\ Cpu!reg2_data = 0
  BY <1>2, <1>3 DEF Cpu!reg1_data, Cpu!reg2_data
<1>5. Cpu!reg_write => Cpu!writeback_data = 0
  <2>1. CASE Cpu!mem_read
    <3>1. Cpu!alu("add", 0, Cpu!decoded.imm) = _u32(0 + Cpu!decoded.imm)
      BY CpuContract DEF Cpu!alu, RTypes, _r_type
    <3>2. Cpu!alu("add", 0, Cpu!decoded.imm) \in Nat
      <4>1. 0 + Cpu!decoded.imm \in Int
        BY <1>2
      <4>2. _u32(0 + Cpu!decoded.imm) \in Nat
        BY <4>1, WordFacts
      <4>3. QED BY <3>1, <4>2
    <3>3. Cpu!mem_index \in 0 .. DATA_WORDS - 1
      <4>1. DATA_WORDS \in Nat \ {0}
        BY CpuAssumption
      <4>2. QED BY <1>4, <3>2, <4>1 DEF Cpu!mem_index
    <3>4. data_mem[Cpu!mem_index] = 0
      BY <1>1, <3>3 DEF Cpu!ZeroMemory
    <3>5. QED BY <2>1, <3>4 DEF Cpu!writeback_data
  <2>2. CASE ~ Cpu!mem_read
    <3> DEFINE op == Cpu!ALU_op(Cpu!decoded.kind)
    <3>1. Cpu!writeback_data = Cpu!alu(op, 0, 0)
      BY <1>4, <2>2 DEF Cpu!writeback_data
    <3> HIDE DEF op
    <3>2. CASE op \in RTypes
      BY <3>1, <3>2, CpuContract, ZeroOperands DEF Cpu!alu
    <3>3. CASE op \notin RTypes
      BY <3>1, <3>3, CpuContract DEF Cpu!alu
    <3>4. QED BY <3>2, <3>3
  <2>3. QED BY <2>1, <2>2
<1>6. Cpu!registers_after(Cpu!NoInit) = ZeroRegisters
  <2>1. Cpu!WritePort(Cpu!NoInit) = [enable |-> Cpu!reg_write, addr |-> Cpu!decoded.rd,
                                     data |-> Cpu!writeback_data]
    BY DEF Cpu!WritePort, Cpu!NoInit
  <2>2. [int_regs EXCEPT ![Cpu!decoded.rd] = 0] = ZeroRegisters
    BY <1>1, <1>2 DEF ZeroRegisters
  <2>3. QED BY <1>1, <1>5, <2>1, <2>2 DEF Cpu!registers_after
<1>7. QED BY <1>5, <1>6

(* Reset and the program keep the invariant,                               *)
LEMMA LoadProgramStarts ==
  ASSUME StartInv, Cpu!LoadProgram
  PROVE  StartInv'
<1>1. /\ bench = "off" /\ bench' = "idle" /\ next_init = 1
      /\ int_regs' = ZeroRegisters /\ data_mem' = Cpu!ZeroMemory /\ core_pc' = 0
      /\ UNCHANGED <<request, next_init, edges>>
  BY CpuContract DEF Cpu!LoadProgram, StartInv
<1>2. instr_mem' \in [0 .. PROGRAM_WORD_CAPACITY - 1 -> Word]
  <2>1. /\ instr_mem \in [0 .. PROGRAM_WORD_CAPACITY - 1 -> Word]
        /\ request.program \in [0 .. PROGRAM_WORD_CAPACITY - 1 -> Word]
    BY DEF StartInv, ISSRequest
  <2>2. QED BY <2>1 DEF Cpu!LoadProgram
<1>3. Loaded'
  <2> DEFINE words == request.program_word_count
  <2>1. words \in Nat /\ words <= PROGRAM_WORD_CAPACITY /\ PROGRAM_WORD_CAPACITY \in Nat
    BY ContractAssumption DEF StartInv, ISSRequest
  <2>2. DOMAIN instr_mem = 0 .. PROGRAM_WORD_CAPACITY - 1
    BY DEF StartInv
  <2>3. instr_mem' = [i \in DOMAIN instr_mem |->
                        IF i < words THEN request.program[i] ELSE instr_mem[i]]
    BY DEF Cpu!LoadProgram
  <2> HIDE DEF words
  <2>4. \A i \in 0 .. words - 1 : i \in 0 .. PROGRAM_WORD_CAPACITY - 1 /\ i < words
    BY <2>1
  <2>5. \A i \in 0 .. words - 1 : instr_mem'[i] = request.program[i]
    BY <2>2, <2>3, <2>4
  <2>6. QED BY <1>1, <1>2, <2>5 DEF Loaded, words
<1>4. QED BY <1>1, <1>2, <1>3 DEF StartInv, StartsAsAsked, Cpu!StartsAsAsked, Cpu!ZeroMemory

(* the edge before the first initialisation does,                          *)
LEMMA IdleEdgeStarts ==
  ASSUME StartInv, Cpu!IdleEdge
  PROVE  StartInv'
<1>1. /\ bench = "idle" /\ bench' = "init" /\ next_init = 1
      /\ core_pc = 0 /\ data_mem = Cpu!ZeroMemory /\ core_pc' = core_pc
      /\ int_regs' = Cpu!registers_after(Cpu!NoInit)
      /\ ~ Cpu!mem_write => data_mem' = data_mem
      /\ UNCHANGED <<request, instr_mem, next_init, edges>>
  BY DEF Cpu!IdleEdge, Cpu!Edge, StartInv
<1>2. int_regs' = ZeroRegisters
  BY <1>1, IdleEdgeWritesZero
<1>3. AskedBelow(1) = ZeroRegisters
  <2>1. request.initial_int_regs[0] = 0 /\ Registers \subseteq Nat
    BY ContractAssumption DEF StartInv, ISSRequest, RegisterFiles, Registers
  <2>2. QED BY <2>1 DEF AskedBelow, ZeroRegisters
<1>4. Cpu!mem_write' = Cpu!mem_write /\ Loaded' = Loaded
  BY <1>1 DEF Cpu!mem_write, Cpu!decoded, Cpu!instruction, Cpu!StoreKinds, Loaded
<1>5. AskedBelow(next_init)' = AskedBelow(1)
  BY <1>1 DEF AskedBelow
<1>6. QED BY <1>1, <1>2, <1>3, <1>4, <1>5
          DEF StartInv, StartsAsAsked, Cpu!StartsAsAsked, Cpu!ZeroMemory

(* the initialisation of a register does, whatever is decoded meanwhile,   *)
LEMMA InitRegisterStarts ==
  ASSUME StartInv, Cpu!InitRegister
  PROVE  StartInv'
<1>0. Registers \subseteq Nat
  BY ContractAssumption DEF Registers
<1>1. PICK r \in Cpu!Pending :
        /\ \A q \in Cpu!Pending : r <= q
        /\ Cpu!Edge([enable |-> TRUE, addr |-> r, data |-> request.initial_int_regs[r]], FALSE)
        /\ next_init' = r + 1
  BY DEF Cpu!InitRegister
<1>2. r \in Registers /\ r \in Nat /\ r >= next_init /\ next_init \in Nat \ {0}
  BY <1>0, CpuContract DEF Cpu!Pending, StartInv
<1>3. /\ bench = "init" /\ bench' = bench /\ core_pc = 0 /\ core_pc' = core_pc
      /\ int_regs = AskedBelow(next_init)
      /\ int_regs' = [int_regs EXCEPT ![r] = request.initial_int_regs[r]]
      /\ ~ Cpu!mem_write => data_mem' = data_mem /\ data_mem = Cpu!ZeroMemory
      /\ UNCHANGED <<request, instr_mem, edges>>
  <2> DEFINE init == [enable |-> TRUE, addr |-> r, data |-> request.initial_int_regs[r]]
  <2>1. /\ init.enable = TRUE /\ init.addr = r /\ r # 0
        /\ init.data = request.initial_int_regs[r] /\ Cpu!WritePort(init) = init
    BY <1>2 DEF Cpu!WritePort
  <2> HIDE DEF init
  <2>2. Cpu!registers_after(init) = [int_regs EXCEPT ![r] = request.initial_int_regs[r]]
    BY <2>1, Zenon DEF Cpu!registers_after
  <2> USE DEF init
  <2>3. /\ int_regs' = Cpu!registers_after(init) /\ core_pc' = core_pc
        /\ ~ Cpu!mem_write => data_mem' = data_mem
        /\ UNCHANGED <<request, instr_mem>>
    BY <1>1 DEF Cpu!Edge
  <2>4. bench = "init" /\ bench' = bench /\ edges' = edges
    BY DEF Cpu!InitRegister
  <2> HIDE DEF init
  <2>5. QED BY <2>2, <2>3, <2>4 DEF StartInv
<1>4. int_regs' = AskedBelow(r + 1)
  <2>1. \A q \in Registers : q >= next_init /\ q < r => request.initial_int_regs[q] = 0
    <3> SUFFICES ASSUME NEW q \in Registers, q >= next_init, q < r,
                        request.initial_int_regs[q] # 0
                 PROVE  FALSE
      OBVIOUS
    <3>1. q \in Cpu!Pending /\ q \in Nat
      BY <1>0, CpuContract DEF Cpu!Pending
    <3>2. QED BY <1>1, <1>2, <3>1
  <2>2. \A q \in Registers : q < r + 1 <=> q < r \/ q = r
    BY <1>0, <1>2
  <2>3. \A q \in Registers : int_regs'[q] = AskedBelow(r + 1)[q]
    <3> SUFFICES ASSUME NEW q \in Registers PROVE int_regs'[q] = AskedBelow(r + 1)[q]
      OBVIOUS
    <3>1. q \in Nat
      BY <1>0
    <3>2. int_regs'[q] = IF q = r THEN request.initial_int_regs[r]
                         ELSE IF q < next_init THEN request.initial_int_regs[q] ELSE 0
      BY <1>2, <1>3 DEF AskedBelow
    <3>3. QED BY <1>2, <2>1, <2>2, <3>1, <3>2 DEF AskedBelow
  <2>4. DOMAIN int_regs' = Registers /\ int_regs' = [q \in Registers |-> int_regs'[q]]
    BY <1>3 DEF AskedBelow
  <2>5. QED BY <2>3, <2>4 DEF AskedBelow
<1>5. Cpu!mem_write' = Cpu!mem_write /\ Loaded' = Loaded
  BY <1>3 DEF Cpu!mem_write, Cpu!decoded, Cpu!instruction, Cpu!StoreKinds, Loaded
<1>6. AskedBelow(next_init)' = AskedBelow(r + 1) /\ next_init' \in Nat \ {0}
  BY <1>1, <1>2, <1>3 DEF AskedBelow
<1>7. QED BY <1>3, <1>4, <1>5, <1>6
          DEF StartInv, StartsAsAsked, Cpu!StartsAsAsked, Cpu!ZeroMemory

(* and when none is left the registers are those asked for.                *)
LEMMA EnableStarts ==
  ASSUME StartInv, Cpu!Enable
  PROVE  StartInv'
<1>1. /\ bench = "init" /\ bench' = "run" /\ Cpu!Pending = {}
      /\ UNCHANGED <<request, next_init, instr_mem, int_regs, data_mem, core_pc, edges>>
      /\ core_pc = 0 /\ int_regs = AskedBelow(next_init)
      /\ ~ Cpu!mem_write => data_mem = Cpu!ZeroMemory
  BY DEF Cpu!Enable, Cpu!core, StartInv
<1>2. int_regs = request.initial_int_regs
  <2>1. Registers \subseteq Nat /\ next_init \in Nat
    BY ContractAssumption DEF Registers, StartInv
  <2>2. \A q \in Registers : q < next_init \/ request.initial_int_regs[q] = 0
    BY <1>1, <2>1, CpuContract DEF Cpu!Pending
  <2>3. request.initial_int_regs \in [Registers -> Word]
    BY DEF StartInv, ISSRequest, RegisterFiles
  <2>4. \A q \in Registers : AskedBelow(next_init)[q] = request.initial_int_regs[q]
    BY <2>2 DEF AskedBelow
  <2>5. AskedBelow(next_init) = [q \in Registers |-> AskedBelow(next_init)[q]]
    BY DEF AskedBelow
  <2>6. QED BY <1>1, <2>3, <2>4, <2>5
<1>3. /\ Cpu!mem_write' = Cpu!mem_write
      /\ Loaded /\ Loaded' = Loaded
  BY <1>1 DEF Cpu!mem_write, Cpu!decoded, Cpu!instruction, Cpu!StoreKinds, Loaded, StartInv
<1>4. QED BY <1>1, <1>2, <1>3 DEF StartInv, StartsAsAsked, Cpu!StartsAsAsked, Cpu!ZeroMemory, Loaded

(* The others leave the core alone.                                        *)
LEMMA StartStutter ==
  ASSUME StartInv, UNCHANGED <<request, cpu_vars>>
  PROVE  StartInv'
<1>1. UNCHANGED <<request, bench, next_init, instr_mem, int_regs, data_mem, core_pc, edges>>
  BY DEF cpu_vars
<1>2. /\ Cpu!mem_write' = Cpu!mem_write /\ AskedBelow(next_init)' = AskedBelow(next_init)
      /\ Loaded' = Loaded
  BY <1>1 DEF Cpu!mem_write, Cpu!decoded, Cpu!instruction, Cpu!StoreKinds, AskedBelow, Loaded
<1>3. QED BY <1>1, <1>2 DEF StartInv, StartsAsAsked, Cpu!StartsAsAsked, Cpu!ZeroMemory

(* Every step of the testbench keeps the invariant.                        *)
LEMMA CpuStarts ==
  ASSUME StartInv, NEW n, Cpu!CpuNext(n)
  PROVE  StartInv'
<1>1. CASE Cpu!LoadProgram
  BY <1>1, LoadProgramStarts
<1>2. CASE Cpu!IdleEdge
  BY <1>2, IdleEdgeStarts
<1>3. CASE Cpu!InitRegister
  BY <1>3, InitRegisterStarts
<1>4. CASE Cpu!Enable
  BY <1>4, EnableStarts
<1>5. CASE Cpu!Execute(n)
  <2>1. edges' \in Nat /\ edges' # 0 /\ bench = "run" /\ bench' = "run"
        /\ UNCHANGED <<request, instr_mem, next_init>>
    BY <1>5 DEF Cpu!Execute, Cpu!Edge, StartInv
  <2>2. Loaded' = Loaded
    BY <2>1 DEF Loaded
  <2>3. QED BY <2>1, <2>2 DEF StartInv, StartsAsAsked, Cpu!StartsAsAsked
<1>6. CASE Cpu!Stop(n)
  <2>1. bench = "run" /\ bench' = "done" /\ UNCHANGED <<request, instr_mem, next_init, edges>>
    BY <1>6 DEF Cpu!Stop
  <2>2. Loaded' = Loaded
    BY <2>1 DEF Loaded
  <2>3. QED BY <2>1, <2>2 DEF StartInv, StartsAsAsked, Cpu!StartsAsAsked
<1>7. QED BY <1>1, <1>2, <1>3, <1>4, <1>5, <1>6 DEF Cpu!CpuNext

(* The core is switched off at first.                                      *)
LEMMA StartInit == DifferentialInit => StartInv
<1> SUFFICES ASSUME DifferentialInit PROVE StartInv
  OBVIOUS
<1>1. request \in ISSRequest
  BY ComparisonInit DEF ComparisonInv, SpikeTypeOK
<1>2. bench = "off" /\ edges = 0 /\ next_init = 1
      /\ instr_mem = [i \in 0 .. PROGRAM_WORD_CAPACITY - 1 |-> LeftoverWord]
  BY DEF DifferentialInit, Cpu!PoweredOff
<1>3. LeftoverWord \in Word
  BY CpuAssumption
<1>4. QED BY <1>1, <1>2, <1>3 DEF StartInv, StartsAsAsked, Cpu!StartsAsAsked

(* No step of the two simulators, of the command line or of the core       *)
(* starts it otherwise.                                                    *)
LEMMA StartKept ==
  ASSUME StartInv, [DifferentialNext]_differential_vars
  PROVE  StartInv'
<1>1. CASE RunDut
  BY <1>1, CpuStarts DEF RunDut
<1>2. CASE ~ RunDut
  <2>1. UNCHANGED <<request, cpu_vars>>
    <3>1. CASE RunEmulator
      BY <3>1 DEF RunEmulator, Next, Validate, ExecuteAddi, ExecuteRType, ExecuteBeq, ExecuteLw,
              ExecuteSw, Fail, Finish, Continue
    <3>2. CASE RunSpike
      BY <3>2 DEF RunSpike, Spike!SpikeNext, Spike!Validate, Spike!ToolFails, Spike!Build,
              Spike!Boot, Spike!RunSetup, Spike!RunInstruction, Spike!Trap,
              Spike!WritesOther, Spike!SpikeExits, Spike!Parse, Spike!Retire
    <3>3. CASE Compare \/ RunSmokeTest \/ UNCHANGED differential_vars
      BY <3>3 DEF Compare, RunSmokeTest, differential_vars
    <3>4. QED BY <1>2, <3>1, <3>2, <3>3 DEF DifferentialNext
  <2>2. QED BY <2>1, StartStutter
<1>3. QED BY <1>1, <1>2

(* Execution on the core starts from pc zero, with the program in the      *)
(* instruction memory and exactly the registers asked for, and from a      *)
(* clear data memory unless the first instruction is a store of any width, *)
(* though that instruction is decoded, and writes, on every edge of the    *)
(* initialisation, whatever the instruction table.                         *)
THEOREM CoreStartsAsAsked == DifferentialSpec => []StartsAsAsked
<1>1. DifferentialInit => StartInv
  BY StartInit
<1>2. StartInv /\ [DifferentialNext]_differential_vars => StartInv'
  BY StartKept
<1>3. StartInv => StartsAsAsked
  BY DEF StartInv
<1>4. QED BY <1>1, <1>2, <1>3, PTL DEF DifferentialSpec

-----------------------------------------------------------------------------
(* The command line of the smoke test.                                     *)

(* SpikeRunner's own copies of the shared definitions are these.           *)
LEMMA RunnerContract ==
  /\ Runner!None = None /\ Runner!ISSCommit = ISSCommit /\ Runner!ZeroRegisters = ZeroRegisters
  /\ \A l, b, e : Runner!Accepts(l, b, e) = Accepts(l, b, e)
  /\ \A l : Runner!CommitOf(l) = CommitOf(l) /\ Runner!Malformed(l) = Malformed(l)
  /\ \A lines, S : Runner!Selected(lines, S) = Selected(lines, S)
<1>1. Runner!Modulus = Modulus /\ Runner!None = None
  BY DEF Runner!Modulus, Modulus, Runner!None, None
<1>2. Runner!Word = Word /\ Runner!Registers = Registers
  BY <1>1 DEF Runner!Word, Word, Runner!Registers, Registers
<1>3. Runner!ISSCommit = ISSCommit
  BY <1>1, <1>2 DEF Runner!ISSCommit, ISSCommit
<1>4. Runner!ZeroRegisters = ZeroRegisters
  BY <1>2 DEF Runner!ZeroRegisters, ZeroRegisters
<1>5. \A l, b, e : Runner!Accepts(l, b, e) = Accepts(l, b, e)
  BY DEF Runner!Accepts, Accepts
<1>6. \A l : Runner!CommitOf(l) = CommitOf(l) /\ Runner!Malformed(l) = Malformed(l)
  BY <1>1, <1>2 DEF Runner!CommitOf, CommitOf, Runner!Malformed, Malformed
<1>7. \A lines, S : Runner!Selected(lines, S) = Selected(lines, S)
  BY DEF Runner!Selected, Selected, Runner!SelectedTo, SelectedTo
<1>8. QED BY <1>1, <1>3, <1>4, <1>5, <1>6, <1>7

(* Its copies of the parsers.                                              *)
LEMMA RunnerParsers ==
  /\ \A lines, b, e, x : Runner!parse_log(lines, b, e, x) = parse_log(lines, b, e, x)
  /\ \A lines : Runner!load_expected_trace(lines) = load_expected_trace(lines)
  /\ \A initial, t : Runner!RegistersAfter(initial, t) = RegistersAfter(initial, t)
<1>1. Runner!Error = Error /\ \A commits : Runner!Parsed(commits) = Parsed(commits)
  BY DEF Runner!Error, Error, Runner!Parsed, Parsed
<1>2. \A lines, b, e, x : Runner!parse_log(lines, b, e, x) = parse_log(lines, b, e, x)
  <2> TAKE lines, b, e, x
  <2> DEFINE S == {i \in DOMAIN lines : Accepts(lines[i], b, e)}
             accepted == Selected(lines, S)
  <2>1. {i \in DOMAIN lines : Runner!Accepts(lines[i], b, e)} = S
    BY RunnerContract
  <2> HIDE DEF S
  <2>2. Runner!Selected(lines, S) = accepted
    BY RunnerContract
  <2> HIDE DEF accepted
  <2>3. [i \in DOMAIN accepted |-> Runner!CommitOf(accepted[i])] =
          [i \in DOMAIN accepted |-> CommitOf(accepted[i])]
    BY RunnerContract
  <2>4. Runner!parse_log(lines, b, e, x) =
          IF accepted = <<>> \/ \E i \in DOMAIN accepted : Malformed(accepted[i]) THEN Error
          ELSE Parsed([i \in DOMAIN accepted |-> CommitOf(accepted[i])])
    BY RunnerContract, <1>1, <2>1, <2>2, <2>3 DEF Runner!parse_log
  <2>5. QED BY <2>4 DEF parse_log, S, accepted
<1>3. \A lines : Runner!load_expected_trace(lines) = load_expected_trace(lines)
  BY <1>1, RunnerContract DEF Runner!load_expected_trace, load_expected_trace
<1>4. \A initial, t, n, r : Runner!RegisterAfter(initial, t, n, r) = RegisterAfter(initial, t, n, r)
  BY DEF Runner!RegisterAfter, RegisterAfter, Runner!Writers, Writers, Runner!Latest, Latest
<1>5. Runner!Registers = Registers
  BY DEF Runner!Registers, Registers
<1>6. \A initial, t : Runner!RegistersAfter(initial, t) = RegistersAfter(initial, t)
  BY <1>4, <1>5 DEF Runner!RegistersAfter, RegistersAfter
<1>7. QED BY <1>2, <1>3, <1>6

-----------------------------------------------------------------------------
(* What a line does to the registers, and the function that folds it over  *)
(* the log.                                                                *)
After(file, l) == IF Runner!Ours(l) /\ l.rd \notin {None, 0}
                  THEN [file EXCEPT ![l.rd] = l.value] ELSE file

(* The equation AfterLines is given by.                                    *)
AfterEquation(f) ==
  f = [n \in 0 .. Len(log) |->
         IF n = 0 THEN ZeroRegisters
         ELSE IF Runner!Ours(log[n]) /\ log[n].rd \notin {None, 0}
              THEN [f[n - 1] EXCEPT ![log[n].rd] = log[n].value]
              ELSE f[n - 1]]

(* The same, with the step named.                                          *)
LEMMA AfterStep ==
  ASSUME NEW f
  PROVE  AfterEquation(f) <=>
           f = [n \in 0 .. Len(log) |-> IF n = 0 THEN ZeroRegisters ELSE After(f[n - 1], log[n])]
BY DEF AfterEquation, After

(* Every line of the program can be read.                                  *)
OursAreCommits == \A n \in DOMAIN log : Runner!Ours(log[n]) => CommitOf(log[n]) \in ISSCommit

(* AfterLines satisfies its equation.                                      *)
LEMMA AfterIsDefined ==
  ASSUME log \in Seq(Lines), OursAreCommits
  PROVE  AfterEquation(Runner!AfterLines)
<1> DEFINE N == Len(log)
           V == [Registers -> Word]
           advance == [p \in (1 .. N) \X V |-> After(p[2], log[p[1]])]
<1>1. N \in Nat /\ ZeroRegisters \in V /\ DOMAIN log = 1 .. N
  BY ContractAssumption DEF ZeroRegisters, Word
<1>2. ASSUME NEW n \in 1 .. N, NEW file \in V
      PROVE  After(file, log[n]) \in V
  <2>1. CASE Runner!Ours(log[n]) /\ log[n].rd \notin {None, 0}
    <3>1. CommitOf(log[n]) \in ISSCommit
      BY <1>1, <2>1 DEF OursAreCommits
    <3>2. log[n].rd \in Registers /\ log[n].value \in Word
      BY <2>1, <3>1 DEF CommitOf, ISSCommit
    <3>3. QED BY <2>1, <3>2 DEF After
  <2>2. CASE ~ (Runner!Ours(log[n]) /\ log[n].rd \notin {None, 0})
    BY <2>2 DEF After
  <2>3. QED BY <2>1, <2>2
<1> HIDE DEF V
<1>3. advance \in [(1 .. N) \X V -> V]
  <2>1. \A p \in (1 .. N) \X V : p[1] \in 1 .. N /\ p[2] \in V
    OBVIOUS
  <2>2. \A p \in (1 .. N) \X V : After(p[2], log[p[1]]) \in V
    BY <1>2, <2>1
  <2>3. QED BY <2>1, <2>2
<1>4. \A n \in 1 .. N, file \in V : advance[<<n, file>>] = After(file, log[n])
  OBVIOUS
<1> HIDE DEF N, advance
<1>5. PICK f \in [0 .. N -> V] : Recurses(f, N, ZeroRegisters, advance)
  BY <1>1, <1>3, RecursionExists
<1>6. \A n \in 0 .. N : f[n] = IF n = 0 THEN ZeroRegisters ELSE After(f[n - 1], log[n])
  <2> TAKE n \in 0 .. N
  <2>1. CASE n = 0
    BY <1>5, <2>1 DEF Recurses
  <2>2. CASE n # 0
    <3>1. n \in 1 .. N /\ n - 1 \in 0 .. N
      BY <1>1, <2>2
    <3>2. f[n] = advance[<<n, f[n - 1]>>] /\ f[n - 1] \in V
      BY <1>5, <3>1 DEF Recurses
    <3>3. QED BY <1>4, <2>2, <3>1, <3>2
  <2>3. QED BY <2>1, <2>2
<1>7. AfterEquation(f)
  BY <1>5, <1>6, AfterStep DEF N
<1>8. Runner!AfterLines = CHOOSE g : AfterEquation(g)
  BY RunnerContract DEF Runner!AfterLines, AfterEquation
<1>9. QED BY <1>7, <1>8

(* The commits of the first n lines: the registers they lead to are those  *)
(* that the lines lead to one by one.                                      *)
LEMMA RegistersOfLog ==
  ASSUME log \in Seq(Lines), OursAreCommits
  PROVE  LET accepted == Selected(log, {i \in DOMAIN log : Runner!Ours(log[i])})
         IN  RegistersAfter(ZeroRegisters, [i \in DOMAIN accepted |-> CommitOf(accepted[i])]) =
               Runner!AfterLines[Len(log)]
<1> DEFINE N == Len(log)
           S == {i \in DOMAIN log : Runner!Ours(log[i])}
           upto == SelectedTo(log, S)
           commits(s) == [i \in DOMAIN s |-> CommitOf(s[i])]
           file(n) == RegistersAfter(ZeroRegisters, commits(upto[n]))
           f == Runner!AfterLines
           T == {n \in 0 .. N : commits(upto[n]) \in Seq(ISSCommit) /\ file(n) = f[n]}
<1>1. N \in Nat /\ DOMAIN log = 1 .. N /\ \A n \in 1 .. N : log[n] \in Lines
  OBVIOUS
<1>2. \A n \in DOMAIN log : n \in S <=> Runner!Ours(log[n])
  OBVIOUS
<1>3. /\ upto[0] = <<>>
      /\ \A n \in 0 .. N : upto[n] \in Seq(Lines)
      /\ \A n \in 1 .. N :
           upto[n] = IF n \in S THEN Append(upto[n - 1], log[n]) ELSE upto[n - 1]
      /\ Selected(log, S) = upto[N]
  <2> HIDE DEF S
  <2>1. QED BY SelectedSteps
<1>4. f[0] = ZeroRegisters /\ \A n \in 1 .. N : f[n] = After(f[n - 1], log[n])
  <2>1. f = [n \in 0 .. N |-> IF n = 0 THEN ZeroRegisters ELSE After(f[n - 1], log[n])]
    BY AfterIsDefined, AfterStep
  <2> HIDE DEF f, N
  <2>2. 0 \in 0 .. N /\ \A n \in 1 .. N : n \in 0 .. N /\ n # 0
    BY <1>1
  <2>3. QED BY <2>1, <2>2
<1> HIDE DEF f, upto, S, N
<1>5. 0 \in T
  <2>1. commits(upto[0]) = <<>> /\ <<>> \in Seq(ISSCommit) /\ Len(<<>>) = 0
    BY <1>3
  <2>2. \A r \in Registers : RegisterAfter(ZeroRegisters, <<>>, 0, r) = 0
    <3>1. \A r : Writers(<<>>, 0, r) = {}
      BY DEF Writers
    <3>2. QED BY <3>1 DEF RegisterAfter, ZeroRegisters
  <2>3. file(0) = ZeroRegisters
    <3>1. file(0) = RegistersAfter(ZeroRegisters, <<>>)
      BY <2>1
    <3> HIDE DEF file
    <3>2. QED BY <2>1, <2>2, <3>1 DEF RegistersAfter, ZeroRegisters
  <2>4. commits(upto[0]) \in Seq(ISSCommit) /\ file(0) = f[0] /\ 0 \in 0 .. N
    <3> HIDE DEF commits, file
    <3>1. QED BY <1>1, <1>4, <2>1, <2>3
  <2> HIDE DEF commits, file
  <2>5. QED BY <2>4
<1>6. ASSUME NEW n \in 1 .. N, n - 1 \in T
      PROVE  n \in T
  <2>1. /\ commits(upto[n - 1]) \in Seq(ISSCommit) /\ file(n - 1) = f[n - 1]
        /\ n \in 0 .. N /\ n - 1 \in 0 .. N
    BY <1>1, <1>6
  <2>2. CASE n \notin S
    <3>1. upto[n] = upto[n - 1] /\ f[n] = f[n - 1]
      BY <1>1, <1>2, <1>3, <1>4, <2>2 DEF After
    <3>2. QED BY <2>1, <3>1
  <2>3. CASE n \in S
    <3> DEFINE t == commits(upto[n - 1])
               c == CommitOf(log[n])
    <3>1. upto[n] = Append(upto[n - 1], log[n]) /\ upto[n - 1] \in Seq(Lines) /\ log[n] \in Lines
      BY <1>1, <1>3, <2>1, <2>3
    <3>2. c \in ISSCommit /\ Runner!Ours(log[n])
      BY <1>1, <1>2, <2>3 DEF OursAreCommits
    <3>3. commits(upto[n]) = Append(t, c)
      <4> DEFINE u == upto[n - 1]
                 l == log[n]
      <4> HIDE DEF u, l
      <4>1. u \in Seq(Lines) /\ l \in Lines /\ upto[n] = Append(u, l)
        BY <3>1 DEF u, l
      <4>2. commits(Append(u, l)) = Append(commits(u), CommitOf(l))
        BY <4>1
      <4>3. QED BY <4>1, <4>2 DEF u, l
    <3>4. t \in Seq(ISSCommit)
      BY <2>1
    <3> HIDE DEF t, c, commits
    <3>5. /\ Append(t, c) \in Seq(ISSCommit) /\ Len(Append(t, c)) = Len(t) + 1
      BY <3>2, <3>4
    <3>6. \A r \in Registers :
            RegisterAfter(ZeroRegisters, Append(t, c), Len(t) + 1, r) =
              IF r # 0 /\ c.rd_valid /\ c.rd = r THEN c.value
              ELSE RegisterAfter(ZeroRegisters, t, Len(t), r)
      BY <3>2, <3>4, AppendRegister
    <3>7. c.rd_valid = (log[n].rd # None) /\ c.rd = log[n].rd /\ c.value = log[n].value
      BY DEF c, CommitOf
    <3>8. f[n - 1] = [r \in Registers |-> RegisterAfter(ZeroRegisters, t, Len(t), r)]
      BY <2>1 DEF RegistersAfter, t
    <3>9. f[n] = After(f[n - 1], log[n])
      BY <1>4
    <3>10. file(n) = [r \in Registers |->
                        RegisterAfter(ZeroRegisters, Append(t, c), Len(t) + 1, r)]
      BY <3>3, <3>5 DEF RegistersAfter
    <3>11. file(n) = f[n]
      <4> HIDE DEF file
      <4>1. CASE log[n].rd \notin {None, 0}
        <5>1. f[n] = [f[n - 1] EXCEPT ![log[n].rd] = log[n].value]
          BY <3>2, <3>9, <4>1 DEF After
        <5>2. \A r \in Registers : f[n][r] =
                IF r = log[n].rd THEN log[n].value ELSE RegisterAfter(ZeroRegisters, t, Len(t), r)
          BY <3>8, <5>1
        <5>3. f[n] = [r \in Registers |-> f[n][r]]
          BY <3>8, <5>1
        <5>4. \A r \in Registers : f[n][r] =
                RegisterAfter(ZeroRegisters, Append(t, c), Len(t) + 1, r)
          BY <3>6, <3>7, <4>1, <5>2
        <5>5. QED BY <3>10, <5>3, <5>4
      <4>2. CASE log[n].rd \in {None, 0}
        <5>1. f[n] = f[n - 1]
          BY <3>9, <4>2 DEF After
        <5>2. \A r \in Registers :
                RegisterAfter(ZeroRegisters, Append(t, c), Len(t) + 1, r) =
                  RegisterAfter(ZeroRegisters, t, Len(t), r)
          BY <3>6, <3>7, <4>2
        <5>3. QED BY <3>8, <3>10, <5>1, <5>2
      <4>3. QED BY <4>1, <4>2
    <3>12. QED BY <2>1, <3>3, <3>5, <3>11
  <2>4. QED BY <2>2, <2>3
<1> HIDE DEF T
<1>7. N \in T
  BY <1>1, <1>5, <1>6, InductionTo
<1>8. RegistersAfter(ZeroRegisters, commits(Selected(log, S))) = f[N]
  BY <1>3, <1>7 DEF T
<1>9. QED BY <1>8 DEF N, S, f

-----------------------------------------------------------------------------
(* What load_expected_trace accepts has an entry.                          *)
LEMMA ExpectedHasEntry ==
  ASSUME NEW lines \in Seq(Lines), ~ load_expected_trace(lines).error
  PROVE  \E n \in DOMAIN lines : lines[n].kind = "entry"
<1> DEFINE S == {i \in DOMAIN lines : lines[i].kind # "blank"}
           entries == Selected(lines, S)
<1>1. load_expected_trace(lines) =
        IF entries = <<>> \/ \E i \in DOMAIN entries : entries[i].kind # "entry" THEN Error
        ELSE Parsed([i \in DOMAIN entries |-> <<entries[i].pc, entries[i].instruction>>])
  BY DEF load_expected_trace
<1> HIDE DEF S
<1>2. entries \in Seq(Lines) /\ HoldsLines(entries, lines, S)
  BY SelectedFacts
<1> HIDE DEF entries
<1>3. entries # <<>> /\ \A i \in DOMAIN entries : entries[i].kind = "entry"
  BY <1>1 DEF Error
<1>4. 1 \in DOMAIN entries
  BY <1>2, <1>3
<1>5. PICK n \in S \cap DOMAIN lines : entries[1] = lines[n]
  BY <1>2, <1>4 DEF HoldsLines
<1>6. lines[n].kind = "entry"
  BY <1>3, <1>4, <1>5
<1>7. QED BY <1>5, <1>6

(* What status zero of the parser means.                                   *)
LEMMA ParserReturnsTrace ==
  ASSUME log \in Seq(Lines), args.expected_file \in Seq(Lines), Runner!RunParser, code' = 0
  PROVE  /\ \E n \in DOMAIN log : Runner!Ours(log[n])
         /\ OursAreCommits
         /\ \E n \in DOMAIN args.expected_file : args.expected_file[n].kind = "entry"
         /\ printed' = Runner!AfterLines[Len(log)]
<1> DEFINE expected == load_expected_trace(args.expected_file)
           parsed == parse_log(log, args.program_base, args.program_end, expected)
           S == {i \in DOMAIN log : Runner!Ours(log[i])}
           accepted == Selected(log, S)
<1>1. ~ expected.error /\ ~ parsed.error
        /\ printed' = RegistersAfter(ZeroRegisters, parsed.commits)
  <2>1. IF expected.error \/ parsed.error THEN code' = 1
        ELSE printed' = RegistersAfter(ZeroRegisters, parsed.commits)
    BY RunnerParsers, RunnerContract, Zenon
       DEF Runner!RunParser, Runner!Exit, Runner!log_registers
  <2> HIDE DEF expected, parsed
  <2>2. QED BY <2>1
<1>2. \A l : Runner!Ours(l) <=> Accepts(l, args.program_base, args.program_end)
  BY RunnerContract DEF Runner!Ours
<1>3. S = AcceptedAt(log, args.program_base, args.program_end)
  BY <1>2 DEF AcceptedAt
<1>4. /\ parsed.commits = [i \in DOMAIN accepted |-> CommitOf(accepted[i])]
      /\ Len(accepted) > 0
      /\ \A i \in DOMAIN log : Runner!Ours(log[i]) => CommitOf(log[i]) \in ISSCommit
  <2> HIDE DEF expected, S
  <2>1. parsed.commits = [i \in DOMAIN accepted |-> CommitOf(accepted[i])]
    BY <1>1, <1>3, ParsedTrace
  <2>2. QED BY <1>1, <1>2, <1>3, <2>1, ParsedLog
<1>5. OursAreCommits
  BY <1>4 DEF OursAreCommits
<1>6. \E n \in DOMAIN args.expected_file : args.expected_file[n].kind = "entry"
  BY <1>1, ExpectedHasEntry
<1>7. \E n \in DOMAIN log : Runner!Ours(log[n])
  <2>1. accepted \in Seq(Lines) /\ HoldsLines(accepted, log, S)
    <3> HIDE DEF S
    <3>1. QED BY SelectedFacts
  <2> HIDE DEF accepted
  <2>2. 1 \in DOMAIN accepted
    BY <1>4, <2>1
  <2>3. QED BY <2>1, <2>2 DEF HoldsLines
<1>8. printed' = Runner!AfterLines[Len(log)]
  <2> HIDE DEF parsed
  <2>1. QED BY <1>1, <1>4, <1>5, RegistersOfLog
<1>9. QED BY <1>5, <1>6, <1>7, <1>8

-----------------------------------------------------------------------------
(* The command line reads a log that is not written any more.              *)
RunnerInv ==
  /\ step # "off" => /\ verdict.done /\ request \in SmokeRequests
                     /\ args \in SmokeArguments[request]
  /\ ZeroMeansTrace

(* What the others leave alone keeps the invariant.                        *)
LEMMA RunnerStutter ==
  ASSUME RunnerInv, UNCHANGED <<request, log, verdict, runner_vars>>
  PROVE  RunnerInv'
<1>1. UNCHANGED <<args, step, code, printed>>
  BY DEF runner_vars
<1>2. Runner!AfterLines' = Runner!AfterLines /\ \A l : Runner!Ours(l)' = Runner!Ours(l)
  BY <1>1 DEF Runner!AfterLines, Runner!Ours
<1>3. ZeroMeansTrace'
  BY <1>1, <1>2 DEF RunnerInv, ZeroMeansTrace, Runner!ZeroMeansTrace
<1>4. QED BY <1>1, <1>3 DEF RunnerInv

(* Every step of the command line keeps the invariant.                     *)
LEMMA RunnerStep ==
  ASSUME RunnerInv, ComparisonInv, RunSmokeTest
  PROVE  RunnerInv'
<1>1. /\ verdict.done /\ request \in SmokeRequests
      /\ UNCHANGED <<request, verdict, log>> /\ log \in Seq(Lines)
  BY DEF RunSmokeTest, ComparisonInv, SpikeTypeOK, Runner!Call, Runner!RunnerNext,
         Runner!CheckArguments, Runner!SpikeExits, Runner!RunParser
<1>2. CASE \E a \in SmokeArguments[request] : Runner!Call(a)
  BY <1>1, <1>2 DEF Runner!Call, RunnerInv, ZeroMeansTrace, Runner!ZeroMeansTrace
<1>3. CASE Runner!CheckArguments
  BY <1>1, <1>3 DEF Runner!CheckArguments, Runner!Exit, RunnerInv, ZeroMeansTrace,
                    Runner!ZeroMeansTrace
<1>4. CASE Runner!SpikeExits
  BY <1>1, <1>4 DEF Runner!SpikeExits, Runner!Exit, RunnerInv, ZeroMeansTrace,
                    Runner!ZeroMeansTrace
<1>5. CASE Runner!RunParser
  <2>1. step = "parser" /\ step' = "exited" /\ UNCHANGED <<log, args>>
    BY <1>5 DEF Runner!RunParser, Runner!Exit
  <2>2. args \in SmokeArguments[request] /\ args.expected_file \in Seq(Lines)
    BY <1>1, <2>1, ArgumentsAssumption DEF RunnerInv
  <2>3. Runner!AfterLines' = Runner!AfterLines /\ \A l : Runner!Ours(l)' = Runner!Ours(l)
    BY <2>1 DEF Runner!AfterLines, Runner!Ours
  <2>4. ZeroMeansTrace'
    <3>1. CASE code' = 0
      <4>1. /\ \E n \in DOMAIN log : Runner!Ours(log[n])
            /\ OursAreCommits
            /\ \E n \in DOMAIN args.expected_file : args.expected_file[n].kind = "entry"
            /\ printed' = Runner!AfterLines[Len(log)]
        BY <1>1, <1>5, <2>2, <3>1, ParserReturnsTrace
      <4>2. QED BY <2>1, <2>3, <4>1, RunnerContract
                   DEF OursAreCommits, ZeroMeansTrace, Runner!ZeroMeansTrace
    <3>2. CASE code' # 0
      BY <3>2 DEF ZeroMeansTrace, Runner!ZeroMeansTrace
    <3>3. QED BY <3>1, <3>2
  <2>5. QED BY <1>1, <2>1, <2>2, <2>4 DEF RunnerInv
<1>6. QED BY <1>2, <1>3, <1>4, <1>5 DEF RunSmokeTest, Runner!RunnerNext

(* When the command line exits with status zero the log had a line of the  *)
(* program, every such line could be read, the file of the caller had an   *)
(* entry, and the printed registers are those the lines lead to one by     *)
(* one.                                                                    *)
THEOREM StatusZeroMeansTrace == DifferentialSpec => []ZeroMeansTrace
<1>1. DifferentialInit => RunnerInv
  BY DEF DifferentialInit, Runner!NotCalled, RunnerInv, ZeroMeansTrace, Runner!ZeroMeansTrace
<1>2. ComparisonInv /\ RunnerInv /\ [DifferentialNext]_differential_vars => RunnerInv'
  <2> SUFFICES ASSUME ComparisonInv, RunnerInv, [DifferentialNext]_differential_vars
               PROVE  RunnerInv'
    OBVIOUS
  <2>1. CASE RunSmokeTest
    BY <2>1, RunnerStep
  <2>2. CASE RunEmulator
    BY <2>2, RunnerStutter
       DEF RunEmulator, spike_vars, Next, Validate, ExecuteAddi, ExecuteRType, ExecuteBeq,
           ExecuteLw, ExecuteSw, Fail, Finish, Continue
  <2>3. CASE RunSpike
    <3>1. stage # "done" /\ UNCHANGED <<step, verdict>>
      BY <2>3 DEF RunSpike, runner_vars, Spike!SpikeNext, Spike!Validate, Spike!ToolFails,
                  Spike!Build, Spike!Boot, Spike!RunSetup, Spike!RunInstruction, Spike!Trap,
                  Spike!WritesOther, Spike!SpikeExits, Spike!Parse, Spike!Running, Spike!Fetches
    <3>2. step = "off"
      BY <3>1 DEF RunnerInv, ComparisonInv
    <3>3. QED BY <3>1, <3>2 DEF RunnerInv, ZeroMeansTrace, Runner!ZeroMeansTrace
  <2>4. CASE Compare
    <3>1. verdict'.done /\ UNCHANGED <<request, log, args, step, code, printed>>
      BY <2>4 DEF Compare, spike_vars, runner_vars
    <3>2. Runner!AfterLines' = Runner!AfterLines /\ \A l : Runner!Ours(l)' = Runner!Ours(l)
      BY <3>1 DEF Runner!AfterLines, Runner!Ours
    <3>3. QED BY <3>1, <3>2 DEF RunnerInv, ZeroMeansTrace, Runner!ZeroMeansTrace
  <2>5. CASE RunDut
    BY <2>5, RunnerStutter
       DEF RunDut, spike_vars, Cpu!CpuNext, Cpu!LoadProgram, Cpu!IdleEdge, Cpu!InitRegister,
           Cpu!Enable, Cpu!Execute, Cpu!Stop, Cpu!Edge
  <2>6. CASE UNCHANGED differential_vars
    BY <2>6, RunnerStutter DEF differential_vars, spike_vars
  <2>7. QED BY <2>1, <2>2, <2>3, <2>4, <2>5, <2>6 DEF DifferentialNext
<1>3. RunnerInv => ZeroMeansTrace
  BY DEF RunnerInv
<1>4. QED BY <1>1, <1>2, <1>3, ComparisonInvariant, PTL DEF DifferentialSpec

-----------------------------------------------------------------------------
(* The instruction limit.                                                  *)

(* What a log tells of a run: the lines of the program, those of them that *)
(* are the commits of an instruction, and a line of another place after    *)
(* one of them.                                                            *)
InsideOf(lines) == {i \in DOMAIN lines : Accepts(lines[i], PROGRAM_BASE, Spike!program_end)}
ExecutedOf(lines) == {i \in InsideOf(lines) : ~ Malformed(lines[i])}
HasLeft(lines) == \E i \in InsideOf(lines), k \in DOMAIN lines \ InsideOf(lines) : i < k

(* A log has finitely many lines.                                          *)
LEMMA ExecutedIsFinite ==
  ASSUME NEW lines \in Seq(Lines)
  PROVE  /\ IsFiniteSet(ExecutedOf(lines)) /\ Cardinality(ExecutedOf(lines)) \in Nat
         /\ ExecutedOf(lines) \subseteq 1 .. Len(lines)
<1>1. Len(lines) \in Nat /\ DOMAIN lines = 1 .. Len(lines)
  OBVIOUS
<1>2. IsFiniteSet(1 .. Len(lines))
  BY <1>1, FS_Interval
<1>3. ExecutedOf(lines) \subseteq 1 .. Len(lines)
  BY <1>1 DEF ExecutedOf, InsideOf
<1>4. IsFiniteSet(ExecutedOf(lines))
  BY <1>2, <1>3, FS_Subset
<1>5. QED BY <1>3, <1>4, FS_CardinalityType

(* One line more: it counts when it is a commit of the program, and a line *)
(* of another place after the program has started says that it has been    *)
(* left.                                                                   *)
LEMMA AppendLine ==
  ASSUME NEW lines \in Seq(Lines), NEW l \in Lines
  PROVE  LET u       == Append(lines, l)
             inside  == Accepts(l, PROGRAM_BASE, Spike!program_end)
             counted == inside /\ ~ Malformed(l)
         IN  /\ ExecutedOf(u) = ExecutedOf(lines) \cup (IF counted THEN {Len(lines) + 1} ELSE {})
             /\ ~ counted => ExecutedOf(u) = ExecutedOf(lines)
             /\ counted => Cardinality(ExecutedOf(u)) = Cardinality(ExecutedOf(lines)) + 1
             /\ HasLeft(lines) => HasLeft(u)
             /\ ~ inside /\ ExecutedOf(lines) # {} => HasLeft(u)
<1> DEFINE u == Append(lines, l)
           inside == Accepts(l, PROGRAM_BASE, Spike!program_end)
           counted == inside /\ ~ Malformed(l)
           n == Len(lines)
<1>1. /\ n \in Nat /\ DOMAIN lines = 1 .. n /\ DOMAIN u = 1 .. n + 1
      /\ u[n + 1] = l /\ \A i \in 1 .. n : u[i] = lines[i]
  OBVIOUS
<1> HIDE DEF u, n
<1>2. InsideOf(u) = InsideOf(lines) \cup (IF inside THEN {n + 1} ELSE {})
  <2>1. \A i \in 1 .. n + 1 : i \in 1 .. n \/ i = n + 1
    BY <1>1
  <2>2. \A i \in 1 .. n : i \in InsideOf(u) <=> i \in InsideOf(lines)
    BY <1>1 DEF InsideOf
  <2>3. n + 1 \in InsideOf(u) <=> inside
    BY <1>1 DEF InsideOf
  <2>4. InsideOf(u) \subseteq 1 .. n + 1 /\ InsideOf(lines) \subseteq 1 .. n
    BY <1>1 DEF InsideOf
  <2> HIDE DEF inside
  <2>5. QED BY <2>1, <2>2, <2>3, <2>4
<1>3. InsideOf(lines) \subseteq 1 .. n /\ n + 1 \notin InsideOf(lines)
  BY <1>1 DEF InsideOf
<1>4. \A i \in InsideOf(lines) : u[i] = lines[i]
  BY <1>1, <1>3
<1>5. ExecutedOf(u) = ExecutedOf(lines) \cup (IF counted THEN {n + 1} ELSE {})
  <2>1. \A i \in InsideOf(lines) : i \in ExecutedOf(u) <=> i \in ExecutedOf(lines)
    BY <1>2, <1>4 DEF ExecutedOf
  <2>2. n + 1 \in ExecutedOf(u) <=> counted
    BY <1>1, <1>2, <1>3 DEF ExecutedOf
  <2>3. ExecutedOf(u) \subseteq InsideOf(lines) \cup {n + 1}
          /\ ExecutedOf(lines) \subseteq InsideOf(lines)
    BY <1>2 DEF ExecutedOf
  <2> HIDE DEF counted
  <2>4. QED BY <2>1, <2>2, <2>3
<1>6. counted => Cardinality(ExecutedOf(u)) = Cardinality(ExecutedOf(lines)) + 1
  <2>1. n + 1 \notin ExecutedOf(lines)
    BY <1>3 DEF ExecutedOf
  <2>2. IsFiniteSet(ExecutedOf(lines))
    BY ExecutedIsFinite
  <2>3. QED BY <1>5, <2>1, <2>2, FS_AddElement
<1>7. HasLeft(lines) => HasLeft(u)
  <2> SUFFICES ASSUME NEW i \in InsideOf(lines), NEW k \in 1 .. n, k \notin InsideOf(lines), i < k
               PROVE  HasLeft(u)
    BY <1>1 DEF HasLeft
  <2>1. i \in InsideOf(u) /\ k \in DOMAIN u /\ k # n + 1 /\ k \notin InsideOf(u)
    BY <1>1, <1>2
  <2>2. QED BY <2>1 DEF HasLeft
<1>8. ASSUME ~ inside, ExecutedOf(lines) # {}
      PROVE  HasLeft(u)
  <2>1. PICK i \in InsideOf(lines) : TRUE
    BY <1>8 DEF ExecutedOf
  <2>2. i \in InsideOf(u) /\ n + 1 \in DOMAIN u /\ n + 1 \notin InsideOf(u) /\ i < n + 1
    BY <1>1, <1>2, <1>3, <1>8
  <2>3. QED BY <2>2 DEF HasLeft
<1>9. QED BY <1>5, <1>6, <1>7, <1>8 DEF u, n

-----------------------------------------------------------------------------
(* The run of Spike up to the program: boot, the setup code once, and from *)
(* then on at least one step for every commit of the program, more only    *)
(* when it is left.                                                        *)
SetupEnd == SPIKE_BOOT_INSTRUCTION_COUNT + Len(Spike!Setup) + 1

InBoot(m, lines) == m.steps = 0 /\ ExecutedOf(lines) = {}

InFirstSetup(m, lines) ==
  /\ SPIKE_BOOT_INSTRUCTION_COUNT <= m.steps /\ m.steps < SetupEnd
  /\ m.pc = SETUP_BASE + 4 * (m.steps - SPIKE_BOOT_INSTRUCTION_COUNT)
  /\ ExecutedOf(lines) = {}

InProgram(m, lines) ==
  LET n == Cardinality(ExecutedOf(lines))
  IN  /\ SetupEnd + n <= m.steps
      /\ SetupEnd + n < m.steps => HasLeft(lines)
      /\ n = 0 => m.steps = SetupEnd /\ m.pc = PROGRAM_BASE

Budgeted(m, lines) == InBoot(m, lines) \/ InFirstSetup(m, lines) \/ InProgram(m, lines)

(* The limit, the steps taken and the lines written keep step.             *)
BudgetInv ==
  /\ stage # "done" => spike_result = Failure
  /\ stage \in {"validate", "build"} => log = <<>>
  /\ stage \notin {"validate", "done"} => request.program_word_count > 0
  /\ stage \in {"run", "parse"} => /\ limit = SetupEnd + request.execution_limit
                                   /\ machine.steps <= limit
                                   /\ Budgeted(machine, log)
  /\ stage = "parse" => machine.steps = limit \/ machine.trapped
  /\ BudgetIsExact

(* The request does not change, and with it the setup code, the end of the *)
(* program and the budget.                                                 *)
LEMMA SameRequest ==
  ASSUME UNCHANGED request
  PROVE  /\ Spike!Setup' = Spike!Setup /\ Spike!program_end' = Spike!program_end
         /\ SetupEnd' = SetupEnd
         /\ \A m, lines : Budgeted(m, lines)' = Budgeted(m, lines)
<1>1. Spike!Setup' = Spike!Setup /\ Spike!program_end' = Spike!program_end
  BY DEF Spike!Setup, Spike!Loads, Spike!program_end
<1>2. \A lines : /\ InsideOf(lines)' = InsideOf(lines)
                 /\ ExecutedOf(lines)' = ExecutedOf(lines)
                 /\ HasLeft(lines)' = HasLeft(lines)
  BY <1>1 DEF InsideOf, ExecutedOf, HasLeft
<1>3. SetupEnd' = SetupEnd
  BY <1>1 DEF SetupEnd
<1>4. \A m, lines : Budgeted(m, lines)' = Budgeted(m, lines)
  BY <1>2, <1>3 DEF Budgeted, InBoot, InFirstSetup, InProgram
<1>5. QED BY <1>1, <1>3, <1>4

(* Where boot code, program, setup code and data are.                      *)
LEMMA LayoutFacts ==
  ASSUME request \in ISSRequest
  PROVE  /\ PROGRAM_BASE \in Nat /\ SETUP_BASE \in Nat /\ BOOT_PC \in Nat
         /\ Spike!program_end \in Nat /\ Spike!program_end < SETUP_BASE
         /\ SPIKE_BOOT_INSTRUCTION_COUNT \in Nat \ {0}
         /\ BOOT_PC + 4 * SPIKE_BOOT_INSTRUCTION_COUNT <= PROGRAM_BASE
         /\ request.program_word_count \in Nat
         /\ Spike!program_end = PROGRAM_BASE + 4 * request.program_word_count
         /\ request.execution_limit \in Nat
         /\ Len(Spike!Setup) \in Nat /\ SetupEnd \in Nat
<1>1. /\ request.program_word_count \in 0 .. PROGRAM_WORD_CAPACITY
      /\ PROGRAM_WORD_CAPACITY \in Nat /\ request.execution_limit \in Nat
  BY ContractAssumption DEF ISSRequest
<1>2. /\ PROGRAM_BASE \in Nat /\ SETUP_BASE \in Nat /\ BOOT_PC \in Nat
      /\ SPIKE_BOOT_INSTRUCTION_COUNT \in Nat \ {0}
      /\ PROGRAM_BASE + 4 * PROGRAM_WORD_CAPACITY < SETUP_BASE
      /\ BOOT_PC + 4 * SPIKE_BOOT_INSTRUCTION_COUNT <= PROGRAM_BASE
  BY ContractAssumption, BaseAssumption, SpikeAssumption DEF Word
<1>3. Spike!program_end = PROGRAM_BASE + 4 * request.program_word_count
  BY DEF Spike!program_end
<1>4. Spike!program_end \in Nat /\ Spike!program_end < SETUP_BASE
        /\ request.program_word_count \in Nat
  BY <1>1, <1>2, <1>3
<1>5. Len(Spike!Setup) \in Nat
  BY SetupFacts
<1>6. SetupEnd \in Nat
  BY <1>2, <1>5 DEF SetupEnd
<1>7. QED BY <1>1, <1>2, <1>3, <1>4, <1>5, <1>6

(* What Spike's machine does when it retires an instruction in the RAM.    *)
LEMMA Retired ==
  ASSUME SpikeTypeOK, machine.pc \in Spike!Ram, stage = "run",
         NEW rd, NEW value, NEW ram, NEW pc_, Retires(rd, value, ram, pc_)
  PROVE  LET l == Line("commit", 0, machine.pc, machine.ram[machine.pc],
                       IF rd = 0 THEN None ELSE rd, IF rd = 0 THEN None ELSE value)
         IN  /\ l \in Lines /\ log' = Append(log, l) /\ ~ Malformed(l)
             /\ Accepts(l, PROGRAM_BASE, Spike!program_end) <=> machine.pc < Spike!program_end
<1> DEFINE l == Line("commit", 0, machine.pc, machine.ram[machine.pc],
                     IF rd = 0 THEN None ELSE rd, IF rd = 0 THEN None ELSE value)
<1>1. machine.pc \in Word /\ machine.pc \in Nat /\ machine.ram[machine.pc] \in Word
        /\ machine.pc >= PROGRAM_BASE /\ machine.pc % 4 = 0
  BY RamFacts, SpikeContract DEF SpikeTypeOK, Spike!Ram
<1>2. /\ rd \in Registers /\ (rd # 0 => rd # None /\ value # None /\ value \in Word /\ rd \in Nat)
  BY ContractAssumption DEF Retires, Registers, Word, None
<1>3. l \in Lines
  BY <1>1, <1>2 DEF Lines, LineKinds, Line
<1>4. ~ Malformed(l)
  BY <1>1, <1>2 DEF Malformed, Line
<1>5. Accepts(l, PROGRAM_BASE, Spike!program_end) <=> machine.pc < Spike!program_end
  BY <1>1 DEF Accepts, Line
<1>6. log' = Append(log, l)
  BY SpikeParsers, SpikeContract DEF Retires, Spike!Retire
<1> HIDE DEF l
<1>7. QED BY <1>3, <1>4, <1>5, <1>6 DEF l

(* The line of a retired instruction.                                      *)
LEMMA RetiredLine ==
  ASSUME SpikeTypeOK, machine.pc \in Spike!Ram, stage = "run",
         NEW rd, NEW value, NEW ram, NEW pc_, Retires(rd, value, ram, pc_)
  PROVE  \E l \in Lines :
           /\ log' = Append(log, l) /\ ~ Malformed(l)
           /\ Accepts(l, PROGRAM_BASE, Spike!program_end) <=> machine.pc < Spike!program_end
           /\ machine'.pc = pc_ /\ machine'.steps = machine.steps + 1
           /\ UNCHANGED <<request, stage, limit, spike_result>>
<1>1. PICK l \in Lines :
        /\ log' = Append(log, l) /\ ~ Malformed(l)
        /\ Accepts(l, PROGRAM_BASE, Spike!program_end) <=> machine.pc < Spike!program_end
  BY Retired
<1>2. /\ UNCHANGED <<request, stage, limit, spike_result>>
      /\ machine' = [machine EXCEPT !.pc = pc_, !.ram = ram, !.steps = machine.steps + 1,
                                    !.regs = IF rd = 0 THEN machine.regs
                                             ELSE [machine.regs EXCEPT ![rd] = value]]
  BY SpikeParsers, SpikeContract DEF Retires, Spike!Retire
<1>3. machine'.pc = pc_ /\ machine'.steps = machine.steps + 1
  BY <1>2 DEF SpikeTypeOK, Machines
<1>4. QED BY <1>1, <1>2, <1>3

(* A step after the setup code: a commit of the program, or one of another *)
(* place.                                                                  *)
LEMMA ProgramStep ==
  ASSUME SpikeTypeOK, machine.pc \in Spike!Ram, stage = "run",
         request.program_word_count > 0, InProgram(machine, log),
         NEW rd, NEW value, NEW ram, NEW pc_, Retires(rd, value, ram, pc_)
  PROVE  InProgram(machine', log')
<1> DEFINE n == Cardinality(ExecutedOf(log))
           m == Cardinality(ExecutedOf(log'))
<1>1. PICK l \in Lines :
        /\ log' = Append(log, l) /\ ~ Malformed(l)
        /\ Accepts(l, PROGRAM_BASE, Spike!program_end) <=> machine.pc < Spike!program_end
        /\ machine'.pc = pc_ /\ machine'.steps = machine.steps + 1
  BY RetiredLine
<1>2. log \in Seq(Lines) /\ machine.steps \in Nat /\ SetupEnd \in Nat
  BY LayoutFacts DEF SpikeTypeOK, Machines
<1>3. n \in Nat /\ (n = 0 => ExecutedOf(log) = {})
  BY <1>2, ExecutedIsFinite, FS_EmptySet
<1>3a. n # 0 => ExecutedOf(log) # {}
  BY FS_EmptySet
<1>4. /\ SetupEnd + n <= machine.steps
      /\ SetupEnd + n < machine.steps => HasLeft(log)
      /\ n = 0 => machine.steps = SetupEnd /\ machine.pc = PROGRAM_BASE
  BY DEF InProgram
<1>5. CASE machine.pc < Spike!program_end
  <2>1. m = n + 1 /\ (HasLeft(log) => HasLeft(log'))
    BY <1>1, <1>2, <1>5, AppendLine
  <2> HIDE DEF n, m
  <2>2. QED BY <1>1, <1>2, <1>3, <1>4, <2>1 DEF InProgram, m
<1>6. CASE ~ (machine.pc < Spike!program_end)
  <2>1. n # 0
    <3>1. PROGRAM_BASE < Spike!program_end
      BY LayoutFacts DEF SpikeTypeOK
    <3> HIDE DEF n
    <3>2. QED BY <1>4, <1>6, <3>1
  <2>2. ExecutedOf(log') = ExecutedOf(log) /\ HasLeft(log')
    BY <1>1, <1>2, <1>3a, <1>6, <2>1, AppendLine
  <2>3. m = n
    BY <2>2
  <2> HIDE DEF n, m
  <2>4. QED BY <1>1, <1>2, <1>3, <1>4, <2>1, <2>2, <2>3 DEF InProgram, m
<1>7. QED BY <1>5, <1>6

(* A step of the setup code in its first pass: the next load, or the       *)
(* program.                                                                *)
LEMMA FirstSetupStep ==
  ASSUME SpikeTypeOK, Spike!RunSetup, InFirstSetup(machine, log)
  PROVE  Budgeted(machine', log')
<1> DEFINE B == SPIKE_BOOT_INSTRUCTION_COUNT
           j == machine.steps - B
<1>1. machine.steps > 0
  BY SetupComesLater DEF Spike!RunSetup
<1>2. PICK rd, value, ram, pc_ :
        /\ Retires(rd, value, ram, pc_)
        /\ pc_ = IF (machine.pc - SETUP_BASE) \div 4 + 1 > Len(Spike!Setup)
                 THEN PROGRAM_BASE ELSE machine.pc + 4
  BY <1>1, RunSetupRetires
<1>3. stage = "run" /\ machine.pc \in Spike!Ram
  BY <1>1, RunSetupRetires
<1>4. PICK l \in Lines :
        /\ log' = Append(log, l) /\ ~ Malformed(l)
        /\ Accepts(l, PROGRAM_BASE, Spike!program_end) <=> machine.pc < Spike!program_end
        /\ machine'.pc = pc_ /\ machine'.steps = machine.steps + 1
  BY <1>2, <1>3, RetiredLine
<1>5. /\ log \in Seq(Lines) /\ machine.steps \in Nat /\ SetupEnd \in Nat /\ B \in Nat
      /\ Len(Spike!Setup) \in Nat /\ SetupEnd = B + Len(Spike!Setup) + 1
      /\ SETUP_BASE \in Nat /\ Spike!program_end \in Nat /\ Spike!program_end < SETUP_BASE
  BY LayoutFacts DEF SpikeTypeOK, Machines, SetupEnd
<1>6. /\ B <= machine.steps /\ machine.steps < SetupEnd
      /\ machine.pc = SETUP_BASE + 4 * j /\ ExecutedOf(log) = {}
  BY DEF InFirstSetup
<1>7. j \in Nat /\ j <= Len(Spike!Setup) /\ machine.steps = B + j
  <2> DEFINE n == machine.steps
             length == Len(Spike!Setup)
  <2>1. n \in Nat /\ B \in Nat /\ length \in Nat /\ B <= n /\ n < B + length + 1
    BY <1>5, <1>6
  <2> HIDE DEF n, length, B
  <2>2. n - B \in Nat /\ n - B <= length /\ n = B + (n - B)
    BY <2>1
  <2>3. QED BY <2>2 DEF n, length
<1> HIDE DEF j, B
<1>7a. machine.pc = SETUP_BASE + 4 * j /\ (SETUP_BASE + 4 * j - SETUP_BASE) \div 4 = j
  BY <1>5, <1>6, <1>7
<1>7b. machine.pc \in Nat /\ (machine.pc - SETUP_BASE) \div 4 = j
  BY <1>5, <1>7, <1>7a
<1>7c. ~ (machine.pc < Spike!program_end)
  BY <1>5, <1>7, <1>7a
<1>8. ExecutedOf(log') = {}
  BY <1>4, <1>5, <1>6, <1>7c, AppendLine
<1>9. CASE j + 1 > Len(Spike!Setup)
  <2>1. machine'.pc = PROGRAM_BASE
    BY <1>2, <1>4, <1>7b, <1>9
  <2>2. machine'.steps = SetupEnd
    BY <1>4, <1>5, <1>7, <1>9
  <2>3. Cardinality(ExecutedOf(log')) = 0
    BY <1>8, FS_EmptySet
  <2>4. InProgram(machine', log')
    BY <1>5, <2>1, <2>2, <2>3 DEF InProgram
  <2>5. QED BY <2>4 DEF Budgeted
<1>10. CASE ~ (j + 1 > Len(Spike!Setup))
  <2>1. machine'.pc = machine.pc + 4
    BY <1>2, <1>4, <1>7b, <1>10
  <2>2. machine'.steps = B + j + 1 /\ B <= B + j + 1 /\ B + j + 1 < SetupEnd
    BY <1>4, <1>5, <1>7, <1>10
  <2>3. machine'.pc = SETUP_BASE + 4 * (B + j + 1 - B)
    BY <1>5, <1>7, <1>7a, <2>1
  <2>4. InFirstSetup(machine', log')
    <3> DEFINE k == B + j + 1
    <3>1. machine'.steps = k /\ k \in Nat /\ B <= k /\ k < SetupEnd
          /\ machine'.pc = SETUP_BASE + 4 * (k - B)
      BY <1>5, <1>7, <2>2, <2>3
    <3> HIDE DEF k
    <3>2. QED BY <1>8, <3>1 DEF InFirstSetup, B
  <2>5. QED BY <2>4 DEF Budgeted
<1>11. QED BY <1>9, <1>10

(* In the first pass of the setup code the machine is in the setup code.   *)
LEMMA FirstSetupIsSetup ==
  ASSUME SpikeTypeOK, InFirstSetup(machine, log)
  PROVE  Spike!InSetup /\ machine.steps > 0
<1>1. /\ machine.steps \in Nat /\ SPIKE_BOOT_INSTRUCTION_COUNT \in Nat \ {0}
      /\ Len(Spike!Setup) \in Nat /\ SETUP_BASE \in Nat
  BY LayoutFacts DEF SpikeTypeOK, Machines
<1>2. /\ SPIKE_BOOT_INSTRUCTION_COUNT <= machine.steps
      /\ machine.steps < SPIKE_BOOT_INSTRUCTION_COUNT + Len(Spike!Setup) + 1
      /\ machine.pc = SETUP_BASE + 4 * (machine.steps - SPIKE_BOOT_INSTRUCTION_COUNT)
  BY DEF InFirstSetup, SetupEnd
<1>3. QED BY <1>1, <1>2 DEF Spike!InSetup

(* The boot code is below the program.                                     *)
LEMMA BootStep ==
  ASSUME SpikeTypeOK, BudgetInv, Spike!Boot
  PROVE  InFirstSetup(machine', log')
<1> DEFINE B == SPIKE_BOOT_INSTRUCTION_COUNT
           boot == [i \in 1 .. B |-> Line("commit", 0, BOOT_PC + 4 * (i - 1), 0, None, None)]
<1>1. /\ B \in Nat \ {0} /\ Len(Spike!Setup) \in Nat /\ SetupEnd \in Nat
      /\ SetupEnd = B + Len(Spike!Setup) + 1 /\ SETUP_BASE \in Nat
      /\ BOOT_PC \in Nat /\ PROGRAM_BASE \in Nat /\ BOOT_PC + 4 * B <= PROGRAM_BASE
      /\ log \in Seq(Lines) /\ machine \in Machines
  BY LayoutFacts DEF SpikeTypeOK, SetupEnd
<1>2. /\ machine'.steps = B /\ machine'.pc = SETUP_BASE /\ log' = log \o boot
      /\ machine.steps = 0 /\ stage = "run"
  BY <1>1, SpikeContract, SpikeParsers DEF Spike!Boot, Spike!Running, Machines
<1>3. ExecutedOf(log) = {}
  <2>1. Budgeted(machine, log)
    BY <1>2 DEF BudgetInv
  <2>2. ~ InFirstSetup(machine, log)
    BY <1>1, <1>2 DEF InFirstSetup
  <2>3. ~ InProgram(machine, log)
    <3>1. Cardinality(ExecutedOf(log)) \in Nat
      BY <1>1, ExecutedIsFinite
    <3>2. QED BY <1>1, <1>2, <3>1 DEF InProgram
  <2>4. QED BY <2>1, <2>2, <2>3 DEF Budgeted, InBoot
<1>4. boot \in Seq(Lines) /\ Len(boot) = B
  BY <1>1, BootLinesTyped
<1>5. ASSUME NEW i \in 1 .. B
      PROVE  ~ Accepts(boot[i], PROGRAM_BASE, Spike!program_end)
  <2>1. boot[i].pc = BOOT_PC + 4 * (i - 1)
    BY DEF Line
  <2>2. boot[i].pc < PROGRAM_BASE /\ boot[i].pc \in Nat
    BY <1>1, <2>1
  <2> HIDE DEF boot
  <2>3. QED BY <1>1, <2>2 DEF Accepts
<1> HIDE DEF boot
<1>6. ExecutedOf(log') = {}
  <2> SUFFICES ASSUME NEW i \in DOMAIN log', Accepts(log'[i], PROGRAM_BASE, Spike!program_end),
                      ~ Malformed(log'[i])
               PROVE  FALSE
    BY DEF ExecutedOf, InsideOf
  <2>1. CASE i <= Len(log)
    <3>1. i \in DOMAIN log /\ log'[i] = log[i]
      BY <1>1, <1>2, <1>4, <2>1
    <3>2. QED BY <1>3, <3>1 DEF ExecutedOf, InsideOf
  <2>2. CASE i > Len(log)
    <3>1. i - Len(log) \in 1 .. B /\ log'[i] = boot[i - Len(log)]
      BY <1>1, <1>2, <1>4, <2>2
    <3>2. QED BY <1>5, <3>1
  <2>3. i \in Nat /\ Len(log) \in Nat
    BY <1>1, <1>2, <1>4
  <2>4. QED BY <2>1, <2>2, <2>3
<1>7. QED BY <1>1, <1>2, <1>6 DEF InFirstSetup

(* The budget holds on after a step of Spike's machine.                    *)
LEMMA RunKeepsBudget ==
  ASSUME BudgetInv, stage = "run", stage' = "run",
         UNCHANGED <<request, limit, spike_result>>,
         machine'.steps <= limit, Budgeted(machine', log')
  PROVE  BudgetInv'
<1>1. SetupEnd' = SetupEnd /\ Budgeted(machine, log)' = Budgeted(machine', log')
  <2>1. SetupEnd' = SetupEnd /\ Spike!program_end' = Spike!program_end
    BY SameRequest
  <2>2. /\ InsideOf(log)' = InsideOf(log') /\ ExecutedOf(log)' = ExecutedOf(log')
        /\ HasLeft(log)' = HasLeft(log')
    BY <2>1 DEF InsideOf, ExecutedOf, HasLeft
  <2>3. QED BY <2>1, <2>2 DEF Budgeted, InBoot, InFirstSetup, InProgram
<1>2. QED BY <1>1 DEF BudgetInv, BudgetIsExact

(* The limit that execute computes.                                        *)
LEMMA BuildBudget ==
  ASSUME SpikeTypeOK, BudgetInv, Spike!Build
  PROVE  BudgetInv'
<1>1. /\ stage = "build" /\ stage' = "run" /\ log = <<>>
      /\ UNCHANGED <<request, log, spike_result>>
      /\ machine'.steps = 0
  BY DEF Spike!Build, Spike!PoweredOff, BudgetInv
<1>2. limit' = SetupEnd + request.execution_limit /\ 0 <= limit'
  <2>1. /\ SPIKE_BOOT_INSTRUCTION_COUNT \in Nat /\ Len(Spike!Setup) \in Nat
        /\ request.execution_limit \in Nat
    BY LayoutFacts DEF SpikeTypeOK
  <2>2. limit' = SPIKE_BOOT_INSTRUCTION_COUNT + (Len(Spike!Setup) + 1) + request.execution_limit
    BY DEF Spike!Build, Spike!_count_setup_instructions
  <2>3. QED BY <2>1, <2>2 DEF SetupEnd
<1>3. SetupEnd' = SetupEnd /\ Spike!program_end' = Spike!program_end
  BY <1>1, SameRequest
<1>4. ExecutedOf(log)' = {}
  BY <1>1 DEF ExecutedOf, InsideOf
<1>5. Budgeted(machine, log)'
  BY <1>1, <1>4 DEF Budgeted, InBoot
<1>6. QED BY <1>1, <1>2, <1>3, <1>5 DEF BudgetInv, BudgetIsExact

(* An instruction of the setup code or of the program.                     *)
LEMMA InstructionBudget ==
  ASSUME SpikeTypeOK, BudgetInv, Spike!RunSetup \/ Spike!RunInstruction
  PROVE  BudgetInv'
<1>1. machine.steps > 0 /\ machine.steps < limit
  <2>1. CASE Spike!RunSetup
    BY <2>1, SetupComesLater DEF Spike!RunSetup, Spike!Running
  <2>2. CASE Spike!RunInstruction
    BY <2>2 DEF Spike!RunInstruction, Spike!Fetches, Spike!Running
  <2>3. QED BY <2>1, <2>2
<1>2. /\ stage = "run" /\ machine.pc \in Spike!Ram
      /\ \E rd, value, ram, pc_ : Retires(rd, value, ram, pc_)
  <2>1. CASE Spike!RunSetup
    BY <1>1, <2>1, RunSetupRetires, Zenon
  <2>2. CASE Spike!RunInstruction
    BY <2>2, RunInstructionRetires
  <2>3. QED BY <2>1, <2>2
<1>3. PICK rd, value, ram, pc_ : Retires(rd, value, ram, pc_)
  BY <1>2
<1>4. PICK l \in Lines :
        /\ log' = Append(log, l) /\ ~ Malformed(l)
        /\ machine'.pc = pc_ /\ machine'.steps = machine.steps + 1
        /\ UNCHANGED <<request, stage, limit, spike_result>>
  BY <1>2, <1>3, RetiredLine
<1>5. machine'.steps <= limit
  BY <1>1, <1>4 DEF SpikeTypeOK, Machines
<1>6. Budgeted(machine, log) /\ request.program_word_count > 0
  BY <1>2 DEF BudgetInv
<1>7. Budgeted(machine', log')
  <2>1. CASE InBoot(machine, log)
    BY <1>1, <2>1 DEF InBoot
  <2>2. CASE InFirstSetup(machine, log)
    <3>1. Spike!InSetup
      BY <2>2, FirstSetupIsSetup
    <3>2. Spike!RunSetup
      BY <3>1 DEF Spike!RunInstruction, Spike!Fetches
    <3>3. QED BY <2>2, <3>2, FirstSetupStep
  <2>3. CASE InProgram(machine, log)
    BY <1>2, <1>3, <1>6, <2>3, ProgramStep DEF Budgeted
  <2>4. QED BY <1>6, <2>1, <2>2, <2>3 DEF Budgeted
<1>8. QED BY <1>2, <1>4, <1>5, <1>7, RunKeepsBudget

(* A line that is no commit of the program.                                *)
LEMMA OtherLineBudget ==
  ASSUME SpikeTypeOK, BudgetInv, Spike!WritesOther
  PROVE  BudgetInv'
<1>1. PICK l \in OtherLines : log' = Append(log, l)
  BY DEF Spike!WritesOther
<1>2. stage = "run" /\ UNCHANGED <<request, stage, limit, machine, spike_result>>
        /\ log \in Seq(Lines) /\ l \in Lines
  BY SpikeAssumption DEF Spike!WritesOther, SpikeTypeOK
<1>3. ~ (Accepts(l, PROGRAM_BASE, Spike!program_end) /\ ~ Malformed(l))
  BY <1>2, SpikeAssumption DEF Accepts, Malformed
<1>4. ExecutedOf(log') = ExecutedOf(log) /\ (HasLeft(log) => HasLeft(log'))
  BY <1>1, <1>2, <1>3, AppendLine
<1>5. Budgeted(machine, log) /\ machine.steps <= limit
  BY <1>2 DEF BudgetInv
<1>6. Budgeted(machine', log')
  BY <1>2, <1>4, <1>5 DEF Budgeted, InBoot, InFirstSetup, InProgram
<1>7. QED BY <1>2, <1>5, <1>6, RunKeepsBudget

(* A trace recovered from the log has every commit of the program, and no  *)
(* more.                                                                   *)
LEMMA ParseBudget ==
  ASSUME SpikeTypeOK, BudgetInv, Spike!Parse
  PROVE  BudgetInv'
<1> DEFINE expected == load_expected_trace(Spike!ExpectedTrace)
           parsed == parse_log(log, PROGRAM_BASE, Spike!program_end, expected)
           t == parsed.commits
           accepted == Selected(log, InsideOf(log))
           n == Cardinality(ExecutedOf(log))
<1>1. spike_result' = IF expected.error \/ parsed.error THEN Failure
                      ELSE Passed(Spike!_derive_final_pc(t),
                                  RegistersAfter(request.initial_int_regs, t), t)
  BY SpikeParsers, SpikeContract, SpikeInstructions, Zenon DEF Spike!Parse
<1>2. stage = "parse" /\ stage' = "done" /\ UNCHANGED <<request, limit, machine, log>>
  BY DEF Spike!Parse
<1>3. log \in Seq(Lines) /\ machine.steps \in Nat /\ request.execution_limit \in Nat
        /\ SetupEnd \in Nat
  BY LayoutFacts DEF SpikeTypeOK, Machines
<1>4. ASSUME spike_result'.status = "PASS"
      PROVE  /\ spike_result'.executed_count = n
             /\ InsideOf(log) = ExecutedOf(log) /\ n > 0 /\ n \in Nat
  <2>1. ~ parsed.error /\ spike_result' = Passed(Spike!_derive_final_pc(t),
                                  RegistersAfter(request.initial_int_regs, t), t)
    <3> HIDE DEF parsed, expected
    <3>1. Failure.status # "PASS"
      BY DEF Failure
    <3>2. QED BY <1>1, <1>4, <3>1
  <2>2. spike_result'.executed_count = Len(t)
    <3> HIDE DEF t, parsed
    <3>1. QED BY <1>4, <2>1 DEF Passed, Failure
  <2>3. /\ Len(t) = Len(accepted) /\ Len(accepted) > 0
        /\ \A i \in DOMAIN log : Accepts(log[i], PROGRAM_BASE, Spike!program_end) =>
             ~ Malformed(log[i])
    <3> HIDE DEF expected
    <3>1. InsideOf(log) = AcceptedAt(log, PROGRAM_BASE, Spike!program_end)
      BY DEF InsideOf, AcceptedAt
    <3>2. QED BY <1>3, <2>1, <3>1, ParsedLog
  <2>4. InsideOf(log) = ExecutedOf(log)
    BY <2>3 DEF InsideOf, ExecutedOf
  <2>5. Len(accepted) = Cardinality(InsideOf(log) \cap DOMAIN log)
    BY <1>3, SelectedFacts DEF HoldsLines
  <2>6. InsideOf(log) \cap DOMAIN log = ExecutedOf(log)
    BY <2>4 DEF InsideOf
  <2>7. n \in Nat
    BY <1>3, ExecutedIsFinite
  <2> HIDE DEF t, accepted
  <2>8. QED BY <2>2, <2>3, <2>4, <2>5, <2>6, <2>7
<1> HIDE DEF n, t, parsed, expected
<1>5. ASSUME spike_result'.status = "PASS"
      PROVE  /\ n <= request.execution_limit
             /\ n < request.execution_limit => machine.trapped \/ HasLeft(log)
  <2>1. /\ limit = SetupEnd + request.execution_limit /\ machine.steps <= limit
        /\ Budgeted(machine, log) /\ (machine.steps = limit \/ machine.trapped)
    BY <1>2 DEF BudgetInv
  <2>2. ExecutedOf(log) # {}
    BY <1>4, <1>5, FS_EmptySet DEF n
  <2>3. /\ SetupEnd + n <= machine.steps
        /\ SetupEnd + n < machine.steps => HasLeft(log)
    BY <2>1, <2>2 DEF Budgeted, InBoot, InFirstSetup, InProgram, n
  <2>4. n \in Nat
    BY <1>4, <1>5
  <2>5. QED BY <1>3, <2>1, <2>3, <2>4
<1>6. Inside' = InsideOf(log) /\ Inside = InsideOf(log)
  <2>1. Spike!program_end' = Spike!program_end
    BY <1>2, SameRequest
  <2>2. QED BY <1>2, <2>1 DEF Inside, InsideOf
<1>7. BudgetIsExact'
  <2> SUFFICES ASSUME spike_result'.status = "PASS"
               PROVE  /\ spike_result'.executed_count = Cardinality(Inside')
                      /\ spike_result'.executed_count <= request'.execution_limit
                      /\ spike_result'.executed_count < request'.execution_limit =>
                           \/ machine'.trapped
                           \/ \E i \in Inside', k \in DOMAIN log' \ Inside' : i < k
    BY DEF BudgetIsExact
  <2>1. HasLeft(log) => \E i \in Inside', k \in DOMAIN log' \ Inside' : i < k
    BY <1>2, <1>6 DEF HasLeft
  <2>2. QED BY <1>2, <1>4, <1>5, <1>6, <2>1 DEF n
<1>8. QED BY <1>2, <1>7 DEF BudgetInv

(* Every step of the Spike backend keeps the budget.                       *)
LEMMA BudgetStep ==
  ASSUME SpikeTypeOK, BudgetInv, Spike!SpikeNext
  PROVE  BudgetInv'
<1>1. CASE Spike!Validate
  BY <1>1, SpikeContract DEF Spike!Validate, Spike!InScope, BudgetInv, BudgetIsExact, Failure
<1>2. CASE Spike!ToolFails
  BY <1>2, SpikeContract DEF Spike!ToolFails, BudgetInv, BudgetIsExact, Failure
<1>3. CASE Spike!Build
  BY <1>3, BuildBudget
<1>4. CASE Spike!Boot
  <2>1. InFirstSetup(machine', log')
    BY <1>4, BootStep
  <2>2. /\ stage = "run" /\ stage' = "run" /\ UNCHANGED <<request, limit, spike_result>>
        /\ machine'.steps = SPIKE_BOOT_INSTRUCTION_COUNT
    BY <1>4 DEF Spike!Boot, Spike!Running, SpikeTypeOK, Machines
  <2>3. SPIKE_BOOT_INSTRUCTION_COUNT <= limit
    <3>1. limit = SetupEnd + request.execution_limit
      BY <2>2 DEF BudgetInv
    <3>2. /\ SPIKE_BOOT_INSTRUCTION_COUNT \in Nat /\ Len(Spike!Setup) \in Nat
          /\ request.execution_limit \in Nat
      BY LayoutFacts DEF SpikeTypeOK
    <3>3. QED BY <3>1, <3>2 DEF SetupEnd
  <2>4. QED BY <2>1, <2>2, <2>3, RunKeepsBudget DEF Budgeted
<1>5. CASE Spike!RunSetup \/ Spike!RunInstruction
  BY <1>5, InstructionBudget
<1>6. CASE Spike!Trap
  <2>1. /\ stage = "run" /\ stage' = "run" /\ UNCHANGED <<request, limit, log, spike_result>>
        /\ machine'.steps = machine.steps /\ machine'.pc = machine.pc
    BY <1>6 DEF Spike!Trap, Spike!Running, SpikeTypeOK, Machines
  <2>2. Budgeted(machine, log) /\ machine.steps <= limit
    BY <2>1 DEF BudgetInv
  <2>3. Budgeted(machine', log')
    BY <2>1, <2>2 DEF Budgeted, InBoot, InFirstSetup, InProgram
  <2>4. QED BY <2>1, <2>2, <2>3, RunKeepsBudget
<1>7. CASE Spike!WritesOther
  BY <1>7, OtherLineBudget
<1>8. CASE Spike!SpikeExits
  <2>1. /\ stage = "run" /\ stage' = "parse" /\ (machine.steps = limit \/ machine.trapped)
        /\ UNCHANGED <<request, limit, machine, log, spike_result>>
    BY <1>8 DEF Spike!SpikeExits
  <2>2. SetupEnd' = SetupEnd /\ Budgeted(machine, log)' = Budgeted(machine, log)
    <3>1. SetupEnd' = SetupEnd /\ \A m, lines : Budgeted(m, lines)' = Budgeted(m, lines)
      BY <2>1, SameRequest
    <3>2. QED BY <2>1, <3>1 DEF Budgeted, InBoot, InFirstSetup, InProgram, ExecutedOf, InsideOf,
                                HasLeft, Spike!program_end
  <2>3. QED BY <2>1, <2>2 DEF BudgetInv, BudgetIsExact
<1>9. CASE Spike!Parse
  BY <1>9, ParseBudget
<1>10. QED BY <1>1, <1>2, <1>3, <1>4, <1>5, <1>6, <1>7, <1>8, <1>9 DEF Spike!SpikeNext

(* And every step of the others.                                           *)
LEMMA BudgetStutter ==
  ASSUME BudgetInv, UNCHANGED <<request, spike_vars>>
  PROVE  BudgetInv'
<1>1. UNCHANGED <<request, stage, limit, machine, log, spike_result>>
  BY DEF spike_vars
<1>2. SetupEnd' = SetupEnd /\ Spike!program_end' = Spike!program_end
  BY <1>1, SameRequest
<1>3. /\ InsideOf(log)' = InsideOf(log) /\ ExecutedOf(log)' = ExecutedOf(log)
      /\ HasLeft(log)' = HasLeft(log) /\ Inside' = Inside
  BY <1>1, <1>2 DEF InsideOf, ExecutedOf, HasLeft, Inside
<1>4. Budgeted(machine, log)' = Budgeted(machine, log)
  BY <1>1, <1>2, <1>3 DEF Budgeted, InBoot, InFirstSetup, InProgram
<1>5. BudgetIsExact'
  BY <1>1, <1>3 DEF BudgetInv, BudgetIsExact
<1>6. QED BY <1>1, <1>2, <1>4, <1>5 DEF BudgetInv

(* Who else moves leaves Spike's variables alone.                          *)
LEMMA SpikeOnly ==
  ASSUME [DifferentialNext]_differential_vars, ~ RunSpike
  PROVE  UNCHANGED <<request, spike_vars>>
<1>1. CASE RunEmulator
  BY <1>1 DEF RunEmulator, Next, Validate, ExecuteAddi, ExecuteRType, ExecuteBeq, ExecuteLw,
              ExecuteSw, Fail, Finish, Continue
<1>2. CASE Compare \/ UNCHANGED differential_vars
  BY <1>2 DEF Compare, differential_vars
<1>3. CASE RunSmokeTest
  BY <1>3 DEF RunSmokeTest, spike_vars, Runner!Call, Runner!RunnerNext, Runner!CheckArguments,
              Runner!SpikeExits, Runner!RunParser
<1>4. CASE RunDut
  BY <1>4 DEF RunDut, Cpu!CpuNext, Cpu!LoadProgram, Cpu!IdleEdge, Cpu!InitRegister,
              Cpu!Enable, Cpu!Execute, Cpu!Stop, Cpu!Edge
<1>5. QED BY <1>1, <1>2, <1>3, <1>4 DEF DifferentialNext

(* Spike's result counts the commits of the program in the log, no more    *)
(* than the request's limit, and fewer only if the run has trapped or has  *)
(* left the program: boot and setup code, whatever its size, take nothing  *)
(* of the limit.                                                           *)
THEOREM BudgetsExact == DifferentialSpec => []BudgetIsExact
<1>1. DifferentialInit => BudgetInv
  BY SpikeContract DEF DifferentialInit, Spike!Called, BudgetInv, BudgetIsExact
<1>2. ComparisonInv /\ BudgetInv /\ [DifferentialNext]_differential_vars => BudgetInv'
  <2> SUFFICES ASSUME ComparisonInv, BudgetInv, [DifferentialNext]_differential_vars
               PROVE  BudgetInv'
    OBVIOUS
  <2>1. CASE RunSpike
    BY <2>1, BudgetStep DEF RunSpike, ComparisonInv
  <2>2. CASE ~ RunSpike
    BY <2>2, SpikeOnly, BudgetStutter
  <2>3. QED BY <2>1, <2>2
<1>3. BudgetInv => BudgetIsExact
  BY DEF BudgetInv
<1>4. QED BY <1>1, <1>2, <1>3, ComparisonInvariant, PTL DEF DifferentialSpec

-----------------------------------------------------------------------------
(* The two arithmetics.                                                    *)

(* Quotient and remainder are the only ones.                               *)
LEMMA DivisionIsUnique ==
  ASSUME NEW a \in Int, NEW d \in Nat \ {0}, NEW q \in Int, NEW r \in 0 .. d - 1, a = d * q + r
  PROVE  a \div d = q /\ a % d = r
<1> DEFINE p == a \div d
           s == a % d
<1>1. p \in Int /\ s \in 0 .. d - 1 /\ a = d * p + s
  OBVIOUS
<1> HIDE DEF p, s
<1>2. ~ (q > p)
  <2> SUFFICES ASSUME q > p PROVE FALSE
    OBVIOUS
  <2>1. q >= p + 1
    BY <1>1
  <2>2. d * q >= d * (p + 1)
    BY <1>1, <2>1
  <2>3. d * (p + 1) = d * p + d
    BY <1>1
  <2>4. d * q \in Int /\ d * p \in Int /\ d * q >= d * p + d
    BY <1>1, <2>2, <2>3
  <2>5. QED BY <1>1, <2>4
<1>3. ~ (p > q)
  <2> SUFFICES ASSUME p > q PROVE FALSE
    OBVIOUS
  <2>1. p >= q + 1
    BY <1>1
  <2>2. d * p >= d * (q + 1)
    BY <1>1, <2>1
  <2>3. d * (q + 1) = d * q + d
    BY <1>1
  <2>4. d * q \in Int /\ d * p \in Int /\ d * p >= d * q + d
    BY <1>1, <2>2, <2>3
  <2>5. QED BY <1>1, <2>4
<1>4. p = q
  BY <1>1, <1>2, <1>3
<1>5. QED BY <1>1, <1>4 DEF p, s

(* A number below the divisor.                                             *)
LEMMA SmallQuotient ==
  ASSUME NEW d \in Nat \ {0}, NEW r \in 0 .. d - 1
  PROVE  r \div d = 0
<1>1. r = d * 0 + r
  OBVIOUS
<1>2. QED BY <1>1, DivisionIsUnique

(* A multiple of the divisor goes into the quotient.                       *)
LEMMA DivisionOfSum ==
  ASSUME NEW a \in Int, NEW d \in Nat \ {0}, NEW k \in Int
  PROVE  (a + d * k) \div d = (a \div d) + k /\ (a + d * k) % d = a % d
<1> DEFINE q == a \div d
           r == a % d
<1>1. q \in Int /\ r \in 0 .. d - 1 /\ a = d * q + r
  OBVIOUS
<1> HIDE DEF q, r
<1>2. a + d * k = d * (q + k) + r
  BY <1>1
<1>3. a + d * k \in Int /\ q + k \in Int
  BY <1>1
<1>4. QED BY <1>1, <1>2, <1>3, DivisionIsUnique DEF q, r

(* And one divisor more changes no remainder.                              *)
LEMMA RemainderOfSum ==
  ASSUME NEW a \in Int, NEW d \in Nat \ {0}
  PROVE  (a + d) % d = a % d
<1> DEFINE k == 1
<1>1. k \in Int /\ a + d * k = a + d
  OBVIOUS
<1> HIDE DEF k
<1>2. (a + d * k) % d = a % d
  BY <1>1, DivisionOfSum
<1>3. QED BY <1>1, <1>2

(* A common factor cancels.                                                *)
LEMMA DivisionCancels ==
  ASSUME NEW a \in Int, NEW d \in Nat \ {0}, NEW c \in Nat \ {0}
  PROVE  (a * c) \div (d * c) = a \div d
<1> DEFINE q == a \div d
           r == a % d
<1>1. q \in Int /\ r \in 0 .. d - 1 /\ a = d * q + r
  OBVIOUS
<1> HIDE DEF q, r
<1>2. a * c = (d * c) * q + r * c
  BY <1>1
<1>3. r * c \in Nat /\ r * c <= (d - 1) * c /\ d * c \in Nat \ {0} /\ a * c \in Int
  BY <1>1
<1>4. (d - 1) * c = d * c - c
  OBVIOUS
<1>5. r * c \in 0 .. (d * c) - 1
  BY <1>3, <1>4
<1>6. QED BY <1>1, <1>2, <1>3, <1>5, DivisionIsUnique DEF q

(* Dividing twice is dividing once.                                        *)
LEMMA DivisionTwice ==
  ASSUME NEW a \in Int, NEW d \in Nat \ {0}, NEW c \in Nat \ {0}
  PROVE  (a \div d) \div c = a \div (d * c)
<1> DEFINE q == a \div d
           r == a % d
           p == q \div c
           s == q % c
<1>1. q \in Int /\ r \in 0 .. d - 1 /\ a = d * q + r
  OBVIOUS
<1>2. p \in Int /\ s \in 0 .. c - 1 /\ q = c * p + s
  BY <1>1
<1> HIDE DEF q, r
<1> HIDE DEF p, s
<1>3. a = (d * c) * p + (d * s + r)
  BY <1>1, <1>2
<1>4. d * s \in Nat /\ d * s <= d * (c - 1) /\ d * c \in Nat \ {0}
  BY <1>1, <1>2
<1>5. d * (c - 1) = d * c - d
  OBVIOUS
<1>6. d * s + r \in 0 .. (d * c) - 1
  BY <1>1, <1>4, <1>5
<1>7. a \div (d * c) = p
  BY <1>2, <1>3, <1>4, <1>6, DivisionIsUnique
<1>8. QED BY <1>7 DEF p, q

-----------------------------------------------------------------------------
(* Powers of two up to the width of a word.                                *)
LEMMA PowerFacts ==
  /\ XLEN \in Nat /\ XLEN > 2 /\ Modulus = 2^XLEN /\ 2^0 = 1
  /\ \A i \in 0 .. XLEN : 2^i \in Nat \ {0}
  /\ \A i \in 0 .. XLEN - 1 : 2^(i + 1) = 2 * 2^i
<1>1. XLEN \in Nat /\ XLEN > 2 /\ Modulus = 2^XLEN /\ Modulus \in Nat \ {0}
  BY ContractAssumption DEF Modulus
<1>2. \A i \in 0 .. XLEN : i \in 0 .. XLEN - 1 \/ i = XLEN
  BY <1>1
<1>3. QED BY <1>1, <1>2, PowersOfTwo

(* The power of a sum.                                                     *)
LEMMA PowerOfSum ==
  ASSUME NEW a \in Nat, NEW b \in Nat, a + b <= XLEN
  PROVE  2^(a + b) = 2^a * 2^b
<1> DEFINE N == XLEN - a
           T == {n \in 0 .. N : 2^(a + n) = 2^a * 2^n}
<1>1. XLEN \in Nat /\ N \in Nat /\ a \in 0 .. XLEN /\ b \in 0 .. N
  BY PowerFacts
<1>2. 0 \in T
  <2>1. a + 0 = a /\ 2^a \in Nat /\ 2^0 = 1 /\ 0 \in 0 .. N
    BY <1>1, PowerFacts
  <2>2. QED BY <2>1
<1>3. ASSUME NEW n \in 1 .. N, n - 1 \in T
      PROVE  n \in T
  <2> DEFINE k == n - 1
  <2>1. /\ k \in Nat /\ a + k \in 0 .. XLEN - 1 /\ k \in 0 .. XLEN - 1
        /\ k + 1 = n /\ (a + k) + 1 = a + n /\ n \in 0 .. N
    BY <1>1
  <2>2. 2^(a + k) = 2^a * 2^k
    BY <1>3
  <2>3. 2^a \in Nat /\ 2^k \in Nat
    BY <1>1, <2>1, PowerFacts
  <2> HIDE DEF k
  <2>4. 2^(a + n) = 2 * 2^(a + k) /\ 2^n = 2 * 2^k
    BY <2>1, PowerFacts
  <2> DEFINE p == 2^a
             q == 2^k
  <2>5. p \in Nat /\ q \in Nat /\ 2^(a + n) = 2 * (p * q) /\ 2^n = 2 * q
    BY <2>2, <2>3, <2>4
  <2> HIDE DEF p, q
  <2>6. 2 * (p * q) = p * (2 * q)
    BY <2>5
  <2>7. QED BY <2>1, <2>5, <2>6 DEF p
<1> HIDE DEF T, N
<1>4. b \in T
  BY <1>1, <1>2, <1>3, InductionTo
<1>5. QED BY <1>4 DEF T

(* A bit below the width does not see what _u32 takes away.                *)
LEMMA BitOfU32 ==
  ASSUME NEW v \in Int, NEW i \in 0 .. XLEN - 1
  PROVE  (_u32(v) \div 2^i) % 2 = (v \div 2^i) % 2
<1> DEFINE q == v \div Modulus
           w == _u32(v)
           d == 2^i
           h == 2^(XLEN - (i + 1))
<1>1. Modulus \in Nat \ {0} /\ q \in Int /\ w \in Int /\ v = Modulus * q + w
  BY ContractAssumption DEF _u32
<1>2. /\ i \in 0 .. XLEN /\ XLEN - (i + 1) \in 0 .. XLEN /\ i + 1 \in 0 .. XLEN
      /\ (i + 1) + (XLEN - (i + 1)) = XLEN
  BY PowerFacts
<1>3. d \in Nat \ {0} /\ h \in Nat \ {0} /\ 2^(i + 1) = 2 * d
  BY <1>2, PowerFacts
<1>4. Modulus = 2^(i + 1) * h
  <2>1. 2^((i + 1) + (XLEN - (i + 1))) = 2^(i + 1) * 2^(XLEN - (i + 1))
    BY <1>2, PowerOfSum
  <2>2. QED BY <1>2, <2>1, PowerFacts
<1> HIDE DEF q, w, d, h
<1>5. v = w + d * (2 * (h * q))
  <2>1. Modulus = (2 * d) * h
    BY <1>3, <1>4
  <2>2. Modulus * q = d * (2 * (h * q))
    BY <1>1, <1>3, <2>1
  <2>3. d * (2 * (h * q)) \in Int
    BY <1>1, <1>3
  <2>4. QED BY <1>1, <2>2, <2>3
<1> DEFINE k == h * q
           m == 2 * k
           z == w \div d
<1>6. k \in Int /\ m \in Int /\ z \in Int /\ v = w + d * m
  BY <1>1, <1>3, <1>5
<1>7. (w + d * m) \div d = z + m
  <2> HIDE DEF m
  <2>1. QED BY <1>1, <1>3, <1>6, DivisionOfSum DEF z
<1> HIDE DEF k, z
<1>8. (z + 2 * k) % 2 = z % 2
  BY <1>6
<1>9. (v \div d) % 2 = (w \div d) % 2
  BY <1>6, <1>7, <1>8 DEF z
<1>10. QED BY <1>9 DEF d, w

(* A word is what its bits are.                                            *)
LEMMA WordOfBits ==
  ASSUME NEW v \in Int, NEW S \in SUBSET (0 .. XLEN - 1),
         \A i \in 0 .. XLEN - 1 : i \in S <=> (v \div 2^i) % 2 = 1
  PROVE  _u32(v) = FromBits(S)
<1>1. _u32(v) \in Word
  BY WordFacts
<1>2. BitSet(_u32(v)) = S
  BY BitOfU32 DEF BitSet
<1>3. QED BY <1>1, <1>2, BinaryNotation

(* Half of the words, and the value of a word as a signed number.          *)
LEMMA SignedFacts ==
  ASSUME NEW x \in Word
  PROVE  LET half == 2^(XLEN - 1)
             v    == _signed32(x)
         IN  /\ half \in Nat \ {0} /\ Modulus = 2 * half /\ Modulus \div 2 = half
             /\ v \in Int /\ -half <= v /\ v < half /\ _u32(v) = x
             /\ v < 0 <=> x >= half
             /\ v = x \/ v = x - Modulus
             /\ XLEN - 1 \in BitSet(x) <=> v < 0
<1> DEFINE half == 2^(XLEN - 1)
           v == _signed32(x)
<1>1. XLEN - 1 \in 0 .. XLEN - 1 /\ XLEN - 1 \in 0 .. XLEN /\ (XLEN - 1) + 1 = XLEN
  BY PowerFacts
<1>2. half \in Nat \ {0} /\ Modulus = 2 * half
  BY <1>1, PowerFacts
<1> HIDE DEF half
<1>3. Modulus \div 2 = half /\ x \in Nat /\ x < 2 * half
  BY <1>2 DEF Word
<1>4. v = IF x >= half THEN x - Modulus ELSE x
  BY <1>3 DEF _signed32
<1> HIDE DEF v
<1>5. /\ v \in Int /\ -half <= v /\ v < half
      /\ v < 0 <=> x >= half
      /\ v = x \/ v = x - Modulus
  BY <1>2, <1>3, <1>4
<1>6. _u32(v) = x
  <2>1. v = x \/ v = x + Modulus * (-1)
    <3>1. Modulus \in Int
      BY <1>2
    <3>2. Modulus * (-1) = -Modulus
      BY <3>1
    <3>3. QED BY <1>3, <1>5, <3>1, <3>2
  <2>2. Modulus \in Nat \ {0} /\ -1 \in Int /\ x \in Int /\ _u32(x) = x
    BY <1>2, <1>3, WordFacts
  <2>3. (x + Modulus * (-1)) % Modulus = x % Modulus
    BY <2>2, DivisionOfSum
  <2>4. QED BY <2>1, <2>2, <2>3 DEF _u32
<1>7. XLEN - 1 \in BitSet(x) <=> x >= half
  <2>1. XLEN - 1 \in BitSet(x) <=> (x \div half) % 2 = 1
    BY <1>1 DEF BitSet, half
  <2>2. CASE x >= half
    <3>1. x = half * 1 + (x - half) /\ x - half \in 0 .. half - 1 /\ x \in Int
      BY <1>2, <1>3, <2>2
    <3>2. x \div half = 1
      BY <1>2, <3>1, DivisionIsUnique
    <3>3. QED BY <2>1, <2>2, <3>2
  <2>3. CASE x < half
    <3>1. x = half * 0 + x /\ x \in 0 .. half - 1 /\ x \in Int
      BY <1>2, <1>3, <2>3
    <3>2. x \div half = 0
      BY <1>2, <3>1, DivisionIsUnique
    <3>3. ~ (x >= half)
      BY <1>2, <1>3, <2>3
    <3>4. QED BY <2>1, <3>2, <3>3
  <2>4. QED BY <1>2, <1>3, <2>2, <2>3
<1>8. QED BY <1>2, <1>3, <1>5, <1>6, <1>7 DEF half, v

-----------------------------------------------------------------------------
(* The machine's operations on bits are those of the emulator on integers. *)

(* A left shift multiplies.                                                *)
LEMMA LeftShift ==
  ASSUME NEW x \in Word, NEW s \in 0 .. XLEN - 1
  PROVE  _u32(x * 2^s) = FromBits({i \in s .. XLEN - 1 : i - s \in BitSet(x)})
<1> DEFINE p == 2^s
           v == x * p
           S == {i \in s .. XLEN - 1 : i - s \in BitSet(x)}
<1>1. s \in Nat /\ s \in 0 .. XLEN /\ p \in Nat \ {0} /\ x \in Int /\ v \in Int
  BY PowerFacts, WordFacts
<1>2. S \in SUBSET (0 .. XLEN - 1)
  BY PowerFacts
<1>3. ASSUME NEW i \in 0 .. XLEN - 1
      PROVE  i \in S <=> (v \div 2^i) % 2 = 1
  <2>1. i \in Nat /\ i \in 0 .. XLEN
    BY PowerFacts
  <2>2. CASE s <= i
    <3> DEFINE d == 2^(i - s)
    <3>1. i - s \in 0 .. XLEN /\ i - s \in 0 .. XLEN - 1 /\ i - s \in Nat
            /\ (i - s) + s = i /\ (i - s) + s <= XLEN
      BY <1>1, <2>1, <2>2, PowerFacts
    <3>2. d \in Nat \ {0} /\ 2^((i - s) + s) = d * p
      BY <1>1, <3>1, PowerFacts, PowerOfSum
    <3>3. 2^i = d * p
      BY <3>1, <3>2
    <3> HIDE DEF d, p
    <3>4. v \div 2^i = x \div d
      <4>1. (x * p) \div (d * p) = x \div d
        BY <1>1, <3>2, DivisionCancels
      <4>2. QED BY <3>3, <4>1
    <3>5. i \in S <=> i - s \in BitSet(x)
      BY <1>1, <2>1, <2>2
    <3>6. i - s \in BitSet(x) <=> (x \div d) % 2 = 1
      BY <3>1 DEF BitSet, d
    <3> HIDE DEF v, S
    <3>7. QED BY <3>4, <3>5, <3>6
  <2>3. CASE i < s
    <3> DEFINE d == 2^i
               h == 2^(s - (i + 1))
    <3>1. /\ i + 1 \in Nat /\ s - (i + 1) \in Nat /\ s - (i + 1) \in 0 .. XLEN
          /\ (i + 1) + (s - (i + 1)) = s /\ (i + 1) + (s - (i + 1)) <= XLEN
      BY <1>1, <2>1, <2>3, PowerFacts
    <3>2. d \in Nat \ {0} /\ h \in Nat /\ 2^(i + 1) = 2 * d
      BY <2>1, <3>1, PowerFacts
    <3>3. 2^((i + 1) + (s - (i + 1))) = 2^(i + 1) * h
      BY <3>1, PowerOfSum
    <3>4. p = (2 * d) * h
      BY <3>1, <3>2, <3>3
    <3> HIDE DEF d, h, p
    <3> DEFINE k == h * x
               m == 2 * k
    <3>5. v = d * (2 * (h * x))
      <4>1. x * ((2 * d) * h) = d * (2 * (h * x))
        BY <1>1, <3>2
      <4>2. QED BY <3>4, <4>1
    <3>6. k \in Int /\ m \in Int
      BY <1>1, <3>2
    <3>7. v = d * m + 0 /\ 0 \in 0 .. d - 1
      <4> HIDE DEF v
      <4>1. QED BY <3>2, <3>5, <3>6
    <3>8. v \div d = m
      <4> HIDE DEF m, v
      <4>1. QED BY <1>1, <3>2, <3>6, <3>7, DivisionIsUnique
    <3>9. m % 2 = 0
      <4> HIDE DEF k
      <4>1. QED BY <3>6
    <3>10. i \notin S
      BY <1>1, <2>1, <2>3
    <3> HIDE DEF v, m, S
    <3>11. QED BY <3>8, <3>9, <3>10 DEF d
  <2>4. QED BY <1>1, <2>1, <2>2, <2>3
<1> HIDE DEF S, v
<1>4. _u32(v) = FromBits(S)
  BY <1>1, <1>2, <1>3, WordOfBits
<1>5. QED BY <1>4 DEF S, v, p

(* A right shift of a signed number divides, and repeats the sign.         *)
LEMMA RightShift ==
  ASSUME NEW x \in Word, NEW s \in 0 .. XLEN - 1
  PROVE  _u32(_signed32(x) \div 2^s) =
           FromBits({i \in 0 .. XLEN - 1 :
                       (IF i + s < XLEN THEN i + s ELSE XLEN - 1) \in BitSet(x)})
<1> DEFINE p == 2^s
           a == _signed32(x)
           v == a \div p
           half == 2^(XLEN - 1)
           S == {i \in 0 .. XLEN - 1 : (IF i + s < XLEN THEN i + s ELSE XLEN - 1) \in BitSet(x)}
<1>1. s \in Nat /\ s \in 0 .. XLEN /\ p \in Nat \ {0}
  BY PowerFacts
<1>2. /\ half \in Nat \ {0} /\ Modulus = 2 * half
      /\ a \in Int /\ -half <= a /\ a < half /\ _u32(a) = x
      /\ XLEN - 1 \in BitSet(x) <=> a < 0
  BY SignedFacts
<1> HIDE DEF a, half
<1>3. v \in Int
  BY <1>1, <1>2
<1>4. ASSUME NEW i \in 0 .. XLEN - 1
      PROVE  i \in S <=> (v \div 2^i) % 2 = 1
  <2>1. i \in Nat /\ i \in 0 .. XLEN /\ 2^i \in Nat \ {0}
    BY PowerFacts
  <2>2. CASE i + s < XLEN
    <3>1. i + s \in 0 .. XLEN - 1 /\ s + i = i + s /\ s + i <= XLEN
      BY <1>1, <2>1, <2>2, PowerFacts
    <3>2. 2^(s + i) = p * 2^i
      BY <1>1, <2>1, <3>1, PowerOfSum
    <3>3. v \div 2^i = a \div 2^(i + s)
      <4> HIDE DEF p
      <4>1. (a \div p) \div 2^i = a \div (p * 2^i)
        BY <1>1, <1>2, <2>1, DivisionTwice
      <4>2. QED BY <3>1, <3>2, <4>1
    <3>4. (x \div 2^(i + s)) % 2 = (a \div 2^(i + s)) % 2
      BY <1>2, <3>1, BitOfU32
    <3>5. i \in S <=> (x \div 2^(i + s)) % 2 = 1
      BY <2>2, <3>1 DEF BitSet
    <3> HIDE DEF S, v
    <3>6. QED BY <3>3, <3>4, <3>5
  <2>3. CASE ~ (i + s < XLEN)
    <3> DEFINE h == 2^(XLEN - 1 - s)
               g == 2^(i - (XLEN - 1 - s))
               d == 2^i
    <3>1. /\ XLEN - 1 - s \in Nat /\ XLEN - 1 - s \in 0 .. XLEN
          /\ i - (XLEN - 1 - s) \in Nat /\ i - (XLEN - 1 - s) \in 0 .. XLEN
          /\ (XLEN - 1 - s) + (i - (XLEN - 1 - s)) = i /\ i <= XLEN
          /\ s + (XLEN - 1 - s) = XLEN - 1 /\ XLEN - 1 <= XLEN
      BY <1>1, <2>1, <2>3, PowerFacts
    <3>2. h \in Nat \ {0} /\ g \in Nat \ {0} /\ d \in Nat \ {0}
      BY <2>1, <3>1, PowerFacts
    <3>3. d = h * g
      BY <3>1, PowerOfSum
    <3>4. half = p * h
      <4>1. 2^(s + (XLEN - 1 - s)) = p * h
        BY <1>1, <3>1, PowerOfSum
      <4>2. QED BY <3>1, <4>1 DEF half
    <3> HIDE DEF h, g, d, p
    <3>5. h <= d
      BY <3>2, <3>3
    <3> DEFINE r == a % p
    <3>6. v \in Int /\ r \in 0 .. p - 1 /\ a = p * v + r
      BY <1>1, <1>2
    <3> HIDE DEF v, r, S
    <3>7. CASE a < 0
      <4>1. v < 0
        <5> SUFFICES ASSUME v >= 0 PROVE FALSE
          BY <3>6
        <5>1. p * v >= 0
          BY <1>1, <3>6
        <5>2. QED BY <1>1, <3>6, <3>7, <5>1
      <4>2. v >= -h
        <5> SUFFICES ASSUME v < -h PROVE FALSE
          BY <3>2, <3>6
        <5>1. v <= -h - 1
          BY <3>2, <3>6
        <5>2. p * v <= p * (-h - 1)
          BY <1>1, <3>2, <3>6, <5>1
        <5>3. p * (-h - 1) = -(p * h) - p
          BY <1>1, <3>2
        <5>4. p * v \in Int /\ p * h \in Int
          BY <1>1, <3>2, <3>6
        <5>5. QED BY <1>1, <1>2, <3>4, <3>6, <5>2, <5>3, <5>4
      <4>3. v = d * (-1) + (v + d) /\ v + d \in 0 .. d - 1
        <5>1. d * (-1) = -d
          BY <3>2
        <5>2. QED BY <3>2, <3>5, <3>6, <4>1, <4>2, <5>1
      <4>4. v \div d = -1
        BY <3>2, <3>6, <4>3, DivisionIsUnique
      <4>5. i \in S <=> XLEN - 1 \in BitSet(x)
        BY <2>3 DEF S
      <4>6. QED BY <1>2, <3>7, <4>4, <4>5 DEF d
    <3>8. CASE a >= 0
      <4>1. v >= 0
        <5> SUFFICES ASSUME v < 0 PROVE FALSE
          BY <3>6
        <5>1. v <= -1
          BY <3>6
        <5>2. p * v <= p * (-1)
          BY <1>1, <3>6, <5>1
        <5>3. p * (-1) = -p /\ p * v \in Int
          BY <1>1, <3>6
        <5>4. QED BY <1>1, <3>6, <3>8, <5>2, <5>3
      <4>2. v < h
        <5> SUFFICES ASSUME v >= h PROVE FALSE
          BY <3>2, <3>6
        <5>1. p * v >= p * h
          BY <1>1, <3>2, <3>6
        <5>2. p * v \in Int /\ p * h \in Int
          BY <1>1, <3>2, <3>6
        <5>3. QED BY <1>1, <1>2, <3>4, <3>6, <5>1, <5>2
      <4>3. v \in 0 .. d - 1
        BY <3>2, <3>5, <3>6, <4>1, <4>2
      <4>4. v \div d = 0
        BY <3>2, <4>3, SmallQuotient
      <4>5. i \in S <=> XLEN - 1 \in BitSet(x)
        BY <2>3 DEF S
      <4>6. ~ (a < 0)
        BY <1>2, <3>8
      <4>7. QED BY <1>2, <4>4, <4>5, <4>6 DEF d
    <3>9. QED BY <1>2, <3>7, <3>8
  <2>4. QED BY <2>2, <2>3
<1>5. S \in SUBSET (0 .. XLEN - 1)
  OBVIOUS
<1> HIDE DEF S, v
<1>6. _u32(v) = FromBits(S)
  BY <1>3, <1>4, <1>5, WordOfBits
<1>7. QED BY <1>6 DEF S, v, a, p

(* Signed numbers are in the order of the words half a turn on.            *)
LEMMA SignedOrder ==
  ASSUME NEW x \in Word
  PROVE  (x + Spike!Half) % Modulus = _signed32(x) + Spike!Half
<1> DEFINE half == 2^(XLEN - 1)
           v == _signed32(x)
<1>1. /\ half \in Nat \ {0} /\ Modulus = 2 * half /\ Modulus \div 2 = half
      /\ v \in Int /\ -half <= v /\ v < half /\ (v = x \/ v = x - Modulus)
      /\ x \in Int
  BY SignedFacts, WordFacts
<1>2. Spike!Half = half
  BY <1>1, SpikeContract DEF Spike!Half
<1> HIDE DEF half, v
<1> DEFINE a == x + half
           b == v + half
<1>3. /\ a \in Int /\ b \in 0 .. Modulus - 1 /\ b \in Int /\ Modulus \in Nat \ {0}
      /\ a = b \/ a = b + Modulus
  BY <1>1
<1>4. \A c \in 0 .. Modulus - 1 : c % Modulus = c
  BY <1>3
<1> HIDE DEF a, b
<1>5. a % Modulus = b
  BY <1>3, <1>4, RemainderOfSum
<1>6. QED BY <1>2, <1>5 DEF a, b, v

(* The arithmetic of the instruction set on unsigned words and sets of     *)
(* bits is that of the emulator on integers, signed where it has to be.    *)
LEMMA AluAgrees ==
  ASSUME NEW k \in RTypes, NEW x \in Word, NEW y \in Word
  PROVE  Spike!IsaAlu(k, x, y) = _u32(_r_type(k, x, y))
<1> DEFINE s == y % XLEN
<1>1. /\ x \in Nat /\ y \in Nat /\ s \in 0 .. XLEN - 1 /\ Modulus \in Nat \ {0}
      /\ Modulus > 4
  BY WordFacts, PowerFacts, ContractAssumption
<1>2. /\ Spike!Modulus = Modulus /\ \A z : Spike!BitSet(z) = BitSet(z)
      /\ \A S : Spike!FromBits(S) = FromBits(S)
  BY SpikeContract, SpikeInstructions
<1>3. BitSet(x) \subseteq 0 .. XLEN - 1 /\ BitSet(y) \subseteq 0 .. XLEN - 1
  BY DEF BitSet
<1>4. \A S \in SUBSET (0 .. XLEN - 1) : _u32(FromBits(S)) = FromBits(S)
  BY FromBitsIsWord, WordFacts
<1>5. CASE k = "add"
  <2>1. Spike!IsaAlu(k, x, y) = (x + y) % Spike!Modulus
    BY <1>5 DEF Spike!IsaAlu
  <2>2. _r_type(k, x, y) = x + y
    BY <1>5 DEF _r_type
  <2>3. QED BY <1>2, <2>1, <2>2 DEF _u32
<1>6. CASE k = "sub"
  <2>1. Spike!IsaAlu(k, x, y) = (x + (Spike!Modulus - y)) % Spike!Modulus
    BY <1>6 DEF Spike!IsaAlu
  <2>2. _r_type(k, x, y) = x - y
    BY <1>6 DEF _r_type
  <2> DEFINE z == x - y
  <2>3. z \in Int /\ z + Modulus = x + (Modulus - y)
    BY <1>1
  <2> HIDE DEF z
  <2>4. (z + Modulus) % Modulus = z % Modulus
    BY <1>1, <2>3, RemainderOfSum
  <2>5. QED BY <1>2, <2>1, <2>2, <2>3, <2>4 DEF _u32, z
<1>7. CASE k = "and"
  <2>1. Spike!IsaAlu(k, x, y) = FromBits({i \in BitSet(x) : i \in BitSet(y)})
    BY <1>2, <1>7 DEF Spike!IsaAlu
  <2>2. _r_type(k, x, y) = FromBits(BitSet(x) \cap BitSet(y))
    BY <1>7 DEF _r_type
  <2>3. {i \in BitSet(x) : i \in BitSet(y)} = BitSet(x) \cap BitSet(y)
    OBVIOUS
  <2>4. BitSet(x) \cap BitSet(y) \in SUBSET (0 .. XLEN - 1)
    BY <1>3
  <2>5. QED BY <1>4, <2>1, <2>2, <2>3, <2>4
<1>8. CASE k = "or"
  <2>1. Spike!IsaAlu(k, x, y) = FromBits(BitSet(x) \cup BitSet(y))
    BY <1>2, <1>8 DEF Spike!IsaAlu
  <2>2. _r_type(k, x, y) = FromBits(BitSet(x) \cup BitSet(y))
    BY <1>8 DEF _r_type
  <2>3. BitSet(x) \cup BitSet(y) \in SUBSET (0 .. XLEN - 1)
    BY <1>3
  <2>4. QED BY <1>4, <2>1, <2>2, <2>3
<1>9. CASE k = "xor"
  <2> DEFINE S == {i \in 0 .. XLEN - 1 : (i \in BitSet(x)) # (i \in BitSet(y))}
             T == (BitSet(x) \cup BitSet(y)) \ (BitSet(x) \cap BitSet(y))
  <2>1. Spike!IsaAlu(k, x, y) = FromBits(S)
    BY <1>2, <1>9 DEF Spike!IsaAlu
  <2>2. _r_type(k, x, y) = FromBits(T)
    BY <1>9 DEF _r_type
  <2>3. S = T
    BY <1>3
  <2>4. T \in SUBSET (0 .. XLEN - 1)
    BY <1>3
  <2> HIDE DEF S, T
  <2>5. QED BY <1>4, <2>1, <2>2, <2>3, <2>4
<1>10. CASE k = "sll"
  <2>1. Spike!IsaAlu(k, x, y) = FromBits({i \in s .. XLEN - 1 : i - s \in BitSet(x)})
    BY <1>2, <1>10 DEF Spike!IsaAlu
  <2>2. _r_type(k, x, y) = x * 2^s
    BY <1>10 DEF _r_type
  <2> HIDE DEF s
  <2>3. QED BY <1>1, <2>1, <2>2, LeftShift
<1>11. CASE k = "sra"
  <2>1. Spike!IsaAlu(k, x, y) = FromBits({i \in 0 .. XLEN - 1 :
                       (IF i + s < XLEN THEN i + s ELSE XLEN - 1) \in BitSet(x)})
    BY <1>2, <1>11 DEF Spike!IsaAlu
  <2>2. _r_type(k, x, y) = _signed32(x) \div 2^s
    BY <1>11 DEF _r_type
  <2> HIDE DEF s
  <2>3. QED BY <1>1, <2>1, <2>2, RightShift
<1>12. CASE k = "slt"
  <2> DEFINE half == Spike!Half
             v == _signed32(x)
             w == _signed32(y)
  <2>1. /\ (x + half) % Spike!Modulus = v + half /\ (y + half) % Spike!Modulus = w + half
    BY <1>2, SignedOrder
  <2>2. Spike!IsaAlu(k, x, y) =
          IF (x + half) % Spike!Modulus < (y + half) % Spike!Modulus THEN 1 ELSE 0
    BY <1>12 DEF Spike!IsaAlu
  <2>3. _r_type(k, x, y) = IF v < w THEN 1 ELSE 0
    BY <1>12 DEF _r_type
  <2>4. v \in Int /\ w \in Int /\ half \in Int
    BY SignedFacts, SpikeContract, PowerFacts DEF Spike!Half
  <2>5. _u32(1) = 1 /\ _u32(0) = 0
    <3>1. 1 \in Word /\ 0 \in Word
      BY <1>1 DEF Word
    <3>2. QED BY <3>1, WordFacts
  <2> HIDE DEF half, v, w
  <2>6. v + half < w + half <=> v < w
    BY <2>4
  <2>7. QED BY <2>1, <2>2, <2>3, <2>5, <2>6
<1>13. QED BY <1>5, <1>6, <1>7, <1>8, <1>9, <1>10, <1>11, <1>12 DEF RTypes

-----------------------------------------------------------------------------
(* The trace of a run and its result.                                      *)

(* The trace of an emulator's run has an instruction in scope at each      *)
(* commit, and aligned data; a result that is not a failure is that of the *)
(* state it was taken in.                                                  *)
AlignedData(t) ==
  \A j \in DOMAIN t : Instruction(t, j).kind \in {"lw", "sw"} => DataAddress(t, j) % 4 = 0

(* What the theorem about the two simulators needs of the emulator's run   *)
(* besides.                                                                *)
RunInv ==
  /\ phase = "run" \/ trace # <<>> => InScope(request)
  /\ AlignedData(trace)
  /\ result = Failure \/ (phase = "done" /\ result = Passed(pc, regs, trace))

(* A commit more has an aligned address too.                               *)
LEMMA AlignedAppend ==
  ASSUME EmulatorInv, AlignedData(trace), NEW c \in ISSCommit, c.instruction = Fetched,
         Decode[Fetched].kind \in {"lw", "sw"} => Address % 4 = 0
  PROVE  AlignedData(Append(trace, c))
<1> DEFINE u == Append(trace, c)
           n == Len(trace)
<1>1. trace \in Seq(ISSCommit) /\ n \in Nat /\ DOMAIN trace = 1 .. n
  BY RegisterFacts
<1>2. DOMAIN u = 1 .. n + 1 /\ SameTo(u, trace, n) /\ n + 1 \in Nat
  BY <1>1, AppendIsSame
<1>3. /\ Instruction(u, n + 1) = Decode[Fetched]
      /\ \A r : RegisterBefore(u, n + 1, r) = RegisterAfter(request.initial_int_regs, trace, n, r)
  BY <1>1, AppendBefore
<1>4. ASSUME NEW j \in 1 .. n, Instruction(u, j).kind \in {"lw", "sw"}
      PROVE  DataAddress(u, j) % 4 = 0
  <2>1. Instruction(u, j) = Instruction(trace, j) /\ DataAddress(u, j) = DataAddress(trace, j)
    BY <1>1, <1>2, SameBefore
  <2>2. QED BY <1>1, <1>4, <2>1 DEF AlignedData
<1>5. ASSUME Decode[Fetched].kind \in {"lw", "sw"}
      PROVE  DataAddress(u, n + 1) % 4 = 0
  <2>1. Decode[Fetched].rs1 \in Registers
    BY DecodeFacts DEF ISSCommit
  <2>2. RegisterAfter(request.initial_int_regs, trace, n, Decode[Fetched].rs1) = regs[Decode[Fetched].rs1]
    BY <2>1 DEF EmulatorInv, StateFollowsTrace
  <2>3. DataAddress(u, n + 1) = Address
    BY <1>3, <2>2 DEF DataAddress, Address
  <2>4. QED BY <1>5, <2>3
<1> HIDE DEF u
<1>6. QED BY <1>1, <1>2, <1>3, <1>4, <1>5 DEF AlignedData, u

(* At the start there is no trace,                                         *)
LEMMA RunInvInit == Init => RunInv
BY DEF Init, RunInv, AlignedData

(* what leaves the trace alone leaves its addresses alone,                 *)
LEMMA SameAligned ==
  ASSUME UNCHANGED <<request, trace>>, AlignedData(trace)
  PROVE  AlignedData(trace)'
BY DEF AlignedData, Instruction, DataAddress, RegisterBefore

(* and every step of the emulator keeps it.                                *)
LEMMA RunInvStep ==
  ASSUME EmulatorInv, EmulatorInv', RunInv, Next
  PROVE  RunInv'
<1> USE DEF Continue
<1>0. UNCHANGED <<request, trace>> => AlignedData(trace)'
  BY SameAligned DEF RunInv
<1>1. CASE Validate
  BY <1>0, <1>1 DEF Validate, RunInv, EmulatorInv, InScope, state
<1>2. CASE Fail
  BY <1>0, <1>2 DEF Fail, Looping, RunInv, EmulatorInv, InScope, state
<1>3. CASE Finish
  BY <1>0, <1>3 DEF Finish, RunInv, EmulatorInv, InScope, state
<1>4. ASSUME NEW c, trace' = Append(trace, c), c.instruction = Fetched, Looping,
             Decode[Fetched].kind \in {"lw", "sw"} => Address % 4 = 0,
             UNCHANGED <<request, phase, result>>
      PROVE  RunInv'
  <2>1. c \in ISSCommit
    <3>1. trace' \in Seq(ISSCommit) /\ trace \in Seq(ISSCommit)
      BY DEF EmulatorInv, TypeOK
    <3>2. c = trace'[Len(trace) + 1] /\ Len(trace) + 1 \in DOMAIN trace'
      BY <1>4, <3>1
    <3>3. QED BY <3>1, <3>2
  <2>2. AlignedData(Append(trace, c))
    BY <1>4, <2>1, AlignedAppend DEF RunInv
  <2>3. AlignedData(trace)'
    BY <1>4, <2>2 DEF AlignedData, Instruction, DataAddress, RegisterBefore
  <2>4. phase = "run" /\ result = Failure
    BY <1>4 DEF Looping, EmulatorInv
  <2>5. QED BY <1>4, <2>3, <2>4 DEF RunInv, InScope
<1>5. CASE ExecuteAddi
  BY <1>4, <1>5 DEF ExecuteAddi, Executes, WriteRegister, Commit
<1>6. CASE ExecuteRType
  BY <1>4, <1>6 DEF ExecuteRType, Executes, WriteRegister, Commit, RTypes
<1>7. CASE ExecuteBeq
  BY <1>4, <1>7 DEF ExecuteBeq, Executes, CommitOnly
<1>8. CASE ExecuteLw
  BY <1>4, <1>8 DEF ExecuteLw, Executes, WriteRegister, Commit
<1>9. CASE ExecuteSw
  BY <1>4, <1>9 DEF ExecuteSw, Executes, CommitOnly
<1>10. QED BY <1>1, <1>2, <1>3, <1>5, <1>6, <1>7, <1>8, <1>9 DEF Next

-----------------------------------------------------------------------------
(* What the setup code leaves in the registers.                            *)

(* The first k loads of s have been made: a register holds what the last   *)
(* of them for it loads, or what the boot code has left.                   *)
LoadedBy(s, k, file) ==
  \A r \in Registers :
    \/ file[r] = BootRegisters[r] /\ \A i \in 1 .. k : s[i].rd # r
    \/ \E i \in 1 .. k : /\ s[i].rd = r /\ file[r] = s[i].value
                         /\ \A m \in i + 1 .. k : s[m].rd # r

(* The loads s are those of the nonzero initial registers up to n.         *)
LoadsUpTo(s, n) ==
  \A r \in Registers :
    /\ \A i \in 1 .. Len(s) : s[i].rd = r => r \in 1 .. n /\ request.initial_int_regs[r] # 0
    /\ r \in 1 .. n /\ request.initial_int_regs[r] # 0 => \E i \in 1 .. Len(s) : s[i].rd = r
    /\ \A i \in 1 .. Len(s) :
         s[i].rd = r /\ (\A m \in i + 1 .. Len(s) : s[m].rd # r) =>
           s[i].value = request.initial_int_regs[r]

(* One load more.                                                          *)
LEMMA NextLoad ==
  ASSUME NEW s \in Seq(SetupEntries), NEW k \in Nat, k + 1 <= Len(s),
         NEW file, DOMAIN file = Registers, LoadedBy(s, k, file)
  PROVE  LoadedBy(s, k + 1, [file EXCEPT ![s[k + 1].rd] = s[k + 1].value])
<1> DEFINE e == s[k + 1]
           next == [file EXCEPT ![e.rd] = e.value]
<1>1. e.rd \in Registers /\ k + 1 \in 1 .. k + 1 /\ k + 2 \in Nat
  <2>1. k + 1 \in 1 .. Len(s) /\ Len(s) \in Nat
    OBVIOUS
  <2>2. s[k + 1] \in SetupEntries
    BY <2>1
  <2>3. QED BY <2>2 DEF SetupEntries
<1>2. SUFFICES ASSUME NEW r \in Registers
               PROVE  \/ next[r] = BootRegisters[r] /\ \A i \in 1 .. k + 1 : s[i].rd # r
                      \/ \E i \in 1 .. k + 1 : /\ s[i].rd = r /\ next[r] = s[i].value
                                               /\ \A m \in i + 1 .. k + 1 : s[m].rd # r
  BY DEF LoadedBy
<1>3. CASE r = e.rd
  <2>1. next[r] = e.value /\ \A m \in (k + 1) + 1 .. k + 1 : s[m].rd # r
    BY <1>1, <1>3
  <2> HIDE DEF next
  <2>2. QED BY <1>1, <1>3, <2>1
<1>4. CASE r # e.rd
  <2>1. next[r] = file[r]
    BY <1>1, <1>4
  <2>2. \A i \in 1 .. k + 1 : i \in 1 .. k \/ i = k + 1
    OBVIOUS
  <2>3. CASE file[r] = BootRegisters[r] /\ \A i \in 1 .. k : s[i].rd # r
    <3> HIDE DEF next
    <3>1. QED BY <1>4, <2>1, <2>2, <2>3
  <2>4. CASE \E i \in 1 .. k : /\ s[i].rd = r /\ file[r] = s[i].value
                               /\ \A m \in i + 1 .. k : s[m].rd # r
    <3>1. PICK i \in 1 .. k : /\ s[i].rd = r /\ file[r] = s[i].value
                              /\ \A m \in i + 1 .. k : s[m].rd # r
      BY <2>4
    <3> HIDE DEF next
    <3>2. \A m \in i + 1 .. k + 1 : s[m].rd # r
      <4> TAKE m \in i + 1 .. k + 1
      <4>1. m \in i + 1 .. k \/ m = k + 1
        OBVIOUS
      <4>2. QED BY <1>4, <3>1, <4>1
    <3>3. i \in 1 .. k + 1
      OBVIOUS
    <3>4. QED BY <2>1, <3>1, <3>2, <3>3
  <2>5. QED BY <2>3, <2>4 DEF LoadedBy
<1>5. QED BY <1>3, <1>4

(* The code of one register: its loads are of this register, the last of   *)
(* them of its value.                                                      *)
LEMMA LoadOfRegister ==
  ASSUME request \in ISSRequest, NEW n \in Registers \ {0}
  PROVE  LET s == LoadOf(n)
         IN  /\ \A i \in 1 .. Len(s) : s[i].rd = n
             /\ Len(s) = 0 <=> request.initial_int_regs[n] = 0
             /\ Len(s) # 0 => s[Len(s)].value = request.initial_int_regs[n]
<1> DEFINE v == request.initial_int_regs[n]
<1>1. CASE v = 0
  <2>1. LoadOf(n) = <<>>
    BY <1>1 DEF LoadOf
  <2>2. QED BY <1>1, <2>1
<1>2. CASE v # 0 /\ (v < 16 \/ v % 16 = 0)
  <2>1. LoadOf(n) = <<[rd |-> n, value |-> v]>>
    BY <1>2 DEF LoadOf, Spike!LoadImmediate, Spike!LowBits
  <2>2. QED BY <1>2, <2>1
<1>3. CASE v # 0 /\ ~ (v < 16 \/ v % 16 = 0)
  <2>1. LoadOf(n) = <<[rd |-> n, value |-> v - (v % 16)], [rd |-> n, value |-> v]>>
    BY <1>3 DEF LoadOf, Spike!LoadImmediate, Spike!LowBits
  <2>2. QED BY <1>3, <2>1
<1>4. QED BY <1>1, <1>2, <1>3

(* The code of one register more.                                          *)
LEMMA LoadsOfOneMore ==
  ASSUME request \in ISSRequest, NEW n \in Registers \ {0},
         NEW s \in Seq(SetupEntries), LoadsUpTo(s, n - 1)
  PROVE  LoadsUpTo(s \o LoadOf(n), n)
<1> DEFINE t == LoadOf(n)
           u == s \o t
           a == Len(s)
           b == Len(t)
           v == request.initial_int_regs
<1>1. /\ a \in Nat /\ b \in Nat /\ Len(u) = a + b /\ n \in Nat \ {0}
      /\ \A i \in 1 .. a : u[i] = s[i]
      /\ \A i \in a + 1 .. a + b : u[i] = t[i - a] /\ i - a \in 1 .. b
      /\ \A i \in 1 .. b : u[a + i] = t[i]
  <2>1. t \in Seq(SetupEntries)
    BY LoadOfFacts
  <2> HIDE DEF t
  <2>2. QED BY <2>1 DEF Registers
<1>2. /\ \A i \in 1 .. b : t[i].rd = n
      /\ b = 0 <=> v[n] = 0
      /\ b # 0 => t[b].value = v[n]
  BY LoadOfRegister
<1> SUFFICES LoadsUpTo(u, n)
  OBVIOUS
<1> HIDE DEF t, u, a, b, v
<1>3. SUFFICES ASSUME NEW r \in Registers
      PROVE  /\ \A i \in 1 .. a + b : u[i].rd = r => r \in 1 .. n /\ v[r] # 0
             /\ r \in 1 .. n /\ v[r] # 0 => \E i \in 1 .. a + b : u[i].rd = r
             /\ \A i \in 1 .. a + b :
                  u[i].rd = r /\ (\A m \in i + 1 .. a + b : u[m].rd # r) => u[i].value = v[r]
  BY <1>1 DEF LoadsUpTo, v
<1>4. /\ \A i \in 1 .. a : s[i].rd = r => r \in 1 .. n - 1 /\ v[r] # 0
      /\ r \in 1 .. n - 1 /\ v[r] # 0 => \E i \in 1 .. a : s[i].rd = r
      /\ \A i \in 1 .. a :
           s[i].rd = r /\ (\A m \in i + 1 .. a : s[m].rd # r) => s[i].value = v[r]
  BY DEF LoadsUpTo, a, v
<1>5. \A i \in 1 .. a + b : i \in 1 .. a \/ i \in a + 1 .. a + b
  BY <1>1
<1>6. /\ 1 .. a \subseteq 1 .. a + b /\ a + 1 .. a + b \subseteq 1 .. a + b
      /\ 1 .. n - 1 \subseteq 1 .. n /\ n \in 1 .. n /\ n \notin 1 .. n - 1
      /\ \A i \in 1 .. n : i \in 1 .. n - 1 \/ i = n
  BY <1>1
<1>7. ASSUME NEW i \in a + 1 .. a + b
      PROVE  u[i].rd = n /\ b # 0
  <2>1. u[i] = t[i - a] /\ i - a \in 1 .. b
    BY <1>1
  <2>2. b # 0
    BY <1>1, <2>1
  <2>3. QED BY <1>2, <2>1, <2>2
<1>8. ASSUME NEW i \in 1 .. a + b, u[i].rd = r
      PROVE  r \in 1 .. n /\ v[r] # 0
  <2>1. CASE i \in 1 .. a
    BY <1>1, <1>4, <1>6, <1>8, <2>1
  <2>2. CASE i \in a + 1 .. a + b
    <3>1. r = n /\ b # 0
      BY <1>7, <1>8, <2>2
    <3>2. QED BY <1>2, <1>6, <3>1
  <2>3. QED BY <1>5, <2>1, <2>2
<1>9. ASSUME r \in 1 .. n, v[r] # 0
      PROVE  \E i \in 1 .. a + b : u[i].rd = r
  <2>1. CASE r \in 1 .. n - 1
    BY <1>1, <1>4, <1>6, <1>9, <2>1
  <2>2. CASE r = n
    <3>1. b # 0 /\ a + b \in 1 .. a + b /\ a + b \in a + 1 .. a + b
      BY <1>1, <1>2, <1>9, <2>2
    <3>2. QED BY <1>7, <2>2, <3>1
  <2>3. QED BY <1>6, <1>9, <2>1, <2>2
<1>10. ASSUME NEW i \in 1 .. a + b, u[i].rd = r, \A m \in i + 1 .. a + b : u[m].rd # r
       PROVE  u[i].value = v[r]
  <2>1. CASE i \in 1 .. a
    <3>1. \A m \in i + 1 .. a : s[m].rd # r
      <4> TAKE m \in i + 1 .. a
      <4>1. m \in i + 1 .. a + b /\ m \in 1 .. a
        BY <1>1, <2>1
      <4>2. QED BY <1>1, <1>10, <4>1
    <3>2. QED BY <1>1, <1>4, <1>10, <2>1, <3>1
  <2>2. CASE i \in a + 1 .. a + b
    <3>1. r = n
      BY <1>7, <1>10, <2>2
    <3>2. i = a + b
      <4> SUFFICES ASSUME i # a + b PROVE FALSE
        OBVIOUS
      <4>1. a + b \in i + 1 .. a + b /\ a + b \in a + 1 .. a + b
        BY <1>1, <2>2
      <4>2. QED BY <1>7, <1>10, <3>1, <4>1
    <3>3. u[a + b] = t[b] /\ b # 0
      <4>1. b # 0 /\ b \in 1 .. b
        BY <1>1, <1>7, <2>2
      <4>2. QED BY <1>1, <4>1
    <3>4. QED BY <1>2, <3>1, <3>2, <3>3
  <2>3. QED BY <1>5, <2>1, <2>2
<1>11. QED BY <1>8, <1>9, <1>10

(* The setup code loads the nonzero initial registers.                     *)
LEMMA SetupLoads ==
  ASSUME request \in ISSRequest
  PROVE  LoadsUpTo(Spike!Setup, INTEGER_REGISTER_COUNT - 1)
<1> DEFINE N == INTEGER_REGISTER_COUNT - 1
           f == Spike!Loads
           T == {n \in 0 .. N : f[n] \in Seq(SetupEntries) /\ LoadsUpTo(f[n], n)}
<1>1. N \in Nat /\ Registers = 0 .. N
  BY ContractAssumption DEF Registers
<1>2. f[0] = <<>> /\ \A n \in 1 .. N : f[n] = f[n - 1] \o LoadOf(n)
  <2>1. \A n \in 0 .. N : f[n] = IF n = 0 THEN <<>> ELSE f[n - 1] \o LoadOf(n)
    <3>1. LoadsEquation(f)
      BY LoadsAreDefined
    <3>2. f = [n \in Registers |-> IF n = 0 THEN <<>> ELSE f[n - 1] \o LoadOf(n)]
      BY <3>1, LoadsStep
    <3> HIDE DEF f
    <3>3. QED BY <1>1, <3>2
  <2> HIDE DEF f, N
  <2>2. 0 \in 0 .. N /\ \A n \in 1 .. N : n \in 0 .. N /\ n # 0
    BY <1>1
  <2>3. QED BY <2>1, <2>2
<1> HIDE DEF f, N
<1>3. 0 \in T
  <2>1. f[0] \in Seq(SetupEntries) /\ Len(f[0]) = 0 /\ 0 \in 0 .. N
    BY <1>1, <1>2
  <2>2. LoadsUpTo(f[0], 0)
    BY <2>1 DEF LoadsUpTo
  <2>3. QED BY <2>1, <2>2
<1>4. ASSUME NEW n \in 1 .. N, n - 1 \in T
      PROVE  n \in T
  <2>1. f[n - 1] \in Seq(SetupEntries) /\ LoadsUpTo(f[n - 1], n - 1) /\ n \in 0 .. N
          /\ n \in Registers \ {0}
    BY <1>1, <1>4
  <2>2. LoadsUpTo(f[n - 1] \o LoadOf(n), n)
    BY <2>1, LoadsOfOneMore
  <2>3. f[n - 1] \o LoadOf(n) \in Seq(SetupEntries)
    BY <2>1, LoadOfFacts
  <2>4. f[n] = f[n - 1] \o LoadOf(n)
    BY <1>2
  <2>5. QED BY <2>1, <2>2, <2>3, <2>4
<1> HIDE DEF T
<1>5. N \in T
  BY <1>1, <1>3, <1>4, InductionTo
<1>6. Spike!Setup = f[N]
  BY DEF Spike!Setup, f, N
<1>7. QED BY <1>1, <1>5, <1>6 DEF T, N

(* After the setup code a register holds its initial value, or what the    *)
(* boot code has left if that is zero.                                     *)
LEMMA RegistersAfterSetup ==
  ASSUME request \in ISSRequest, NEW file, LoadedBy(Spike!Setup, Len(Spike!Setup), file),
         NEW r \in Registers
  PROVE  file[r] = IF request.initial_int_regs[r] = 0 THEN BootRegisters[r]
                   ELSE request.initial_int_regs[r]
<1> DEFINE s == Spike!Setup
           n == Len(s)
           v == request.initial_int_regs[r]
<1>1. LoadsUpTo(s, INTEGER_REGISTER_COUNT - 1)
  BY SetupLoads
<1>2. v # 0 => r \in 1 .. INTEGER_REGISTER_COUNT - 1
  BY ContractAssumption DEF ISSRequest, RegisterFiles, Registers
<1> HIDE DEF s
<1>3. \/ file[r] = BootRegisters[r] /\ \A i \in 1 .. n : s[i].rd # r
      \/ \E i \in 1 .. n : /\ s[i].rd = r /\ file[r] = s[i].value
                           /\ \A m \in i + 1 .. n : s[m].rd # r
  BY DEF LoadedBy, s
<1>4. QED BY <1>1, <1>2, <1>3 DEF LoadsUpTo

-----------------------------------------------------------------------------
(* The commits of the program in a log.                                    *)

(* One line more in a file: it is selected or not, and what was selected   *)
(* before stays.                                                           *)
LEMMA SelectedAppend ==
  ASSUME NEW L, NEW lines \in Seq(L), NEW l \in L, NEW S, NEW T,
         \A i \in 1 .. Len(lines) : i \in S <=> i \in T
  PROVE  Selected(Append(lines, l), T) =
           IF Len(lines) + 1 \in T THEN Append(Selected(lines, S), l) ELSE Selected(lines, S)
<1> DEFINE u == Append(lines, l)
           n == Len(lines)
           f == SelectedTo(lines, S)
           g == SelectedTo(u, T)
           same == {k \in 0 .. n : f[k] = g[k]}
<1>1. /\ n \in Nat /\ Len(u) = n + 1 /\ u \in Seq(L) /\ u[n + 1] = l
      /\ \A i \in 1 .. n : u[i] = lines[i]
  OBVIOUS
<1> HIDE DEF u, n
<1>2. /\ f[0] = <<>>
      /\ \A k \in 1 .. n : f[k] = IF k \in S THEN Append(f[k - 1], lines[k]) ELSE f[k - 1]
      /\ Selected(lines, S) = f[n]
  BY SelectedSteps DEF n
<1>3. /\ g[0] = <<>>
      /\ \A k \in 1 .. n + 1 : g[k] = IF k \in T THEN Append(g[k - 1], u[k]) ELSE g[k - 1]
      /\ Selected(u, T) = g[n + 1]
  BY <1>1, SelectedSteps
<1> HIDE DEF f, g
<1>4. 0 \in same
  BY <1>1, <1>2, <1>3
<1>5. ASSUME NEW k \in 1 .. n, k - 1 \in same
      PROVE  k \in same
  <2>1. k \in 1 .. n + 1 /\ k \in 0 .. n /\ u[k] = lines[k] /\ (k \in S <=> k \in T)
    BY <1>1 DEF n
  <2>2. f[k - 1] = g[k - 1]
    BY <1>5
  <2>3. f[k] = g[k]
    BY <1>2, <1>3, <2>1, <2>2
  <2>4. QED BY <2>1, <2>3
<1> HIDE DEF same
<1>6. n \in same
  <2>1. n \in Nat /\ n \in 0 .. n
    BY <1>1
  <2>2. \A k \in 1 .. n : k - 1 \in same => k \in same
    BY <1>5
  <2>3. QED BY <1>4, <2>1, <2>2, InductionTo
<1>7. f[n] = g[n] /\ n + 1 \in 1 .. n + 1 /\ (n + 1) - 1 = n
  BY <1>1, <1>6 DEF same
<1>8. g[n + 1] = IF n + 1 \in T THEN Append(f[n], l) ELSE f[n]
  BY <1>1, <1>3, <1>7
<1>9. QED BY <1>2, <1>3, <1>8 DEF u, n

(* The commits of the program in a log, in their order.                    *)
CommitsIn(lines) == Selected(lines, ExecutedOf(lines))

(* A line more is one of them or is not.                                   *)
LEMMA CommitsAppend ==
  ASSUME NEW lines \in Seq(Lines), NEW l \in Lines
  PROVE  CommitsIn(Append(lines, l)) =
           IF Accepts(l, PROGRAM_BASE, Spike!program_end) /\ ~ Malformed(l)
           THEN Append(CommitsIn(lines), l) ELSE CommitsIn(lines)
<1> DEFINE u == Append(lines, l)
           n == Len(lines)
           counted == Accepts(l, PROGRAM_BASE, Spike!program_end) /\ ~ Malformed(l)
           S == ExecutedOf(lines)
           T == ExecutedOf(u)
<1>1. n \in Nat /\ S \subseteq 1 .. n
  BY ExecutedIsFinite
<1>2. T = S \cup (IF counted THEN {n + 1} ELSE {})
  BY AppendLine
<1> HIDE DEF S, T, n, counted
<1>3. /\ \A i \in 1 .. n : i \in S <=> i \in T
      /\ n + 1 \in T <=> counted
  BY <1>1, <1>2
<1>4. Selected(u, T) = IF n + 1 \in T THEN Append(Selected(lines, S), l) ELSE Selected(lines, S)
  BY <1>3, SelectedAppend DEF n
<1>5. QED BY <1>3, <1>4 DEF CommitsIn, S, T, counted

(* A log without them.                                                     *)
LEMMA NoCommits ==
  ASSUME NEW lines \in Seq(Lines), ExecutedOf(lines) = {}
  PROVE  CommitsIn(lines) = <<>>
<1> DEFINE s == CommitsIn(lines)
           S == ExecutedOf(lines)
<1>1. s \in Seq(Lines) /\ Len(s) = Cardinality(S \cap DOMAIN lines)
  BY SelectedFacts DEF HoldsLines, CommitsIn
<1>2. S \cap DOMAIN lines = {}
  OBVIOUS
<1>3. Len(s) = 0
  BY <1>1, <1>2, FS_EmptySet
<1> HIDE DEF s
<1>4. QED BY <1>1, <1>3 DEF s

-----------------------------------------------------------------------------
(* The two simulators on one trace.                                        *)

(* A trace one commit further.                                             *)
LEMMA TraceStep ==
  ASSUME NEW t \in Seq(ISSCommit), NEW j \in 0 .. Len(t) - 1
  PROVE  LET c == t[j + 1]
         IN  /\ \A r : RegisterAfter(request.initial_int_regs, t, j + 1, r) =
                         IF r # 0 /\ c.rd_valid /\ c.rd = r THEN c.value
                         ELSE RegisterAfter(request.initial_int_regs, t, j, r)
             /\ \A a : MemoryAfter(t, j + 1, a) =
                         IF Instruction(t, j + 1).kind = "sw" /\ DataAddress(t, j + 1) = a
                         THEN RegisterAfter(request.initial_int_regs, t, j, Instruction(t, j + 1).rs2)
                         ELSE MemoryAfter(t, j, a)
<1> DEFINE c == t[j + 1]
           s == SubSeq(t, 1, j)
           u == Append(s, c)
           initial == request.initial_int_regs
<1>1. /\ j \in Nat /\ j + 1 \in 1 .. Len(t) /\ Len(t) \in Nat /\ c \in ISSCommit
      /\ j \in 0 .. j /\ j + 1 \in 0 .. j + 1 /\ j + 1 \in 1 .. j + 1
  OBVIOUS
<1>2. s \in Seq(ISSCommit) /\ Len(s) = j /\ \A i \in 1 .. j : s[i] = t[i]
  <2>1. \A i \in 1 .. j : t[i] \in ISSCommit
    BY <1>1
  <2>2. QED BY <1>1, <2>1
<1> HIDE DEF s
<1>3. /\ u \in Seq(ISSCommit) /\ Len(u) = j + 1 /\ u[j + 1] = c
      /\ \A i \in 1 .. j : u[i] = s[i]
  BY <1>1, <1>2
<1>4. SameTo(u, t, j + 1) /\ SameTo(s, t, j)
  <2>1. \A i \in 1 .. j + 1 : i \in 1 .. j \/ i = j + 1
    BY <1>1
  <2> HIDE DEF u, c
  <2>2. QED BY <1>2, <1>3, <2>1 DEF SameTo, c
<1>5. /\ \A r : RegisterAfter(initial, s, j, r) = RegisterAfter(initial, t, j, r)
      /\ \A a : MemoryAfter(s, j, a) = MemoryAfter(t, j, a)
  BY <1>1, <1>4, SameRegisters, SameMemory
<1>6. /\ \A r : RegisterAfter(initial, u, j + 1, r) = RegisterAfter(initial, t, j + 1, r)
      /\ \A a : MemoryAfter(u, j + 1, a) = MemoryAfter(t, j + 1, a)
      /\ Instruction(u, j + 1) = Instruction(t, j + 1)
      /\ DataAddress(u, j + 1) = DataAddress(t, j + 1)
  <2>1. j + 1 \in Nat
    BY <1>1
  <2> HIDE DEF u
  <2>2. QED BY <1>1, <1>4, <2>1, SameRegisters, SameMemory, SameBefore
<1>7. /\ \A r : RegisterAfter(initial, u, j + 1, r) =
                 IF r # 0 /\ c.rd_valid /\ c.rd = r THEN c.value ELSE RegisterAfter(initial, s, j, r)
      /\ \A a : MemoryAfter(u, j + 1, a) =
           IF Decode[c.instruction].kind = "sw" /\ DataAddress(u, j + 1) = a
           THEN RegisterAfter(initial, s, j, Decode[c.instruction].rs2)
           ELSE MemoryAfter(s, j, a)
  <2>1. s \in Seq(ISSCommit) /\ c \in ISSCommit /\ Len(s) = j
    BY <1>1, <1>2
  <2> HIDE DEF c, initial
  <2>2. \A r : RegisterAfter(initial, Append(s, c), Len(s) + 1, r) =
                 IF r # 0 /\ c.rd_valid /\ c.rd = r THEN c.value
                 ELSE RegisterAfter(initial, s, Len(s), r)
    BY <2>1, AppendRegister
  <2>3. \A a : MemoryAfter(Append(s, c), Len(s) + 1, a) =
           IF Decode[c.instruction].kind = "sw" /\ DataAddress(Append(s, c), Len(s) + 1) = a
           THEN RegisterAfter(initial, s, Len(s), Decode[c.instruction].rs2)
           ELSE MemoryAfter(s, Len(s), a)
    BY <2>1, AppendMemory DEF initial
  <2>4. QED BY <2>1, <2>2, <2>3
<1>8. Decode[c.instruction] = Instruction(t, j + 1)
  BY DEF Instruction
<1> HIDE DEF c, u, initial
<1>9. QED BY <1>5, <1>6, <1>7, <1>8 DEF c, initial

(* A target moves with the base of the program.                            *)
LEMMA TargetMoves ==
  ASSUME NEW p \in Int, PROGRAM_BASE + _u32(p) < Modulus
  PROVE  (PROGRAM_BASE + p) % Modulus = PROGRAM_BASE + _u32(p)
<1> DEFINE q == p \div Modulus
           w == p % Modulus
           a == PROGRAM_BASE + p
           b == PROGRAM_BASE + w
<1>1. Modulus \in Nat \ {0} /\ PROGRAM_BASE \in Nat
  BY ContractAssumption, BaseAssumption DEF Word
<1>2. q \in Int /\ w \in 0 .. Modulus - 1 /\ p = Modulus * q + w
  BY <1>1
<1>3. b < Modulus
  BY DEF _u32
<1> HIDE DEF q, w
<1>4. a \in Int /\ b \in 0 .. Modulus - 1 /\ a = Modulus * q + b
  BY <1>1, <1>2, <1>3
<1> HIDE DEF a, b
<1>5. a % Modulus = b
  BY <1>1, <1>2, <1>4, DivisionIsUnique
<1>6. QED BY <1>5 DEF a, b, w, _u32

-----------------------------------------------------------------------------
(* The requests on which the two simulators are the same machine.          *)
Agreeable == phase = "done" /\ Comparable /\ ~ EndsInTakenBranch

(* A register only the boot code has written.                              *)
BootOnly(r) == request.initial_int_regs[r] = 0 /\ BootRegisters[r] # 0

(* What is known of commit j of such a request's trace, its instruction    *)
(* and the pc after it.                                                    *)
CommitFacts(j) ==
  LET c == trace[j]
      i == Instruction(trace, j)
      b == DataAddress(trace, j)
      x == RegisterAfter(request.initial_int_regs, trace, j - 1, i.rs1)
      y == RegisterAfter(request.initial_int_regs, trace, j - 1, i.rs2)
  IN  /\ c \in ISSCommit /\ c.pc \in Nat /\ c.pc % 4 = 0
      /\ c.pc = PcAfter(trace, j - 1) /\ c.pc < 4 * request.program_word_count
      /\ c.instruction = request.program[c.pc \div 4] /\ c.instruction \in Word
      /\ i = Decode[c.instruction] /\ i.kind \in Supported
      /\ i.rd \in Registers /\ i.rs1 \in Registers /\ i.rs2 \in Registers /\ i.imm \in Int
      /\ ~ BootOnly(i.rs1) /\ ~ BootOnly(i.rs2)
      /\ x \in Word /\ y \in Word
      /\ i.kind \in {"lw", "sw"} => /\ b = _u32(x + i.imm)
                                    /\ b \in Spike!Ram /\ b >= DATA_BASE /\ b # DATA_BASE + 4
      /\ i.kind \in {"beq", "sw"} => c = CommitOnly(c.pc, c.instruction)
      /\ i.kind \notin {"beq", "sw"} =>
           /\ i.rd # 0
           /\ c = Commit(c.pc, c.instruction, i.rd, Written(i, x, y, MemoryAfter(trace, j - 1, b)))
      /\ PcAfter(trace, j) = IF i.kind = "beq" /\ x = y THEN _u32(c.pc + i.imm) ELSE c.pc + 4
      /\ PcAfter(trace, j) % 4 = 0 /\ PcAfter(trace, j) \in Nat
      /\ PcAfter(trace, j) <= 4 * request.program_word_count

(* What commits 1 to n say of the registers is in words.                   *)
LEMMA RegisterAfterIsWord ==
  ASSUME NEW t \in Seq(ISSCommit), NEW n \in 0 .. Len(t), NEW r \in Registers,
         request \in ISSRequest
  PROVE  RegisterAfter(request.initial_int_regs, t, n, r) \in Word
<1> DEFINE W == Writers(t, n, r)
<1>1. /\ n \in Nat /\ W \in SUBSET (1 .. n) /\ 0 \in Word
      /\ request.initial_int_regs[r] \in Word
  BY WordFacts DEF ISSRequest, RegisterFiles, Writers
<1>2. CASE W = {} \/ r = 0
  BY <1>1, <1>2 DEF RegisterAfter
<1>3. CASE W # {} /\ r # 0
  <2>1. Latest(W) \in W
    BY <1>1, <1>3, LatestExists
  <2>2. Latest(W) \in 1 .. Len(t) /\ t[Latest(W)].rd_valid
    BY <1>1, <2>1 DEF Writers
  <2>3. t[Latest(W)] \in ISSCommit
    BY <2>2
  <2>4. t[Latest(W)].value \in Word
    BY <2>2, <2>3 DEF ISSCommit
  <2>5. QED BY <1>3, <2>4 DEF RegisterAfter
<1>4. QED BY <1>2, <1>3

(* The trace of a comparable request, commit by commit.                    *)
LEMMA AgreeableCommits ==
  ASSUME EmulatorInv, RunInv, Agreeable, NEW j \in 1 .. Len(trace)
  PROVE  CommitFacts(j)
<1> DEFINE c == trace[j]
           i == Instruction(trace, j)
           b == DataAddress(trace, j)
           initial == request.initial_int_regs
           x == RegisterAfter(initial, trace, j - 1, i.rs1)
           y == RegisterAfter(initial, trace, j - 1, i.rs2)
           n == request.program_word_count
<1>1. /\ trace \in Seq(ISSCommit) /\ Len(trace) \in Nat /\ DOMAIN trace = 1 .. Len(trace)
      /\ j \in DOMAIN trace /\ trace # <<>> /\ request \in ISSRequest
      /\ j - 1 \in 0 .. Len(trace) /\ Len(trace) <= request.execution_limit
  BY RegisterFacts DEF EmulatorInv, TypeOK
<1>2. c \in ISSCommit
  BY <1>1
<1>3. /\ c.pc \in Nat /\ c.pc % 4 = 0 /\ c.instruction \in Word
  BY <1>2, WordFacts DEF ISSCommit
<1>4. /\ c.pc = PcAfter(trace, j - 1) /\ c.pc \div 4 < n
      /\ c.instruction = request.program[c.pc \div 4] /\ c = Reported(trace, j)
  BY <1>1 DEF EmulatorInv, TraceReplays
<1>5. n \in Nat /\ c.pc < 4 * n /\ c.pc \div 4 \in 0 .. n - 1
  <2>1. n \in Nat
    BY <1>1, ContractAssumption DEF ISSRequest
  <2> HIDE DEF c, n
  <2>2. QED BY <1>3, <1>4, <2>1
<1>6. i = Decode[c.instruction] /\ i.kind \in Supported
  <2>1. InScope(request)
    BY <1>1 DEF RunInv
  <2>2. Decode[request.program[c.pc \div 4]].kind \in Supported
    BY <1>5, <2>1 DEF InScope
  <2>3. QED BY <1>4, <2>2 DEF Instruction
<1>7. i.rd \in Registers /\ i.rs1 \in Registers /\ i.rs2 \in Registers /\ i.imm \in Int
  BY <1>3, <1>6, DecodeFacts
<1>8. x \in Word /\ y \in Word
  BY <1>1, <1>7, RegisterAfterIsWord
<1>9. /\ DataApart(trace, j) /\ ~ ReadsBootRegister(trace, j) /\ c.rd # 0
      /\ Len(trace) < request.execution_limit => pc = 4 * n
      /\ result.status = "PASS"
  BY <1>1 DEF Agreeable, Comparable
<1>10. ~ BootOnly(i.rs1) /\ ~ BootOnly(i.rs2)
  BY <1>9 DEF ReadsBootRegister, BootOnly
<1>11. ASSUME i.kind \in {"lw", "sw"}
       PROVE  b = _u32(x + i.imm) /\ b \in Spike!Ram /\ b >= DATA_BASE /\ b # DATA_BASE + 4
  <2>1. b >= DATA_BASE /\ b # DATA_BASE + 4
    BY <1>9, <1>11 DEF DataApart
  <2>2. b = _u32(x + i.imm)
    BY DEF DataAddress, RegisterBefore
  <2>3. x + i.imm \in Int
    <3>1. x \in Int /\ i.imm \in Int
      BY <1>7, <1>8, WordFacts
    <3> HIDE DEF x, i
    <3>2. QED BY <3>1
  <2>4. b \in Word
    BY <2>2, <2>3, WordFacts
  <2>5. b % 4 = 0
    BY <1>1, <1>11 DEF RunInv, AlignedData
  <2>6. DATA_BASE >= PROGRAM_BASE /\ DATA_BASE \in Nat /\ PROGRAM_BASE \in Nat
    BY ContractAssumption, BaseAssumption, SpikeAssumption DEF Word
  <2>7. b \in Nat
    BY <2>4, WordFacts
  <2> HIDE DEF b
  <2>8. b >= PROGRAM_BASE
    BY <2>1, <2>6, <2>7
  <2>9. QED BY <2>1, <2>2, <2>4, <2>5, <2>8, SpikeContract DEF Spike!Ram, b
<1>12. c = IF i.kind \in {"beq", "sw"} THEN CommitOnly(c.pc, c.instruction)
           ELSE Commit(c.pc, c.instruction, i.rd,
                       IF i.rd = 0 THEN 0 ELSE Written(i, x, y, MemoryAfter(trace, j - 1, b)))
  BY <1>4 DEF Reported, RegisterBefore
<1>13. i.kind \notin {"beq", "sw"} => i.rd # 0
  <2>1. ASSUME i.kind \notin {"beq", "sw"} PROVE c.rd = i.rd
    BY <1>12, <2>1 DEF Commit
  <2>2. QED BY <1>9, <2>1
<1>14. TakesBranch(trace, j) <=> i.kind = "beq" /\ x = y
  BY DEF TakesBranch, RegisterBefore
<1>15. PcAfter(trace, j) = IF i.kind = "beq" /\ x = y THEN _u32(c.pc + i.imm) ELSE c.pc + 4
  <2>1. j # 0
    OBVIOUS
  <2>2. QED BY <1>14, <2>1 DEF PcAfter
<1>16. PcAfter(trace, j) % 4 = 0 /\ PcAfter(trace, j) \in Nat /\ PcAfter(trace, j) <= 4 * n
  <2>1. CASE j < Len(trace)
    <3> DEFINE d == trace[j + 1]
    <3>1. j + 1 \in DOMAIN trace /\ (j + 1) - 1 = j
      BY <1>1, <2>1
    <3>2. d \in ISSCommit /\ d.pc = PcAfter(trace, j) /\ d.pc \div 4 < n
      BY <1>1, <3>1 DEF EmulatorInv, TraceReplays
    <3>3. d.pc \in Nat /\ d.pc % 4 = 0
      BY <3>2, WordFacts DEF ISSCommit
    <3> HIDE DEF d, n
    <3>4. QED BY <1>5, <3>2, <3>3
  <2>2. CASE j = Len(trace)
    <3>1. ~ TakesBranch(trace, j)
      BY <2>2 DEF Agreeable, EndsInTakenBranch
    <3>2. PcAfter(trace, j) = c.pc + 4
      BY <1>14, <1>15, <3>1
    <3> HIDE DEF c, n
    <3>3. QED BY <1>3, <1>5, <3>2
  <2>3. QED BY <1>1, <2>1, <2>2
<1> HIDE DEF c, i, b, x, y, n
<1>17. QED
  BY <1>2, <1>3, <1>4, <1>5, <1>6, <1>7, <1>8, <1>10, <1>11, <1>12, <1>13, <1>15, <1>16
     DEF CommitFacts, c, i, b, x, y, n

(* The program in the image, and the word behind it.                       *)
LEMMA ImageFacts ==
  ASSUME request \in ISSRequest
  PROVE  LET n   == request.program_word_count
             end == Spike!program_end
         IN  /\ n \in Nat /\ PROGRAM_BASE \in Nat /\ end \in Nat /\ end = PROGRAM_BASE + 4 * n
             /\ end < SETUP_BASE /\ end < Modulus /\ end < DATA_BASE /\ end \in Spike!Ram
             /\ SETUP_BASE \in Nat /\ DATA_BASE \in Nat /\ Modulus \in Nat \ {0}
             /\ Spike!Image[end] = 0
             /\ \A p \in Nat : p % 4 = 0 /\ p < 4 * n =>
                  /\ PROGRAM_BASE + p \in Spike!Ram /\ PROGRAM_BASE + p < end
                  /\ PROGRAM_BASE + p + 4 <= end
                  /\ Spike!Image[PROGRAM_BASE + p] = request.program[p \div 4]
<1> DEFINE n == request.program_word_count
           end == Spike!program_end
<1>1. /\ n \in Nat /\ PROGRAM_BASE \in Nat /\ end \in Nat /\ end = PROGRAM_BASE + 4 * n
      /\ end < SETUP_BASE /\ SETUP_BASE \in Nat
  BY LayoutFacts
<1>2. /\ DATA_BASE \in Nat /\ Modulus \in Nat \ {0} /\ SETUP_BASE < Modulus /\ SETUP_BASE <= DATA_BASE
      /\ PROGRAM_BASE % 4 = 0
  BY ContractAssumption, BaseAssumption, SpikeAssumption DEF Word
<1>3. /\ Spike!Ram = {a \in Word : a >= PROGRAM_BASE /\ a % 4 = 0} /\ Word = 0 .. Modulus - 1
      /\ Spike!Image = [a \in Spike!Ram |->
            IF a < end THEN request.program[(a - PROGRAM_BASE) \div 4]
            ELSE IF a = DATA_BASE + 4 THEN LoopWord ELSE 0]
  BY SpikeContract DEF Spike!Ram, Spike!Image, Word
<1> HIDE DEF n, end
<1>4. end < Modulus /\ end < DATA_BASE /\ end \in Spike!Ram
  BY <1>1, <1>2, <1>3
<1>5. Spike!Image[end] = 0
  BY <1>1, <1>2, <1>3, <1>4
<1>6. ASSUME NEW p \in Nat, p % 4 = 0, p < 4 * n
      PROVE  /\ PROGRAM_BASE + p \in Spike!Ram /\ PROGRAM_BASE + p < end
             /\ PROGRAM_BASE + p + 4 <= end
             /\ Spike!Image[PROGRAM_BASE + p] = request.program[p \div 4]
  <2> DEFINE a == PROGRAM_BASE + p
  <2>1. a \in Nat /\ a < end /\ a + 4 <= end /\ a % 4 = 0 /\ a >= PROGRAM_BASE /\ a - PROGRAM_BASE = p
    BY <1>1, <1>2, <1>6
  <2> HIDE DEF a
  <2>2. a \in Spike!Ram
    <3>1. a \in 0 .. Modulus - 1
      BY <1>1, <1>2, <1>4, <2>1
    <3>2. QED BY <1>3, <2>1, <3>1
  <2>3. Spike!Image[a] = request.program[p \div 4]
    BY <1>3, <2>1, <2>2
  <2>4. QED BY <2>1, <2>2, <2>3 DEF a
<1>7. QED BY <1>1, <1>2, <1>4, <1>5, <1>6 DEF n, end

(* The machine m after j commits of the program: it is what the trace of   *)
(* the emulator says, where programs in scope can see it.                  *)
FollowsTrace(m, j) ==
  /\ j \in 0 .. Len(trace)
  /\ m.pc = PROGRAM_BASE + PcAfter(trace, j)
  /\ \A r \in Registers : ~ BootOnly(r) =>
       m.regs[r] = RegisterAfter(request.initial_int_regs, trace, j, r)
  /\ \A a \in Spike!Ram : a <= Spike!program_end => m.ram[a] = Spike!Image[a]
  /\ \A a \in Spike!Ram : a >= DATA_BASE /\ a # DATA_BASE + 4 =>
       m.ram[a] = MemoryAfter(trace, j, a)
  /\ m.trapped => j = Len(trace)

(* The lines of these commits.                                             *)
SpikeCommit(c) == [c EXCEPT !.pc = PROGRAM_BASE + @]

(* The first j commits of the program in a log are the first j of the      *)
(* emulator's, at the address the program has in Spike's memory.           *)
LogsTrace(lines, j) ==
  /\ Len(CommitsIn(lines)) = j
  /\ \A i \in 1 .. j : CommitOf(CommitsIn(lines)[i]) = SpikeCommit(trace[i])

(* A comparison of the machine's is the emulator's.                        *)
LEMMA NextCommit ==
  ASSUME EmulatorInv, RunInv, Agreeable, SpikeTypeOK,
         NEW j \in 0 .. Len(trace) - 1, FollowsTrace(machine, j)
  PROVE  LET c == trace[j + 1]
             i == Instruction(trace, j + 1)
             x == RegisterAfter(request.initial_int_regs, trace, j, i.rs1)
             y == RegisterAfter(request.initial_int_regs, trace, j, i.rs2)
         IN  /\ machine.pc = PROGRAM_BASE + c.pc
             /\ machine.pc \in Spike!Ram /\ machine.pc < Spike!program_end /\ ~ Spike!InSetup
             /\ (machine.pc + 4) % Modulus = PROGRAM_BASE + (c.pc + 4)
             /\ machine.ram[machine.pc] = c.instruction /\ Spike!Current = i
             /\ Spike!Left = x /\ Spike!Right = y /\ Spike!Sum = _u32(x + i.imm)
             /\ Spike!Taken <=> i.kind = "beq" /\ x = y
             /\ Spike!Taken => Spike!Target = PROGRAM_BASE + PcAfter(trace, j + 1)
             /\ ~ Spike!Traps
<1> DEFINE c == trace[j + 1]
           i == Instruction(trace, j + 1)
           initial == request.initial_int_regs
           x == RegisterAfter(initial, trace, j, i.rs1)
           y == RegisterAfter(initial, trace, j, i.rs2)
           n == request.program_word_count
           b == DataAddress(trace, j + 1)
           q == PcAfter(trace, j + 1)
<1>1. j + 1 \in 1 .. Len(trace) /\ (j + 1) - 1 = j /\ j \in Nat /\ request \in ISSRequest
  BY RegisterFacts DEF SpikeTypeOK
<1>2. CommitFacts(j + 1)
  BY <1>1, AgreeableCommits
<1>3. /\ c.pc \in Nat /\ c.pc % 4 = 0 /\ c.pc = PcAfter(trace, j) /\ c.pc < 4 * n
      /\ c.instruction = request.program[c.pc \div 4]
      /\ i = Decode[c.instruction] /\ i.kind \in Supported
      /\ i.rs1 \in Registers /\ i.rs2 \in Registers /\ i.imm \in Int
      /\ ~ BootOnly(i.rs1) /\ ~ BootOnly(i.rs2)
      /\ x \in Word /\ y \in Word
      /\ i.kind \in {"lw", "sw"} => b = _u32(x + i.imm) /\ b \in Spike!Ram
      /\ q = IF i.kind = "beq" /\ x = y THEN _u32(c.pc + i.imm) ELSE c.pc + 4
      /\ q % 4 = 0 /\ q \in Nat /\ q <= 4 * n
  BY <1>1, <1>2 DEF CommitFacts
<1>4. /\ machine.pc = PROGRAM_BASE + PcAfter(trace, j)
      /\ \A r \in Registers : ~ BootOnly(r) => machine.regs[r] = RegisterAfter(initial, trace, j, r)
      /\ \A a \in Spike!Ram : a <= Spike!program_end => machine.ram[a] = Spike!Image[a]
  BY DEF FollowsTrace
<1> DEFINE p == c.pc
           m == machine.pc
           end == Spike!program_end
<1> HIDE DEF c, i, x, y, b, q, initial, n, end
<1>5. /\ m = PROGRAM_BASE + p /\ p \in Nat /\ m \in Spike!Ram /\ m < end /\ m + 4 <= end
      /\ Spike!Image[m] = request.program[p \div 4]
  <2>1. /\ PROGRAM_BASE + p \in Spike!Ram /\ PROGRAM_BASE + p < end
        /\ PROGRAM_BASE + p + 4 <= end
        /\ Spike!Image[PROGRAM_BASE + p] = request.program[p \div 4]
    BY <1>1, <1>3, ImageFacts DEF n, end
  <2>2. m = PROGRAM_BASE + p /\ p \in Nat
    BY <1>3, <1>4
  <2> HIDE DEF m, p
  <2>3. QED BY <2>1, <2>2
<1>6. /\ end < SETUP_BASE /\ end < Modulus
      /\ SETUP_BASE \in Nat /\ Modulus \in Nat \ {0} /\ end \in Nat
      /\ PROGRAM_BASE \in Nat /\ n \in Nat /\ end = PROGRAM_BASE + 4 * n
  BY <1>1, ImageFacts DEF n, end
<1>7. ~ Spike!InSetup
  <2>1. m < SETUP_BASE /\ m \in Nat
    <3> HIDE DEF m, p
    <3>1. QED BY <1>5, <1>6
  <2>2. QED BY <1>6, <2>1 DEF Spike!InSetup
<1>8. (machine.pc + 4) % Modulus = PROGRAM_BASE + (c.pc + 4)
  <2> DEFINE z == m + 4
  <2>1. z = PROGRAM_BASE + (p + 4) /\ z \in 0 .. Modulus - 1
    <3> HIDE DEF m, p
    <3>1. QED BY <1>5, <1>6
  <2>2. \A y_ \in 0 .. Modulus - 1 : y_ % Modulus = y_
    BY <1>6
  <2> HIDE DEF z
  <2>3. z % Modulus = z
    BY <2>1, <2>2
  <2>4. QED BY <2>1, <2>3 DEF z, m, p
<1>9. machine.ram[machine.pc] = c.instruction
  <2>1. m <= end
    <3> HIDE DEF m, p
    <3>1. QED BY <1>5, <1>6
  <2>2. QED BY <1>3, <1>4, <1>5, <2>1 DEF end
<1>10. Spike!Current = i
  BY <1>3, <1>9 DEF Spike!Current
<1>11. Spike!Left = x /\ Spike!Right = y
  BY <1>3, <1>4, <1>10 DEF Spike!Left, Spike!Right, x, y
<1>12. Spike!Sum = _u32(x + i.imm)
  BY <1>10, <1>11, SpikeContract DEF Spike!Sum, _u32
<1>13. Spike!Taken <=> i.kind = "beq" /\ x = y
  <2>1. i.kind \notin {"bne", "blt", "bge", "bltu", "bgeu", "jal"}
    BY <1>3 DEF Supported, RTypes
  <2>2. QED BY <1>10, <1>11, <2>1 DEF Spike!Taken
<1>14. ASSUME Spike!Taken
       PROVE  Spike!Target = PROGRAM_BASE + q /\ Spike!Target % 4 = 0
  <2>1. q = _u32(c.pc + i.imm)
    BY <1>3, <1>13, <1>14
  <2> DEFINE z == p + i.imm
             imm == i.imm
  <2>2. z \in Int /\ m + imm = PROGRAM_BASE + z
    <3>1. p \in Int /\ imm \in Int
      BY <1>3
    <3> HIDE DEF m, p, imm
    <3>2. p + imm \in Int /\ m + imm = PROGRAM_BASE + (p + imm)
      BY <1>5, <1>6, <3>1
    <3>3. QED BY <3>2 DEF imm
  <2>3. Spike!Target = (PROGRAM_BASE + z) % Modulus
    BY <1>10, <2>2, SpikeContract DEF Spike!Target
  <2> HIDE DEF z
  <2>4. PROGRAM_BASE + q < Modulus /\ (PROGRAM_BASE + q) % 4 = 0
    <3>1. q \in Nat /\ q <= 4 * n /\ q % 4 = 0
      BY <1>3
    <3>2. QED BY <1>6, <3>1, BaseAssumption
  <2>5. q = _u32(z)
    BY <2>1 DEF z
  <2>6. Spike!Target = PROGRAM_BASE + q
    BY <2>2, <2>3, <2>4, <2>5, TargetMoves
  <2>7. QED BY <2>4, <2>6
<1>15. ~ Spike!Traps
  <2>1. /\ i.kind \in Spike!Accepted \ Spike!Illegal
        /\ i.kind \notin Spike!NarrowLoads \cup Spike!NarrowStores
    <3>1. i.kind \in PlainKinds
      BY <1>3 DEF Supported, PlainKinds
    <3>2. QED BY <3>1, PlainKindsFacts
  <2>2. i.kind \in {"lw", "sw"} => Spike!Sum \in Spike!Ram
    BY <1>3, <1>12
  <2>3. QED BY <1>10, <1>14, <2>1, <2>2 DEF Spike!Traps
<1>16. QED
  BY <1>5, <1>7, <1>8, <1>9, <1>10, <1>11, <1>12, <1>13, <1>14, <1>15
     DEF c, i, x, y, q, initial, m, p, end

(* Behind the program the machine can only trap.                           *)
LEMMA BehindProgram ==
  ASSUME EmulatorInv, RunInv, Agreeable, SpikeTypeOK, FollowsTrace(machine, Len(trace)),
         Len(trace) < request.execution_limit
  PROVE  ~ Spike!InSetup /\ machine.pc \in Spike!Ram /\ Spike!Traps
<1>1. /\ pc = PcAfter(trace, Len(trace)) /\ pc = 4 * request.program_word_count
      /\ request \in ISSRequest
  BY DEF EmulatorInv, StateFollowsTrace, Agreeable, Comparable, SpikeTypeOK
<1>2. /\ machine.pc = PROGRAM_BASE + PcAfter(trace, Len(trace))
      /\ \A a \in Spike!Ram : a <= Spike!program_end => machine.ram[a] = Spike!Image[a]
  BY DEF FollowsTrace
<1>3. /\ Spike!program_end = PROGRAM_BASE + 4 * request.program_word_count
      /\ Spike!program_end \in Nat /\ Spike!program_end < SETUP_BASE /\ SETUP_BASE \in Nat
      /\ Spike!program_end \in Spike!Ram /\ Spike!Image[Spike!program_end] = 0
  BY <1>1, ImageFacts
<1>4. machine.pc = Spike!program_end
  BY <1>1, <1>2, <1>3
<1>5. machine.ram[machine.pc] = 0
  BY <1>2, <1>3, <1>4
<1>6. Spike!Current.kind \notin Spike!Accepted \cup {"jal"}
  BY <1>5, ZeroIsIllegal DEF Spike!Current
<1>7. QED BY <1>3, <1>4, <1>6 DEF Spike!InSetup, Spike!Traps

(* The machine afterwards.                                                 *)
LEMMA RetiredState ==
  ASSUME SpikeTypeOK, NEW rd, NEW value, NEW ram, NEW pc_, Spike!Retire(rd, value, ram, pc_)
  PROVE  /\ machine'.pc = pc_ /\ machine'.ram = ram /\ machine'.steps = machine.steps + 1
         /\ machine'.regs = IF rd = 0 THEN machine.regs
                            ELSE [machine.regs EXCEPT ![rd] = value]
         /\ machine'.trapped = machine.trapped
         /\ UNCHANGED <<request, stage, limit, spike_result>>
<1> DEFINE file == IF rd = 0 THEN machine.regs ELSE [machine.regs EXCEPT ![rd] = value]
<1>1. /\ UNCHANGED <<request, stage, limit, spike_result>>
      /\ machine' = [machine EXCEPT !.pc = pc_, !.ram = ram, !.steps = machine.steps + 1,
                                    !.regs = file]
  BY DEF Spike!Retire
<1> HIDE DEF file
<1>2. /\ machine'.pc = pc_ /\ machine'.ram = ram /\ machine'.steps = machine.steps + 1
      /\ machine'.regs = file /\ machine'.trapped = machine.trapped
  BY <1>1 DEF SpikeTypeOK, Machines
<1>3. QED BY <1>1, <1>2 DEF file

(* The retired instruction is the next commit of the emulator's trace and  *)
(* is logged as such.                                                      *)
LEMMA CommitLogged ==
  ASSUME EmulatorInv, SpikeTypeOK, stage = "run", machine.pc \in Spike!Ram,
         machine.pc < Spike!program_end,
         NEW j \in 0 .. Len(trace) - 1, LogsTrace(log, j),
         machine.pc = PROGRAM_BASE + trace[j + 1].pc,
         machine.ram[machine.pc] = trace[j + 1].instruction,
         NEW rd, NEW value, NEW ram, NEW pc_, Retires(rd, value, ram, pc_),
         IF trace[j + 1].rd_valid
         THEN rd # 0 /\ rd = trace[j + 1].rd /\ value = trace[j + 1].value
         ELSE rd = 0
  PROVE  LogsTrace(log', j + 1)
<1> DEFINE c == trace[j + 1]
           l == Line("commit", 0, machine.pc, machine.ram[machine.pc],
                     IF rd = 0 THEN None ELSE rd, IF rd = 0 THEN None ELSE value)
           s == CommitsIn(log)
           u == CommitsIn(log')
<1>1. /\ trace \in Seq(ISSCommit) /\ Len(trace) \in Nat /\ j + 1 \in 1 .. Len(trace) /\ j \in Nat
      /\ c \in ISSCommit /\ log \in Seq(Lines)
  <2>1. trace \in Seq(ISSCommit) /\ Len(trace) \in Nat /\ log \in Seq(Lines)
    BY RegisterFacts DEF SpikeTypeOK
  <2>2. QED BY <2>1
<1>2. /\ l \in Lines /\ log' = Append(log, l) /\ ~ Malformed(l)
      /\ Accepts(l, PROGRAM_BASE, Spike!program_end)
  BY Retired
<1>3. CommitOf(l) = SpikeCommit(c)
  <2>1. /\ l.pc = machine.pc /\ l.instruction = machine.ram[machine.pc]
        /\ l.rd = (IF rd = 0 THEN None ELSE rd) /\ l.value = (IF rd = 0 THEN None ELSE value)
    BY DEF Line
  <2>2. c \in [pc : Word, instruction : Word, rd_valid : BOOLEAN,
               rd : Registers \cup {None}, value : Word \cup {None}]
        /\ (IF c.rd_valid THEN c.rd # None /\ c.value # None
                          ELSE c.rd = None /\ c.value = None)
    BY <1>1 DEF ISSCommit
  <2> HIDE DEF c, l
  <2>3. SpikeCommit(c) = [pc |-> PROGRAM_BASE + c.pc, instruction |-> c.instruction,
                          rd_valid |-> c.rd_valid, rd |-> c.rd, value |-> c.value]
    BY <2>2 DEF SpikeCommit
  <2>4. l.rd = c.rd /\ l.value = c.value /\ ((l.rd # None) = c.rd_valid)
    BY <2>1, <2>2 DEF c
  <2>5. l.pc = PROGRAM_BASE + c.pc /\ l.instruction = c.instruction
    BY <2>1 DEF c
  <2>6. QED BY <2>3, <2>4, <2>5 DEF CommitOf
<1> HIDE DEF l
<1>4. u = Append(s, l)
  BY <1>1, <1>2, CommitsAppend
<1>5. Len(s) = j /\ \A i \in 1 .. j : CommitOf(s[i]) = SpikeCommit(trace[i])
  BY DEF LogsTrace
<1>6. s \in Seq(Lines)
  BY <1>1, SelectedFacts DEF CommitsIn
<1> HIDE DEF s, u
<1>7. /\ Len(u) = j + 1 /\ u[j + 1] = l /\ \A i \in 1 .. j : u[i] = s[i]
  BY <1>2, <1>4, <1>5, <1>6
<1>8. \A i \in 1 .. j + 1 : CommitOf(u[i]) = SpikeCommit(trace[i])
  <2> TAKE i \in 1 .. j + 1
  <2>1. i \in 1 .. j \/ i = j + 1
    BY <1>1
  <2>2. QED BY <1>3, <1>5, <1>7, <2>1 DEF c
<1>9. QED BY <1>7, <1>8 DEF LogsTrace, u

(* The state that is left is what the trace says after this commit.        *)
LEMMA FollowsOn ==
  ASSUME EmulatorInv, RunInv, Agreeable, SpikeTypeOK, stage = "run", ~ machine.trapped,
         NEW j \in 0 .. Len(trace) - 1, FollowsTrace(machine, j), LogsTrace(log, j),
         NEW rd, NEW value, NEW ram, Spike!Retire(rd, value, ram, PROGRAM_BASE + PcAfter(trace, j + 1)),
         IF trace[j + 1].rd_valid
         THEN rd # 0 /\ rd = trace[j + 1].rd /\ value = trace[j + 1].value
         ELSE rd = 0,
         ram = IF Instruction(trace, j + 1).kind = "sw"
               THEN [machine.ram EXCEPT ![DataAddress(trace, j + 1)] =
                       RegisterAfter(request.initial_int_regs, trace, j, Instruction(trace, j + 1).rs2)]
               ELSE machine.ram
  PROVE  /\ FollowsTrace(machine', j + 1) /\ LogsTrace(log', j + 1)
         /\ machine'.steps = machine.steps + 1
         /\ UNCHANGED <<request, stage, limit, spike_result>>
<1> DEFINE c == trace[j + 1]
           i == Instruction(trace, j + 1)
           b == DataAddress(trace, j + 1)
           initial == request.initial_int_regs
           y == RegisterAfter(initial, trace, j, i.rs2)
           q == PcAfter(trace, j + 1)
           end == Spike!program_end
<1>1. /\ trace \in Seq(ISSCommit) /\ Len(trace) \in Nat /\ j + 1 \in 1 .. Len(trace)
      /\ (j + 1) - 1 = j /\ j \in Nat /\ c \in ISSCommit
  <2>1. trace \in Seq(ISSCommit) /\ Len(trace) \in Nat
    BY RegisterFacts
  <2>2. QED BY <2>1
<1>2. CommitFacts(j + 1)
  BY <1>1, AgreeableCommits
<1>3. /\ y \in Word /\ q % 4 = 0 /\ q \in Nat
      /\ i.kind = "sw" => b \in Spike!Ram /\ b >= DATA_BASE
  BY <1>1, <1>2 DEF CommitFacts
<1>4. request \in ISSRequest /\ machine \in Machines /\ machine.ram \in [Spike!Ram -> Word]
  BY DEF SpikeTypeOK
<1>5. /\ machine.pc = PROGRAM_BASE + c.pc /\ machine.pc \in Spike!Ram /\ machine.pc < end
      /\ machine.ram[machine.pc] = c.instruction
  BY NextCommit
<1> HIDE DEF i, b, y, q, end
<1>6. ram \in [Spike!Ram -> Word]
  <2>1. ram = IF i.kind = "sw" THEN [machine.ram EXCEPT ![b] = y] ELSE machine.ram
    BY DEF i, b, y
  <2>2. QED BY <1>3, <1>4, <2>1
<1>7. Retires(rd, value, ram, PROGRAM_BASE + q)
  <2>1. PROGRAM_BASE + q \in Nat /\ (PROGRAM_BASE + q) % 4 = 0
    <3>1. PROGRAM_BASE \in Nat /\ PROGRAM_BASE % 4 = 0
      BY ContractAssumption, BaseAssumption DEF Word
    <3>2. QED BY <1>3, <3>1
  <2>2. c.rd_valid => c.rd \in Registers /\ c.value \in Word
    BY <1>1 DEF ISSCommit
  <2>3. rd \in Registers /\ (rd # 0 => value \in Word)
    BY <2>2, ContractAssumption DEF Registers
  <2>4. QED BY <1>6, <2>1, <2>3 DEF Retires, q
<1>8. /\ machine'.pc = PROGRAM_BASE + q /\ machine'.ram = ram /\ machine'.steps = machine.steps + 1
      /\ machine'.regs = (IF rd = 0 THEN machine.regs ELSE [machine.regs EXCEPT ![rd] = value])
      /\ machine'.trapped = machine.trapped
      /\ UNCHANGED <<request, stage, limit, spike_result>>
  <2> DEFINE next == PROGRAM_BASE + q
             file == IF rd = 0 THEN machine.regs ELSE [machine.regs EXCEPT ![rd] = value]
  <2>1. Spike!Retire(rd, value, ram, next)
    BY DEF q
  <2> HIDE DEF next
  <2>2. /\ machine'.pc = next /\ machine'.ram = ram /\ machine'.steps = machine.steps + 1
        /\ machine'.regs = file
        /\ machine'.trapped = machine.trapped
        /\ UNCHANGED <<request, stage, limit, spike_result>>
    BY <2>1, RetiredState
  <2>3. QED BY <2>2 DEF next
<1>9. LogsTrace(log', j + 1)
  BY <1>5, <1>7, CommitLogged DEF end
<1>10. /\ \A r : RegisterAfter(initial, trace, j + 1, r) =
                   IF r # 0 /\ c.rd_valid /\ c.rd = r THEN c.value
                   ELSE RegisterAfter(initial, trace, j, r)
       /\ \A a : MemoryAfter(trace, j + 1, a) =
                   IF i.kind = "sw" /\ b = a THEN y ELSE MemoryAfter(trace, j, a)
  BY <1>1, TraceStep DEF i, b, y
<1>11. /\ \A r \in Registers : ~ BootOnly(r) => machine.regs[r] = RegisterAfter(initial, trace, j, r)
       /\ \A a \in Spike!Ram : a <= end => machine.ram[a] = Spike!Image[a]
       /\ \A a \in Spike!Ram : a >= DATA_BASE /\ a # DATA_BASE + 4 =>
            machine.ram[a] = MemoryAfter(trace, j, a)
  BY DEF FollowsTrace, end
<1>12. ASSUME NEW r \in Registers, ~ BootOnly(r)
       PROVE  machine'.regs[r] = RegisterAfter(initial, trace, j + 1, r)
  <2>1. DOMAIN machine.regs = Registers
    BY <1>4 DEF Machines, RegisterFiles
  <2>2. machine.regs[r] = RegisterAfter(initial, trace, j, r)
    BY <1>11, <1>12
  <2> HIDE DEF c, initial
  <2>3. CASE rd = 0
    <3>1. ~ c.rd_valid
      BY <2>3 DEF c
    <3>2. QED BY <1>8, <1>10, <2>2, <2>3, <3>1
  <2>4. CASE rd # 0
    <3>1. c.rd_valid /\ rd = c.rd /\ value = c.value
      BY <2>4 DEF c
    <3>2. machine'.regs[r] = IF r = rd THEN value ELSE machine.regs[r]
      BY <1>8, <2>1, <2>4
    <3>3. QED BY <1>10, <2>2, <2>4, <3>1, <3>2
  <2>5. QED BY <2>3, <2>4
<1>13. \A a \in Spike!Ram : machine'.ram[a] = IF i.kind = "sw" /\ b = a THEN y ELSE machine.ram[a]
  <2>1. machine'.ram = IF i.kind = "sw" THEN [machine.ram EXCEPT ![b] = y] ELSE machine.ram
    BY <1>8 DEF i, b, y
  <2>2. QED BY <1>4, <2>1
<1>14. ASSUME NEW a \in Spike!Ram, a <= end
       PROVE  machine'.ram[a] = Spike!Image[a]
  <2>1. end < DATA_BASE /\ end \in Nat /\ DATA_BASE \in Nat
    BY <1>4, ImageFacts DEF end
  <2>2. a \in Nat
    BY SpikeContract, WordFacts DEF Spike!Ram
  <2>3. ~ (a >= DATA_BASE)
    BY <1>14, <2>1, <2>2
  <2>4. ~ (i.kind = "sw" /\ b = a)
    BY <1>3, <2>3
  <2>5. QED BY <1>11, <1>13, <1>14, <2>4
<1>15. ASSUME NEW a \in Spike!Ram, a >= DATA_BASE, a # DATA_BASE + 4
       PROVE  machine'.ram[a] = MemoryAfter(trace, j + 1, a)
  BY <1>10, <1>11, <1>13, <1>15
<1>16. ~ machine'.trapped /\ j + 1 \in 0 .. Len(trace)
  BY <1>1, <1>8
<1>17. FollowsTrace(machine', j + 1)
  BY <1>8, <1>12, <1>14, <1>15, <1>16 DEF FollowsTrace, initial, q, end
<1>18. QED BY <1>8, <1>9, <1>17

(* Spike executes the emulator's next commit.                              *)
LEMMA InstructionFollows ==
  ASSUME EmulatorInv, RunInv, Agreeable, SpikeTypeOK, Spike!RunInstruction,
         NEW j \in 0 .. Len(trace) - 1, FollowsTrace(machine, j), LogsTrace(log, j)
  PROVE  /\ FollowsTrace(machine', j + 1) /\ LogsTrace(log', j + 1)
         /\ machine'.steps = machine.steps + 1
         /\ UNCHANGED <<request, stage, limit, spike_result>>
<1> DEFINE c == trace[j + 1]
           i == Instruction(trace, j + 1)
           b == DataAddress(trace, j + 1)
           initial == request.initial_int_regs
           x == RegisterAfter(initial, trace, j, i.rs1)
           y == RegisterAfter(initial, trace, j, i.rs2)
           q == PcAfter(trace, j + 1)
           k == i.kind
           next == (machine.pc + 4) % Modulus
           stored == [machine.ram EXCEPT ![b] = y]
<1>1. /\ j + 1 \in 1 .. Len(trace) /\ (j + 1) - 1 = j /\ j \in Nat
  BY RegisterFacts
<1>2. CommitFacts(j + 1)
  BY <1>1, AgreeableCommits
<1>3. /\ c \in ISSCommit /\ c.pc \in Nat /\ k \in Supported /\ i.rd \in Registers
      /\ x \in Word /\ y \in Word /\ i.imm \in Int
      /\ k \in {"lw", "sw"} => b = _u32(x + i.imm) /\ b \in Spike!Ram
                               /\ b >= DATA_BASE /\ b # DATA_BASE + 4
      /\ k \in {"beq", "sw"} => c = CommitOnly(c.pc, c.instruction)
      /\ k \notin {"beq", "sw"} =>
           i.rd # 0 /\ c = Commit(c.pc, c.instruction, i.rd, Written(i, x, y, MemoryAfter(trace, j, b)))
      /\ q = IF k = "beq" /\ x = y THEN _u32(c.pc + i.imm) ELSE c.pc + 4
  BY <1>1, <1>2 DEF CommitFacts
<1>4. /\ next = PROGRAM_BASE + (c.pc + 4) /\ Spike!Current = i
      /\ Spike!Left = x /\ Spike!Right = y /\ Spike!Sum = _u32(x + i.imm)
      /\ Spike!Taken <=> k = "beq" /\ x = y
      /\ Spike!Taken => Spike!Target = PROGRAM_BASE + q
  BY NextCommit
<1>5. /\ stage = "run" /\ ~ machine.trapped
      /\ \/ k = "addi" /\ Spike!Retire(i.rd, Spike!Sum, machine.ram, next)
         \/ k \in RTypes
              /\ Spike!Retire(i.rd, Spike!IsaAlu(k, Spike!Left, Spike!Right), machine.ram, next)
         \/ k \in {"beq", "bne", "blt", "bge"}
              /\ Spike!Retire(0, None, machine.ram, IF Spike!Taken THEN Spike!Target ELSE next)
         \/ k = "lw" /\ Spike!Retire(i.rd, machine.ram[Spike!Sum], machine.ram, next)
         \/ k = "sw" /\ Spike!Retire(0, None, [machine.ram EXCEPT ![Spike!Sum] = Spike!Right], next)
  <2>1. stage = "run" /\ ~ machine.trapped
    BY DEF Spike!RunInstruction, Spike!Fetches, Spike!Running
  <2>2. Spike!Current.kind \in PlainKinds
    BY <1>3, <1>4 DEF Supported, PlainKinds
  <2>3. LET k_ == Spike!Current.kind IN
          \/ k_ = "addi" /\ Spike!Retire(Spike!Current.rd, Spike!Sum, machine.ram, next)
          \/ k_ \in RTypes
               /\ Spike!Retire(Spike!Current.rd, Spike!IsaAlu(k_, Spike!Left, Spike!Right), machine.ram, next)
          \/ k_ \in {"beq", "bne", "blt", "bge"}
               /\ Spike!Retire(0, None, machine.ram, IF Spike!Taken THEN Spike!Target ELSE next)
          \/ k_ = "lw" /\ Spike!Retire(Spike!Current.rd, machine.ram[Spike!Sum], machine.ram, next)
          \/ k_ = "sw" /\ Spike!Retire(0, None, [machine.ram EXCEPT ![Spike!Sum] = Spike!Right], next)
    BY <2>2, RunPlainInstruction
  <2> HIDE DEF next, i
  <2>4. QED BY <1>4, <2>1, <2>3
<1>6. FollowsTrace(machine, j) => \A a \in Spike!Ram : a >= DATA_BASE /\ a # DATA_BASE + 4 =>
                                    machine.ram[a] = MemoryAfter(trace, j, a)
  BY DEF FollowsTrace
<1> HIDE DEF c, i, b, initial, x, y, q, k, next
<1>7. ASSUME NEW rd, NEW value, NEW ram, Spike!Retire(rd, value, ram, PROGRAM_BASE + q),
             IF c.rd_valid THEN rd # 0 /\ rd = c.rd /\ value = c.value ELSE rd = 0,
             ram = IF k = "sw" THEN stored ELSE machine.ram
      PROVE  /\ FollowsTrace(machine', j + 1) /\ LogsTrace(log', j + 1)
             /\ machine'.steps = machine.steps + 1
             /\ UNCHANGED <<request, stage, limit, spike_result>>
  <2>1. Spike!Retire(rd, value, ram, PROGRAM_BASE + PcAfter(trace, j + 1))
    BY <1>7 DEF q
  <2>2. IF trace[j + 1].rd_valid
        THEN rd # 0 /\ rd = trace[j + 1].rd /\ value = trace[j + 1].value
        ELSE rd = 0
    BY <1>7 DEF c
  <2>3. ram = IF Instruction(trace, j + 1).kind = "sw"
              THEN [machine.ram EXCEPT ![DataAddress(trace, j + 1)] =
                      RegisterAfter(request.initial_int_regs, trace, j, Instruction(trace, j + 1).rs2)]
              ELSE machine.ram
    BY <1>7 DEF k, i, b, y, initial
  <2>4. QED BY <1>5, <2>1, <2>2, <2>3, FollowsOn
<1>8. c.pc + 4 = q \/ k = "beq"
  BY <1>3
<1>9. ASSUME NEW value, k \notin {"beq", "sw"}, value = Written(i, x, y, MemoryAfter(trace, j, b)),
             Spike!Retire(i.rd, value, machine.ram, next)
      PROVE  /\ FollowsTrace(machine', j + 1) /\ LogsTrace(log', j + 1)
             /\ machine'.steps = machine.steps + 1
             /\ UNCHANGED <<request, stage, limit, spike_result>>
  <2>1. c.rd_valid /\ c.rd = i.rd /\ c.value = value /\ i.rd # 0
    BY <1>3, <1>9 DEF Commit
  <2>2. next = PROGRAM_BASE + q /\ k # "sw"
    BY <1>4, <1>8, <1>9
  <2>3. QED BY <1>7, <1>9, <2>1, <2>2
<1>10. CASE k = "addi"
  <2>1. Spike!Retire(i.rd, Spike!Sum, machine.ram, next)
    BY <1>5, <1>10 DEF RTypes
  <2>2. Spike!Sum = Written(i, x, y, MemoryAfter(trace, j, b))
    BY <1>4, <1>10, WrittenValues DEF k
  <2>3. QED BY <1>9, <1>10, <2>1, <2>2
<1>11. CASE k \in RTypes
  <2>1. k \notin {"addi", "beq", "bne", "blt", "bge", "jal", "lw", "sw"}
    BY <1>11 DEF RTypes
  <2>2. Spike!Retire(i.rd, Spike!IsaAlu(k, Spike!Left, Spike!Right), machine.ram, next)
    BY <1>5, <2>1
  <2>3. Spike!IsaAlu(k, x, y) = _u32(_r_type(k, x, y))
    BY <1>3, <1>11, AluAgrees
  <2>4. Spike!IsaAlu(k, Spike!Left, Spike!Right) = Written(i, x, y, MemoryAfter(trace, j, b))
    BY <1>4, <1>11, <2>3, WrittenValues DEF k
  <2>5. QED BY <1>9, <2>1, <2>2, <2>4
<1>12. CASE k = "lw"
  <2>1. Spike!Retire(i.rd, machine.ram[Spike!Sum], machine.ram, next)
    BY <1>5, <1>12 DEF RTypes
  <2>2. Spike!Sum = b /\ b \in Spike!Ram /\ b >= DATA_BASE /\ b # DATA_BASE + 4
    BY <1>3, <1>4, <1>12
  <2>3. machine.ram[Spike!Sum] = MemoryAfter(trace, j, b)
    BY <1>6, <2>2
  <2>4. machine.ram[Spike!Sum] = Written(i, x, y, MemoryAfter(trace, j, b))
    BY <1>12, <2>3, WrittenValues DEF k
  <2>5. QED BY <1>9, <1>12, <2>1, <2>4
<1>13. CASE k = "sw"
  <2>1. Spike!Retire(0, None, [machine.ram EXCEPT ![Spike!Sum] = Spike!Right], next)
    BY <1>5, <1>13 DEF RTypes
  <2>2. [machine.ram EXCEPT ![Spike!Sum] = Spike!Right] = stored
    BY <1>3, <1>4, <1>13
  <2>3. ~ c.rd_valid /\ next = PROGRAM_BASE + q
    BY <1>3, <1>4, <1>8, <1>13 DEF CommitOnly
  <2> HIDE DEF stored
  <2>4. QED BY <1>7, <1>13, <2>1, <2>2, <2>3
<1>14. CASE k = "beq"
  <2>1. Spike!Retire(0, None, machine.ram, IF Spike!Taken THEN Spike!Target ELSE next)
    BY <1>5, <1>14 DEF RTypes
  <2>2. ~ c.rd_valid
    BY <1>3, <1>14 DEF CommitOnly
  <2>3. (IF Spike!Taken THEN Spike!Target ELSE next) = PROGRAM_BASE + q
    BY <1>3, <1>4, <1>14
  <2>4. QED BY <1>7, <1>14, <2>1, <2>2, <2>3
<1>15. QED BY <1>3, <1>10, <1>11, <1>12, <1>13, <1>14 DEF Supported

(* What a run of Spike on such a request has done: the image is loaded,    *)
(* the setup code loads its registers one by one, and each step after it   *)
(* is the next commit of the emulator.                                     *)
Simulates(m, lines) ==
  /\ m.steps < SetupEnd => ~ m.trapped /\ m.ram = Spike!Image
  /\ InFirstSetup(m, lines) =>
       LoadedBy(Spike!Setup, m.steps - SPIKE_BOOT_INSTRUCTION_COUNT, m.regs)
  /\ SetupEnd <= m.steps => /\ FollowsTrace(m, m.steps - SetupEnd)
                            /\ LogsTrace(lines, m.steps - SetupEnd)

(* The invariant: such a run is simulated as long as it lasts, and what    *)
(* comes of it is the emulator's result.                                   *)
SimInv ==
  Agreeable =>
    /\ stage \in {"run", "parse"} => Simulates(machine, log)
    /\ stage = "done" /\ spike_result.status = "PASS" =>
         result = normalize_spike_result(spike_result)

(* The emulator has returned: what is told of its trace stays.             *)
LEMMA SameTrace ==
  ASSUME UNCHANGED <<request, emulator_vars>>
  PROVE  /\ Agreeable' = Agreeable
         /\ Simulates(machine, log)' = Simulates(machine', log')
<1>1. UNCHANGED <<request, phase, regs, memory, pc, trace, result>>
  BY DEF emulator_vars, state
<1>2. Agreeable' = Agreeable
  BY <1>1 DEF Agreeable, Comparable, EndsInTakenBranch, DataApart, ReadsBootRegister, TakesBranch,
              Instruction, DataAddress, RegisterBefore
<1>3. /\ Spike!Setup' = Spike!Setup /\ Spike!program_end' = Spike!program_end
      /\ SetupEnd' = SetupEnd /\ Spike!Image' = Spike!Image
  <2>1. Spike!program_end' = Spike!program_end
    BY <1>1, SameRequest
  <2>2. QED BY <1>1, <2>1, SameRequest DEF Spike!Image, Spike!Ram
<1>4. /\ ExecutedOf(log)' = ExecutedOf(log')
      /\ CommitsIn(log)' = CommitsIn(log')
  <2>1. ExecutedOf(log)' = ExecutedOf(log')
    BY <1>3 DEF ExecutedOf, InsideOf
  <2>2. QED BY <2>1 DEF CommitsIn, Selected, SelectedTo
<1>5. InFirstSetup(machine, log)' = InFirstSetup(machine', log')
  BY <1>3, <1>4 DEF InFirstSetup
<1>6. LoadedBy(Spike!Setup, machine.steps - SPIKE_BOOT_INSTRUCTION_COUNT, machine.regs)'
        = LoadedBy(Spike!Setup, machine'.steps - SPIKE_BOOT_INSTRUCTION_COUNT, machine'.regs)
  BY <1>3 DEF LoadedBy
<1>7. FollowsTrace(machine, machine.steps - SetupEnd)'
        = FollowsTrace(machine', machine'.steps - SetupEnd)
  <2>1. \A j : PcAfter(trace, j)' = PcAfter(trace, j)
    BY <1>1 DEF PcAfter, TakesBranch, Instruction, RegisterBefore
  <2>2. \A j, a : MemoryAfter(trace, j, a)' = MemoryAfter(trace, j, a)
    BY <1>1 DEF MemoryAfter, Stores, DataAddress, Instruction, RegisterBefore
  <2>3. \A r : BootOnly(r)' = BootOnly(r)
    BY <1>1 DEF BootOnly
  <2>4. QED BY <1>1, <1>3, <2>1, <2>2, <2>3 DEF FollowsTrace, Spike!Ram
<1>8. LogsTrace(log, machine.steps - SetupEnd)' = LogsTrace(log', machine'.steps - SetupEnd)
  BY <1>1, <1>3, <1>4 DEF LogsTrace
<1>9. QED BY <1>2, <1>3, <1>5, <1>6, <1>7, <1>8 DEF Simulates

(* A run that goes on.                                                     *)
LEMMA SimulatesOn ==
  ASSUME UNCHANGED <<request, emulator_vars>>, stage' \in {"run", "parse"},
         Agreeable => Simulates(machine', log')
  PROVE  SimInv'
BY SameTrace DEF SimInv

(* Power on, and the boot code.                                            *)
LEMMA BuildSimulates ==
  ASSUME SpikeTypeOK, BudgetInv, UNCHANGED emulator_vars, Spike!Build
  PROVE  SimInv'
<1>1. /\ stage' = "run" /\ UNCHANGED <<request, log, spike_result>>
      /\ machine'.steps = 0 /\ ~ machine'.trapped /\ machine'.ram = Spike!Image
  BY DEF Spike!Build, Spike!PoweredOff
<1>2. SPIKE_BOOT_INSTRUCTION_COUNT \in Nat \ {0} /\ SetupEnd \in Nat /\ Len(Spike!Setup) \in Nat
  BY LayoutFacts DEF SpikeTypeOK
<1>3. ~ InFirstSetup(machine', log') /\ ~ (SetupEnd <= 0)
  BY <1>1, <1>2 DEF InFirstSetup, SetupEnd
<1>4. Simulates(machine', log')
  BY <1>1, <1>3 DEF Simulates
<1>5. QED BY <1>1, <1>4, SimulatesOn

(* What the boot code leaves: its registers, and none of the setup done.   *)
LEMMA BootLeaves ==
  ASSUME SpikeTypeOK, Spike!Boot
  PROVE  LET B == SPIKE_BOOT_INSTRUCTION_COUNT
         IN  /\ stage = "run" /\ stage' = "run" /\ UNCHANGED request /\ machine.steps = 0
             /\ machine'.steps = B /\ machine'.trapped = machine.trapped
             /\ machine'.ram = machine.ram /\ machine'.regs = BootRegisters
             /\ 0 < SetupEnd /\ ~ (SetupEnd <= B)
             /\ LoadedBy(Spike!Setup, B - B, BootRegisters)
<1> DEFINE B == SPIKE_BOOT_INSTRUCTION_COUNT
<1>1. /\ stage = "run" /\ stage' = "run" /\ UNCHANGED request /\ machine.steps = 0
      /\ machine' = [machine EXCEPT !.pc = SETUP_BASE, !.regs = BootRegisters, !.steps = B]
  BY DEF Spike!Boot, Spike!Running
<1>2. /\ machine'.steps = B /\ machine'.trapped = machine.trapped /\ machine'.ram = machine.ram
      /\ machine'.regs = BootRegisters
  BY <1>1 DEF SpikeTypeOK, Machines
<1>3. /\ B \in Nat \ {0} /\ SetupEnd \in Nat /\ Len(Spike!Setup) \in Nat
      /\ SetupEnd = B + Len(Spike!Setup) + 1
  BY LayoutFacts DEF SpikeTypeOK, SetupEnd
<1>4. LoadedBy(Spike!Setup, B - B, BootRegisters)
  <2>1. B - B = 0 /\ 1 .. 0 = {}
    BY <1>3
  <2> HIDE DEF B
  <2>2. QED BY <2>1 DEF LoadedBy
<1> HIDE DEF B
<1>5. 0 < SetupEnd /\ ~ (SetupEnd <= B)
  BY <1>3
<1>6. QED BY <1>1, <1>2, <1>4, <1>5 DEF B

(* The boot code leaves its registers to the setup code.                   *)
LEMMA BootSimulates ==
  ASSUME SpikeTypeOK, BudgetInv, SimInv, UNCHANGED emulator_vars, Spike!Boot
  PROVE  SimInv'
<1>1. SUFFICES ASSUME Agreeable PROVE Simulates(machine', log')
  BY BootLeaves, SimulatesOn, Zenon
<1>2. Simulates(machine, log)
  BY <1>1, BootLeaves DEF SimInv
<1>3. ~ machine.trapped /\ machine.ram = Spike!Image
  BY <1>2, BootLeaves DEF Simulates
<1>4. QED BY <1>3, BootLeaves DEF Simulates

(* Where such a run is: in the first pass of the setup code or at a commit *)
(* of the trace, in the program.                                           *)
LEMMA WhereItIs ==
  ASSUME EmulatorInv, SpikeTypeOK, BudgetInv, SimInv, Agreeable, stage = "run", machine.steps > 0
  PROVE  \/ /\ InFirstSetup(machine, log) /\ machine.steps < SetupEnd
         \/ /\ InProgram(machine, log)
            /\ machine.steps - SetupEnd \in 0 .. Len(trace) /\ SetupEnd <= machine.steps
            /\ FollowsTrace(machine, machine.steps - SetupEnd)
            /\ LogsTrace(log, machine.steps - SetupEnd)
<1>1. machine.steps \in Nat /\ SetupEnd \in Nat /\ log \in Seq(Lines)
  BY LayoutFacts DEF SpikeTypeOK, Machines
<1>2. InFirstSetup(machine, log) \/ InProgram(machine, log)
  BY <1>1 DEF BudgetInv, Budgeted, InBoot
<1>3. Simulates(machine, log)
  BY DEF SimInv
<1>4. ASSUME InProgram(machine, log)
      PROVE  SetupEnd <= machine.steps
  <2>1. Cardinality(ExecutedOf(log)) \in Nat
    BY <1>1, ExecutedIsFinite
  <2>2. QED BY <1>1, <1>4, <2>1 DEF InProgram
<1>5. InFirstSetup(machine, log) => machine.steps < SetupEnd
  BY DEF InFirstSetup
<1>6. ASSUME InProgram(machine, log)
      PROVE  /\ machine.steps - SetupEnd \in 0 .. Len(trace)
             /\ FollowsTrace(machine, machine.steps - SetupEnd)
             /\ LogsTrace(log, machine.steps - SetupEnd)
  <2>1. /\ FollowsTrace(machine, machine.steps - SetupEnd)
        /\ LogsTrace(log, machine.steps - SetupEnd)
    BY <1>3, <1>4, <1>6 DEF Simulates
  <2>2. QED BY <2>1 DEF FollowsTrace
<1>7. QED BY <1>2, <1>4, <1>5, <1>6

(* At a commit of the trace the next step is the next commit, and behind   *)
(* the last one it is a trap.                                              *)
LEMMA AtCommit ==
  ASSUME EmulatorInv, RunInv, SpikeTypeOK, BudgetInv, Agreeable, stage = "run",
         machine.steps < limit, machine.steps - SetupEnd \in 0 .. Len(trace),
         FollowsTrace(machine, machine.steps - SetupEnd)
  PROVE  /\ ~ Spike!InSetup /\ machine.pc \in Spike!Ram
         /\ \/ machine.steps - SetupEnd \in 0 .. Len(trace) - 1 /\ ~ Spike!Traps
            \/ machine.steps - SetupEnd = Len(trace) /\ Spike!Traps
<1> DEFINE j == machine.steps - SetupEnd
           n == Len(trace)
<1>1. j \in 0 .. n /\ n \in Nat /\ FollowsTrace(machine, j)
  BY RegisterFacts
<1>2. CASE j \in 0 .. n - 1
  <2> HIDE DEF j
  <2>1. machine.pc \in Spike!Ram /\ ~ Spike!InSetup /\ ~ Spike!Traps
    BY <1>1, <1>2, NextCommit
  <2>2. QED BY <1>2, <2>1 DEF j
<1>3. CASE j = n
  <2>1. n < request.execution_limit
    <3>1. /\ limit = SetupEnd + request.execution_limit /\ machine.steps \in Nat
          /\ SetupEnd \in Nat /\ request.execution_limit \in Nat
      BY LayoutFacts DEF BudgetInv, SpikeTypeOK, Machines
    <3> HIDE DEF n
    <3>2. QED BY <1>3, <3>1
  <2>2. FollowsTrace(machine, n)
    BY <1>1, <1>3
  <2>3. machine.pc \in Spike!Ram /\ ~ Spike!InSetup /\ Spike!Traps
    BY <2>1, <2>2, BehindProgram
  <2>4. QED BY <1>3, <2>3
<1> HIDE DEF j, n
<1>4. j \in 0 .. n - 1 \/ j = n
  BY <1>1
<1>5. QED BY <1>2, <1>3, <1>4

(* The setup code in its first pass: a load more, or the program with the  *)
(* initial registers, where these are not the boot code's, and clear data. *)
LEMMA SetupLeaves ==
  ASSUME SpikeTypeOK, stage = "run", InFirstSetup(machine, log), Spike!RunSetup,
         ~ machine.trapped, machine.ram = Spike!Image,
         LoadedBy(Spike!Setup, machine.steps - SPIKE_BOOT_INSTRUCTION_COUNT, machine.regs)
  PROVE  /\ ExecutedOf(log') = {} /\ CommitsIn(log') = <<>>
         /\ ~ machine'.trapped /\ machine'.ram = Spike!Image
         /\ \/ /\ machine'.steps < SetupEnd /\ ~ (SetupEnd <= machine'.steps)
               /\ LoadedBy(Spike!Setup, machine'.steps - SPIKE_BOOT_INSTRUCTION_COUNT, machine'.regs)
            \/ /\ machine'.steps = SetupEnd /\ machine'.pc = PROGRAM_BASE
               /\ \A r \in Registers : ~ BootOnly(r) =>
                    machine'.regs[r] = request.initial_int_regs[r]
               /\ \A a \in Spike!Ram : a >= DATA_BASE /\ a # DATA_BASE + 4 => machine'.ram[a] = 0
<1> DEFINE B == SPIKE_BOOT_INSTRUCTION_COUNT
           s == Spike!Setup
           k == machine.steps - B
           end == Spike!program_end
           i == (machine.pc - SETUP_BASE) \div 4 + 1
<1>1. /\ log \in Seq(Lines) /\ machine.steps \in Nat /\ SetupEnd \in Nat /\ B \in Nat
      /\ Len(s) \in Nat /\ SetupEnd = B + Len(s) + 1
      /\ SETUP_BASE \in Nat /\ end \in Nat /\ end < SETUP_BASE /\ request \in ISSRequest
  BY LayoutFacts DEF SpikeTypeOK, Machines, SetupEnd
<1>2. /\ B <= machine.steps /\ machine.steps < SetupEnd
      /\ machine.pc = SETUP_BASE + 4 * k /\ ExecutedOf(log) = {}
  BY DEF InFirstSetup
<1>3. k \in Nat /\ k <= Len(s) /\ machine.steps = B + k
  <2> DEFINE n == machine.steps
             length == Len(s)
  <2>1. n \in Nat /\ B \in Nat /\ length \in Nat /\ B <= n /\ n < B + length + 1
    BY <1>1, <1>2
  <2> HIDE DEF n, length, B
  <2>2. n - B \in Nat /\ n - B <= length /\ n = B + (n - B)
    BY <2>1
  <2>3. QED BY <2>2 DEF n, length
<1>4. ~ machine.trapped /\ machine.ram = Spike!Image /\ LoadedBy(s, k, machine.regs)
  OBVIOUS
<1>5. machine.steps > 0
  BY SetupComesLater DEF Spike!RunSetup
<1>6. IF i > Len(s) THEN Spike!Retire(0, None, machine.ram, PROGRAM_BASE)
      ELSE Spike!Retire(s[i].rd, s[i].value, machine.ram, machine.pc + 4)
  BY SpikeContract DEF Spike!RunSetup
<1>7. s \in Seq(SetupEntries)
  BY <1>1, SetupFacts
<1> HIDE DEF B, s, k, end, i
<1>8. i = k + 1 /\ machine.pc >= SETUP_BASE
  <2>1. (SETUP_BASE + 4 * k - SETUP_BASE) \div 4 + 1 = k + 1 /\ SETUP_BASE + 4 * k >= SETUP_BASE
    BY <1>1, <1>3
  <2>2. machine.pc = SETUP_BASE + 4 * k /\ k \in Nat /\ SETUP_BASE \in Nat
    BY <1>1, <1>2, <1>3
  <2>3. QED BY <2>1, <2>2 DEF i
(* The line is none of the program's.                                      *)
<1>9. ExecutedOf(log') = {} /\ CommitsIn(log') = <<>>
  <2>1. \E rd, value, ram, pc_ : Retires(rd, value, ram, pc_)
    BY <1>5, RunSetupRetires, Zenon
  <2>2. machine.pc \in Spike!Ram
    BY <1>5, RunSetupRetires
  <2>3. PICK l \in Lines :
          /\ log' = Append(log, l)
          /\ Accepts(l, PROGRAM_BASE, Spike!program_end) <=> machine.pc < Spike!program_end
    BY <2>1, <2>2, RetiredLine
  <2>4. ~ (machine.pc < Spike!program_end)
    <3>1. machine.pc \in Nat
      BY DEF SpikeTypeOK, Machines
    <3>2. QED BY <1>1, <1>8, <3>1 DEF end
  <2>5. ExecutedOf(log') = {}
    BY <1>1, <1>2, <2>3, <2>4, AppendLine
  <2>6. log' \in Seq(Lines)
    BY <1>1, <2>3
  <2>7. QED BY <2>5, <2>6, NoCommits
<1>10. CASE i > Len(s)
  <2>1. Spike!Retire(0, None, machine.ram, PROGRAM_BASE)
    BY <1>6, <1>10
  <2>2. /\ machine'.pc = PROGRAM_BASE /\ machine'.ram = Spike!Image
        /\ machine'.steps = machine.steps + 1
        /\ machine'.regs = machine.regs /\ ~ machine'.trapped
    BY <1>4, <2>1, RetiredState
  <2>3. k = Len(s) /\ machine'.steps = SetupEnd
    BY <1>1, <1>3, <1>8, <1>10, <2>2
  <2>4. ASSUME NEW r \in Registers, ~ BootOnly(r)
        PROVE  machine'.regs[r] = request.initial_int_regs[r]
    <3>1. machine'.regs[r] = IF request.initial_int_regs[r] = 0 THEN BootRegisters[r]
                             ELSE request.initial_int_regs[r]
      BY <1>1, <1>4, <2>2, <2>3, RegistersAfterSetup DEF s
    <3>2. QED BY <2>4, <3>1 DEF BootOnly
  <2>5. ASSUME NEW a \in Spike!Ram, a >= DATA_BASE, a # DATA_BASE + 4
        PROVE  machine'.ram[a] = 0
    <3>1. end < DATA_BASE /\ DATA_BASE \in Nat
      BY <1>1, ImageFacts DEF end
    <3>2. a \in Nat
      BY SpikeContract, WordFacts DEF Spike!Ram
    <3>3. ~ (a < end)
      BY <1>1, <2>5, <3>1, <3>2
    <3>4. Spike!Image[a] = 0
      BY <2>5, <3>3 DEF Spike!Image, end
    <3>5. QED BY <2>2, <3>4
  <2>6. QED BY <1>9, <2>2, <2>3, <2>4, <2>5
<1>11. CASE ~ (i > Len(s))
  <2>1. Spike!Retire(s[i].rd, s[i].value, machine.ram, machine.pc + 4)
    BY <1>6, <1>11
  <2>2. k + 1 <= Len(s) /\ k + 1 \in 1 .. Len(s)
    BY <1>1, <1>3, <1>8, <1>11
  <2>3. s[k + 1] \in SetupEntries /\ s[k + 1].rd # 0
    <3>1. s[k + 1] \in SetupEntries
      BY <1>7, <2>2
    <3>2. QED BY <3>1 DEF SetupEntries
  <2>4. /\ machine'.ram = Spike!Image /\ ~ machine'.trapped
        /\ machine'.steps = machine.steps + 1
        /\ machine'.regs = [machine.regs EXCEPT ![s[k + 1].rd] = s[k + 1].value]
    <3> DEFINE next == machine.pc + 4
               rd == s[k + 1].rd
               value == s[k + 1].value
    <3>1. Spike!Retire(rd, value, machine.ram, next)
      BY <1>8, <2>1
    <3> HIDE DEF next, rd, value
    <3>2. rd # 0
      BY <2>3 DEF rd
    <3>3. /\ machine'.ram = machine.ram /\ machine'.trapped = machine.trapped
          /\ machine'.steps = machine.steps + 1
          /\ machine'.regs = [machine.regs EXCEPT ![rd] = value]
      BY <3>1, <3>2, RetiredState
    <3>4. QED BY <1>4, <3>3 DEF rd, value
  <2>5. LoadedBy(s, k + 1, machine'.regs)
    <3>1. DOMAIN machine.regs = Registers
      BY DEF SpikeTypeOK, Machines, RegisterFiles
    <3>2. LoadedBy(s, k + 1, [machine.regs EXCEPT ![s[k + 1].rd] = s[k + 1].value])
      BY <1>3, <1>4, <1>7, <2>2, <3>1, NextLoad
    <3>3. QED BY <2>4, <3>2
  <2>6. machine'.steps - B = k + 1 /\ machine'.steps < SetupEnd /\ ~ (SetupEnd <= machine'.steps)
    BY <1>1, <1>3, <2>2, <2>4
  <2>7. QED BY <1>9, <2>4, <2>5, <2>6 DEF B, s
<1>12. QED BY <1>10, <1>11

(* The setup code in its first pass keeps the simulation.                  *)
LEMMA SetupSimulates ==
  ASSUME EmulatorInv, SpikeTypeOK, BudgetInv, SimInv, Agreeable, stage = "run",
         InFirstSetup(machine, log), machine.steps < SetupEnd, Spike!RunSetup
  PROVE  Simulates(machine', log')
<1> DEFINE initial == request.initial_int_regs
<1>1. /\ ~ machine.trapped /\ machine.ram = Spike!Image
      /\ LoadedBy(Spike!Setup, machine.steps - SPIKE_BOOT_INSTRUCTION_COUNT, machine.regs)
  BY DEF SimInv, Simulates
<1>2. /\ ExecutedOf(log') = {} /\ CommitsIn(log') = <<>>
      /\ ~ machine'.trapped /\ machine'.ram = Spike!Image
  BY <1>1, SetupLeaves
<1>3. request \in ISSRequest /\ SetupEnd \in Nat
  BY LayoutFacts DEF SpikeTypeOK
<1>4. CASE /\ machine'.steps < SetupEnd /\ ~ (SetupEnd <= machine'.steps)
           /\ LoadedBy(Spike!Setup, machine'.steps - SPIKE_BOOT_INSTRUCTION_COUNT, machine'.regs)
  BY <1>2, <1>4 DEF Simulates
<1>5. CASE /\ machine'.steps = SetupEnd /\ machine'.pc = PROGRAM_BASE
           /\ \A r \in Registers : ~ BootOnly(r) => machine'.regs[r] = initial[r]
           /\ \A a \in Spike!Ram : a >= DATA_BASE /\ a # DATA_BASE + 4 => machine'.ram[a] = 0
  <2>1. 0 \in 0 .. Len(trace)
    BY RegisterFacts
  <2>2. machine'.pc = PROGRAM_BASE + PcAfter(trace, 0)
    <3>1. PROGRAM_BASE + 0 = PROGRAM_BASE
      BY LayoutFacts, <1>3
    <3>2. QED BY <1>5, <3>1 DEF PcAfter
  <2>3. ASSUME NEW r \in Registers, ~ BootOnly(r)
        PROVE  machine'.regs[r] = RegisterAfter(initial, trace, 0, r)
    <3>1. Writers(trace, 0, r) = {}
      BY DEF Writers
    <3>2. initial[0] = 0
      BY <1>3 DEF ISSRequest, RegisterFiles
    <3>3. QED BY <1>5, <2>3, <3>1, <3>2 DEF RegisterAfter
  <2>4. \A a : MemoryAfter(trace, 0, a) = 0
    BY DEF MemoryAfter, Stores
  <2>5. FollowsTrace(machine', 0)
    BY <1>2, <1>5, <2>1, <2>2, <2>3, <2>4 DEF FollowsTrace
  <2>6. LogsTrace(log', 0)
    BY <1>2 DEF LogsTrace
  <2>7. machine'.steps - SetupEnd = 0 /\ ~ (machine'.steps < SetupEnd)
    BY <1>3, <1>5
  <2>8. ~ InFirstSetup(machine', log')
    BY <2>7 DEF InFirstSetup
  <2>9. QED BY <2>5, <2>6, <2>7, <2>8 DEF Simulates
<1>6. QED BY <1>1, <1>4, <1>5, SetupLeaves

(* An instruction, of the setup code or of the program.                    *)
LEMMA InstructionSimulates ==
  ASSUME EmulatorInv, RunInv, SpikeTypeOK, BudgetInv, SimInv, UNCHANGED emulator_vars,
         Spike!RunSetup \/ Spike!RunInstruction
  PROVE  SimInv'
<1> DEFINE j == machine.steps - SetupEnd
<1>1. machine.steps > 0 /\ machine.steps < limit /\ stage = "run"
  <2>1. CASE Spike!RunSetup
    BY <2>1, SetupComesLater DEF Spike!RunSetup, Spike!Running
  <2>2. CASE Spike!RunInstruction
    BY <2>2 DEF Spike!RunInstruction, Spike!Fetches, Spike!Running
  <2>3. QED BY <2>1, <2>2
<1>2. UNCHANGED <<request, stage>>
  BY DEF Spike!RunSetup, Spike!RunInstruction, Spike!Retire
<1>3. SUFFICES ASSUME Agreeable PROVE Simulates(machine', log')
  BY <1>1, <1>2, SimulatesOn
<1>4. CASE InFirstSetup(machine, log) /\ machine.steps < SetupEnd
  <2>1. Spike!InSetup
    BY <1>4, FirstSetupIsSetup
  <2>2. Spike!RunSetup
    BY <2>1 DEF Spike!RunInstruction, Spike!Fetches
  <2>3. QED BY <1>1, <1>3, <1>4, <2>2, SetupSimulates
<1>5. CASE /\ j \in 0 .. Len(trace) /\ SetupEnd <= machine.steps
           /\ FollowsTrace(machine, j) /\ LogsTrace(log, j)
  <2>1. /\ ~ Spike!InSetup
        /\ (j \in 0 .. Len(trace) - 1 /\ ~ Spike!Traps) \/ (j = Len(trace) /\ Spike!Traps)
    BY <1>1, <1>3, <1>5, AtCommit
  <2>2. Spike!RunInstruction /\ ~ Spike!Traps
    BY <2>1 DEF Spike!RunSetup, Spike!RunInstruction
  <2>3. j \in 0 .. Len(trace) - 1
    BY <2>1, <2>2
  <2> HIDE DEF j
  <2>4. /\ FollowsTrace(machine', j + 1) /\ LogsTrace(log', j + 1)
        /\ machine'.steps = machine.steps + 1
    BY <1>3, <1>5, <2>2, <2>3, InstructionFollows
  <2>5. machine.steps \in Nat /\ SetupEnd \in Nat
    BY LayoutFacts DEF SpikeTypeOK, Machines
  <2>6. machine'.steps - SetupEnd = j + 1 /\ ~ (machine'.steps < SetupEnd)
    BY <1>5, <2>4, <2>5 DEF j
  <2>7. ~ InFirstSetup(machine', log')
    BY <2>6 DEF InFirstSetup
  <2>8. QED BY <2>4, <2>6, <2>7 DEF Simulates
<1>6. QED BY <1>1, <1>3, <1>4, <1>5, WhereItIs

(* A trap comes behind the last commit.                                    *)
LEMMA TrapSimulates ==
  ASSUME EmulatorInv, RunInv, SpikeTypeOK, BudgetInv, SimInv, UNCHANGED emulator_vars, Spike!Trap
  PROVE  SimInv'
<1> DEFINE j == machine.steps - SetupEnd
<1>1. /\ machine.steps > 0 /\ machine.steps < limit /\ stage = "run" /\ ~ Spike!InSetup
      /\ Spike!Traps \/ machine.pc \notin Spike!Ram
      /\ UNCHANGED <<request, stage, log>>
  BY DEF Spike!Trap, Spike!Fetches, Spike!Running
<1>2. /\ machine'.pc = machine.pc /\ machine'.regs = machine.regs /\ machine'.ram = machine.ram
      /\ machine'.steps = machine.steps /\ machine'.trapped
  BY DEF Spike!Trap, SpikeTypeOK, Machines
<1>3. SUFFICES ASSUME Agreeable PROVE Simulates(machine', log')
  BY <1>1, SimulatesOn
<1>4. ~ InFirstSetup(machine, log)
  BY <1>1, FirstSetupIsSetup
<1>5. /\ j \in 0 .. Len(trace) /\ SetupEnd <= machine.steps
      /\ FollowsTrace(machine, j) /\ LogsTrace(log, j)
  BY <1>1, <1>3, <1>4, WhereItIs
<1>6. j = Len(trace)
  BY <1>1, <1>3, <1>5, AtCommit
<1>7. machine.steps \in Nat /\ SetupEnd \in Nat
  BY LayoutFacts DEF SpikeTypeOK, Machines
<1>8. ~ (machine'.steps < SetupEnd) /\ machine'.steps - SetupEnd = j
  BY <1>2, <1>5, <1>7
<1> HIDE DEF j
<1>9. FollowsTrace(machine', j) /\ LogsTrace(log', j)
  BY <1>1, <1>2, <1>5, <1>6 DEF FollowsTrace
<1>10. ~ InFirstSetup(machine', log')
  BY <1>8 DEF InFirstSetup
<1>11. QED BY <1>8, <1>9, <1>10 DEF Simulates

(* A line that is no commit of the program.                                *)
LEMMA OtherLineSimulates ==
  ASSUME SpikeTypeOK, SimInv, UNCHANGED emulator_vars, Spike!WritesOther
  PROVE  SimInv'
<1>1. PICK l \in OtherLines : log' = Append(log, l)
  BY DEF Spike!WritesOther
<1>2. stage = "run" /\ UNCHANGED <<request, stage, limit, machine, spike_result>>
        /\ log \in Seq(Lines) /\ l \in Lines
  BY SpikeAssumption DEF Spike!WritesOther, SpikeTypeOK
<1>3. ~ (Accepts(l, PROGRAM_BASE, Spike!program_end) /\ ~ Malformed(l))
  BY <1>2, SpikeAssumption DEF Accepts, Malformed
<1>4. ExecutedOf(log') = ExecutedOf(log) /\ CommitsIn(log') = CommitsIn(log)
  BY <1>1, <1>2, <1>3, AppendLine, CommitsAppend
<1>5. SUFFICES ASSUME Agreeable PROVE Simulates(machine', log')
  BY <1>2, SimulatesOn
<1>6. Simulates(machine, log)
  BY <1>2, <1>5 DEF SimInv
<1>7. QED BY <1>2, <1>4, <1>6 DEF Simulates, InFirstSetup, LogsTrace

(* Spike ends at the last commit of the trace.                             *)
LEMMA EndsAtLastCommit ==
  ASSUME EmulatorInv, SpikeTypeOK, BudgetInv, SimInv, Agreeable, stage = "parse"
  PROVE  LogsTrace(log, Len(trace))
<1> DEFINE j == machine.steps - SetupEnd
           n == Len(trace)
<1>1. /\ limit = SetupEnd + request.execution_limit
      /\ machine.steps = limit \/ machine.trapped
      /\ machine.steps \in Nat /\ SetupEnd \in Nat /\ request.execution_limit \in Nat
  BY LayoutFacts DEF BudgetInv, SpikeTypeOK, Machines
<1>2. Simulates(machine, log)
  BY DEF SimInv
<1>3. SetupEnd <= machine.steps
  <2> SUFFICES ASSUME machine.steps < SetupEnd PROVE FALSE
    BY <1>1
  <2>1. ~ machine.trapped
    BY <1>2 DEF Simulates
  <2>2. QED BY <1>1, <2>1
<1>4. FollowsTrace(machine, j) /\ LogsTrace(log, j)
  BY <1>2, <1>3 DEF Simulates
<1>5. j \in 0 .. n /\ (machine.trapped => j = n)
  BY <1>4 DEF FollowsTrace
<1>6. n \in Nat /\ n <= request.execution_limit
  BY RegisterFacts DEF EmulatorInv, TypeOK
<1> HIDE DEF n
<1>7. j = n
  <2>1. ASSUME machine.steps = limit PROVE j = request.execution_limit
    BY <1>1, <2>1
  <2> HIDE DEF j
  <2>2. QED BY <1>1, <1>5, <1>6, <2>1
<1>8. QED BY <1>4, <1>7 DEF n

(* The parser returns the commits of the program.                          *)
LEMMA ParsedIs ==
  ASSUME log \in Seq(Lines), NEW expected,
         ~ parse_log(log, PROGRAM_BASE, Spike!program_end, expected).error
  PROVE  parse_log(log, PROGRAM_BASE, Spike!program_end, expected).commits
           = [i \in DOMAIN CommitsIn(log) |-> CommitOf(CommitsIn(log)[i])]
<1> DEFINE parsed == parse_log(log, PROGRAM_BASE, Spike!program_end, expected)
           accepted == Selected(log, InsideOf(log))
<1>1. \A i \in DOMAIN log : Accepts(log[i], PROGRAM_BASE, Spike!program_end) => ~ Malformed(log[i])
  BY ParsedLog
<1>2. InsideOf(log) = ExecutedOf(log)
  BY <1>1 DEF InsideOf, ExecutedOf
<1>3. parsed = IF accepted = <<>> \/ \E i \in DOMAIN accepted : Malformed(accepted[i]) THEN Error
               ELSE Parsed([i \in DOMAIN accepted |-> CommitOf(accepted[i])])
  BY DEF parse_log, InsideOf
<1>4. accepted = CommitsIn(log)
  BY <1>2 DEF CommitsIn
<1> HIDE DEF accepted
<1>5. parsed.commits = [i \in DOMAIN accepted |-> CommitOf(accepted[i])]
  <2> HIDE DEF parsed
  <2>1. Error.error = TRUE
    BY DEF Error
  <2>2. ~ parsed.error
    BY DEF parsed
  <2>3. QED BY <1>3, <2>1, <2>2 DEF Parsed
<1>6. QED BY <1>4, <1>5

(* A commit of Spike's, made relative to the program, is the emulator's.   *)
LEMMA NormalizedSpikeCommit ==
  ASSUME NEW c \in ISSCommit
  PROVE  /\ normalize_spike_commit(SpikeCommit(c)) = c
         /\ SpikeCommit(c).pc = PROGRAM_BASE + c.pc
         /\ SpikeCommit(c).rd_valid = c.rd_valid
         /\ SpikeCommit(c).rd = c.rd /\ SpikeCommit(c).value = c.value
<1> DEFINE s == SpikeCommit(c)
<1>1. c \in [pc : Word, instruction : Word, rd_valid : BOOLEAN,
             rd : Registers \cup {None}, value : Word \cup {None}]
  BY DEF ISSCommit
<1>2. s = [pc |-> PROGRAM_BASE + c.pc, instruction |-> c.instruction,
           rd_valid |-> c.rd_valid, rd |-> c.rd, value |-> c.value]
  BY <1>1 DEF SpikeCommit
<1>3. normalize_spike_pc(PROGRAM_BASE + c.pc) = c.pc
  <2>1. PROGRAM_BASE \in Int /\ c.pc \in Word /\ c.pc \in Int
    BY <1>1, WordFacts, BaseAssumption
  <2>2. PROGRAM_BASE + c.pc - PROGRAM_BASE = c.pc
    BY <2>1
  <2>3. QED BY <2>1, <2>2, WordFacts DEF normalize_spike_pc
<1> HIDE DEF s
<1>4. normalize_spike_commit(s) = [pc |-> normalize_spike_pc(PROGRAM_BASE + c.pc),
           instruction |-> c.instruction,
           rd_valid |-> c.rd_valid, rd |-> c.rd, value |-> c.value]
  BY <1>2 DEF normalize_spike_commit
<1>5. c = [pc |-> c.pc, instruction |-> c.instruction,
           rd_valid |-> c.rd_valid, rd |-> c.rd, value |-> c.value]
  BY <1>1
<1>6. QED BY <1>2, <1>3, <1>4, <1>5 DEF s

(* So is the trace, and the registers computed from it are the same.       *)
LEMMA NormalizedSpikeTrace ==
  ASSUME NEW u \in Seq(ISSCommit), NEW t \in Seq(ISSCommit), Len(t) = Len(u),
         \A i \in 1 .. Len(u) : t[i] = SpikeCommit(u[i])
  PROVE  /\ normalize_spike_trace(t) = u
         /\ \A initial : RegistersAfter(initial, t) = RegistersAfter(initial, u)
<1> DEFINE n == Len(u)
<1>1. /\ n \in Nat /\ DOMAIN u = 1 .. n /\ DOMAIN t = 1 .. n
      /\ \A i \in 1 .. n : u[i] \in ISSCommit
      /\ u = [i \in 1 .. n |-> u[i]]
  OBVIOUS
<1>2. \A i \in 1 .. n : /\ normalize_spike_commit(t[i]) = u[i]
                        /\ t[i].rd_valid = u[i].rd_valid
                        /\ t[i].rd = u[i].rd /\ t[i].value = u[i].value
  BY <1>1, NormalizedSpikeCommit
<1> HIDE DEF n
<1>3. normalize_spike_trace(t) = u
  BY <1>1, <1>2 DEF normalize_spike_trace
<1>4. \A r : Writers(t, n, r) = Writers(u, n, r)
  BY <1>2 DEF Writers
<1>5. ASSUME NEW initial, NEW r
      PROVE  RegisterAfter(initial, t, n, r) = RegisterAfter(initial, u, n, r)
  <2>1. CASE r = 0 \/ Writers(u, n, r) = {}
    BY <1>4, <2>1 DEF RegisterAfter
  <2>2. CASE r # 0 /\ Writers(u, n, r) # {}
    <3> DEFINE W == Writers(u, n, r)
    <3>1. W \in SUBSET (1 .. n) /\ W # {}
      BY <2>2 DEF Writers
    <3> HIDE DEF W
    <3>2. Latest(W) \in 1 .. n
      BY <1>1, <3>1, LatestExists
    <3>3. t[Latest(W)].value = u[Latest(W)].value
      BY <1>2, <3>2
    <3>4. QED BY <1>4, <2>2, <3>3 DEF RegisterAfter, W
  <2>3. QED BY <2>1, <2>2
<1>6. QED BY <1>3, <1>5 DEF RegistersAfter, n

(* The result recovered from the log is the emulator's.                    *)
LEMMA ParseSimulates ==
  ASSUME EmulatorInv, RunInv, SpikeTypeOK, BudgetInv, SimInv, UNCHANGED emulator_vars, Spike!Parse
  PROVE  SimInv'
<1> DEFINE expected == load_expected_trace(Spike!ExpectedTrace)
           parsed == parse_log(log, PROGRAM_BASE, Spike!program_end, expected)
           t == parsed.commits
           s == CommitsIn(log)
           n == Len(trace)
           initial == request.initial_int_regs
           final == Spike!_derive_final_pc(t)
<1>1. spike_result' = IF expected.error \/ parsed.error THEN Failure
                      ELSE Passed(final, RegistersAfter(initial, t), t)
  BY SpikeParsers, SpikeContract, SpikeInstructions, Zenon DEF Spike!Parse
<1>2. stage = "parse" /\ stage' = "done" /\ UNCHANGED <<request, limit, machine, log>>
  BY DEF Spike!Parse
<1>3. Agreeable' = Agreeable /\ UNCHANGED <<result, trace>>
  BY <1>2, SameTrace DEF emulator_vars, state
<1>4. SUFFICES ASSUME Agreeable, spike_result'.status = "PASS"
               PROVE  result = normalize_spike_result(spike_result')
  BY <1>2, <1>3 DEF SimInv, normalize_spike_result, normalize_spike_trace, normalize_spike_commit,
                    normalize_spike_pc
<1>5. log \in Seq(Lines) /\ request \in ISSRequest /\ trace \in Seq(ISSCommit) /\ n \in Nat
  BY RegisterFacts DEF SpikeTypeOK
<1>6. ~ parsed.error /\ spike_result' = Passed(final, RegistersAfter(initial, t), t)
  <2> HIDE DEF parsed, expected
  <2>1. Failure.status # "PASS"
    BY DEF Failure
  <2>2. QED BY <1>1, <1>4, <2>1
<1>7. t \in Seq(ISSCommit) /\ t = [i \in DOMAIN s |-> CommitOf(s[i])]
  <2> HIDE DEF expected
  <2>1. t \in Seq(ISSCommit)
    BY <1>5, <1>6, ParsedLog
  <2>2. t = [i \in DOMAIN s |-> CommitOf(s[i])]
    BY <1>5, <1>6, ParsedIs
  <2>3. QED BY <2>1, <2>2
<1>8. LogsTrace(log, n)
  BY <1>2, <1>4, EndsAtLastCommit
<1>9. Len(s) = n /\ s \in Seq(Lines) /\ \A i \in 1 .. n : CommitOf(s[i]) = SpikeCommit(trace[i])
  BY <1>5, <1>8, SelectedFacts DEF LogsTrace, CommitsIn
<1>10. n > 0 /\ result.status = "PASS" /\ n \in 1 .. n /\ phase = "done"
       /\ ~ TakesBranch(trace, n)
  BY <1>4, <1>5 DEF Agreeable, Comparable, EndsInTakenBranch
<1>11. CommitFacts(n)
  BY <1>4, <1>10, AgreeableCommits
<1>12. /\ pc = PcAfter(trace, n) /\ \A r \in Registers : regs[r] = RegisterAfter(initial, trace, n, r)
       /\ regs \in RegisterFiles
  BY DEF EmulatorInv, StateFollowsTrace, TypeOK
<1> HIDE DEF parsed, s, n, expected
<1>13. Len(t) = n /\ \A i \in 1 .. n : t[i] = SpikeCommit(trace[i])
  <2>1. DOMAIN s = 1 .. n
    BY <1>9
  <2> HIDE DEF t
  <2>2. DOMAIN t = 1 .. n /\ Len(t) \in Nat /\ DOMAIN t = 1 .. Len(t)
    BY <1>7, <2>1
  <2>3. n \in Nat
    BY <1>5
  <2>4. Len(t) = n
    BY <2>2, <2>3
  <2>5. QED BY <1>7, <1>9, <2>1, <2>4
<1> HIDE DEF t
<1>14. normalize_spike_trace(t) = trace /\ RegistersAfter(initial, t) = RegistersAfter(initial, trace)
  <2> HIDE DEF initial
  <2>1. QED BY <1>5, <1>7, <1>13, NormalizedSpikeTrace DEF n
<1>15. RegistersAfter(initial, trace) = regs
  <2>1. regs = [r \in Registers |-> regs[r]]
    BY <1>12 DEF RegisterFiles
  <2>2. QED BY <1>12, <2>1 DEF RegistersAfter, n
<1>16. final \in Nat /\ normalize_spike_pc(final) = pc
  <2> DEFINE c == trace[n]
  <2>1. /\ c \in ISSCommit /\ c.pc \in Nat /\ PcAfter(trace, n) = c.pc + 4
        /\ PcAfter(trace, n) <= 4 * request.program_word_count
    <3>1. n # 0
      BY <1>10
    <3>2. PcAfter(trace, n) = c.pc + 4
      BY <1>10, <3>1 DEF PcAfter
    <3>3. QED BY <1>11, <3>2 DEF CommitFacts
  <2>2. final = (PROGRAM_BASE + c.pc) + 4
    <3>1. t[Len(t)].pc = PROGRAM_BASE + c.pc
      BY <1>10, <1>13, <2>1, NormalizedSpikeCommit
    <3>2. QED BY <3>1 DEF Spike!_derive_final_pc
  <2> HIDE DEF c, final, n
  <2>3. /\ PROGRAM_BASE \in Nat /\ Modulus \in Nat
        /\ 4 * request.program_word_count < Modulus
    <3>1. /\ request.program_word_count \in 0 .. PROGRAM_WORD_CAPACITY
          /\ PROGRAM_WORD_CAPACITY \in Nat
          /\ 4 * PROGRAM_WORD_CAPACITY < Modulus
      BY <1>5, ContractAssumption DEF ISSRequest
    <3>2. QED BY <3>1, BaseAssumption, ContractAssumption DEF Word
  <2>4. final - PROGRAM_BASE = c.pc + 4 /\ final \in Nat
    BY <2>1, <2>2, <2>3
  <2>5. c.pc + 4 \in Word /\ c.pc + 4 = pc
    <3>1. c.pc + 4 \in Nat /\ c.pc + 4 <= Modulus - 1 /\ c.pc + 4 = pc
      <4>1. request.program_word_count \in Nat
        BY LayoutFacts, <1>5
      <4>2. QED BY <1>12, <2>1, <2>3, <4>1
    <3>2. QED BY <2>3, <3>1 DEF Word
  <2>6. QED BY <2>4, <2>5, WordFacts DEF normalize_spike_pc
<1>17. result = [status |-> "PASS", final_pc |-> pc, final_int_regs |-> regs,
                 executed_count |-> n, trace |-> trace]
  <2>1. result = Passed(pc, regs, trace)
    BY <1>10 DEF RunInv, Failure
  <2>2. QED BY <1>10, <2>1 DEF Passed, Failure, n
<1> HIDE DEF final, initial
<1>18. spike_result' = [status |-> "PASS", final_pc |-> final, final_int_regs |-> regs,
                        executed_count |-> n, trace |-> t]
  BY <1>4, <1>6, <1>13, <1>14, <1>15 DEF Passed, Failure
<1>19. normalize_spike_result(spike_result') =
         [status |-> "PASS", final_pc |-> pc, final_int_regs |-> regs,
          executed_count |-> n, trace |-> trace]
  <2>1. final # None
    BY <1>16 DEF None
  <2> DEFINE r == [status |-> "PASS", final_pc |-> final, final_int_regs |-> regs,
                   executed_count |-> n, trace |-> t]
  <2>2. normalize_spike_result(r) =
          [r EXCEPT !.final_pc = normalize_spike_pc(final), !.trace = normalize_spike_trace(t)]
    BY <2>1 DEF normalize_spike_result
  <2>3. QED BY <1>14, <1>16, <1>18, <2>2
<1>20. QED BY <1>17, <1>19

(* Every step of the Spike backend keeps the invariant,                    *)
LEMMA SimStep ==
  ASSUME EmulatorInv, RunInv, SpikeTypeOK, BudgetInv, SimInv, UNCHANGED emulator_vars,
         Spike!SpikeNext
  PROVE  SimInv'
<1>1. CASE Spike!Validate
  BY <1>1, SpikeContract DEF Spike!Validate, SimInv, BudgetInv, Failure
<1>2. CASE Spike!ToolFails
  BY <1>2, SpikeContract DEF Spike!ToolFails, SimInv, Failure
<1>3. CASE Spike!Build
  BY <1>3, BuildSimulates
<1>4. CASE Spike!Boot
  BY <1>4, BootSimulates
<1>5. CASE Spike!RunSetup \/ Spike!RunInstruction
  BY <1>5, InstructionSimulates
<1>6. CASE Spike!Trap
  BY <1>6, TrapSimulates
<1>7. CASE Spike!WritesOther
  BY <1>7, OtherLineSimulates
<1>8. CASE Spike!SpikeExits
  <2>1. stage = "run" /\ stage' = "parse" /\ UNCHANGED <<request, machine, log>>
    BY <1>8 DEF Spike!SpikeExits
  <2>2. Agreeable => Simulates(machine, log)
    BY <2>1 DEF SimInv
  <2>3. Agreeable => Simulates(machine', log')
    BY <2>1, <2>2
  <2>4. QED BY <2>1, <2>3, SimulatesOn
<1>9. CASE Spike!Parse
  BY <1>9, ParseSimulates
<1>10. QED BY <1>1, <1>2, <1>3, <1>4, <1>5, <1>6, <1>7, <1>8, <1>9 DEF Spike!SpikeNext

(* and what leaves both simulators alone does.                             *)
LEMMA SimStutter ==
  ASSUME SimInv, UNCHANGED <<request, emulator_vars, spike_vars>>
  PROVE  SimInv'
<1>1. UNCHANGED <<stage, machine, log, spike_result, result>>
  BY DEF spike_vars, emulator_vars
<1>2. Agreeable' = Agreeable /\ Simulates(machine, log)' = Simulates(machine, log)
  BY <1>1, SameTrace
<1>3. normalize_spike_result(spike_result)' = normalize_spike_result(spike_result)
  BY <1>1 DEF normalize_spike_result, normalize_spike_trace, normalize_spike_commit, normalize_spike_pc
<1>4. QED BY <1>1, <1>2, <1>3 DEF SimInv

(* So does every step of the composition.                                  *)
LEMMA AgreementStep ==
  ASSUME ComparisonInv, BudgetInv, RunInv, SimInv, ComparisonInv',
         [DifferentialNext]_differential_vars
  PROVE  RunInv' /\ SimInv'
<1>1. EmulatorInv /\ EmulatorInv' /\ SpikeTypeOK
  BY DEF ComparisonInv
<1>2. CASE RunEmulator
  <2>1. RunInv'
    BY <1>1, <1>2, RunInvStep DEF RunEmulator
  <2>2. phase # "done" /\ UNCHANGED spike_vars
    BY <1>2 DEF RunEmulator, Next, Validate, ExecuteAddi, ExecuteRType, ExecuteBeq, ExecuteLw,
                ExecuteSw, Fail, Finish, Executes, Looping, Continue
  <2>3. stage' = "validate"
    BY <2>2 DEF ComparisonInv, spike_vars
  <2>4. QED BY <2>1, <2>3 DEF SimInv
<1>3. ASSUME UNCHANGED <<request, emulator_vars>>
      PROVE  RunInv'
  <2>1. UNCHANGED <<request, phase, regs, pc, trace, result>>
    BY <1>3 DEF emulator_vars, state
  <2>2. AlignedData(trace)'
    BY <2>1, SameAligned DEF RunInv
  <2>3. QED BY <2>1, <2>2 DEF RunInv, InScope
<1>4. CASE RunSpike
  <2>1. Spike!SpikeNext /\ UNCHANGED <<request, emulator_vars>>
    BY <1>4 DEF RunSpike, Spike!SpikeNext, Spike!Validate, Spike!ToolFails, Spike!Build,
                Spike!Boot, Spike!RunSetup, Spike!RunInstruction, Spike!Trap,
                Spike!WritesOther, Spike!SpikeExits, Spike!Parse, Spike!Retire
  <2>2. QED BY <1>1, <1>3, <2>1, SimStep
<1>5. CASE ~ RunSpike /\ ~ RunEmulator
  <2>1. UNCHANGED <<request, spike_vars>>
    BY <1>5, SpikeOnly
  <2>2. UNCHANGED emulator_vars
    BY <1>5 DEF DifferentialNext, Compare, RunSmokeTest, RunDut, differential_vars
  <2>3. QED BY <1>3, <2>1, <2>2, SimStutter
<1>6. QED BY <1>2, <1>4, <1>5

(* On the requests on which the two machines are the same the Spike        *)
(* backend, from a log in which boot code, setup code and other lines      *)
(* stand, returns the emulator's very result: its trace, its registers and *)
(* its final pc.                                                           *)
THEOREM BackendsReallyAgree == DifferentialSpec => []BackendsAgree
<1>1. DifferentialInit => BudgetInv /\ RunInv /\ SimInv
  BY SpikeContract, RunInvInit
     DEF DifferentialInit, Spike!Called, BudgetInv, BudgetIsExact, SimInv, Failure
<1>2. /\ ComparisonInv /\ ComparisonInv' /\ BudgetInv /\ RunInv /\ SimInv
      /\ [DifferentialNext]_differential_vars
      => BudgetInv' /\ RunInv' /\ SimInv'
  <2> SUFFICES ASSUME ComparisonInv, ComparisonInv', BudgetInv, RunInv, SimInv,
                      [DifferentialNext]_differential_vars
               PROVE  BudgetInv' /\ RunInv' /\ SimInv'
    OBVIOUS
  <2>1. BudgetInv'
    <3>1. CASE RunSpike
      BY <3>1, BudgetStep DEF RunSpike, ComparisonInv
    <3>2. CASE ~ RunSpike
      BY <3>2, SpikeOnly, BudgetStutter
    <3>3. QED BY <3>1, <3>2
  <2>2. RunInv' /\ SimInv'
    BY AgreementStep
  <2>3. QED BY <2>1, <2>2
<1>3. ComparisonInv /\ SimInv => BackendsAgree
  <2> SUFFICES ASSUME ComparisonInv, SimInv, verdict.done, Comparable, NoToolFailure,
                      ~ EndsInTakenBranch
               PROVE  passed(verdict.mismatches)
    BY DEF BackendsAgree
  <2>1. stage = "done" /\ phase = "done" /\ VerdictIsExact
    BY DEF ComparisonInv
  <2>2. result = normalize_spike_result(spike_result)
    BY <2>1 DEF SimInv, Agreeable, NoToolFailure
  <2>3. QED BY <2>1, <2>2 DEF VerdictIsExact
<1>4. QED BY <1>1, <1>2, <1>3, ComparisonInvariant, PTL DEF DifferentialSpec

-----------------------------------------------------------------------------
(* What the trace of Spike says by itself.                                 *)

(* The instructions on which the core and Spike are the same machine.      *)
CommonKinds == RTypes \cup Cpu!Branches \cup {"lw", "sw"}

(* Whether a branch of the control unit is taken.                          *)
BranchTaken(kind, x, y) ==
  \/ kind = "beq" /\ x = y
  \/ kind = "bne" /\ x # y
  \/ kind = "blt" /\ _signed32(x) < _signed32(y)
  \/ kind = "bge" /\ _signed32(x) >= _signed32(y)

(* The pc after n commits of a trace t of these instructions.              *)
NextPc(t, n) ==
  IF n = 0 THEN 0
  ELSE LET i == Instruction(t, n)
       IN  IF BranchTaken(i.kind, RegisterBefore(t, n, i.rs1), RegisterBefore(t, n, i.rs2))
           THEN _u32(t[n].pc + i.imm) ELSE t[n].pc + 4

(* Whether the commit of an instruction names no register.                 *)
WritesNothing(i) == i.kind \in Cpu!Branches \cup {"sw"} \/ i.rd = 0

(* Commit j of t is what the program and the commits before it say.        *)
Tells(t, j) ==
  LET c == t[j]
      i == Instruction(t, j)
  IN  /\ c.pc = NextPc(t, j - 1) /\ c.pc \div 4 < request.program_word_count
      /\ c.instruction = request.program[c.pc \div 4]
      /\ c = IF WritesNothing(i) THEN CommitOnly(c.pc, c.instruction)
             ELSE Commit(c.pc, c.instruction, i.rd,
                         Written(i, RegisterBefore(t, j, i.rs1), RegisterBefore(t, j, i.rs2),
                                 MemoryAfter(t, j - 1, DataAddress(t, j))))

(* Every commit of a trace is the one the program makes.                   *)
Replays(t) == t \in Seq(ISSCommit) /\ \A j \in DOMAIN t : Tells(t, j)

(* The trace stays in what the two machines have in common.                *)
InCommon(t) ==
  \A j \in DOMAIN t : /\ Instruction(t, j).kind \in CommonKinds
                      /\ DataApart(t, j) /\ ~ ReadsBootRegister(t, j)

(* The lines of the program stand together in the log.                     *)
Contiguous(lines) == \A i, k \in InsideOf(lines) : i .. k \subseteq InsideOf(lines)

(* The trace that a log tells of, relative to the program.                 *)
OwnTrace(lines) ==
  [i \in DOMAIN CommitsIn(lines) |-> normalize_spike_commit(CommitOf(CommitsIn(lines)[i]))]

(* Spike's machine m is where this trace leaves it.                        *)
IsAt(m, t) ==
  /\ normalize_spike_pc(m.pc) = NextPc(t, Len(t))
  /\ \A r \in Registers : ~ BootOnly(r) =>
       m.regs[r] = RegisterAfter(request.initial_int_regs, t, Len(t), r)
  /\ \A a \in Spike!Ram : a < Spike!program_end => m.ram[a] = Spike!Image[a]
  /\ \A a \in Spike!Ram : a >= DATA_BASE /\ a # DATA_BASE + 4 =>
       m.ram[a] = MemoryAfter(t, Len(t), a)

-----------------------------------------------------------------------------
(* A pc inside of the program, relative to it.                             *)
LEMMA PcInProgram ==
  ASSUME request \in ISSRequest, NEW a \in Nat, PROGRAM_BASE <= a, a < Spike!program_end
  PROVE  /\ normalize_spike_pc(a) = a - PROGRAM_BASE /\ a - PROGRAM_BASE \in Word
         /\ (a - PROGRAM_BASE) \div 4 < request.program_word_count
         /\ (a - PROGRAM_BASE) \div 4 \in Nat
<1> DEFINE n == request.program_word_count
           end == Spike!program_end
           p == a - PROGRAM_BASE
<1>1. /\ n \in Nat /\ PROGRAM_BASE \in Nat /\ end \in Nat /\ end = PROGRAM_BASE + 4 * n
      /\ end < Modulus /\ Modulus \in Nat
  BY ImageFacts
<1> HIDE DEF n
<1>2. p \in Nat /\ p < 4 * n /\ p <= Modulus - 1
  BY <1>1
<1>3. p \in Word
  BY <1>1, <1>2 DEF Word
<1>4. normalize_spike_pc(a) = p
  BY <1>3, WordFacts DEF normalize_spike_pc
<1> HIDE DEF p
<1>5. p \div 4 < n /\ p \div 4 \in Nat
  BY <1>1, <1>2
<1>6. QED BY <1>3, <1>4, <1>5 DEF p, n

(* A pc is relative to the program before as after it is cut to a word.    *)
LEMMA TargetNormalized ==
  ASSUME NEW a \in Int
  PROVE  normalize_spike_pc(a % Modulus) = _u32(a - PROGRAM_BASE)
<1> DEFINE q == a \div Modulus
           w == a % Modulus
           b == w - PROGRAM_BASE
<1>1. Modulus \in Nat \ {0} /\ PROGRAM_BASE \in Int
  BY ContractAssumption, BaseAssumption, WordFacts
<1>2. q \in Int /\ w \in Int /\ a = Modulus * q + w
  BY <1>1
<1> HIDE DEF q, w
<1>3. b \in Int /\ a - PROGRAM_BASE = b + Modulus * q
  BY <1>1, <1>2
<1> HIDE DEF b
<1>4. (b + Modulus * q) % Modulus = b % Modulus
  BY <1>1, <1>2, <1>3, DivisionOfSum
<1>5. QED BY <1>3, <1>4 DEF normalize_spike_pc, _u32, b, w

(* The pc of a line of the program is a multiple of four, relative too.    *)
LEMMA CommitTyped ==
  ASSUME request \in ISSRequest, NEW l \in Lines, ~ Malformed(l),
         Accepts(l, PROGRAM_BASE, Spike!program_end)
  PROVE  /\ normalize_spike_commit(CommitOf(l)) \in ISSCommit
         /\ normalize_spike_commit(CommitOf(l)) =
              [CommitOf(l) EXCEPT !.pc = l.pc - PROGRAM_BASE]
<1> DEFINE c == normalize_spike_commit(CommitOf(l))
           p == l.pc - PROGRAM_BASE
<1>1. /\ l.pc \in Nat /\ l.pc \in Word /\ l.instruction \in Word /\ l.pc % 4 = 0
      /\ l.value \in Word \cup {None} /\ (l.rd = None <=> l.value = None)
      /\ l.rd = None \/ l.rd \in Registers
      /\ PROGRAM_BASE <= l.pc /\ l.pc < Spike!program_end
  BY WordFacts DEF Lines, Malformed, Accepts
<1>2. normalize_spike_pc(l.pc) = p /\ p \in Word
  BY <1>1, PcInProgram
<1>3. p % 4 = 0
  <2>1. PROGRAM_BASE \in Nat /\ PROGRAM_BASE % 4 = 0
    BY BaseAssumption, WordFacts
  <2>2. QED BY <1>1, <2>1
<1> HIDE DEF p
<1>4. c = [pc |-> p, instruction |-> l.instruction, rd_valid |-> l.rd # None,
           rd |-> l.rd, value |-> l.value]
  BY <1>2 DEF CommitOf, normalize_spike_commit
<1>5. c = [CommitOf(l) EXCEPT !.pc = p]
  BY <1>4 DEF CommitOf
<1> HIDE DEF c
<1>6. c \in ISSCommit
  BY <1>1, <1>2, <1>3, <1>4 DEF ISSCommit
<1>7. QED BY <1>5, <1>6 DEF c, p

-----------------------------------------------------------------------------
(* A log one line longer.                                                  *)
LEMMA OwnTraceAppend ==
  ASSUME NEW lines \in Seq(Lines), NEW l \in Lines
  PROVE  /\ OwnTrace(lines) \in Seq({normalize_spike_commit(CommitOf(e)) : e \in Lines})
         /\ Len(OwnTrace(lines)) = Len(CommitsIn(lines))
         /\ OwnTrace(Append(lines, l)) =
              IF Accepts(l, PROGRAM_BASE, Spike!program_end) /\ ~ Malformed(l)
              THEN Append(OwnTrace(lines), normalize_spike_commit(CommitOf(l)))
              ELSE OwnTrace(lines)
<1> DEFINE s == CommitsIn(lines)
           u == CommitsIn(Append(lines, l))
           N(e) == normalize_spike_commit(CommitOf(e))
           counted == Accepts(l, PROGRAM_BASE, Spike!program_end) /\ ~ Malformed(l)
<1>1. s \in Seq(Lines)
  BY SelectedFacts DEF CommitsIn
<1>2. u = IF counted THEN Append(s, l) ELSE s
  BY CommitsAppend
<1>3. OwnTrace(lines) = [i \in DOMAIN s |-> N(s[i])]
        /\ OwnTrace(Append(lines, l)) = [i \in DOMAIN u |-> N(u[i])]
  BY DEF OwnTrace
<1> DEFINE C == {N(e) : e \in Lines}
<1> HIDE DEF s, u, counted
<1>4. N(l) \in C /\ \A e \in Lines : N(e) \in C
  OBVIOUS
<1> HIDE DEF N, C
<1> DEFINE t == [i \in DOMAIN s |-> N(s[i])]
           v == [i \in DOMAIN u |-> N(u[i])]
<1>5. t \in Seq(C) /\ Len(t) = Len(s) /\ Len(s) \in Nat /\ DOMAIN s = 1 .. Len(s)
  <2>1. \A i \in 1 .. Len(s) : s[i] \in Lines
    BY <1>1
  <2>2. QED BY <1>1, <1>4, <2>1
<1>6. ASSUME counted
      PROVE  v = Append(t, N(l))
  <2>1. u = Append(s, l)
    BY <1>2, <1>6
  <2>2. DOMAIN u = 1 .. Len(s) + 1 /\ u[Len(s) + 1] = l /\ \A i \in 1 .. Len(s) : u[i] = s[i]
    BY <1>1, <2>1
  <2> DEFINE w == Append(t, N(l))
  <2>3. /\ w \in Seq(C) /\ Len(w) = Len(s) + 1 /\ w[Len(s) + 1] = N(l)
        /\ \A i \in 1 .. Len(s) : w[i] = t[i]
    BY <1>4, <1>5
  <2>4. DOMAIN w = 1 .. Len(s) + 1 /\ w = [i \in 1 .. Len(s) + 1 |-> w[i]]
    <3> HIDE DEF w
    <3>1. QED BY <1>5, <2>3
  <2>5. \A i \in 1 .. Len(s) : t[i] = N(s[i])
    BY <1>5
  <2> HIDE DEF w, t
  <2>6. \A i \in 1 .. Len(s) + 1 : w[i] = N(u[i])
    <3> TAKE i \in 1 .. Len(s) + 1
    <3>1. i \in 1 .. Len(s) \/ i = Len(s) + 1
      BY <1>5
    <3>2. QED BY <2>2, <2>3, <2>5, <3>1
  <2>7. v = w
    BY <2>2, <2>4, <2>6
  <2>8. QED BY <2>7 DEF w
<1>7. ~ counted => v = t
  BY <1>2
<1>8. QED BY <1>3, <1>5, <1>6, <1>7 DEF N, C, counted, s

(* The trace of one commit more stays in what is common only if it did.    *)
LEMMA CommonBefore ==
  ASSUME NEW S, NEW t \in Seq(S), NEW c \in S, InCommon(Append(t, c))
  PROVE  InCommon(t)
<1> DEFINE u == Append(t, c)
<1>1. Len(t) \in Nat /\ DOMAIN t = 1 .. Len(t) /\ DOMAIN u = 1 .. Len(t) + 1 /\ SameTo(u, t, Len(t))
  BY AppendIsSame
<1> HIDE DEF u
<1>2. SUFFICES ASSUME NEW j \in 1 .. Len(t)
               PROVE  /\ Instruction(t, j).kind \in CommonKinds
                      /\ DataApart(t, j) /\ ~ ReadsBootRegister(t, j)
  BY <1>1 DEF InCommon
<1>3. Instruction(u, j) = Instruction(t, j) /\ DataAddress(u, j) = DataAddress(t, j)
  BY <1>1, SameBefore
<1>4. /\ Instruction(u, j).kind \in CommonKinds
      /\ DataApart(u, j) /\ ~ ReadsBootRegister(u, j)
  BY <1>1 DEF InCommon, u
<1>5. QED BY <1>3, <1>4 DEF DataApart, ReadsBootRegister

(* Traces with the same commits leave the same pc.                         *)
LEMMA SameNextPc ==
  ASSUME NEW t, NEW u, NEW n \in Nat, SameTo(t, u, n), NEW k \in 0 .. n
  PROVE  NextPc(t, k) = NextPc(u, k)
<1>1. CASE k = 0
  BY <1>1 DEF NextPc
<1>2. CASE k \in 1 .. n
  <2>1. /\ t[k] = u[k] /\ Instruction(t, k) = Instruction(u, k)
        /\ \A r : RegisterBefore(t, k, r) = RegisterBefore(u, k, r)
    BY <1>2, SameBefore
  <2>2. k # 0
    BY <1>2
  <2>3. QED BY <2>1, <2>2 DEF NextPc
<1>3. QED BY <1>1, <1>2

(* The commits before the last say what they said.                         *)
LEMMA ReplaysOn ==
  ASSUME NEW t, Replays(t), NEW c \in ISSCommit, Tells(Append(t, c), Len(t) + 1)
  PROVE  Replays(Append(t, c))
<1> DEFINE u == Append(t, c)
           n == Len(t)
<1>1. t \in Seq(ISSCommit) /\ \A j \in DOMAIN t : Tells(t, j)
  BY DEF Replays
<1>2. /\ n \in Nat /\ DOMAIN t = 1 .. n /\ u \in Seq(ISSCommit) /\ DOMAIN u = 1 .. n + 1
      /\ SameTo(u, t, n)
  BY <1>1, AppendIsSame
<1> HIDE DEF u, n
<1>3. SUFFICES ASSUME NEW j \in 1 .. n + 1 PROVE Tells(u, j)
  BY <1>2 DEF Replays, u
<1>4. CASE j = n + 1
  BY <1>4 DEF u, n
<1>5. CASE j \in 1 .. n
  <2>1. /\ u[j] = t[j] /\ Instruction(u, j) = Instruction(t, j)
        /\ \A r : RegisterBefore(u, j, r) = RegisterBefore(t, j, r)
        /\ DataAddress(u, j) = DataAddress(t, j)
    BY <1>2, <1>5, SameBefore
  <2>2. j - 1 \in 0 .. n
    BY <1>2, <1>5
  <2>3. MemoryAfter(u, j - 1, DataAddress(u, j)) = MemoryAfter(t, j - 1, DataAddress(t, j))
    BY <1>2, <2>1, <2>2, SameMemory
  <2>4. NextPc(u, j - 1) = NextPc(t, j - 1)
    BY <1>2, <2>2, SameNextPc
  <2>5. Tells(t, j)
    BY <1>1, <1>2, <1>5
  <2>6. QED BY <2>1, <2>3, <2>4, <2>5 DEF Tells
<1>6. QED BY <1>2, <1>4, <1>5

(* The next commit of a trace: what it says when it is appended.           *)
LEMMA AppendTells ==
  ASSUME NEW t \in Seq(ISSCommit), NEW c \in ISSCommit,
         LET n == Len(t)
             i == Decode[c.instruction]
             x == RegisterAfter(request.initial_int_regs, t, n, i.rs1)
             y == RegisterAfter(request.initial_int_regs, t, n, i.rs2)
         IN  /\ c.pc = NextPc(t, n) /\ c.pc \div 4 < request.program_word_count
             /\ c.instruction = request.program[c.pc \div 4]
             /\ c = IF WritesNothing(i) THEN CommitOnly(c.pc, c.instruction)
                    ELSE Commit(c.pc, c.instruction, i.rd,
                                Written(i, x, y, MemoryAfter(t, n, _u32(x + i.imm))))
  PROVE  /\ Tells(Append(t, c), Len(t) + 1)
         /\ DataAddress(Append(t, c), Len(t) + 1) =
              _u32(RegisterAfter(request.initial_int_regs, t, Len(t), Decode[c.instruction].rs1)
                     + Decode[c.instruction].imm)
         /\ NextPc(Append(t, c), Len(t) + 1) =
              LET i == Decode[c.instruction]
                  x == RegisterAfter(request.initial_int_regs, t, Len(t), i.rs1)
                  y == RegisterAfter(request.initial_int_regs, t, Len(t), i.rs2)
              IN  IF BranchTaken(i.kind, x, y) THEN _u32(c.pc + i.imm) ELSE c.pc + 4
<1> DEFINE u == Append(t, c)
           n == Len(t)
           i == Decode[c.instruction]
           initial == request.initial_int_regs
           x == RegisterAfter(initial, t, n, i.rs1)
           y == RegisterAfter(initial, t, n, i.rs2)
           b == _u32(x + i.imm)
<1>1. n \in Nat /\ u[n + 1] = c /\ SameTo(u, t, n) /\ (n + 1) - 1 = n /\ n \in 0 .. n /\ n + 1 # 0
  BY AppendIsSame
<1>2. /\ Instruction(u, n + 1) = i
      /\ \A r : RegisterBefore(u, n + 1, r) = RegisterAfter(initial, t, n, r)
  BY AppendBefore
<1> HIDE DEF u, n
<1>3. MemoryAfter(u, n, b) = MemoryAfter(t, n, b) /\ NextPc(u, n) = NextPc(t, n)
  BY <1>1, SameMemory, SameNextPc
<1>4. /\ c.pc = NextPc(t, n) /\ c.pc \div 4 < request.program_word_count
      /\ c.instruction = request.program[c.pc \div 4]
      /\ c = IF WritesNothing(i) THEN CommitOnly(c.pc, c.instruction)
             ELSE Commit(c.pc, c.instruction, i.rd, Written(i, x, y, MemoryAfter(t, n, b)))
  BY DEF n
<1>5. /\ RegisterBefore(u, n + 1, i.rs1) = x /\ RegisterBefore(u, n + 1, i.rs2) = y
  BY <1>2
<1> HIDE DEF x, y, i, initial
<1>6. DataAddress(u, n + 1) = b
  BY <1>2, <1>5 DEF DataAddress
<1> HIDE DEF b
<1>7. Tells(u, n + 1)
  BY <1>1, <1>2, <1>3, <1>4, <1>5, <1>6, SMTT(30) DEF Tells
<1>8. NextPc(u, n + 1) = IF BranchTaken(i.kind, x, y) THEN _u32(c.pc + i.imm) ELSE c.pc + 4
  BY <1>1, <1>2, <1>5 DEF NextPc
<1>9. QED BY <1>6, <1>7, <1>8 DEF u, n, i, x, y, b, initial

(* The order of the machine on unsigned words is the order of signed       *)
(* numbers.                                                                *)
LEMMA LessThan ==
  ASSUME NEW x \in Word, NEW y \in Word
  PROVE  /\ Spike!IsaAlu("slt", x, y) = 1 <=> _signed32(x) < _signed32(y)
         /\ Spike!IsaAlu("slt", x, y) = 0 <=> _signed32(x) >= _signed32(y)
<1>1. Spike!IsaAlu("slt", x, y) = _u32(_r_type("slt", x, y))
  BY AluAgrees DEF RTypes
<1>2. _signed32(x) \in Int /\ _signed32(y) \in Int
  BY SignedFacts
<1>3. _r_type("slt", x, y) = IF _signed32(x) < _signed32(y) THEN 1 ELSE 0
  BY DEF _r_type
<1>4. _u32(1) = 1 /\ _u32(0) = 0
  <2>1. 1 \in Word /\ 0 \in Word
    BY ContractAssumption DEF Word
  <2>2. QED BY <2>1, WordFacts
<1>5. QED BY <1>1, <1>2, <1>3, <1>4

(* The branches of Spike are these.                                        *)
LEMMA SpikeBranches ==
  ASSUME Spike!Left \in Word, Spike!Right \in Word,
         Spike!Current.kind \notin {"jal", "bltu", "bgeu"}
  PROVE  Spike!Taken <=> BranchTaken(Spike!Current.kind, Spike!Left, Spike!Right)
BY LessThan DEF Spike!Taken, BranchTaken

(* What Spike makes of the instruction w at p, relative to the program,    *)
(* behind the trace t: what is written, and what becomes of memory and pc. *)
Effect(t, w, p, rd, value, ram, pc_) ==
  LET n == Len(t)
      i == Decode[w]
      x == RegisterAfter(request.initial_int_regs, t, n, i.rs1)
      y == RegisterAfter(request.initial_int_regs, t, n, i.rs2)
      b == _u32(x + i.imm)
  IN  /\ rd = IF WritesNothing(i) THEN 0 ELSE i.rd
      /\ rd # 0 => value = Written(i, x, y, MemoryAfter(t, n, b))
      /\ i.kind = "sw" => b \in Spike!Ram
      /\ ram = IF i.kind = "sw" THEN [machine.ram EXCEPT ![b] = y] ELSE machine.ram
      /\ normalize_spike_pc(pc_) = IF BranchTaken(i.kind, x, y) THEN _u32(p + i.imm) ELSE p + 4

(* The instruction in the image, and its operands.                         *)
LEMMA OwnFetch ==
  ASSUME SpikeTypeOK, Spike!Fetches, machine.pc < Spike!program_end,
         NEW t \in Seq(ISSCommit), IsAt(machine, t)
  PROVE  LET p == machine.pc - PROGRAM_BASE
         IN  /\ p = NextPc(t, Len(t)) /\ p \div 4 < request.program_word_count
             /\ machine.ram[machine.pc] = request.program[p \div 4]
             /\ machine.ram[machine.pc] \in Word
             /\ p \in Nat /\ normalize_spike_pc((machine.pc + 4) % Modulus) = p + 4
<1> DEFINE m == machine.pc
           p == m - PROGRAM_BASE
           end == Spike!program_end
<1>1. /\ m \in Spike!Ram /\ m \in Nat /\ m % 4 = 0 /\ machine.ram[m] \in Word
      /\ request \in ISSRequest /\ machine.pc \in Nat
  BY FetchedInRam DEF SpikeTypeOK
<1>2. PROGRAM_BASE <= m /\ m < end
  BY <1>1 DEF Spike!Ram
<1>3. /\ normalize_spike_pc(m) = p /\ p \in Word /\ p \div 4 < request.program_word_count
      /\ p \div 4 \in Nat
  <2> HIDE DEF m
  <2>1. QED BY <1>1, <1>2, PcInProgram
<1>4. machine.ram[m] = Spike!Image[m]
  BY <1>1, <1>2 DEF IsAt
<1>5. Spike!Image[m] = request.program[p \div 4]
  BY <1>1, <1>2 DEF Spike!Image
<1>6. normalize_spike_pc((m + 4) % Modulus) = p + 4
  <2>1. normalize_spike_pc((m + 4) % Modulus) = _u32((m + 4) - PROGRAM_BASE)
    <3> DEFINE a == m + 4
    <3>1. a \in Int
      BY <1>1
    <3> HIDE DEF a
    <3>2. normalize_spike_pc(a % Modulus) = _u32(a - PROGRAM_BASE)
      BY <3>1, TargetNormalized
    <3>3. QED BY <3>2 DEF a
  <2>2. (m + 4) - PROGRAM_BASE = p + 4
    <3>1. PROGRAM_BASE \in Nat
      BY BaseAssumption, WordFacts
    <3> HIDE DEF m
    <3>2. QED BY <1>1, <3>1
  <2>3. p + 4 \in Word
    <3>1. /\ PROGRAM_BASE \in Nat /\ PROGRAM_BASE % 4 = 0 /\ Modulus \in Nat /\ Modulus % 4 = 0
          /\ request.program_word_count \in Nat
          /\ end = PROGRAM_BASE + 4 * request.program_word_count /\ end < Modulus
      BY <1>1, ImageFacts, BaseAssumption, ContractAssumption
    <3>2. p \in Nat /\ p + 4 <= Modulus - 1
      <4>1. PROGRAM_BASE > 3
        BY <1>1, LayoutFacts
      <4> HIDE DEF m, end
      <4>2. QED BY <1>1, <1>2, <3>1, <4>1
    <3> HIDE DEF p
    <3>3. QED BY <3>1, <3>2 DEF Word
  <2>4. QED BY <2>1, <2>2, <2>3, WordFacts
<1>7. p \in Nat /\ p = NextPc(t, Len(t))
  BY <1>3, WordFacts DEF IsAt
<1>8. QED BY <1>1, <1>3, <1>4, <1>5, <1>6, <1>7

(* An instruction in common, with operands that are.                       *)
LEMMA OwnEffect ==
  ASSUME SpikeTypeOK, Spike!RunInstruction, machine.pc < Spike!program_end,
         NEW t \in Seq(ISSCommit), IsAt(machine, t),
         LET i == Decode[machine.ram[machine.pc]]
             b == _u32(RegisterAfter(request.initial_int_regs, t, Len(t), i.rs1) + i.imm)
         IN  /\ i.kind \in CommonKinds /\ ~ BootOnly(i.rs1) /\ ~ BootOnly(i.rs2)
             /\ i.kind \in {"lw", "sw"} => b >= DATA_BASE /\ b # DATA_BASE + 4
  PROVE  \E rd, value, ram, pc_ :
           /\ Spike!Retire(rd, value, ram, pc_)
           /\ Effect(t, machine.ram[machine.pc], machine.pc - PROGRAM_BASE, rd, value, ram, pc_)
<1> DEFINE w == machine.ram[machine.pc]
           p == machine.pc - PROGRAM_BASE
           n == Len(t)
           i == Decode[w]
           initial == request.initial_int_regs
           x == RegisterAfter(initial, t, n, i.rs1)
           y == RegisterAfter(initial, t, n, i.rs2)
           b == _u32(x + i.imm)
           k == i.kind
           next == (machine.pc + 4) % Modulus
           target == (machine.pc + i.imm) % Modulus
           stored == [machine.ram EXCEPT ![b] = y]
<1>1. Spike!Fetches /\ ~ Spike!Traps /\ request \in ISSRequest
  BY DEF Spike!RunInstruction, SpikeTypeOK
<1>2. /\ machine.pc \in Nat /\ w \in Word /\ Spike!Current = i
      /\ i.rd \in Registers /\ i.rs1 \in Registers /\ i.rs2 \in Registers /\ i.imm \in Int
      /\ Spike!Left \in Word /\ Spike!Right \in Word
  BY <1>1, FetchedInRam, DecodeFacts DEF Spike!Current
<1>3. Spike!Left = x /\ Spike!Right = y
  BY <1>2, SMTT(30) DEF Spike!Left, Spike!Right, IsAt
<1>4. Spike!Sum = b
  BY <1>2, <1>3, SpikeContract, SMTT(30) DEF Spike!Sum, _u32
<1>5. /\ k \in CommonKinds
      /\ k \in {"lw", "sw"} => b >= DATA_BASE /\ b # DATA_BASE + 4 /\ b \in Spike!Ram
  BY <1>1, <1>2, <1>4 DEF Spike!Traps
<1>6. k \in PlainKinds /\ k \notin {"addi", "jal", "bltu", "bgeu"}
  BY <1>5, SMTT(30) DEF CommonKinds, PlainKinds, RTypes, Cpu!Branches
<1>7. Spike!Taken <=> BranchTaken(k, x, y)
  BY <1>2, <1>3, <1>6, SpikeBranches
<1>8. normalize_spike_pc(next) = p + 4
  BY <1>1, OwnFetch
<1>9. normalize_spike_pc(target) = _u32(p + i.imm) /\ Spike!Target = target
  <2> DEFINE a == machine.pc + i.imm
             imm == i.imm
             m == machine.pc
  <2>1. a \in Int /\ a - PROGRAM_BASE = p + imm
    <3>1. m \in Int /\ imm \in Int /\ PROGRAM_BASE \in Int
      BY <1>2, BaseAssumption, WordFacts
    <3> HIDE DEF m, imm
    <3>2. m + imm \in Int /\ (m + imm) - PROGRAM_BASE = (m - PROGRAM_BASE) + imm
      BY <3>1
    <3>3. QED BY <3>2 DEF m, imm
  <2> HIDE DEF a
  <2>2. normalize_spike_pc(a % Modulus) = _u32(a - PROGRAM_BASE)
    BY <2>1, TargetNormalized
  <2>3. Spike!Target = target
    BY <1>2, SpikeContract DEF Spike!Target
  <2>4. QED BY <2>1, <2>2, <2>3 DEF a
<1>10. /\ \/ k \in RTypes /\ Spike!Retire(i.rd, Spike!IsaAlu(k, x, y), machine.ram, next)
          \/ k \in {"beq", "bne", "blt", "bge"}
               /\ Spike!Retire(0, None, machine.ram, IF Spike!Taken THEN target ELSE next)
          \/ k = "lw" /\ Spike!Retire(i.rd, machine.ram[b], machine.ram, next)
          \/ k = "sw" /\ Spike!Retire(0, None, stored, next)
  <2>1. LET k_ == Spike!Current.kind IN
          \/ k_ = "addi" /\ Spike!Retire(Spike!Current.rd, Spike!Sum, machine.ram, next)
          \/ k_ \in RTypes
               /\ Spike!Retire(Spike!Current.rd, Spike!IsaAlu(k_, Spike!Left, Spike!Right), machine.ram, next)
          \/ k_ \in {"beq", "bne", "blt", "bge"}
               /\ Spike!Retire(0, None, machine.ram, IF Spike!Taken THEN Spike!Target ELSE next)
          \/ k_ = "lw" /\ Spike!Retire(Spike!Current.rd, machine.ram[Spike!Sum], machine.ram, next)
          \/ k_ = "sw" /\ Spike!Retire(0, None, [machine.ram EXCEPT ![Spike!Sum] = Spike!Right], next)
    BY <1>2, <1>6, RunPlainInstruction
  <2> HIDE DEF next, target, x, y, b
  <2>2. k # "addi" /\ Spike!Current = i
    BY <1>2, <1>6
  <2> HIDE DEF i
  <2>3. QED BY <1>3, <1>4, <1>9, <2>1, <2>2
<1>11. \A a \in Spike!Ram : a >= DATA_BASE /\ a # DATA_BASE + 4 =>
         machine.ram[a] = MemoryAfter(t, n, a)
  BY DEF IsAt
<1> HIDE DEF next, target, stored, x, y, b, i, w, p, n, initial
<1>12. SUFFICES ASSUME NEW rd, NEW value, NEW ram, NEW pc_, Spike!Retire(rd, value, ram, pc_),
                       rd = IF WritesNothing(i) THEN 0 ELSE i.rd,
                       rd # 0 => value = Written(i, x, y, MemoryAfter(t, n, b)),
                       ram = IF k = "sw" THEN stored ELSE machine.ram,
                       pc_ = IF BranchTaken(k, x, y) THEN target ELSE next
                PROVE  Effect(t, w, p, rd, value, ram, pc_)
  <2>1. ASSUME NEW rd, NEW value, NEW ram, NEW pc_, Spike!Retire(rd, value, ram, pc_),
               rd = IF WritesNothing(i) THEN 0 ELSE i.rd,
               rd # 0 => value = Written(i, x, y, MemoryAfter(t, n, b)),
               ram = IF k = "sw" THEN stored ELSE machine.ram,
               pc_ = IF BranchTaken(k, x, y) THEN target ELSE next
        PROVE  \E rd_, value_, ram_, next_ : Spike!Retire(rd_, value_, ram_, next_)
                 /\ Effect(t, machine.ram[machine.pc], machine.pc - PROGRAM_BASE, rd_, value_, ram_, next_)
    <3>1. Effect(t, w, p, rd, value, ram, pc_)
      BY <1>12, <2>1
    <3>2. QED BY <2>1, <3>1 DEF w, p
  <2>2. CASE k \in RTypes
    <3>1. k \notin {"beq", "bne", "blt", "bge", "lw", "sw"}
      BY <2>2 DEF RTypes
    <3>2. Spike!Retire(i.rd, Spike!IsaAlu(k, x, y), machine.ram, next)
      BY <1>10, <3>1
    <3>3. Spike!IsaAlu(k, x, y) = Written(i, x, y, MemoryAfter(t, n, b))
      BY <1>2, <1>3, <2>2, AluAgrees, WrittenValues
    <3>4. ~ BranchTaken(k, x, y) /\ (IF WritesNothing(i) THEN 0 ELSE i.rd) = i.rd
      BY <3>1 DEF BranchTaken, WritesNothing, Cpu!Branches
    <3>5. QED BY <2>1, <3>1, <3>2, <3>3, <3>4
  <2>3. CASE k = "lw"
    <3>1. Spike!Retire(i.rd, machine.ram[b], machine.ram, next)
      BY <1>10, <2>3 DEF RTypes
    <3>2. machine.ram[b] = Written(i, x, y, MemoryAfter(t, n, b))
      BY <1>5, <1>11, <2>3, WrittenValues
    <3>3. ~ BranchTaken(k, x, y) /\ (IF WritesNothing(i) THEN 0 ELSE i.rd) = i.rd
      BY <2>3 DEF BranchTaken, WritesNothing, Cpu!Branches
    <3>4. QED BY <2>1, <2>3, <3>1, <3>2, <3>3
  <2>4. CASE k = "sw"
    <3>1. Spike!Retire(0, None, stored, next)
      BY <1>10, <2>4 DEF RTypes
    <3>2. ~ BranchTaken(k, x, y) /\ (IF WritesNothing(i) THEN 0 ELSE i.rd) = 0
      BY <2>4 DEF BranchTaken, WritesNothing
    <3>3. QED BY <2>1, <2>4, <3>1, <3>2
  <2>5. CASE k \in Cpu!Branches
    <3>1. Spike!Retire(0, None, machine.ram, IF BranchTaken(k, x, y) THEN target ELSE next)
      BY <1>7, <1>10, <2>5 DEF RTypes, Cpu!Branches
    <3>2. k # "sw" /\ (IF WritesNothing(i) THEN 0 ELSE i.rd) = 0
      BY <2>5 DEF WritesNothing, Cpu!Branches
    <3>3. QED BY <2>1, <3>1, <3>2
  <2>6. QED BY <1>5, <2>2, <2>3, <2>4, <2>5 DEF CommonKinds
<1>13. normalize_spike_pc(pc_) = IF BranchTaken(k, x, y) THEN _u32(p + i.imm) ELSE p + 4
  BY <1>8, <1>9, <1>12
<1>14. k = "sw" => b \in Spike!Ram
  BY <1>5
<1>15. QED BY <1>12, <1>13, <1>14 DEF Effect, stored, x, y, b, i, n, initial

(* What the next instruction leaves is what the longer trace says.         *)
LEMMA OwnState ==
  ASSUME SpikeTypeOK, stage = "run",
         NEW t \in Seq(ISSCommit), NEW c \in ISSCommit, IsAt(machine, t),
         Decode[c.instruction].rd \in Registers,
         NEW rd, NEW value, NEW ram, NEW pc_, Spike!Retire(rd, value, ram, pc_),
         Effect(t, c.instruction, c.pc, rd, value, ram, pc_),
         Decode[c.instruction].kind = "sw" => DataAddress(Append(t, c), Len(t) + 1) >= DATA_BASE,
         LET i == Decode[c.instruction]
             x == RegisterAfter(request.initial_int_regs, t, Len(t), i.rs1)
             y == RegisterAfter(request.initial_int_regs, t, Len(t), i.rs2)
         IN  /\ c.rd_valid <=> ~ WritesNothing(i)
             /\ c.rd_valid => c.rd = i.rd /\ c.value = value
             /\ DataAddress(Append(t, c), Len(t) + 1) = _u32(x + i.imm)
             /\ NextPc(Append(t, c), Len(t) + 1) =
                  IF BranchTaken(i.kind, x, y) THEN _u32(c.pc + i.imm) ELSE c.pc + 4
  PROVE  IsAt(machine', Append(t, c))
<1> DEFINE u == Append(t, c)
           n == Len(t)
           initial == request.initial_int_regs
           i == Decode[c.instruction]
           x == RegisterAfter(initial, t, n, i.rs1)
           y == RegisterAfter(initial, t, n, i.rs2)
           b == _u32(x + i.imm)
           end == Spike!program_end
<1>1. n \in Nat /\ Len(u) = n + 1
  BY AppendIsSame
<1>2. /\ machine'.pc = pc_ /\ machine'.ram = ram
      /\ machine'.regs = IF rd = 0 THEN machine.regs ELSE [machine.regs EXCEPT ![rd] = value]
  BY RetiredState
<1>3. /\ rd = IF WritesNothing(i) THEN 0 ELSE i.rd
      /\ i.kind = "sw" => b \in Spike!Ram
      /\ ram = IF i.kind = "sw" THEN [machine.ram EXCEPT ![b] = y] ELSE machine.ram
      /\ normalize_spike_pc(pc_) = IF BranchTaken(i.kind, x, y) THEN _u32(c.pc + i.imm) ELSE c.pc + 4
  BY DEF Effect
<1>4. /\ \A r : RegisterAfter(initial, u, n + 1, r) =
                  IF r # 0 /\ c.rd_valid /\ c.rd = r THEN c.value ELSE RegisterAfter(initial, t, n, r)
      /\ \A a : MemoryAfter(u, n + 1, a) =
                  IF i.kind = "sw" /\ DataAddress(u, n + 1) = a THEN y ELSE MemoryAfter(t, n, a)
  <2>1. \A r : RegisterAfter(initial, Append(t, c), Len(t) + 1, r) =
                 IF r # 0 /\ c.rd_valid /\ c.rd = r THEN c.value
                 ELSE RegisterAfter(initial, t, Len(t), r)
    <3> HIDE DEF initial
    <3>1. QED BY AppendRegister
  <2>2. \A a : MemoryAfter(Append(t, c), Len(t) + 1, a) =
           IF Decode[c.instruction].kind = "sw" /\ DataAddress(Append(t, c), Len(t) + 1) = a
           THEN RegisterAfter(request.initial_int_regs, t, Len(t), Decode[c.instruction].rs2)
           ELSE MemoryAfter(t, Len(t), a)
    BY AppendMemory
  <2>3. QED BY <2>1, <2>2
<1>5. /\ c.rd_valid <=> ~ WritesNothing(i)
      /\ c.rd_valid => c.rd = i.rd /\ c.value = value
      /\ DataAddress(u, n + 1) = b
      /\ NextPc(u, n + 1) = IF BranchTaken(i.kind, x, y) THEN _u32(c.pc + i.imm) ELSE c.pc + 4
      /\ i.kind = "sw" => b >= DATA_BASE
  OBVIOUS
<1>6. /\ \A r \in Registers : ~ BootOnly(r) => machine.regs[r] = RegisterAfter(initial, t, n, r)
      /\ \A a \in Spike!Ram : a < end => machine.ram[a] = Spike!Image[a]
      /\ \A a \in Spike!Ram : a >= DATA_BASE /\ a # DATA_BASE + 4 =>
           machine.ram[a] = MemoryAfter(t, n, a)
  BY DEF IsAt
<1>7. /\ DOMAIN machine.regs = Registers /\ request \in ISSRequest
      /\ machine.ram \in [Spike!Ram -> Word] \cup {<<>>} /\ i.rd \in Registers
  BY DEF SpikeTypeOK, Machines, RegisterFiles
<1>8. machine.ram \in [Spike!Ram -> Word]
  BY DEF SpikeTypeOK
<1> HIDE DEF u, n, initial, i, x, y, b, end
<1>9. ASSUME NEW r \in Registers, ~ BootOnly(r)
      PROVE  machine'.regs[r] = RegisterAfter(initial, u, n + 1, r)
  <2>1. machine.regs[r] = RegisterAfter(initial, t, n, r)
    BY <1>6, <1>9
  <2>2. CASE c.rd_valid
    <3>1. rd = i.rd /\ rd # 0 /\ c.rd = rd /\ c.value = value
      BY <1>3, <1>5, <2>2 DEF WritesNothing
    <3>2. machine'.regs[r] = IF r = rd THEN value ELSE machine.regs[r]
      BY <1>2, <1>7, <3>1
    <3>3. QED BY <1>4, <2>1, <2>2, <3>1, <3>2
  <2>3. CASE ~ c.rd_valid
    <3>1. rd = 0
      BY <1>3, <1>5, <2>3
    <3>2. QED BY <1>2, <1>4, <2>1, <2>3, <3>1
  <2>4. QED BY <2>2, <2>3
<1>10. \A a \in Spike!Ram : machine'.ram[a] = IF i.kind = "sw" /\ b = a THEN y ELSE machine.ram[a]
  BY <1>2, <1>3, <1>8
<1>11. ASSUME NEW a \in Spike!Ram, a < end
       PROVE  machine'.ram[a] = Spike!Image[a]
  <2>1. end < DATA_BASE /\ end \in Nat /\ DATA_BASE \in Nat
    BY <1>7, ImageFacts DEF end
  <2>2. a \in Nat
    BY SpikeContract, WordFacts DEF Spike!Ram
  <2>3. ~ (a >= DATA_BASE)
    BY <1>11, <2>1, <2>2
  <2>4. ~ (i.kind = "sw" /\ b = a)
    BY <1>5, <2>3
  <2>5. QED BY <1>6, <1>10, <1>11, <2>4
<1>12. ASSUME NEW a \in Spike!Ram, a >= DATA_BASE, a # DATA_BASE + 4
       PROVE  machine'.ram[a] = MemoryAfter(u, n + 1, a)
  BY <1>4, <1>5, <1>6, <1>10, <1>12
<1>13. normalize_spike_pc(machine'.pc) = NextPc(u, n + 1)
  BY <1>2, <1>3, <1>5
<1>14. QED BY <1>1, <1>9, <1>11, <1>12, <1>13 DEF IsAt, u, initial, end

(* An instruction of the program is the next commit of the trace.          *)
LEMMA OwnInstruction ==
  ASSUME SpikeTypeOK, Spike!RunInstruction, machine.pc < Spike!program_end,
         NEW t, Replays(t), IsAt(machine, t)
  PROVE  \E l \in Lines :
           /\ log' = Append(log, l) /\ ~ Malformed(l)
           /\ Accepts(l, PROGRAM_BASE, Spike!program_end)
           /\ normalize_spike_commit(CommitOf(l)) \in ISSCommit
           /\ InCommon(Append(t, normalize_spike_commit(CommitOf(l)))) =>
                /\ Replays(Append(t, normalize_spike_commit(CommitOf(l))))
                /\ IsAt(machine', Append(t, normalize_spike_commit(CommitOf(l))))
<1> DEFINE w == machine.ram[machine.pc]
           p == machine.pc - PROGRAM_BASE
           n == Len(t)
           i == Decode[w]
           initial == request.initial_int_regs
           x == RegisterAfter(initial, t, n, i.rs1)
           y == RegisterAfter(initial, t, n, i.rs2)
           b == _u32(x + i.imm)
           new == Written(i, x, y, MemoryAfter(t, n, b))
<1>1. t \in Seq(ISSCommit) /\ n \in Nat /\ request \in ISSRequest /\ log \in Seq(Lines)
  BY DEF Replays, SpikeTypeOK
<1>2. Spike!Fetches /\ machine.pc \in Spike!Ram /\ stage = "run" /\ i.rd \in Registers
  BY RunInstructionRetires, FetchedInRam DEF Spike!RunInstruction, Spike!Current
<1>3. /\ p = NextPc(t, n) /\ p \div 4 < request.program_word_count
      /\ w = request.program[p \div 4]
  BY <1>1, <1>2, OwnFetch
<1>4. PICK l \in Lines : /\ log' = Append(log, l) /\ ~ Malformed(l)
                         /\ Accepts(l, PROGRAM_BASE, Spike!program_end)
                         /\ l.pc = machine.pc /\ l.instruction = w
  <2>1. PICK rd, value, ram, pc_ : Retires(rd, value, ram, pc_)
    BY RunInstructionRetires
  <2> DEFINE l == Line("commit", 0, machine.pc, machine.ram[machine.pc],
                       IF rd = 0 THEN None ELSE rd, IF rd = 0 THEN None ELSE value)
  <2>2. /\ l \in Lines /\ log' = Append(log, l) /\ ~ Malformed(l)
        /\ Accepts(l, PROGRAM_BASE, Spike!program_end)
    BY <1>2, <2>1, Retired
  <2>3. l.pc = machine.pc /\ l.instruction = w
    BY DEF Line
  <2>4. QED BY <2>2, <2>3
<1> DEFINE c == normalize_spike_commit(CommitOf(l))
           u == Append(t, c)
<1>5. c \in ISSCommit /\ c = [CommitOf(l) EXCEPT !.pc = p]
  BY <1>1, <1>4, CommitTyped
<1>6. c.pc = p /\ c.instruction = w /\ c.rd_valid = (l.rd # None) /\ c.rd = l.rd /\ c.value = l.value
      /\ c = [pc |-> p, instruction |-> w, rd_valid |-> l.rd # None, rd |-> l.rd, value |-> l.value]
  <2> HIDE DEF c, p, w
  <2>1. c = [pc |-> p, instruction |-> w, rd_valid |-> l.rd # None, rd |-> l.rd, value |-> l.value]
    BY <1>4, <1>5 DEF CommitOf
  <2>2. QED BY <2>1
<1>7. SUFFICES ASSUME InCommon(u) PROVE Replays(u) /\ IsAt(machine', u)
  BY <1>4, <1>5
<1> HIDE DEF c
<1>8. /\ Instruction(u, n + 1) = i
      /\ \A r : RegisterBefore(u, n + 1, r) = RegisterAfter(initial, t, n, r)
      /\ n + 1 \in DOMAIN u
  <2>1. /\ Instruction(u, n + 1) = Decode[c.instruction]
        /\ \A r : RegisterBefore(u, n + 1, r) = RegisterAfter(initial, t, n, r)
    BY <1>1, <1>5, AppendBefore
  <2>2. n + 1 \in DOMAIN u
    BY <1>1, <1>5
  <2>3. QED BY <1>6, <2>1, <2>2
<1>9. DataAddress(u, n + 1) = b
  BY <1>8 DEF DataAddress
<1>10. /\ i.kind \in CommonKinds /\ ~ BootOnly(i.rs1) /\ ~ BootOnly(i.rs2)
       /\ i.kind \in {"lw", "sw"} => b >= DATA_BASE /\ b # DATA_BASE + 4
  <2>1. i.kind \in CommonKinds /\ DataApart(u, n + 1) /\ ~ ReadsBootRegister(u, n + 1)
    BY <1>7, <1>8 DEF InCommon
  <2> HIDE DEF u, b, i
  <2>2. i.kind \in {"lw", "sw"} => b >= DATA_BASE /\ b # DATA_BASE + 4
    BY <1>8, <1>9, <2>1 DEF DataApart
  <2>3. ~ BootOnly(i.rs1) /\ ~ BootOnly(i.rs2)
    BY <1>8, <2>1 DEF ReadsBootRegister, BootOnly
  <2>4. QED BY <2>1, <2>2, <2>3
<1>11. PICK rd, value, ram, pc_ :
         Spike!Retire(rd, value, ram, pc_) /\ Effect(t, w, p, rd, value, ram, pc_)
  BY <1>1, <1>10, OwnEffect, SMTT(30)
<1>12. /\ rd = IF WritesNothing(i) THEN 0 ELSE i.rd
       /\ rd # 0 => value = new
  BY <1>11 DEF Effect
<1>13. l.rd = (IF rd = 0 THEN None ELSE rd) /\ l.value = (IF rd = 0 THEN None ELSE value)
  <2> DEFINE m == Line("commit", 0, machine.pc, machine.ram[machine.pc],
                       IF rd = 0 THEN None ELSE rd, IF rd = 0 THEN None ELSE value)
  <2>1. log' = Append(log, m)
    BY <1>11, SpikeContract, SpikeParsers DEF Spike!Retire
  <2>2. m.rd = (IF rd = 0 THEN None ELSE rd) /\ m.value = (IF rd = 0 THEN None ELSE value)
    BY DEF Line
  <2> HIDE DEF m
  <2>3. Append(log, m)[Len(log) + 1] = m /\ Append(log, l)[Len(log) + 1] = l
    BY <1>1
  <2>4. l = m
    BY <1>4, <2>1, <2>3
  <2>5. QED BY <2>2, <2>4
<1>14. /\ c.rd_valid <=> ~ WritesNothing(i)
       /\ c.rd_valid => c.rd = i.rd /\ c.value = value /\ value = new
       /\ c = IF WritesNothing(i) THEN CommitOnly(c.pc, c.instruction)
              ELSE Commit(c.pc, c.instruction, i.rd, new)
  <2>1. i.rd # None
    BY <1>2 DEF Registers, None
  <2> HIDE DEF new, i, p, w
  <2>2. CASE WritesNothing(i)
    BY <1>6, <1>12, <1>13, <2>2 DEF CommitOnly
  <2>3. CASE ~ WritesNothing(i)
    <3>1. i.rd # 0
      BY <2>3 DEF WritesNothing
    <3>2. rd = i.rd /\ l.rd = i.rd /\ l.value = new /\ value = new
      BY <1>12, <1>13, <2>3, <3>1
    <3>3. QED BY <1>6, <2>1, <2>3, <3>2 DEF Commit
  <2>4. QED BY <2>2, <2>3
<1>15. /\ Tells(u, n + 1) /\ DataAddress(u, n + 1) = b
       /\ NextPc(u, n + 1) = IF BranchTaken(i.kind, x, y) THEN _u32(c.pc + i.imm) ELSE c.pc + 4
  <2>1. c.pc = NextPc(t, n) /\ c.pc \div 4 < request.program_word_count
          /\ c.instruction = request.program[c.pc \div 4] /\ Decode[c.instruction] = i
    BY <1>3, <1>6
  <2> DEFINE k == Decode[c.instruction]
             v == RegisterAfter(initial, t, n, k.rs1)
             z == RegisterAfter(initial, t, n, k.rs2)
             a == _u32(v + k.imm)
             told == Written(k, v, z, MemoryAfter(t, n, a))
  <2>2. k = i /\ v = x /\ z = y /\ a = b /\ told = new
    <3>1. k = i
      BY <2>1
    <3> HIDE DEF k, i
    <3>2. QED BY <3>1
  <2>3. c = IF WritesNothing(k) THEN CommitOnly(c.pc, c.instruction)
            ELSE Commit(c.pc, c.instruction, k.rd, told)
    <3> HIDE DEF k, i, new, told
    <3>1. QED BY <1>14, <2>2
  <2>4. /\ Tells(Append(t, c), Len(t) + 1) /\ DataAddress(Append(t, c), Len(t) + 1) = a
        /\ NextPc(Append(t, c), Len(t) + 1) =
             IF BranchTaken(k.kind, v, z) THEN _u32(c.pc + k.imm) ELSE c.pc + 4
    <3> HIDE DEF w, i, p
    <3>2. QED BY <1>1, <1>5, <2>1, <2>3, AppendTells
  <2> HIDE DEF k, v, z, a, i, x, y, b
  <2>5. QED BY <2>2, <2>4
<1>16. Replays(u)
  BY <1>5, <1>15, ReplaysOn
<1>17. IsAt(machine', u)
  <2>1. c.instruction = w /\ c.pc = p /\ Decode[c.instruction] = i
    BY <1>6
  <2>2. i.kind = "sw" => DataAddress(u, n + 1) >= DATA_BASE
    BY <1>9, <1>10
  <2> HIDE DEF w, p
  <2>3. QED BY <1>1, <1>2, <1>5, <1>11, <1>14, <1>15, <2>1, <2>2, OwnState
<1>18. QED BY <1>16, <1>17

(* Once the program has been left, a line of it comes apart from the       *)
(* others.                                                                 *)
LEMMA AppendInside ==
  ASSUME NEW lines \in Seq(Lines), NEW l \in Lines
  PROVE  /\ Contiguous(Append(lines, l)) => Contiguous(lines)
         /\ HasLeft(lines) /\ Accepts(l, PROGRAM_BASE, Spike!program_end) =>
              ~ Contiguous(Append(lines, l))
<1> DEFINE u == Append(lines, l)
           inside == Accepts(l, PROGRAM_BASE, Spike!program_end)
           n == Len(lines)
           I == InsideOf(lines)
           J == InsideOf(u)
<1>1. /\ n \in Nat /\ DOMAIN lines = 1 .. n /\ DOMAIN u = 1 .. n + 1
      /\ u[n + 1] = l /\ \A i \in 1 .. n : u[i] = lines[i]
  OBVIOUS
<1> HIDE DEF u, n
<1>2. /\ \A i \in 1 .. n : i \in J <=> i \in I
      /\ I \subseteq 1 .. n /\ J \subseteq 1 .. n + 1
      /\ n + 1 \in J <=> inside
  BY <1>1 DEF InsideOf
<1> HIDE DEF I, J, inside
<1>3. ASSUME \A i, k \in J : i .. k \subseteq J
      PROVE  \A i, k \in I : i .. k \subseteq I
  <2> SUFFICES ASSUME NEW i \in I, NEW k \in I, NEW m \in i .. k PROVE m \in I
    OBVIOUS
  <2>1. m \in 1 .. n /\ i \in J /\ k \in J
    BY <1>1, <1>2
  <2>2. QED BY <1>2, <1>3, <2>1
<1>4. ASSUME inside, NEW i \in I, NEW k \in 1 .. n, k \notin I, i < k
      PROVE  ~ \A j, m \in J : j .. m \subseteq J
  <2>1. i \in J /\ n + 1 \in J /\ k \notin J /\ k \in i .. n + 1
    BY <1>1, <1>2, <1>4
  <2>2. QED BY <2>1
<1>5. HasLeft(lines) <=> \E i \in I, k \in (1 .. n) \ I : i < k
  BY <1>1 DEF HasLeft, I
<1>6. /\ Contiguous(u) <=> \A i, k \in J : i .. k \subseteq J
      /\ Contiguous(lines) <=> \A i, k \in I : i .. k \subseteq I
  BY DEF Contiguous, I, J
<1>7. QED BY <1>3, <1>4, <1>5, <1>6 DEF u, inside

(* What a run of Spike has done, told of its own log: the image and the    *)
(* setup code as ever, and behind them, as long as the program is not left *)
(* and come back to, what the program says.                                *)
OwnRun(m, lines) ==
  /\ m.steps < SetupEnd => ~ m.trapped /\ m.ram = Spike!Image
  /\ InFirstSetup(m, lines) =>
       LoadedBy(Spike!Setup, m.steps - SPIKE_BOOT_INSTRUCTION_COUNT, m.regs)
  /\ InCommon(OwnTrace(lines)) /\ Contiguous(lines) =>
       /\ Replays(OwnTrace(lines))
       /\ SetupEnd <= m.steps /\ ~ HasLeft(lines) => IsAt(m, OwnTrace(lines))

(* What Spike has logged, and what the backend makes of it, replays the    *)
(* program.                                                                *)
OwnInv ==
  /\ stage \in {"run", "parse"} => OwnRun(machine, log)
  /\ stage = "done" /\ spike_result.status = "PASS" =>
       (InCommon(Normalized) /\ Contiguous(log) => Replays(Normalized) /\ Normalized # <<>>)

(* The request stays: what is told of a trace stays.                       *)
LEMMA SameOwn ==
  ASSUME UNCHANGED request
  PROVE  OwnRun(machine, log)' = OwnRun(machine', log')
<1>1. /\ Spike!Setup' = Spike!Setup /\ Spike!program_end' = Spike!program_end
      /\ SetupEnd' = SetupEnd
  BY SameRequest
<1>2. Spike!Image' = Spike!Image
  BY <1>1 DEF Spike!Image, Spike!Ram
<1>3. /\ InsideOf(log)' = InsideOf(log')
      /\ ExecutedOf(log)' = ExecutedOf(log')
      /\ CommitsIn(log)' = CommitsIn(log')
  <2>1. InsideOf(log)' = InsideOf(log')
    BY <1>1 DEF InsideOf
  <2>2. ExecutedOf(log)' = ExecutedOf(log')
    BY <2>1 DEF ExecutedOf
  <2>3. QED BY <2>1, <2>2 DEF CommitsIn, Selected, SelectedTo
<1>4. HasLeft(log)' = HasLeft(log') /\ Contiguous(log)' = Contiguous(log')
  BY <1>3 DEF HasLeft, Contiguous
<1>5. InFirstSetup(machine, log)' = InFirstSetup(machine', log')
  BY <1>1, <1>3 DEF InFirstSetup
<1>6. LoadedBy(Spike!Setup, machine.steps - SPIKE_BOOT_INSTRUCTION_COUNT, machine.regs)'
        = LoadedBy(Spike!Setup, machine'.steps - SPIKE_BOOT_INSTRUCTION_COUNT, machine'.regs)
  BY <1>1 DEF LoadedBy
<1>7. OwnTrace(log)' = OwnTrace(log')
  BY <1>3 DEF OwnTrace
<1>8. InCommon(OwnTrace(log))' = InCommon(OwnTrace(log'))
  BY <1>7 DEF InCommon, DataApart, ReadsBootRegister, Instruction, DataAddress, RegisterBefore
<1>9. \A j : /\ NextPc(OwnTrace(log), j)' = NextPc(OwnTrace(log'), j)
             /\ \A a : MemoryAfter(OwnTrace(log), j, a)' = MemoryAfter(OwnTrace(log'), j, a)
  <2>1. \A j : NextPc(OwnTrace(log), j)' = NextPc(OwnTrace(log'), j)
    BY <1>7 DEF NextPc, Instruction, RegisterBefore
  <2>2. \A j, a : MemoryAfter(OwnTrace(log), j, a)' = MemoryAfter(OwnTrace(log'), j, a)
    BY <1>7 DEF MemoryAfter, Stores, DataAddress, Instruction, RegisterBefore
  <2>3. QED BY <2>1, <2>2
<1>10. Replays(OwnTrace(log))' = Replays(OwnTrace(log'))
  BY <1>7, <1>9 DEF Replays, Tells, Instruction, RegisterBefore, DataAddress
<1>11. IsAt(machine, OwnTrace(log))' = IsAt(machine', OwnTrace(log'))
  <2>1. \A r : BootOnly(r)' = BootOnly(r)
    BY DEF BootOnly
  <2>2. QED BY <1>1, <1>2, <1>7, <1>9, <2>1 DEF IsAt, Spike!Ram
<1>12. QED BY <1>1, <1>2, <1>4, <1>5, <1>6, <1>8, <1>10, <1>11 DEF OwnRun

(* A run that goes on.                                                     *)
LEMMA OwnOn ==
  ASSUME UNCHANGED request, stage' \in {"run", "parse"}, OwnRun(machine', log')
  PROVE  OwnInv'
BY SameOwn DEF OwnInv

(* A log without commits tells of nothing.                                 *)
LEMMA NothingTold ==
  ASSUME NEW lines \in Seq(Lines), ExecutedOf(lines) = {}
  PROVE  OwnTrace(lines) = <<>> /\ Replays(OwnTrace(lines))
<1>1. CommitsIn(lines) = <<>>
  BY NoCommits
<1>2. OwnTrace(lines) = <<>>
  BY <1>1 DEF OwnTrace
<1>3. QED BY <1>2 DEF Replays

(* Power on, the boot code and the setup code.                             *)
LEMMA BuildOwn ==
  ASSUME SpikeTypeOK, BudgetInv, Spike!Build
  PROVE  OwnInv'
<1>1. /\ stage = "build" /\ stage' = "run" /\ UNCHANGED <<request, log, spike_result>>
      /\ machine'.steps = 0 /\ ~ machine'.trapped /\ machine'.ram = Spike!Image
  BY DEF Spike!Build, Spike!PoweredOff
<1>2. SPIKE_BOOT_INSTRUCTION_COUNT \in Nat \ {0} /\ SetupEnd \in Nat /\ Len(Spike!Setup) \in Nat
  BY LayoutFacts DEF SpikeTypeOK
<1>3. ~ InFirstSetup(machine', log') /\ ~ (SetupEnd <= 0)
  BY <1>1, <1>2 DEF InFirstSetup, SetupEnd
<1>4. log' = <<>> /\ log' \in Seq(Lines) /\ ExecutedOf(log') = {}
  BY <1>1 DEF BudgetInv, ExecutedOf, InsideOf
<1>5. Replays(OwnTrace(log'))
  BY <1>4, NothingTold
<1>6. OwnRun(machine', log')
  BY <1>1, <1>3, <1>5 DEF OwnRun
<1>7. QED BY <1>1, <1>6, OwnOn

(* The boot code runs once, and commits nothing of the program.            *)
LEMMA BootOwn ==
  ASSUME SpikeTypeOK, SpikeTypeOK', BudgetInv, OwnInv, Spike!Boot
  PROVE  OwnInv'
<1>1. InFirstSetup(machine', log')
  BY BootStep
<1>2. Replays(OwnTrace(log'))
  <2>1. log' \in Seq(Lines) /\ ExecutedOf(log') = {}
    BY <1>1 DEF InFirstSetup, SpikeTypeOK
  <2>2. QED BY <2>1, NothingTold
<1>3. ~ machine.trapped /\ machine.ram = Spike!Image
  BY BootLeaves DEF OwnInv, OwnRun
<1>4. OwnRun(machine', log')
  BY <1>2, <1>3, BootLeaves DEF OwnRun
<1>5. QED BY <1>4, BootLeaves, OwnOn

(* The setup code in its first pass: a load more, or the program.          *)
LEMMA SetupOwn ==
  ASSUME SpikeTypeOK, SpikeTypeOK', OwnInv, stage = "run", InFirstSetup(machine, log),
         Spike!RunSetup
  PROVE  OwnInv'
<1> DEFINE initial == request.initial_int_regs
<1>1. /\ ~ machine.trapped /\ machine.ram = Spike!Image
      /\ LoadedBy(Spike!Setup, machine.steps - SPIKE_BOOT_INSTRUCTION_COUNT, machine.regs)
  BY DEF OwnInv, OwnRun, InFirstSetup
<1>2. /\ ExecutedOf(log') = {} /\ ~ machine'.trapped /\ machine'.ram = Spike!Image
      /\ UNCHANGED <<request, stage>>
  BY <1>1, SetupLeaves DEF Spike!RunSetup, Spike!Retire
<1>3. OwnTrace(log') = <<>> /\ Replays(OwnTrace(log'))
  <2>1. log' \in Seq(Lines)
    BY DEF SpikeTypeOK
  <2>2. QED BY <1>2, <2>1, NothingTold
<1>4. SUFFICES OwnRun(machine', log')
  BY <1>2, OwnOn
<1>5. CASE /\ machine'.steps < SetupEnd /\ ~ (SetupEnd <= machine'.steps)
           /\ LoadedBy(Spike!Setup, machine'.steps - SPIKE_BOOT_INSTRUCTION_COUNT, machine'.regs)
  BY <1>2, <1>3, <1>5 DEF OwnRun
<1>6. CASE /\ machine'.steps = SetupEnd /\ machine'.pc = PROGRAM_BASE
           /\ \A r \in Registers : ~ BootOnly(r) => machine'.regs[r] = initial[r]
           /\ \A a \in Spike!Ram : a >= DATA_BASE /\ a # DATA_BASE + 4 => machine'.ram[a] = 0
  <2>1. request \in ISSRequest /\ SetupEnd \in Nat /\ PROGRAM_BASE \in Nat
    BY LayoutFacts DEF SpikeTypeOK
  <2>2. normalize_spike_pc(PROGRAM_BASE) = NextPc(<<>>, 0)
    <3>1. PROGRAM_BASE - PROGRAM_BASE = 0 /\ _u32(0) = 0
      BY <2>1, WordFacts
    <3>2. QED BY <3>1 DEF normalize_spike_pc, NextPc
  <2>3. ASSUME NEW r \in Registers, ~ BootOnly(r)
        PROVE  machine'.regs[r] = RegisterAfter(initial, <<>>, 0, r)
    <3>1. Writers(<<>>, 0, r) = {}
      BY DEF Writers
    <3>2. initial[0] = 0
      BY <2>1 DEF ISSRequest, RegisterFiles
    <3>3. QED BY <1>6, <2>3, <3>1, <3>2 DEF RegisterAfter
  <2>4. \A a : MemoryAfter(<<>>, 0, a) = 0
    BY DEF MemoryAfter, Stores
  <2>5. IsAt(machine', <<>>)
    <3>1. Len(<<>>) = 0
      OBVIOUS
    <3>2. QED BY <1>2, <1>6, <2>2, <2>3, <2>4, <3>1 DEF IsAt
  <2>6. ~ (machine'.steps < SetupEnd)
    BY <1>6, <2>1
  <2>7. ~ InFirstSetup(machine', log')
    BY <2>6 DEF InFirstSetup
  <2>8. QED BY <1>3, <2>5, <2>6, <2>7 DEF OwnRun
<1>7. QED BY <1>1, <1>5, <1>6, SetupLeaves

(* A line that is no commit of the program, or comes from outside of it.   *)
LEMMA LineOfAnother ==
  ASSUME SpikeTypeOK, NEW l \in Lines, log' = Append(log, l),
         ~ (Accepts(l, PROGRAM_BASE, Spike!program_end) /\ ~ Malformed(l)),
         InCommon(OwnTrace(log)) /\ Contiguous(log) =>
           /\ Replays(OwnTrace(log))
           /\ SetupEnd <= machine'.steps /\ ~ HasLeft(log') => IsAt(machine', OwnTrace(log))
  PROVE  InCommon(OwnTrace(log')) /\ Contiguous(log') =>
           /\ Replays(OwnTrace(log'))
           /\ SetupEnd <= machine'.steps /\ ~ HasLeft(log') => IsAt(machine', OwnTrace(log'))
<1>1. log \in Seq(Lines)
  BY DEF SpikeTypeOK
<1>2. OwnTrace(log') = OwnTrace(log)
  BY <1>1, OwnTraceAppend
<1>3. Contiguous(log') => Contiguous(log)
  BY <1>1, AppendInside
<1>4. QED BY <1>2, <1>3

(* A machine that has done its setup and n instructions more has done its  *)
(* setup after one step more as well.                                      *)
LEMMA PastTheSetup ==
  ASSUME NEW setup \in Nat, NEW n \in Nat, NEW steps \in Nat, setup + n <= steps
  PROVE  setup <= steps /\ ~ (steps + 1 < setup)
OBVIOUS

(* An instruction in the program.                                          *)
LEMMA ProgramOwn ==
  ASSUME SpikeTypeOK, BudgetInv, OwnInv, stage = "run", InProgram(machine, log),
         Spike!RunSetup \/ Spike!RunInstruction, machine.steps > 0
  PROVE  OwnInv'
<1> DEFINE end == Spike!program_end
           t == OwnTrace(log)
<1>1. /\ log \in Seq(Lines) /\ machine.steps \in Nat /\ machine.pc \in Nat /\ SetupEnd \in Nat
      /\ SETUP_BASE \in Nat /\ end \in Nat /\ end < SETUP_BASE /\ request \in ISSRequest
      /\ PROGRAM_BASE \in Nat /\ end = PROGRAM_BASE + 4 * request.program_word_count
      /\ request.program_word_count \in Nat /\ request.program_word_count > 0
      /\ Cardinality(ExecutedOf(log)) \in Nat
  BY LayoutFacts, ExecutedIsFinite DEF SpikeTypeOK, Machines, BudgetInv
<1>2. machine.pc \in Spike!Ram /\ \E rd, value, ram, pc_ : Retires(rd, value, ram, pc_)
  <2>1. CASE Spike!RunSetup
    <3>1. /\ machine.pc \in Spike!Ram
          /\ \E rd, value, ram, pc_ :
              /\ Retires(rd, value, ram, pc_)
              /\ pc_ = IF (machine.pc - SETUP_BASE) \div 4 + 1 > Len(Spike!Setup)
                       THEN PROGRAM_BASE ELSE machine.pc + 4
      BY <2>1, RunSetupRetires
    <3>2. QED BY <3>1, Zenon
  <2>2. CASE Spike!RunInstruction
    BY <2>2, RunInstructionRetires
  <2>3. QED BY <2>1, <2>2
<1>3. PICK l \in Lines :
        /\ log' = Append(log, l) /\ ~ Malformed(l)
        /\ Accepts(l, PROGRAM_BASE, end) <=> machine.pc < end
        /\ machine'.steps = machine.steps + 1
        /\ UNCHANGED <<request, stage>>
  BY <1>2, RetiredLine
<1>4. SetupEnd <= machine.steps /\ ~ (machine'.steps < SetupEnd)
  <2>1. SetupEnd + Cardinality(ExecutedOf(log)) <= machine.steps
    BY Zenon DEF InProgram
  <2>2. SetupEnd <= machine.steps /\ ~ (machine.steps + 1 < SetupEnd)
    BY <1>1, <2>1, PastTheSetup
  <2>3. QED BY <1>3, <2>2, Zenon
<1>5. ~ InFirstSetup(machine', log')
  BY <1>4 DEF InFirstSetup
<1>6. InCommon(t) /\ Contiguous(log) =>
        /\ Replays(t)
        /\ ~ HasLeft(log) => IsAt(machine, t)
  BY <1>4 DEF OwnInv, OwnRun
<1>7. SUFFICES InCommon(OwnTrace(log')) /\ Contiguous(log') =>
                 /\ Replays(OwnTrace(log'))
                 /\ SetupEnd <= machine'.steps /\ ~ HasLeft(log') => IsAt(machine', OwnTrace(log'))
  <2>1. ASSUME InCommon(OwnTrace(log')) /\ Contiguous(log') =>
                 /\ Replays(OwnTrace(log'))
                 /\ SetupEnd <= machine'.steps /\ ~ HasLeft(log') => IsAt(machine', OwnTrace(log'))
        PROVE  OwnRun(machine', log')
    BY <1>4, <1>5, <2>1 DEF OwnRun
  <2>2. QED BY <1>3, <2>1, OwnOn
<1>8. CASE ~ (machine.pc < end)
  <2>1. ExecutedOf(log) # {}
    <3> SUFFICES ASSUME ExecutedOf(log) = {} PROVE FALSE
      OBVIOUS
    <3>1. machine.pc = PROGRAM_BASE
      BY FS_EmptySet DEF InProgram
    <3> HIDE DEF end
    <3>2. QED BY <1>1, <1>8, <3>1
  <2>2. HasLeft(log')
    BY <1>1, <1>3, <1>8, <2>1, AppendLine
  <2>3. QED BY <1>3, <1>6, <1>8, <2>2, LineOfAnother
<1>9. CASE machine.pc < end
  <2> SUFFICES ASSUME InCommon(OwnTrace(log')), Contiguous(log')
               PROVE  Replays(OwnTrace(log')) /\ IsAt(machine', OwnTrace(log'))
    OBVIOUS
  <2>1. ~ HasLeft(log) /\ Contiguous(log)
    BY <1>1, <1>3, <1>9, AppendInside
  <2> DEFINE N(e) == normalize_spike_commit(CommitOf(e))
             C == {N(e) : e \in Lines}
  <2>2. t \in Seq(C)
    BY <1>1, <1>3, OwnTraceAppend
  <2>3. OwnTrace(log') = Append(t, N(l)) /\ N(l) \in C
    BY <1>1, <1>3, <1>9, OwnTraceAppend
  <2>4. InCommon(t)
    <3> HIDE DEF C, N, t
    <3>1. QED BY <2>2, <2>3, CommonBefore
  <2>5. Replays(t) /\ IsAt(machine, t)
    BY <1>6, <2>1, <2>4
  <2>6. Spike!RunInstruction
    <3>1. ~ Spike!InSetup
      <4> HIDE DEF end
      <4>1. QED BY <1>1, <1>9 DEF Spike!InSetup
    <3>2. QED BY <3>1 DEF Spike!RunSetup
  <2>7. PICK m \in Lines :
           /\ log' = Append(log, m) /\ ~ Malformed(m)
           /\ Accepts(m, PROGRAM_BASE, Spike!program_end)
           /\ InCommon(Append(t, N(m))) => Replays(Append(t, N(m))) /\ IsAt(machine', Append(t, N(m)))
    <3> HIDE DEF t
    <3>1. QED BY <1>9, <2>5, <2>6, OwnInstruction
  <2>8. OwnTrace(log') = Append(t, N(m))
    BY <1>1, <2>7, OwnTraceAppend
  <2>9. QED BY <2>7, <2>8
<1>10. QED BY <1>8, <1>9

(* An instruction, of the setup code or of the program.                    *)
LEMMA InstructionOwn ==
  ASSUME SpikeTypeOK, SpikeTypeOK', BudgetInv, OwnInv, Spike!RunSetup \/ Spike!RunInstruction
  PROVE  OwnInv'
<1>1. machine.steps > 0 /\ stage = "run"
  <2>1. CASE Spike!RunSetup
    BY <2>1, SetupComesLater DEF Spike!RunSetup, Spike!Running
  <2>2. CASE Spike!RunInstruction
    BY <2>2 DEF Spike!RunInstruction, Spike!Fetches, Spike!Running
  <2>3. QED BY <2>1, <2>2
<1>2. machine.steps \in Nat
  BY DEF SpikeTypeOK, Machines
<1>3. InFirstSetup(machine, log) \/ InProgram(machine, log)
  BY <1>1, <1>2 DEF BudgetInv, Budgeted, InBoot
<1>4. CASE InFirstSetup(machine, log)
  <2>1. Spike!InSetup
    BY <1>4, FirstSetupIsSetup
  <2>2. Spike!RunSetup
    BY <2>1 DEF Spike!RunInstruction, Spike!Fetches
  <2>3. QED BY <1>1, <1>4, <2>2, SetupOwn
<1>5. CASE InProgram(machine, log)
  BY <1>1, <1>5, ProgramOwn
<1>6. QED BY <1>3, <1>4, <1>5

(* A trap leaves what the trace tells of.                                  *)
LEMMA TrapOwn ==
  ASSUME SpikeTypeOK, BudgetInv, OwnInv, Spike!Trap
  PROVE  OwnInv'
<1>1. /\ machine.steps > 0 /\ stage = "run" /\ ~ Spike!InSetup
      /\ UNCHANGED <<request, stage, log>>
  BY DEF Spike!Trap, Spike!Fetches, Spike!Running
<1>2. /\ machine'.pc = machine.pc /\ machine'.regs = machine.regs /\ machine'.ram = machine.ram
      /\ machine'.steps = machine.steps
  BY DEF Spike!Trap, SpikeTypeOK, Machines
<1>3. /\ machine.steps \in Nat /\ SetupEnd \in Nat /\ log \in Seq(Lines)
      /\ Cardinality(ExecutedOf(log)) \in Nat
  BY LayoutFacts, ExecutedIsFinite DEF SpikeTypeOK, Machines
<1>4. InProgram(machine, log)
  BY <1>1, <1>3, FirstSetupIsSetup DEF BudgetInv, Budgeted, InBoot
<1>5. ~ (machine'.steps < SetupEnd)
  BY <1>2, <1>3, <1>4 DEF InProgram
<1>6. ~ InFirstSetup(machine', log')
  BY <1>5 DEF InFirstSetup
<1>7. OwnRun(machine, log)
  BY <1>1 DEF OwnInv
<1>8. IsAt(machine', OwnTrace(log)) <=> IsAt(machine, OwnTrace(log))
  BY <1>2 DEF IsAt
<1>9. OwnRun(machine', log')
  BY <1>1, <1>2, <1>5, <1>6, <1>7, <1>8 DEF OwnRun
<1>10. QED BY <1>1, <1>9, OwnOn

(* A line that is no commit of the program.                                *)
LEMMA OtherLineOwn ==
  ASSUME SpikeTypeOK, OwnInv, Spike!WritesOther
  PROVE  OwnInv'
<1>1. PICK l \in OtherLines : log' = Append(log, l)
  BY DEF Spike!WritesOther
<1>2. stage = "run" /\ UNCHANGED <<request, stage, machine>>
        /\ log \in Seq(Lines) /\ l \in Lines
  BY SpikeAssumption DEF Spike!WritesOther, SpikeTypeOK
<1>3. ~ (Accepts(l, PROGRAM_BASE, Spike!program_end) /\ ~ Malformed(l))
  BY <1>2, SpikeAssumption DEF Accepts, Malformed
<1>4. ExecutedOf(log') = ExecutedOf(log) /\ (HasLeft(log) => HasLeft(log'))
  BY <1>1, <1>2, <1>3, AppendLine
<1>5. OwnRun(machine, log)
  BY <1>2 DEF OwnInv
<1>6. InCommon(OwnTrace(log')) /\ Contiguous(log') =>
        /\ Replays(OwnTrace(log'))
        /\ SetupEnd <= machine'.steps /\ ~ HasLeft(log') => IsAt(machine', OwnTrace(log'))
  <2>1. InCommon(OwnTrace(log)) /\ Contiguous(log) =>
          /\ Replays(OwnTrace(log))
          /\ SetupEnd <= machine'.steps /\ ~ HasLeft(log') => IsAt(machine', OwnTrace(log))
    BY <1>2, <1>4, <1>5 DEF OwnRun
  <2>2. QED BY <1>1, <1>2, <1>3, <2>1, LineOfAnother
<1>7. OwnRun(machine', log')
  BY <1>2, <1>4, <1>5, <1>6 DEF OwnRun, InFirstSetup
<1>8. QED BY <1>2, <1>7, OwnOn

(* The trace recovered from the log is the one the log tells of.           *)
LEMMA ParseOwn ==
  ASSUME SpikeTypeOK, OwnInv, Spike!Parse
  PROVE  OwnInv'
<1> DEFINE expected == load_expected_trace(Spike!ExpectedTrace)
           parsed == parse_log(log, PROGRAM_BASE, Spike!program_end, expected)
           t == parsed.commits
           s == CommitsIn(log)
           final == Spike!_derive_final_pc(t)
           result_ == Passed(final, RegistersAfter(request.initial_int_regs, t), t)
<1>1. spike_result' = IF expected.error \/ parsed.error THEN Failure ELSE result_
  BY SpikeParsers, SpikeContract, SpikeInstructions, Zenon DEF Spike!Parse
<1>2. stage = "parse" /\ stage' = "done" /\ UNCHANGED <<request, log>> /\ log \in Seq(Lines)
  BY DEF Spike!Parse, SpikeTypeOK
<1>3. SUFFICES ASSUME spike_result'.status = "PASS", InCommon(Normalized)', Contiguous(log)'
               PROVE  Replays(Normalized)' /\ Normalized' # <<>>
  BY <1>2 DEF OwnInv
<1>4. ~ parsed.error /\ spike_result' = result_
  <2> HIDE DEF parsed, expected, result_
  <2>1. Failure.status # "PASS"
    BY DEF Failure
  <2>2. QED BY <1>1, <1>3, <2>1
<1>5. t = [i \in DOMAIN s |-> CommitOf(s[i])] /\ Len(t) \in Nat \ {0} /\ t \in Seq(ISSCommit)
  <2> HIDE DEF expected
  <2>1. t = [i \in DOMAIN s |-> CommitOf(s[i])]
    BY <1>2, <1>4, ParsedIs
  <2>2. Len(t) \in Nat \ {0} /\ t \in Seq(ISSCommit)
    BY <1>2, <1>4, ParsedCommits
  <2>3. QED BY <2>1, <2>2
<1> HIDE DEF t, final
<1>6. spike_result'.trace = t
  <2>1. result_ = Failure \/ result_.trace = t
    BY DEF Passed
  <2> HIDE DEF result_
  <2>2. Failure.status # "PASS"
    BY DEF Failure
  <2>3. QED BY <1>3, <1>4, <2>1, <2>2
<1>7. Normalized' = OwnTrace(log)
  <2>1. Normalized' = normalize_spike_trace(t)
    BY <1>6 DEF Normalized, normalize_spike_trace, normalize_spike_commit, normalize_spike_pc
  <2>2. DOMAIN t = DOMAIN s /\ \A i \in DOMAIN s : t[i] = CommitOf(s[i])
    BY <1>5
  <2> HIDE DEF s
  <2>3. normalize_spike_trace(t) = [i \in DOMAIN s |-> normalize_spike_commit(CommitOf(s[i]))]
    BY <2>2 DEF normalize_spike_trace
  <2>4. QED BY <2>1, <2>3 DEF OwnTrace, s
<1>8. OwnTrace(log) # <<>>
  <2>1. DOMAIN t = 1 .. Len(t) /\ 1 \in DOMAIN t
    BY <1>5
  <2>2. DOMAIN OwnTrace(log) = DOMAIN t
    <3> HIDE DEF s
    <3>1. QED BY <1>5 DEF OwnTrace, s
  <2>3. QED BY <2>1, <2>2
<1>9. /\ \A j : /\ NextPc(Normalized, j)' = NextPc(OwnTrace(log), j)
                /\ \A a : MemoryAfter(Normalized, j, a)' = MemoryAfter(OwnTrace(log), j, a)
  <2>1. \A j : NextPc(Normalized, j)' = NextPc(OwnTrace(log), j)
    BY <1>2, <1>7 DEF NextPc, Instruction, RegisterBefore
  <2>2. \A j, a : MemoryAfter(Normalized, j, a)' = MemoryAfter(OwnTrace(log), j, a)
    BY <1>2, <1>7 DEF MemoryAfter, Stores, DataAddress, Instruction, RegisterBefore
  <2>3. QED BY <2>1, <2>2
<1>10. Replays(Normalized)' = Replays(OwnTrace(log))
  BY <1>2, <1>7, <1>9 DEF Replays, Tells, Instruction, RegisterBefore, DataAddress
<1>11. InCommon(OwnTrace(log))
  <2>1. InCommon(Normalized)' = InCommon(OwnTrace(log))
    BY <1>2, <1>7 DEF InCommon, DataApart, ReadsBootRegister, Instruction, DataAddress,
                      RegisterBefore
  <2>2. QED BY <1>3, <2>1
<1>12. Contiguous(log)
  <2>1. Spike!program_end' = Spike!program_end
    BY <1>2, SameRequest
  <2>2. Contiguous(log)' = Contiguous(log)
    BY <1>2, <2>1 DEF Contiguous, InsideOf
  <2>3. QED BY <1>3, <2>2
<1>13. Replays(OwnTrace(log))
  BY <1>2, <1>11, <1>12 DEF OwnInv, OwnRun
<1>14. QED BY <1>7, <1>8, <1>10, <1>13

(* Every step of the Spike backend.                                        *)
LEMMA OwnStep ==
  ASSUME SpikeTypeOK, SpikeTypeOK', BudgetInv, OwnInv, Spike!SpikeNext
  PROVE  OwnInv'
<1>1. CASE Spike!Validate
  BY <1>1, SpikeContract DEF Spike!Validate, OwnInv, BudgetInv, Failure
<1>2. CASE Spike!ToolFails
  BY <1>2, SpikeContract DEF Spike!ToolFails, OwnInv, Failure
<1>3. CASE Spike!Build
  BY <1>3, BuildOwn
<1>4. CASE Spike!Boot
  BY <1>4, BootOwn
<1>5. CASE Spike!RunSetup \/ Spike!RunInstruction
  BY <1>5, InstructionOwn
<1>6. CASE Spike!Trap
  BY <1>6, TrapOwn
<1>7. CASE Spike!WritesOther
  BY <1>7, OtherLineOwn
<1>8. CASE Spike!SpikeExits
  <2>1. stage = "run" /\ stage' = "parse" /\ UNCHANGED <<request, machine, log>>
    BY <1>8 DEF Spike!SpikeExits
  <2>2. OwnRun(machine, log)
    BY <2>1 DEF OwnInv
  <2>3. OwnRun(machine', log')
    BY <2>1, <2>2
  <2>4. QED BY <2>1, <2>3, OwnOn
<1>9. CASE Spike!Parse
  BY <1>9, ParseOwn
<1>10. QED BY <1>1, <1>2, <1>3, <1>4, <1>5, <1>6, <1>7, <1>8, <1>9 DEF Spike!SpikeNext

(* What is told of the recovered trace stays.                              *)
LEMMA SameNormalized ==
  ASSUME UNCHANGED <<request, spike_vars>>
  PROVE  /\ Normalized' = Normalized
         /\ InCommon(Normalized)' = InCommon(Normalized)
         /\ Contiguous(log)' = Contiguous(log)
         /\ Replays(Normalized)' = Replays(Normalized)
<1>1. UNCHANGED <<request, log, spike_result>>
  BY DEF spike_vars
<1>2. Normalized' = Normalized
  BY <1>1 DEF Normalized, normalize_spike_trace, normalize_spike_commit, normalize_spike_pc
<1>3. /\ \A j : /\ NextPc(Normalized, j)' = NextPc(Normalized, j)
                /\ \A a : MemoryAfter(Normalized, j, a)' = MemoryAfter(Normalized, j, a)
  <2>1. \A j : NextPc(Normalized, j)' = NextPc(Normalized, j)
    BY <1>1, <1>2 DEF NextPc, Instruction, RegisterBefore
  <2>2. \A j, a : MemoryAfter(Normalized, j, a)' = MemoryAfter(Normalized, j, a)
    BY <1>1, <1>2 DEF MemoryAfter, Stores, DataAddress, Instruction, RegisterBefore
  <2>3. QED BY <2>1, <2>2
<1>4. Replays(Normalized)' = Replays(Normalized)
  BY <1>1, <1>2, <1>3 DEF Replays, Tells, Instruction, RegisterBefore, DataAddress
<1>5. InCommon(Normalized)' = InCommon(Normalized)
  BY <1>1, <1>2 DEF InCommon, DataApart, ReadsBootRegister, Instruction, DataAddress,
                    RegisterBefore
<1>6. Contiguous(log)' = Contiguous(log)
  <2>1. Spike!program_end' = Spike!program_end
    BY <1>1, SameRequest
  <2>2. QED BY <1>1, <2>1 DEF Contiguous, InsideOf
<1>7. QED BY <1>2, <1>4, <1>5, <1>6

(* And every step of the others.                                           *)
LEMMA OwnStutter ==
  ASSUME OwnInv, UNCHANGED <<request, spike_vars>>
  PROVE  OwnInv'
<1>1. UNCHANGED <<request, stage, machine, log, spike_result>>
  BY DEF spike_vars
<1>2. OwnRun(machine, log)' = OwnRun(machine, log)
  BY <1>1, SameOwn
<1>3. QED BY <1>1, <1>2, SameNormalized DEF OwnInv

(* Any step of the comparison.                                             *)
LEMMA OwnKept ==
  ASSUME ComparisonInv, ComparisonInv', BudgetInv, OwnInv, [DifferentialNext]_differential_vars
  PROVE  OwnInv'
<1>1. SpikeTypeOK /\ SpikeTypeOK'
  BY DEF ComparisonInv
<1>2. CASE RunSpike
  BY <1>1, <1>2, OwnStep DEF RunSpike
<1>3. CASE ~ RunSpike
  BY <1>3, SpikeOnly, OwnStutter
<1>4. QED BY <1>2, <1>3

-----------------------------------------------------------------------------
(* The core on the trace of Spike.                                         *)

(* What the testbench writes for a commit.                                 *)
DutLine(c) == Line("dut_commit", 0, c.pc, c.instruction, c.rd, c.value)

(* No two words of the data memory that a trace uses share an entry.       *)
OwnEntries(t) == \A i, j \in DOMAIN t : ~ SharesAWord(t, i, j)

(* The core is where the first n commits of a trace leave it; of its data  *)
(* memory the words that the trace uses tell.                              *)
CoreIsAt(regs_, mem_, pc_, t, n) ==
  /\ n \in 0 .. Len(t)
  /\ regs_ = [r \in Registers |-> RegisterAfter(request.initial_int_regs, t, n, r)]
  /\ DOMAIN mem_ = 0 .. DATA_WORDS - 1
  /\ \A j \in DOMAIN t : Instruction(t, j).kind \in {"lw", "sw"} =>
       mem_[DataAddress(t, j) % DATA_WORDS] = MemoryAfter(t, n, DataAddress(t, j))
  /\ n < Len(t) => pc_ = NextPc(t, n)

-----------------------------------------------------------------------------
(* The helpers of the core are those of the simulators.                    *)
LEMMA CpuHelpers ==
  /\ \A x : Cpu!_signed32(x) = _signed32(x)
  /\ Cpu!None = None
  /\ \A kind, core, p, w, rd, value : Cpu!Line(kind, core, p, w, rd, value)
                                        = Line(kind, core, p, w, rd, value)
<1>1. \A x : Cpu!_signed32(x) = _signed32(x)
  BY CpuContract DEF Cpu!_signed32, _signed32
<1>2. Cpu!None = None
  BY DEF Cpu!None, None
<1>3. QED BY <1>1, <1>2 DEF Cpu!Line, Line

(* What the core fetches is the instruction of the next commit, and never  *)
(* the zero word that would hold it.                                       *)
LEMMA CoreFetches ==
  ASSUME request \in ISSRequest, Loaded, NEW t, Replays(t), InCommon(t),
         NEW n \in 0 .. Len(t) - 1, core_pc = NextPc(t, n)
  PROVE  /\ core_pc = t[n + 1].pc /\ core_pc \in Word /\ t[n + 1] \in ISSCommit
         /\ Cpu!instruction = t[n + 1].instruction /\ Cpu!instruction # 0
         /\ Cpu!instruction \in Word /\ Cpu!decoded = Instruction(t, n + 1)
<1> DEFINE c == t[n + 1]
           q == c.pc \div 4
           words == request.program_word_count
<1>1. t \in Seq(ISSCommit) /\ n + 1 \in DOMAIN t /\ n \in Nat
  BY DEF Replays
<1>2. c \in ISSCommit /\ c.pc \in Word /\ c.instruction \in Word
  BY <1>1 DEF ISSCommit
<1>3. (n + 1) - 1 = n
  BY <1>1
<1>4. /\ c.pc = NextPc(t, n) /\ q < words /\ c.instruction = request.program[q]
  BY <1>1, <1>3 DEF Replays, Tells
<1>5. words \in Nat /\ words <= PROGRAM_WORD_CAPACITY /\ PROGRAM_WORD_CAPACITY \in Nat \ {0}
  BY ContractAssumption DEF ISSRequest
<1>6. c.pc \in Nat
  BY <1>2, WordFacts
<1>7. q \in Nat /\ q % PROGRAM_WORD_CAPACITY = q /\ q \in 0 .. words - 1
  <2>1. q \in Nat
    BY <1>6
  <2> HIDE DEF q, words
  <2>2. QED BY <1>4, <1>5, <2>1
<1>8. Cpu!instruction = c.instruction
  <2>1. core_pc = c.pc
    BY <1>4
  <2> HIDE DEF c
  <2>2. QED BY <1>4, <1>7, <2>1 DEF Cpu!instruction, Loaded
<1>9. Cpu!instruction # 0
  <2>1. Decode[c.instruction].kind \in CommonKinds
    BY <1>1 DEF InCommon, Instruction
  <2>2. CommonKinds \subseteq Spike!Accepted
    <3>1. CommonKinds \subseteq PlainKinds
      BY DEF CommonKinds, PlainKinds, Cpu!Branches
    <3>2. QED BY <3>1, PlainKindsFacts
  <2>3. QED BY <1>8, <2>1, <2>2, ZeroIsIllegal
<1>10. Cpu!decoded = Instruction(t, n + 1)
  BY <1>8 DEF Cpu!decoded, Instruction
<1>11. QED BY <1>2, <1>4, <1>8, <1>9, <1>10

(* It reads what the commits before have left.                             *)
LEMMA CoreReads ==
  ASSUME request \in ISSRequest, Loaded, NEW t, Replays(t), InCommon(t),
         NEW n \in 0 .. Len(t) - 1, CoreIsAt(int_regs, data_mem, core_pc, t, n)
  PROVE  LET i == Instruction(t, n + 1)
             x == RegisterAfter(request.initial_int_regs, t, n, i.rs1)
             y == RegisterAfter(request.initial_int_regs, t, n, i.rs2)
         IN  /\ i.rd \in Registers /\ i.rs1 \in Registers /\ i.rs2 \in Registers /\ i.imm \in Int
             /\ x \in Word /\ y \in Word
             /\ Cpu!reg1_data = x /\ Cpu!reg2_data = y
             /\ DataAddress(t, n + 1) = _u32(x + i.imm)
             /\ Cpu!branch_taken <=> BranchTaken(i.kind, x, y)
             /\ Cpu!mem_index = DataAddress(t, n + 1) % DATA_WORDS
<1> DEFINE i == Instruction(t, n + 1)
           initial == request.initial_int_regs
           x == RegisterAfter(initial, t, n, i.rs1)
           y == RegisterAfter(initial, t, n, i.rs2)
<1>1. n < Len(t) /\ n \in Nat /\ n \in 0 .. Len(t) /\ (n + 1) - 1 = n /\ t \in Seq(ISSCommit)
  BY DEF Replays
<1>2. core_pc = NextPc(t, n)
  BY <1>1 DEF CoreIsAt
<1>3. /\ Cpu!instruction \in Word /\ Cpu!decoded = i /\ i = Decode[Cpu!instruction]
  BY <1>2, CoreFetches DEF Cpu!decoded
<1>4. i.rd \in Registers /\ i.rs1 \in Registers /\ i.rs2 \in Registers /\ i.imm \in Int
  BY <1>3, DecodeFacts
<1>5. x \in Word /\ y \in Word
  BY <1>1, <1>4, RegisterAfterIsWord
<1>6. \A r \in Registers : Cpu!RegisterFile(r) = RegisterAfter(initial, t, n, r)
  BY DEF Cpu!RegisterFile, CoreIsAt, RegisterAfter
<1>7. Cpu!reg1_data = x /\ Cpu!reg2_data = y
  BY <1>3, <1>4, <1>6 DEF Cpu!reg1_data, Cpu!reg2_data
<1> HIDE DEF i
<1>8. DataAddress(t, n + 1) = _u32(x + i.imm)
  BY <1>1 DEF DataAddress, RegisterBefore, i
<1> HIDE DEF x, y
<1>9. Cpu!branch_taken <=> BranchTaken(i.kind, x, y)
  <2> DEFINE k == i.kind
             s == _signed32(x)
             u == _signed32(y)
  <2>1. Cpu!branch_taken =
          CASE k = "beq" -> x = y
            [] k = "bne" -> x # y
            [] k = "blt" -> s < u
            [] k = "bge" -> s >= u
            [] OTHER -> FALSE
    BY <1>3, <1>7, CpuHelpers, Zenon DEF Cpu!branch_taken
  <2>2. BranchTaken(k, x, y) <=> \/ k = "beq" /\ x = y
                                 \/ k = "bne" /\ x # y
                                 \/ k = "blt" /\ s < u
                                 \/ k = "bge" /\ s >= u
    BY DEF BranchTaken
  <2> HIDE DEF k, s, u
  <2>3. QED BY <2>1, <2>2 DEF k
<1>10. Cpu!mem_index = DataAddress(t, n + 1) % DATA_WORDS
  <2>1. Cpu!alu("add", x, i.imm) = _u32(x + i.imm)
    BY CpuContract DEF Cpu!alu, RTypes, _r_type
  <2>2. QED BY <1>3, <1>7, <1>8, <2>1 DEF Cpu!mem_index
<1>11. QED BY <1>4, <1>5, <1>7, <1>8, <1>9, <1>10 DEF i, x, y

(* The eight operations are no loads, and their own.                       *)
LEMMA OperationFacts ==
  ASSUME NEW k \in RTypes
  PROVE  k \notin LoadKinds /\ k \notin DOMAIN OtherOps
<1>1. k \notin LoadKinds
  BY DEF RTypes, LoadKinds
<1>2. k \notin DOMAIN OtherOps
  BY DEF RTypes, OtherOps
<1>3. QED BY <1>1, <1>2

(* Of the common instructions, all but branches and stores write a         *)
(* register, and a store is a store of a word.                             *)
LEMMA CommonKindsFacts ==
  ASSUME NEW k \in CommonKinds
  PROVE  /\ k \in LoadKinds \cup OpKinds <=> k \notin Cpu!Branches \cup {"sw"}
         /\ k \in StoreKinds <=> k = "sw"
<1>1. CASE k \in RTypes
  <2>1. k \notin Cpu!Branches \cup {"sw"} /\ k \notin StoreKinds
    BY <1>1 DEF RTypes, Cpu!Branches, StoreKinds
  <2>2. k \in OpKinds
    BY <1>1 DEF OpKinds
  <2>3. QED BY <2>1, <2>2
<1>2. CASE k = "lw"
  BY <1>2 DEF LoadKinds, StoreKinds, Cpu!Branches
<1>3. CASE k \in Cpu!Branches \cup {"sw"}
  <2>1. k \notin LoadKinds /\ (k \in StoreKinds <=> k = "sw")
    BY <1>3 DEF LoadKinds, StoreKinds, Cpu!Branches
  <2>2. k \notin RTypes \cup {"srl", "sltu"}
    BY <1>3 DEF RTypes, Cpu!Branches
  <2>3. k \notin DOMAIN OtherOps
    BY <1>3 DEF OtherOps, Cpu!Branches
  <2>4. QED BY <1>3, <2>1, <2>2, <2>3 DEF OpKinds
<1>4. QED BY <1>1, <1>2, <1>3 DEF CommonKinds

(* What the core writes back is what the commit reports.                   *)
LEMMA CoreWrites ==
  ASSUME request \in ISSRequest, Loaded, NEW t, Replays(t), InCommon(t),
         NEW n \in 0 .. Len(t) - 1, CoreIsAt(int_regs, data_mem, core_pc, t, n)
  PROVE  /\ Cpu!registers_after(Cpu!NoInit)
              = [r \in Registers |-> RegisterAfter(request.initial_int_regs, t, n + 1, r)]
         /\ Cpu!TraceLine = DutLine(t[n + 1])
<1> DEFINE i == Instruction(t, n + 1)
           c == t[n + 1]
           initial == request.initial_int_regs
           x == RegisterAfter(initial, t, n, i.rs1)
           y == RegisterAfter(initial, t, n, i.rs2)
           a == DataAddress(t, n + 1)
           written == Written(i, x, y, MemoryAfter(t, n, a))
           after == [r \in Registers |-> RegisterAfter(initial, t, n + 1, r)]
           writes == i.kind \notin Cpu!Branches \cup {"sw"}
<1>1. /\ n < Len(t) /\ n \in Nat /\ (n + 1) - 1 = n /\ t \in Seq(ISSCommit)
      /\ n + 1 \in DOMAIN t
  BY DEF Replays
<1>2. core_pc = NextPc(t, n)
  BY <1>1 DEF CoreIsAt
<1>3. /\ core_pc = c.pc /\ Cpu!instruction = c.instruction /\ Cpu!decoded = i
      /\ c \in ISSCommit
  BY <1>2, CoreFetches
<1>4. /\ i.rd \in Registers /\ x \in Word /\ y \in Word
      /\ Cpu!reg1_data = x /\ Cpu!reg2_data = y
      /\ Cpu!mem_index = a % DATA_WORDS
  BY CoreReads
<1>5. i.kind \in CommonKinds
  BY <1>1 DEF InCommon
<1>6. int_regs = [r \in Registers |-> RegisterAfter(initial, t, n, r)]
  BY DEF CoreIsAt
<1>7. i.kind = "lw" => data_mem[a % DATA_WORDS] = MemoryAfter(t, n, a)
  BY <1>1 DEF CoreIsAt
<1>8. c = IF WritesNothing(i) THEN CommitOnly(c.pc, c.instruction)
          ELSE Commit(c.pc, c.instruction, i.rd, written)
  BY <1>1 DEF Replays, Tells, RegisterBefore
<1>9. \A r : RegisterAfter(initial, t, n + 1, r) =
               IF r # 0 /\ c.rd_valid /\ c.rd = r THEN c.value ELSE RegisterAfter(initial, t, n, r)
  BY <1>1, TraceStep
<1> HIDE DEF i, c, x, y, a, initial
<1>10. Cpu!reg_write <=> writes
  <2>1. Cpu!reg_write <=> i.kind \in LoadKinds \cup OpKinds
    BY <1>3, CpuContract DEF Cpu!reg_write, Cpu!mem_read
  <2> HIDE DEF writes
  <2>2. QED BY <1>5, <2>1, CommonKindsFacts DEF writes
<1>11. writes => Cpu!writeback_data = written
  <2>1. CASE i.kind = "lw"
    <3>1. Cpu!mem_read
      BY <1>3, <2>1, CpuContract DEF Cpu!mem_read, LoadKinds
    <3>2. QED BY <1>3, <1>4, <1>7, <2>1, <3>1, WrittenValues DEF Cpu!writeback_data
  <2>2. CASE i.kind \in RTypes
    <3>1. ~ Cpu!mem_read /\ Cpu!ALU_op(i.kind) = i.kind
      BY <1>3, <2>2, CpuContract, OperationFacts DEF Cpu!mem_read, Cpu!ALU_op
    <3>2. Cpu!writeback_data = Cpu!alu(i.kind, x, y)
      BY <1>3, <1>4, <3>1 DEF Cpu!writeback_data
    <3>3. Cpu!alu(i.kind, x, y) = _u32(_r_type(i.kind, x, y))
      BY <2>2, CpuContract DEF Cpu!alu
    <3>4. QED BY <2>2, <3>2, <3>3, WrittenValues
  <2>3. QED BY <1>5, <2>1, <2>2 DEF CommonKinds
<1> HIDE DEF written
<1>12. Cpu!WritePort(Cpu!NoInit) = [enable |-> Cpu!reg_write, addr |-> i.rd,
                                    data |-> Cpu!writeback_data]
  BY <1>3 DEF Cpu!WritePort, Cpu!NoInit
<1>13. Cpu!registers_after(Cpu!NoInit) =
         IF writes /\ i.rd # 0 THEN [int_regs EXCEPT ![i.rd] = written] ELSE int_regs
  <2> DEFINE port == Cpu!WritePort(Cpu!NoInit)
  <2>1. port.enable = Cpu!reg_write /\ port.addr = i.rd /\ port.data = Cpu!writeback_data
    BY <1>12
  <2>2. Cpu!registers_after(Cpu!NoInit) =
          IF port.enable /\ port.addr # 0 THEN [int_regs EXCEPT ![port.addr] = port.data]
          ELSE int_regs
    BY DEF Cpu!registers_after
  <2> HIDE DEF port, writes
  <2>3. CASE writes /\ i.rd # 0
    <3>1. Cpu!reg_write /\ Cpu!writeback_data = written
      BY <1>10, <1>11, <2>3
    <3>2. QED BY <2>1, <2>2, <2>3, <3>1, Zenon
  <2>4. CASE ~ (writes /\ i.rd # 0)
    <3>1. ~ (Cpu!reg_write /\ i.rd # 0)
      BY <1>10, <2>4
    <3>2. QED BY <2>1, <2>2, <2>4, <3>1, Zenon
  <2>5. QED BY <2>3, <2>4
<1>14. WritesNothing(i) <=> ~ (writes /\ i.rd # 0)
  BY DEF WritesNothing
<1> HIDE DEF writes
<1>15. ASSUME WritesNothing(i)
       PROVE  Cpu!registers_after(Cpu!NoInit) = after /\ Cpu!TraceLine = DutLine(c)
  <2>1. c = CommitOnly(c.pc, c.instruction)
    BY <1>8, <1>15
  <2>2. c.rd_valid = FALSE /\ c.rd = None /\ c.value = None
    BY <2>1 DEF CommitOnly
  <2>3. after = int_regs
    <3>1. \A r : RegisterAfter(initial, t, n + 1, r) = RegisterAfter(initial, t, n, r)
      BY <1>9, <2>2
    <3>2. QED BY <1>6, <3>1
  <2>4. Cpu!TraceLine = Line("dut_commit", 0, c.pc, c.instruction, None, None)
    BY <1>3, <1>10, <1>14, <1>15, CpuHelpers DEF Cpu!TraceLine
  <2>5. QED BY <1>13, <1>14, <1>15, <2>2, <2>3, <2>4 DEF DutLine
<1>16. ASSUME ~ WritesNothing(i)
       PROVE  Cpu!registers_after(Cpu!NoInit) = after /\ Cpu!TraceLine = DutLine(c)
  <2>1. c = Commit(c.pc, c.instruction, i.rd, written)
    BY <1>8, <1>16
  <2>2. c.rd_valid = TRUE /\ c.rd = i.rd /\ c.value = written
    BY <2>1 DEF Commit
  <2>3. i.rd # 0 /\ writes
    BY <1>14, <1>16
  <2>4. Cpu!registers_after(Cpu!NoInit) = [int_regs EXCEPT ![i.rd] = written]
    BY <1>13, <2>3
  <2>5. [int_regs EXCEPT ![i.rd] = written] = after
    BY <1>4, <1>6, <1>9, <2>2, <2>3
  <2>6. after[i.rd] = written
    BY <1>4, <1>9, <2>2, <2>3
  <2> HIDE DEF after
  <2>7. Cpu!TraceLine = Line("dut_commit", 0, c.pc, c.instruction, i.rd, written)
    BY <1>3, <1>10, <2>3, <2>4, <2>5, <2>6, CpuHelpers DEF Cpu!TraceLine
  <2>8. QED BY <2>2, <2>4, <2>5, <2>7 DEF DutLine
<1>17. QED BY <1>15, <1>16 DEF c, initial

(* An edge with execution enabled takes the core over one commit more.     *)
LEMMA CoreFollows ==
  ASSUME request \in ISSRequest, Loaded, NEW t, Replays(t), InCommon(t), OwnEntries(t),
         NEW n \in 0 .. Len(t) - 1, CoreIsAt(int_regs, data_mem, core_pc, t, n),
         Cpu!Edge(Cpu!NoInit, TRUE)
  PROVE  CoreIsAt(int_regs', data_mem', core_pc', t, n + 1)
<1> DEFINE i == Instruction(t, n + 1)
           c == t[n + 1]
           initial == request.initial_int_regs
           x == RegisterAfter(initial, t, n, i.rs1)
           y == RegisterAfter(initial, t, n, i.rs2)
           A(j) == DataAddress(t, j)
           W(j) == A(j) % DATA_WORDS
<1>1. /\ n < Len(t) /\ n \in Nat /\ (n + 1) - 1 = n /\ t \in Seq(ISSCommit)
      /\ n + 1 \in DOMAIN t /\ n + 1 \in 0 .. Len(t) /\ DOMAIN t = 1 .. Len(t)
  BY DEF Replays
<1>2. core_pc = NextPc(t, n)
  BY <1>1 DEF CoreIsAt
<1>3. /\ core_pc = c.pc /\ c.pc \in Word /\ Cpu!instruction # 0 /\ Cpu!decoded = i
  BY <1>2, CoreFetches
<1>4. /\ Cpu!reg2_data = y /\ i.imm \in Int /\ Cpu!mem_index = W(n + 1)
      /\ Cpu!branch_taken <=> BranchTaken(i.kind, x, y)
      /\ A(n + 1) = _u32(x + i.imm) /\ x \in Word
  BY CoreReads
<1>5. int_regs' = [r \in Registers |-> RegisterAfter(initial, t, n + 1, r)]
  BY CoreWrites DEF Cpu!Edge
<1>6. /\ data_mem' = IF i.kind = "sw" THEN [data_mem EXCEPT ![W(n + 1)] = y] ELSE data_mem
      /\ core_pc' = Cpu!next_pc
  <2>1. i.kind \in CommonKinds
    BY <1>1 DEF InCommon
  <2>2. Cpu!mem_write <=> i.kind = "sw"
    BY <1>3, <2>1, CpuContract, CommonKindsFacts DEF Cpu!mem_write
  <2>3. QED BY <1>3, <1>4, <2>2 DEF Cpu!Edge
<1>7. W(n + 1) \in 0 .. DATA_WORDS - 1 /\ DOMAIN data_mem = 0 .. DATA_WORDS - 1
  <2>1. A(n + 1) \in Int /\ DATA_WORDS \in Nat \ {0}
    <3>1. x + i.imm \in Int
      BY <1>4, WordFacts
    <3>2. QED BY <1>4, <3>1, WordFacts, CpuAssumption
  <2> HIDE DEF A
  <2>2. QED BY <2>1 DEF CoreIsAt
<1>8. \A a : MemoryAfter(t, n + 1, a) = IF i.kind = "sw" /\ A(n + 1) = a THEN y
                                        ELSE MemoryAfter(t, n, a)
  BY <1>1, TraceStep
<1>9. \A j \in DOMAIN t : Instruction(t, j).kind \in {"lw", "sw"} =>
        data_mem'[W(j)] = MemoryAfter(t, n + 1, A(j))
  <2> SUFFICES ASSUME NEW j \in DOMAIN t, Instruction(t, j).kind \in {"lw", "sw"}
               PROVE  data_mem'[W(j)] = MemoryAfter(t, n + 1, A(j))
    OBVIOUS
  <2>1. data_mem[W(j)] = MemoryAfter(t, n, A(j))
    BY DEF CoreIsAt
  <2>2. i.kind = "sw" /\ A(j) # A(n + 1) => W(j) # W(n + 1)
    BY <1>1 DEF OwnEntries, SharesAWord
  <2>3. A(j) = A(n + 1) => W(j) = W(n + 1)
    OBVIOUS
  <2> HIDE DEF A, W, i, y
  <2>4. QED BY <1>6, <1>7, <1>8, <2>1, <2>2, <2>3
<1>10. ASSUME n + 1 < Len(t)
       PROVE  core_pc' = NextPc(t, n + 1)
  <2>1. n + 2 \in DOMAIN t /\ n + 2 \in 1 .. Len(t) /\ (n + 2) - 1 = n + 1 /\ n + 1 # 0
    BY <1>1, <1>10
  <2>2. t[n + 2].pc = NextPc(t, n + 1) /\ t[n + 2].pc \in Word
    BY <1>1, <2>1 DEF Replays, Tells, ISSCommit
  <2>3. NextPc(t, n + 1) = IF BranchTaken(i.kind, x, y) THEN _u32(c.pc + i.imm) ELSE c.pc + 4
    BY <1>1, <2>1 DEF NextPc, RegisterBefore
  <2>4. Cpu!next_pc = IF BranchTaken(i.kind, x, y) THEN _u32(c.pc + i.imm) ELSE _u32(c.pc + 4)
    BY <1>3, <1>4, CpuContract DEF Cpu!next_pc
  <2> HIDE DEF i, c, x, y
  <2>5. QED BY <1>6, <2>2, <2>3, <2>4, WordFacts
<1>11. DOMAIN data_mem' = 0 .. DATA_WORDS - 1
  BY <1>6, <1>7
<1> HIDE DEF i, c, x, y
<1>12. QED BY <1>1, <1>5, <1>9, <1>10, <1>11 DEF CoreIsAt, initial

(* What the testbench has written after n commits.                         *)
DutLines(t, n) == [j \in 1 .. n |-> DutLine(t[j])]

(* The testbench and the core: the program is loaded, and from the moment  *)
(* execution is enabled the core is where the commits of Spike leave it.   *)
DutInv ==
  /\ bench # "off" => verdict.done /\ Loaded
  /\ bench \in {"off", "idle", "init"} => edges = 0 /\ dut_trace = <<>>
  /\ bench = "run" /\ DutComparable =>
       /\ CoreIsAt(int_regs, data_mem, core_pc, Normalized, edges)
       /\ dut_trace = DutLines(Normalized, edges)
  /\ bench = "done" /\ DutComparable =>
       \E l : /\ l.kind = "final_pc"
              /\ dut_trace = Append(DutLines(Normalized, Len(Normalized)), l)

(* What it takes to compare the core with Spike is told of Spike's trace   *)
(* and log alone.                                                          *)
LEMMA ComparableFacts ==
  ASSUME SpikeTypeOK, DutComparable
  PROVE  InCommon(Normalized) /\ OwnEntries(Normalized) /\ Contiguous(log)
<1> DEFINE t == Normalized
<1>1. /\ \A j \in DOMAIN t : /\ Instruction(t, j).kind \in CommonKinds
                             /\ DataApart(t, j) /\ ~ ReadsBootRegister(t, j)
                             /\ \A i \in 1 .. j - 1 : ~ SharesAWord(t, i, j)
      /\ \A i, k \in Inside : i .. k \subseteq Inside
  BY DEF DutComparable, CommonKinds
<1>2. Contiguous(log)
  BY <1>1 DEF Contiguous, InsideOf, Inside
<1>3. DOMAIN t \subseteq Nat \ {0}
  <2>1. DOMAIN t = DOMAIN spike_result.trace
    BY DEF Normalized, normalize_spike_trace
  <2>2. spike_result.trace \in Seq(ISSCommit)
    <3>1. CASE spike_result = Failure
      BY <3>1 DEF Failure
    <3>2. CASE spike_result # Failure
      <4>1. spike_result \in ISSResult
        BY DEF SpikeTypeOK
      <4>2. spike_result \in [status : {"PASS"}, final_pc : Nat, final_int_regs : RegisterFiles,
                              executed_count : Nat, trace : Seq(ISSCommit)]
        BY <3>2, <4>1, Zenon DEF ISSResult
      <4>3. QED BY <4>2
    <3>3. QED BY <3>1, <3>2
  <2>3. QED BY <2>1, <2>2
<1> HIDE DEF t
<1>4. OwnEntries(t)
  <2> SUFFICES ASSUME NEW i \in DOMAIN t, NEW j \in DOMAIN t PROVE ~ SharesAWord(t, i, j)
    BY DEF OwnEntries
  <2>1. SharesAWord(t, i, j) <=> SharesAWord(t, j, i)
    BY DEF SharesAWord
  <2>2. ~ SharesAWord(t, i, i)
    BY DEF SharesAWord
  <2>3. i = j \/ i \in 1 .. j - 1 \/ j \in 1 .. i - 1
    BY <1>3
  <2>4. QED BY <1>1, <2>1, <2>2, <2>3
<1>5. QED BY <1>1, <1>2, <1>4 DEF InCommon, t

(* As long as the request and what Spike has left stay, so does all that   *)
(* is told of them.                                                        *)
LEMMA SameComparison ==
  ASSUME UNCHANGED <<request, spike_vars>>
  PROVE  /\ Normalized' = Normalized /\ DutComparable' = DutComparable
         /\ CoreIsAt(int_regs, data_mem, core_pc, Normalized, edges)'
              = CoreIsAt(int_regs', data_mem', core_pc', Normalized, edges')
         /\ DutLines(Normalized, edges)' = DutLines(Normalized, edges')
         /\ DutLines(Normalized, Len(Normalized))' = DutLines(Normalized, Len(Normalized))
<1> DEFINE t == Normalized
<1>1. UNCHANGED <<request, log, spike_result>> /\ t' = t
  BY SameNormalized DEF spike_vars
<1>2. Inside' = Inside
  <2>1. Spike!program_end' = Spike!program_end
    BY <1>1, SameRequest
  <2>2. QED BY <1>1, <2>1 DEF Inside
<1> HIDE DEF t
<1>3. \A j : /\ Instruction(t, j)' = Instruction(t, j)
             /\ DataAddress(t, j)' = DataAddress(t, j)
             /\ \A r : RegisterBefore(t, j, r)' = RegisterBefore(t, j, r)
  BY <1>1 DEF Instruction, DataAddress, RegisterBefore
<1>4. \A n : /\ \A r : RegisterAfter(request.initial_int_regs, t, n, r)'
                         = RegisterAfter(request.initial_int_regs, t, n, r)
             /\ \A a : MemoryAfter(t, n, a)' = MemoryAfter(t, n, a)
             /\ NextPc(t, n)' = NextPc(t, n)
  BY <1>1, <1>3 DEF MemoryAfter, Stores, NextPc
<1>5. DutComparable' = DutComparable
  <2>1. \A j : /\ DataApart(t, j)' = DataApart(t, j)
               /\ ReadsBootRegister(t, j)' = ReadsBootRegister(t, j)
               /\ \A i : SharesAWord(t, i, j)' = SharesAWord(t, i, j)
    BY <1>1, <1>3 DEF DataApart, ReadsBootRegister, SharesAWord
  <2>2. QED BY <1>1, <1>2, <1>3, <2>1 DEF DutComparable, t
<1>6. CoreIsAt(int_regs, data_mem, core_pc, t, edges)'
        = CoreIsAt(int_regs', data_mem', core_pc', t, edges')
  BY <1>1, <1>3, <1>4 DEF CoreIsAt
<1>7. /\ DutLines(t, edges)' = DutLines(t, edges')
      /\ DutLines(t, Len(t))' = DutLines(t, Len(t))
  BY <1>1 DEF DutLines
<1>8. QED BY <1>1, <1>5, <1>6, <1>7 DEF t

(* Execution starts where no commit has gone before.                       *)
LEMMA CoreAtStart ==
  ASSUME request \in ISSRequest, Loaded, NEW t, Replays(t), InCommon(t), t # <<>>,
         Instruction(t, 1).kind # "sw",
         core_pc = 0, int_regs = request.initial_int_regs,
         ~ Cpu!mem_write => data_mem = Cpu!ZeroMemory
  PROVE  CoreIsAt(int_regs, data_mem, core_pc, t, 0)
<1> DEFINE initial == request.initial_int_regs
<1>1. t \in Seq(ISSCommit) /\ Len(t) \in Nat /\ 0 \in 0 .. Len(t) - 1 /\ 0 \in 0 .. Len(t)
  BY DEF Replays
<1>2. core_pc = NextPc(t, 0)
  BY DEF NextPc
<1>3. Cpu!decoded = Instruction(t, 0 + 1)
  BY <1>1, <1>2, CoreFetches
<1>4. data_mem = [w \in 0 .. DATA_WORDS - 1 |-> 0]
  <2>1. Instruction(t, 1).kind \in CommonKinds
    BY <1>1 DEF InCommon
  <2>2. ~ Cpu!mem_write
    BY <1>3, <2>1, CpuContract, CommonKindsFacts DEF Cpu!mem_write
  <2>3. QED BY <2>2 DEF Cpu!ZeroMemory
<1>5. initial \in [Registers -> Word] /\ initial[0] = 0
  BY DEF ISSRequest, RegisterFiles
<1>6. \A r : RegisterAfter(initial, t, 0, r) = IF r = 0 THEN 0 ELSE initial[r]
  BY DEF RegisterAfter, Writers
<1>7. int_regs = [r \in Registers |-> RegisterAfter(initial, t, 0, r)]
  BY <1>5, <1>6
<1>8. \A a : MemoryAfter(t, 0, a) = 0
  BY DEF MemoryAfter, Stores
<1>9. \A j \in DOMAIN t : DataAddress(t, j) % DATA_WORDS \in 0 .. DATA_WORDS - 1
  <2> SUFFICES ASSUME NEW j \in DOMAIN t
               PROVE  DataAddress(t, j) % DATA_WORDS \in 0 .. DATA_WORDS - 1
    OBVIOUS
  <2>1. t[j] \in ISSCommit /\ j - 1 \in 0 .. Len(t)
    BY <1>1
  <2>2. t[j].instruction \in Word
    BY <2>1 DEF ISSCommit
  <2>3. Instruction(t, j).rs1 \in Registers /\ Instruction(t, j).imm \in Int
    BY <2>2, DecodeFacts DEF Instruction
  <2>4. RegisterBefore(t, j, Instruction(t, j).rs1) \in Int
    BY <1>1, <2>1, <2>3, RegisterAfterIsWord, WordFacts DEF RegisterBefore
  <2>5. DataAddress(t, j) \in Int
    <3> DEFINE x == RegisterBefore(t, j, Instruction(t, j).rs1)
               imm == Instruction(t, j).imm
    <3>1. DataAddress(t, j) = _u32(x + imm)
      BY DEF DataAddress
    <3>2. x \in Int /\ imm \in Int
      BY <2>3, <2>4
    <3> HIDE DEF x, imm
    <3>3. x + imm \in Int
      BY <3>2
    <3>4. QED BY <3>1, <3>3, WordFacts
  <2> DEFINE a == DataAddress(t, j)
  <2>6. a \in Int /\ DATA_WORDS \in Nat \ {0}
    BY <2>5, CpuAssumption
  <2> HIDE DEF a
  <2>7. a % DATA_WORDS \in 0 .. DATA_WORDS - 1
    BY <2>6
  <2>8. QED BY <2>7 DEF a
<1>10. QED BY <1>1, <1>2, <1>4, <1>7, <1>8, <1>9 DEF CoreIsAt, initial

(* The trace of the run is one the core can follow.                        *)
LEMMA SpikeReplays ==
  ASSUME ComparisonInv, OwnInv, verdict.done, DutComparable
  PROVE  /\ Replays(Normalized) /\ Normalized # <<>> /\ InCommon(Normalized)
         /\ OwnEntries(Normalized) /\ Len(spike_result.trace) = Len(Normalized)
<1>1. SpikeTypeOK /\ stage = "done" /\ spike_result.status = "PASS"
  BY DEF ComparisonInv, DutComparable
<1>2. InCommon(Normalized) /\ OwnEntries(Normalized) /\ Contiguous(log)
  BY <1>1, ComparableFacts
<1>3. Replays(Normalized) /\ Normalized # <<>>
  BY <1>1, <1>2 DEF OwnInv
<1>4. Len(spike_result.trace) = Len(Normalized)
  <2>1. spike_result \in ISSResult /\ spike_result # Failure
    BY <1>1 DEF SpikeTypeOK, Failure
  <2>2. spike_result \in [status : {"PASS"}, final_pc : Nat, final_int_regs : RegisterFiles,
                          executed_count : Nat, trace : Seq(ISSCommit)]
    BY <2>1, Zenon DEF ISSResult
  <2>3. spike_result.trace \in Seq(ISSCommit)
    BY <2>2
  <2>4. QED BY <2>3, NormalizedTrace DEF Normalized
<1>5. QED BY <1>2, <1>3, <1>4

-----------------------------------------------------------------------------
(* Loading puts the program into the instruction memory.                   *)
LEMMA LoadDut ==
  ASSUME StartInv', DutInv, verdict.done,
         UNCHANGED <<spike_vars, verdict>>, Cpu!LoadProgram
  PROVE  DutInv'
<1>1. bench = "off" /\ bench' = "idle" /\ UNCHANGED <<request, edges, dut_trace>>
  BY DEF Cpu!LoadProgram
<1>2. Loaded'
  BY <1>1 DEF StartInv
<1>3. UNCHANGED <<verdict, spike_result>>
  BY DEF spike_vars
<1>4. QED BY <1>1, <1>2, <1>3 DEF DutInv

(* Initialisation leaves it there and commits nothing.                     *)
LEMMA InitDut ==
  ASSUME DutInv, UNCHANGED <<spike_vars, verdict>>, Cpu!IdleEdge \/ Cpu!InitRegister
  PROVE  DutInv'
<1>1. /\ bench \in {"idle", "init"} /\ bench' = "init"
      /\ UNCHANGED <<request, instr_mem, edges, dut_trace>>
  BY DEF Cpu!IdleEdge, Cpu!InitRegister, Cpu!Edge
<1>2. Loaded' = Loaded /\ UNCHANGED <<verdict, spike_result>>
  BY <1>1 DEF Loaded, spike_vars
<1>3. QED BY <1>1, <1>2 DEF DutInv

(* Execution is enabled.                                                   *)
LEMMA EnableDut ==
  ASSUME ComparisonInv, OwnInv, StartInv', DutInv, UNCHANGED <<spike_vars, verdict>>, Cpu!Enable
  PROVE  DutInv'
<1>1. /\ bench = "init" /\ bench' = "run"
      /\ UNCHANGED <<request, instr_mem, int_regs, data_mem, core_pc, edges, dut_trace>>
  BY DEF Cpu!Enable, Cpu!core
<1>2. edges = 0 /\ dut_trace = <<>> /\ verdict.done /\ Loaded
  BY <1>1 DEF DutInv
<1>3. Loaded' = Loaded /\ UNCHANGED <<verdict, spike_result>> /\ request \in ISSRequest
  BY <1>1 DEF Loaded, spike_vars, ComparisonInv, SpikeTypeOK
<1>4. /\ core_pc = 0 /\ int_regs = request.initial_int_regs
      /\ ~ Cpu!mem_write => data_mem = Cpu!ZeroMemory
  <2>1. /\ core_pc' = 0 /\ int_regs' = request'.initial_int_regs
        /\ ~ Cpu!mem_write' => data_mem' = Cpu!ZeroMemory
    BY <1>1, <1>2 DEF StartInv, StartsAsAsked, Cpu!StartsAsAsked, Cpu!ZeroMemory
  <2>2. Cpu!mem_write' = Cpu!mem_write
    BY <1>1 DEF Cpu!mem_write, Cpu!decoded, Cpu!instruction, Cpu!StoreKinds
  <2>3. QED BY <1>1, <2>1, <2>2
<1>5. ASSUME DutComparable
      PROVE  CoreIsAt(int_regs, data_mem, core_pc, Normalized, 0)
  <2>1. /\ Replays(Normalized) /\ Normalized # <<>> /\ InCommon(Normalized)
    BY <1>2, <1>5, SpikeReplays
  <2>2. Instruction(Normalized, 1).kind # "sw"
    BY <1>5 DEF DutComparable
  <2>3. QED BY <1>2, <1>3, <1>4, <2>1, <2>2, CoreAtStart
<1>6. DutLines(Normalized, 0) = <<>>
  BY DEF DutLines
<1>7. /\ DutComparable' = DutComparable
      /\ CoreIsAt(int_regs, data_mem, core_pc, Normalized, edges)'
           = CoreIsAt(int_regs, data_mem, core_pc, Normalized, 0)
      /\ DutLines(Normalized, edges)' = DutLines(Normalized, 0)
  BY <1>1, <1>2, SameComparison
<1>8. QED BY <1>1, <1>2, <1>3, <1>5, <1>6, <1>7 DEF DutInv

(* One more line in the trace of the testbench.                            *)
LEMMA LinesAppend ==
  ASSUME NEW t, NEW n \in Nat
  PROVE  Append(DutLines(t, n), DutLine(t[n + 1])) = DutLines(t, n + 1)
<1> DEFINE C == {DutLine(t[j]) : j \in 1 .. n + 1}
           s == DutLines(t, n)
           l == DutLine(t[n + 1])
           u == DutLines(t, n + 1)
<1>1. s \in Seq(C) /\ Len(s) = n /\ l \in C
  BY DEF DutLines
<1>2. /\ DOMAIN s = 1 .. n /\ \A j \in 1 .. n : s[j] = DutLine(t[j])
      /\ u = [j \in 1 .. n + 1 |-> DutLine(t[j])]
  BY DEF DutLines
<1> HIDE DEF s, l, u, C
<1> DEFINE v == Append(s, l)
<1>3. v \in Seq(C) /\ Len(v) = n + 1 /\ v[n + 1] = l /\ \A j \in 1 .. n : v[j] = s[j]
  BY <1>1
<1>4. v = [j \in 1 .. n + 1 |-> v[j]]
  <2> HIDE DEF v
  <2>1. QED BY <1>3
<1>5. \A j \in 1 .. n + 1 : j \in 1 .. n \/ j = n + 1
  OBVIOUS
<1> HIDE DEF v
<1>6. v = u
  BY <1>2, <1>3, <1>4, <1>5 DEF l
<1>7. QED BY <1>6 DEF v, u, s, l

(* The core takes the next instruction, and its commit is the next of      *)
(* Spike.                                                                  *)
LEMMA ExecuteDut ==
  ASSUME ComparisonInv, OwnInv, DutInv, UNCHANGED <<spike_vars, verdict>>,
         Cpu!Execute(Len(spike_result.trace))
  PROVE  DutInv'
<1> DEFINE t == Normalized
<1>1. /\ bench = "run" /\ bench' = "run" /\ edges < Len(spike_result.trace)
      /\ Cpu!Edge(Cpu!NoInit, TRUE) /\ edges' = edges + 1
      /\ dut_trace' = IF Cpu!instruction # 0 THEN Append(dut_trace, Cpu!TraceLine) ELSE dut_trace
  BY DEF Cpu!Execute
<1>2. UNCHANGED <<request, instr_mem>>
  BY <1>1 DEF Cpu!Edge
<1>3. /\ verdict.done /\ Loaded
      /\ Loaded' = Loaded /\ UNCHANGED <<verdict, spike_result>>
  BY <1>1, <1>2 DEF DutInv, Loaded, spike_vars
<1>4. /\ DutComparable' = DutComparable
      /\ CoreIsAt(int_regs, data_mem, core_pc, t, edges)'
           = CoreIsAt(int_regs', data_mem', core_pc', t, edges + 1)
      /\ DutLines(t, edges)' = DutLines(t, edges + 1)
  BY <1>1, <1>2, SameComparison
<1>5. ASSUME DutComparable
      PROVE  /\ CoreIsAt(int_regs', data_mem', core_pc', t, edges + 1)
             /\ dut_trace' = DutLines(t, edges + 1)
  <2>1. /\ Replays(t) /\ InCommon(t) /\ OwnEntries(t) /\ Len(spike_result.trace) = Len(t)
    BY <1>3, <1>5, SpikeReplays
  <2>2. CoreIsAt(int_regs, data_mem, core_pc, t, edges) /\ dut_trace = DutLines(t, edges)
    BY <1>1, <1>5 DEF DutInv
  <2>3. request \in ISSRequest
    BY DEF ComparisonInv, SpikeTypeOK
  <2>4. edges \in 0 .. Len(t) - 1 /\ edges \in Nat /\ edges < Len(t)
    <3>1. edges \in 0 .. Len(t) /\ Len(t) \in Nat
      BY <2>1, <2>2 DEF CoreIsAt, Replays
    <3> HIDE DEF t
    <3>2. QED BY <1>1, <2>1, <3>1
  <2>5. core_pc = NextPc(t, edges)
    BY <2>2, <2>4 DEF CoreIsAt
  <2>6. CoreIsAt(int_regs', data_mem', core_pc', t, edges + 1)
    BY <1>1, <1>3, <2>1, <2>2, <2>3, <2>4, CoreFollows
  <2>7. Cpu!instruction # 0
    BY <1>3, <2>1, <2>3, <2>4, <2>5, CoreFetches
  <2>8. Cpu!TraceLine = DutLine(t[edges + 1])
    BY <1>3, <2>1, <2>2, <2>3, <2>4, CoreWrites
  <2>9. dut_trace' = DutLines(t, edges + 1)
    BY <1>1, <2>2, <2>4, <2>7, <2>8, LinesAppend
  <2>10. QED BY <2>6, <2>9
<1>6. QED BY <1>1, <1>3, <1>4, <1>5 DEF DutInv

(* The testbench stops behind the last commit, and writes the final pc.    *)
LEMMA StopDut ==
  ASSUME ComparisonInv, OwnInv, DutInv, UNCHANGED <<spike_vars, verdict>>,
         Cpu!Stop(Len(spike_result.trace))
  PROVE  DutInv'
<1> DEFINE t == Normalized
           l == Line("final_pc", 0, core_pc, 0, None, None)
<1>1. /\ bench = "run" /\ bench' = "done" /\ edges = Len(spike_result.trace)
      /\ dut_trace' = Append(dut_trace, l)
      /\ UNCHANGED <<request, instr_mem>>
  BY CpuHelpers DEF Cpu!Stop
<1>2. /\ verdict.done /\ Loaded
      /\ Loaded' = Loaded /\ UNCHANGED <<verdict, spike_result>>
  BY <1>1 DEF DutInv, Loaded, spike_vars
<1>3. /\ DutComparable' = DutComparable
      /\ DutLines(t, Len(t))' = DutLines(t, Len(t))
  BY <1>1, SameComparison
<1>4. l.kind = "final_pc"
  BY DEF Line
<1>5. ASSUME DutComparable
      PROVE  dut_trace' = Append(DutLines(t, Len(t)), l)
  <2>1. Len(spike_result.trace) = Len(t)
    BY <1>2, <1>5, SpikeReplays
  <2>2. dut_trace = DutLines(t, edges)
    BY <1>1, <1>5 DEF DutInv
  <2>3. QED BY <1>1, <2>1, <2>2
<1> HIDE DEF l
<1>6. QED BY <1>1, <1>2, <1>3, <1>4, <1>5 DEF DutInv

(* Before the testbench is called there is nothing to tell of it.          *)
LEMMA OffDut ==
  ASSUME DutInv, bench = "off", UNCHANGED cpu_vars
  PROVE  DutInv'
<1>1. bench' = "off" /\ edges' = edges /\ dut_trace' = dut_trace
  BY DEF cpu_vars
<1>2. edges = 0 /\ dut_trace = <<>>
  BY DEF DutInv
<1>3. QED BY <1>1, <1>2 DEF DutInv

(* Steps of the others leave the testbench and what it is compared with.   *)
LEMMA DutStutter ==
  ASSUME DutInv, UNCHANGED <<request, spike_vars, verdict, cpu_vars>>
  PROVE  DutInv'
<1>1. UNCHANGED <<bench, instr_mem, int_regs, data_mem, core_pc, edges, dut_trace, request,
                  spike_result, verdict>>
  BY DEF cpu_vars, spike_vars
<1>2. Loaded' = Loaded
  BY <1>1 DEF Loaded
<1>3. /\ DutComparable' = DutComparable
      /\ CoreIsAt(int_regs, data_mem, core_pc, Normalized, edges)'
           = CoreIsAt(int_regs, data_mem, core_pc, Normalized, edges)
      /\ DutLines(Normalized, edges)' = DutLines(Normalized, edges)
      /\ DutLines(Normalized, Len(Normalized))' = DutLines(Normalized, Len(Normalized))
  BY <1>1, SameComparison
<1>4. QED BY <1>1, <1>2, <1>3 DEF DutInv

(* Nothing has run.                                                        *)
LEMMA DutInit ==
  ASSUME DifferentialInit
  PROVE  OwnInv /\ DutInv
<1>1. stage = "validate" /\ bench = "off" /\ edges = 0 /\ dut_trace = <<>>
  BY DEF DifferentialInit, Spike!Called, Cpu!PoweredOff
<1>2. QED BY <1>1 DEF OwnInv, DutInv

(* Spike has ended before the testbench is called.                         *)
LEMMA SpikeBeforeDut ==
  ASSUME ComparisonInv, DutInv, bench # "off"
  PROVE  ~ RunSpike /\ ~ Compare
<1>1. stage = "done" /\ verdict.done
  BY DEF DutInv, ComparisonInv
<1>2. ~ Spike!SpikeNext
  BY <1>1 DEF Spike!SpikeNext, Spike!Validate, Spike!ToolFails, Spike!Build, Spike!Boot,
              Spike!RunSetup, Spike!RunInstruction, Spike!Fetches, Spike!Trap, Spike!Running,
              Spike!WritesOther, Spike!SpikeExits, Spike!Parse
<1>3. QED BY <1>1, <1>2 DEF RunSpike, Compare

(* Every step keeps the core on the trace of Spike.                        *)
LEMMA DutStep ==
  ASSUME ComparisonInv, OwnInv, StartInv', DutInv, [DifferentialNext]_differential_vars
  PROVE  DutInv'
<1>1. CASE RunDut
  <2>1. /\ verdict.done /\ Cpu!CpuNext(Len(spike_result.trace))
        /\ UNCHANGED <<spike_vars, verdict>> /\ request \in ISSRequest
    BY <1>1 DEF RunDut, ComparisonInv, SpikeTypeOK
  <2>2. CASE Cpu!LoadProgram
    BY <2>1, <2>2, LoadDut
  <2>3. CASE Cpu!IdleEdge \/ Cpu!InitRegister
    BY <2>1, <2>3, InitDut
  <2>4. CASE Cpu!Enable
    BY <2>1, <2>4, EnableDut
  <2>5. CASE Cpu!Execute(Len(spike_result.trace))
    BY <2>1, <2>5, ExecuteDut
  <2>6. CASE Cpu!Stop(Len(spike_result.trace))
    BY <2>1, <2>6, StopDut
  <2>7. QED BY <2>1, <2>2, <2>3, <2>4, <2>5, <2>6 DEF Cpu!CpuNext
<1>2. CASE ~ RunDut /\ (RunSpike \/ Compare)
  <2>1. bench = "off"
    BY <1>2, SpikeBeforeDut
  <2>2. UNCHANGED cpu_vars
    BY <1>2 DEF RunSpike, Compare
  <2>3. QED BY <2>1, <2>2, OffDut
<1>3. CASE ~ RunDut /\ ~ RunSpike /\ ~ Compare
  <2>1. UNCHANGED <<request, spike_vars>>
    BY <1>3, SpikeOnly
  <2>2. UNCHANGED <<verdict, cpu_vars>>
    BY <1>3 DEF DifferentialNext, RunEmulator, RunSmokeTest, differential_vars
  <2>3. QED BY <2>1, <2>2, DutStutter
<1>4. QED BY <1>1, <1>2, <1>3

-----------------------------------------------------------------------------
(* A line the testbench writes says what the commit says.                  *)
LEMMA DutLineTells ==
  ASSUME NEW c \in ISSCommit
  PROVE  DutLine(c).kind = "dut_commit" /\ CommitOf(DutLine(c)) = c
<1>1. /\ c = [pc |-> c.pc, instruction |-> c.instruction, rd_valid |-> c.rd_valid,
              rd |-> c.rd, value |-> c.value]
      /\ c.rd_valid \in BOOLEAN
      /\ c.rd_valid <=> c.rd # None
  BY DEF ISSCommit
<1>2. c.rd_valid = (c.rd # None)
  BY <1>1
<1>3. QED BY <1>1, <1>2 DEF DutLine, Line, CommitOf

(* The loop over the lines keeps every line up to the final pc.            *)
LEMMA KeptLines ==
  ASSUME NEW L, NEW s \in Seq(L), NEW S, 1 .. Len(s) \subseteq S
  PROVE  Selected(s, S) = s
<1> DEFINE N == Len(s)
           upto == SelectedTo(s, S)
           T == {n \in 0 .. N : upto[n] = SubSeq(s, 1, n)}
<1>1. /\ N \in Nat /\ upto[0] = <<>>
      /\ \A n \in 1 .. N : upto[n] = IF n \in S THEN Append(upto[n - 1], s[n]) ELSE upto[n - 1]
      /\ Selected(s, S) = upto[N]
  BY SelectedSteps
<1> HIDE DEF upto
<1>2. 0 \in T
  <2>1. SubSeq(s, 1, 0) = <<>>
    OBVIOUS
  <2>2. 0 \in 0 .. N /\ upto[0] = SubSeq(s, 1, 0)
    BY <1>1, <2>1
  <2>3. QED BY <2>2
<1>3. ASSUME NEW n \in 1 .. N, n - 1 \in T
      PROVE  n \in T
  <2>1. upto[n] = Append(SubSeq(s, 1, n - 1), s[n])
    <3>1. upto[n - 1] = SubSeq(s, 1, n - 1) /\ n \in S
      BY <1>3
    <3>2. QED BY <1>1, <3>1
  <2>2. Append(SubSeq(s, 1, n - 1), s[n]) = SubSeq(s, 1, n)
    <3> DEFINE a == Append(SubSeq(s, 1, n - 1), s[n])
               b == SubSeq(s, 1, n)
    <3>1. n \in Nat \ {0} /\ n <= Len(s) /\ n - 1 \in Nat
      BY <1>1
    <3>2. /\ a \in Seq(L) /\ b \in Seq(L) /\ Len(a) = n /\ Len(b) = n
          /\ \A k \in 1 .. n : a[k] = s[k] /\ b[k] = s[k]
      BY <3>1
    <3> HIDE DEF a, b
    <3>3. a = b
      BY <3>2
    <3>4. QED BY <3>3 DEF a, b
  <2>3. n \in 0 .. N /\ upto[n] = SubSeq(s, 1, n)
    BY <1>1, <2>1, <2>2
  <2>4. QED BY <2>3
<1>4. \A n \in 0 .. N : n \in T
  <2> HIDE DEF T, N
  <2>1. QED BY <1>1, <1>2, <1>3, InductionTo
<1>5. upto[N] = SubSeq(s, 1, N)
  BY <1>1, <1>4
<1>6. SubSeq(s, 1, N) = s
  OBVIOUS
<1>7. QED BY <1>1, <1>5, <1>6

(* The parser gives back the commits that the testbench has written.       *)
LEMMA DutParses ==
  ASSUME NEW t \in Seq(ISSCommit), t # <<>>, NEW l, l.kind = "final_pc"
  PROVE  parse_trace(Append(DutLines(t, Len(t)), l)) = Parsed(t)
<1> DEFINE L == {DutLine(c) : c \in ISSCommit} \cup {l}
           s == DutLines(t, Len(t))
           lines == Append(s, l)
           S == {i \in DOMAIN lines : lines[i].kind \notin {"blank", "final_pc"}}
           N == Len(t)
           commits == [i \in DOMAIN s |-> CommitOf(s[i])]
<1>1. /\ N \in Nat /\ N # 0 /\ t = [i \in 1 .. N |-> t[i]]
      /\ \A i \in 1 .. N : t[i] \in ISSCommit
  OBVIOUS
<1>2. /\ DOMAIN s = 1 .. N /\ \A i \in 1 .. N : s[i] = DutLine(t[i])
      /\ s \in Seq(L) /\ Len(s) = N /\ l \in L
  BY <1>1 DEF DutLines
<1>3. \A i \in 1 .. N : s[i].kind = "dut_commit" /\ CommitOf(s[i]) = t[i]
  BY <1>1, <1>2, DutLineTells
<1> HIDE DEF L, s, N
<1>4. /\ lines \in Seq(L) /\ DOMAIN lines = 1 .. N + 1 /\ lines[N + 1] = l
      /\ \A i \in 1 .. N : lines[i] = s[i]
  BY <1>1, <1>2
<1> HIDE DEF lines
<1>5. 1 .. Len(s) \subseteq S /\ N + 1 \notin S
  BY <1>1, <1>2, <1>3, <1>4
<1>6. Selected(lines, S) = s
  <2> HIDE DEF S
  <2>1. Selected(s, S) = s
    BY <1>2, <1>5, KeptLines
  <2>2. Selected(Append(s, l), S) =
          IF Len(s) + 1 \in S THEN Append(Selected(s, S), l) ELSE Selected(s, S)
    BY <1>2, SelectedAppend
  <2>3. QED BY <1>2, <1>5, <2>1, <2>2 DEF lines
<1>7. commits = t /\ s # <<>>
  BY <1>1, <1>2, <1>3
<1>8. \A i \in DOMAIN s : s[i].kind = "dut_commit" /\ commits[i] \in ISSCommit
  BY <1>1, <1>2, <1>3, <1>7
<1>9. parse_trace(lines) =
        IF s = <<>> \/ \E i \in DOMAIN s : s[i].kind # "dut_commit" \/ commits[i] \notin ISSCommit
        THEN Error ELSE Parsed(commits)
  BY <1>6 DEF parse_trace
<1> HIDE DEF commits
<1>10. QED BY <1>7, <1>8, <1>9 DEF lines, s, N

(* A testbench that has come to its end has Spike's trace.                 *)
LEMMA DutReads ==
  ASSUME ComparisonInv, OwnInv, DutInv
  PROVE  DutAgrees
<1> SUFFICES ASSUME bench = "done", DutComparable
             PROVE  LET observed == parse_trace(dut_trace)
                    IN  ~ observed.error /\ passed(compare_traces(observed.commits, Normalized))
  BY DEF DutAgrees
<1>1. verdict.done
  BY DEF DutInv
<1>2. Replays(Normalized) /\ Normalized # <<>>
  BY <1>1, SpikeReplays
<1>3. Normalized \in Seq(ISSCommit)
  BY <1>2 DEF Replays
<1>4. PICK l : /\ l.kind = "final_pc"
               /\ dut_trace = Append(DutLines(Normalized, Len(Normalized)), l)
  BY DEF DutInv
<1>5. parse_trace(dut_trace) = Parsed(Normalized)
  BY <1>2, <1>3, <1>4, DutParses
<1>6. compare_traces(Normalized, Normalized) = {}
  BY <1>3, NormalizedTrace, SameTraces
<1>7. QED BY <1>5, <1>6 DEF Parsed, passed

(* On every program that stays in what the core and Spike have in common - *)
(* the eight operations, the branches and the word accesses of the control *)
(* unit, on data of its own, on no register the boot code has written, in  *)
(* one stretch - the core commits what Spike commits: same pc,             *)
(* instruction, register and value, commit for commit, and its trace is    *)
(* one the parser accepts, whatever was left in the instruction memory and *)
(* whatever initialisation has executed.                                   *)
THEOREM CoreAgreesWithSpike == DifferentialSpec => []DutAgrees
<1>1. DifferentialInit => BudgetInv /\ OwnInv /\ DutInv /\ StartInv
  <2> SUFFICES ASSUME DifferentialInit PROVE BudgetInv /\ OwnInv /\ DutInv /\ StartInv
    OBVIOUS
  <2>1. BudgetInv
    BY SpikeContract DEF DifferentialInit, Spike!Called, BudgetInv, BudgetIsExact
  <2>2. QED BY <2>1, DutInit, StartInit
<1>2. /\ ComparisonInv /\ ComparisonInv' /\ BudgetInv /\ OwnInv /\ DutInv /\ StartInv
      /\ [DifferentialNext]_differential_vars
      => BudgetInv' /\ OwnInv' /\ DutInv' /\ StartInv'
  <2> SUFFICES ASSUME ComparisonInv, ComparisonInv', BudgetInv, OwnInv, DutInv, StartInv,
                      [DifferentialNext]_differential_vars
               PROVE  BudgetInv' /\ OwnInv' /\ DutInv' /\ StartInv'
    OBVIOUS
  <2>1. BudgetInv'
    <3>1. CASE RunSpike
      BY <3>1, BudgetStep DEF RunSpike, ComparisonInv
    <3>2. CASE ~ RunSpike
      BY <3>2, SpikeOnly, BudgetStutter
    <3>3. QED BY <3>1, <3>2
  <2>2. OwnInv'
    BY OwnKept
  <2>3. StartInv'
    BY StartKept
  <2>4. QED BY <2>1, <2>2, <2>3, DutStep
<1>3. ComparisonInv /\ OwnInv /\ DutInv => DutAgrees
  BY DutReads
<1>4. QED BY <1>1, <1>2, <1>3, ComparisonInvariant, PTL DEF DifferentialSpec
===============================================================================
