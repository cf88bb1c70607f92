------------------------- MODULE CacheMemoryProofs -------------------------
(***************************************************************************)
(* The cache in front of the memory controller is coherent, and implements *)
(* an atomic memory, for every number of lines, size of the storage, word  *)
(* width and set of addresses that do not alias in the storage.            *)
(***************************************************************************)
EXTENDS CacheMemory, TLAPS

(* The word of all zeros is a word. *)
LEMMA ZeroWordIsWord == ZeroWord \in Word
BY WordsAssumption DEF ZeroWord, Word

(* Index and tag together name one address. *)
LEMMA IndexAndTag ==
  ASSUME NEW a \in Addresses
  PROVE  /\ index(a) \in Lines /\ tag(a) \in Nat
         /\ word_index(a) \in 0 .. DEPTH_WORDS - 1
         /\ \A b \in Addresses : index(a) = index(b) /\ tag(a) = tag(b) => a = b
<1>1. a \in Nat
  BY WordsAssumption
<1>2. a % NLINES \in 0 .. NLINES - 1 /\ a \div NLINES \in Nat
  BY <1>1, CacheAssumption
<1>3. a % DEPTH_WORDS \in 0 .. DEPTH_WORDS - 1
  BY <1>1, NoAliasAssumption
<1>4. ASSUME NEW b \in Addresses, index(a) = index(b), tag(a) = tag(b)
      PROVE  a = b
  <2>1. b \in Nat
    BY WordsAssumption
  <2>2. /\ a = NLINES * (a \div NLINES) + (a % NLINES)
        /\ b = NLINES * (b \div NLINES) + (b % NLINES)
    BY <1>1, <2>1, CacheAssumption
  <2>3. QED BY <1>4, <2>2 DEF index, tag
<1>5. QED BY <1>2, <1>3, <1>4 DEF index, tag, Lines, word_index

(* The inductive invariant. *)
Inv == TypeOK /\ Coherent

(* While a request is being served, req_q is a request. *)
LEMMA CapturedRequest ==
  ASSUME TypeOK, state \notin {"IDLE", "RESP"}
  PROVE  /\ req_q \in Requests
         /\ req_q.addr \in Addresses /\ req_q.wdata \in Word
         /\ req_q.write \in BOOLEAN
<1>1. req_q \in Requests
  BY DEF TypeOK, CacheTypeOK, MemoryTypeOK
<1>2. QED BY <1>1, ZeroWordIsWord DEF Requests, Reads, Writes

(* After reset no line is valid. *)
LEMMA InvInit == Init => Inv
<1> SUFFICES ASSUME Init PROVE Inv
  OBVIOUS
<1>1. line \in [Lines -> [valid : BOOLEAN, tag : Nat, data : Word]]
  BY ZeroWordIsWord DEF Init, CacheInit, ResetLine
<1>2. TypeOK
  BY <1>1, ZeroWordIsWord DEF Init, CacheInit, MemoryInit, TypeOK, CacheTypeOK, MemoryTypeOK, States
<1>3. Coherent
  BY IndexAndTag DEF Init, CacheInit, Coherent, hit, ResetLine
<1>4. QED BY <1>2, <1>3 DEF Inv

(* A refill brings in the word of the memory, for the requested address    *)
(* and no other.                                                           *)
LEMMA RefillKeepsInv == Inv /\ MemoryRead => Inv'
<1> SUFFICES ASSUME Inv, MemoryRead PROVE Inv'
  OBVIOUS
<1> USE DEF MemoryRead, Refill
<1> DEFINE q == req_q.addr
<1>1. q \in Addresses /\ req_q \in Requests
  BY CapturedRequest DEF Inv
<1>2. index(q) \in Lines /\ tag(q) \in Nat /\ mem_rdata(q) \in Word
  BY <1>1, IndexAndTag DEF Inv, TypeOK, MemoryTypeOK, mem_rdata
<1>3. TypeOK'
  <2>1. line' \in [Lines -> [valid : BOOLEAN, tag : Nat, data : Word]]
    BY <1>2 DEF Inv, TypeOK, CacheTypeOK, MemoryTypeOK
  <2>2. QED BY <1>2, <2>1 DEF Inv, TypeOK, CacheTypeOK, MemoryTypeOK, States
<1>4. Coherent'
  <2> SUFFICES ASSUME NEW a \in Addresses, hit(a)'
               PROVE  line'[index(a)].data = mem_rdata(a)
    BY DEF Coherent, mem_rdata
  <2>1. index(a) \in Lines
    BY IndexAndTag
  <2>2. CASE index(a) = index(q)
    <3>1. line'[index(a)] = [valid |-> TRUE, tag |-> tag(q), data |-> mem_rdata(q)]
      BY <1>2, <2>2 DEF Inv, TypeOK, CacheTypeOK, MemoryTypeOK
    <3>2. a = q
      BY <1>1, <2>2, <3>1, IndexAndTag DEF hit
    <3>3. QED BY <3>1, <3>2
  <2>3. CASE index(a) # index(q)
    <3>1. line'[index(a)] = line[index(a)]
      BY <2>1, <2>3 DEF Inv, TypeOK, CacheTypeOK, MemoryTypeOK
    <3>2. hit(a)
      BY <3>1 DEF hit
    <3>3. QED BY <3>1, <3>2 DEF Inv, Coherent
  <2>4. QED BY <2>2, <2>3
<1>5. QED BY <1>3, <1>4 DEF Inv

(* Cache and controller merge the strobed bytes alike. *)
LEMMA MergeIsWord ==
  ASSUME NEW old \in Word, NEW new \in Word, NEW strobes
  PROVE  Merged(old, new, strobes) \in Word
BY DEF Merged, Word

(* A write changes the strobed bytes of its own address and no other word. *)
LEMMA MemoryAfterWrite ==
  ASSUME TypeOK, NEW q \in Addresses, NEW wdata \in Word, NEW wstrb
  PROVE  LET m == memory_after_write(q, wdata, wstrb)
         IN  /\ m \in [0 .. DEPTH_WORDS - 1 -> Word]
             /\ \A a \in Addresses :
                  m[word_index(a)] =
                    IF a = q THEN Merged(mem_rdata(q), wdata, wstrb)
                    ELSE mem_rdata(a)
<1>1. \A a \in Addresses : word_index(a) \in 0 .. DEPTH_WORDS - 1
  BY IndexAndTag
<1>2. mem_rdata(q) \in Word
  BY <1>1 DEF TypeOK, MemoryTypeOK, mem_rdata
<1>3. memory_after_write(q, wdata, wstrb) =
        [memory EXCEPT ![word_index(q)] = Merged(mem_rdata(q), wdata, wstrb)]
  BY <1>1 DEF memory_after_write, Merged, mem_rdata, TypeOK, MemoryTypeOK
<1>4. Merged(mem_rdata(q), wdata, wstrb) \in Word
  BY <1>2, MergeIsWord
<1>5. QED BY <1>1, <1>3, <1>4, NoAliasAssumption DEF TypeOK, MemoryTypeOK, mem_rdata

(* A write reaches the line, if it is there, and the memory on one edge.   *)
LEMMA WriteKeepsInv == Inv /\ MemoryWrite => Inv'
<1> SUFFICES ASSUME Inv, MemoryWrite PROVE Inv'
  OBVIOUS
<1> USE DEF MemoryWrite, WriteThrough, Store
<1> DEFINE q == req_q.addr
<1>1. q \in Addresses /\ req_q.wdata \in Word /\ req_q \in Requests
  BY CapturedRequest DEF Inv
<1>2. index(q) \in Lines
  BY <1>1, IndexAndTag
<1> DEFINE new == Merged(line[index(q)].data, req_q.wdata, req_q.wstrb)
<1>3. line[index(q)].data \in Word /\ new \in Word
  BY <1>1, <1>2, MergeIsWord DEF Inv, TypeOK, CacheTypeOK, MemoryTypeOK
<1>4. line' = IF hit(q) THEN [line EXCEPT ![index(q)].data = new] ELSE line
  BY <1>2 DEF line_after_write, merge_wstrb, Merged, Inv, TypeOK, CacheTypeOK, MemoryTypeOK
<1>5. /\ memory' \in [0 .. DEPTH_WORDS - 1 -> Word]
      /\ \A a \in Addresses :
           memory'[word_index(a)] =
             IF a = q THEN Merged(mem_rdata(q), req_q.wdata, req_q.wstrb)
             ELSE mem_rdata(a)
  BY <1>1, MemoryAfterWrite DEF Inv
<1> HIDE DEF new
<1>6. TypeOK'
  <2>1. line' \in [Lines -> [valid : BOOLEAN, tag : Nat, data : Word]]
    BY <1>2, <1>3, <1>4 DEF Inv, TypeOK, CacheTypeOK, MemoryTypeOK
  <2>2. QED BY <1>5, <2>1, ZeroWordIsWord DEF Inv, TypeOK, CacheTypeOK, MemoryTypeOK, States
<1>7. Coherent'
  <2> SUFFICES ASSUME NEW a \in Addresses, hit(a)'
               PROVE  line'[index(a)].data = memory'[word_index(a)]
    BY DEF Coherent, mem_rdata
  <2>1. index(a) \in Lines
    BY IndexAndTag
  <2>2. /\ line'[index(a)].valid = line[index(a)].valid
        /\ line'[index(a)].tag = line[index(a)].tag
    BY <1>2, <1>4, <2>1 DEF Inv, TypeOK, CacheTypeOK, MemoryTypeOK
  <2>3. hit(a)
    BY <2>2 DEF hit
  <2>4. CASE a = q
    <3>1. line'[index(a)].data = new
      BY <1>2, <1>4, <2>3, <2>4 DEF Inv, TypeOK, CacheTypeOK, MemoryTypeOK
    <3>2. QED BY <1>1, <1>5, <2>3, <2>4, <3>1 DEF Inv, Coherent, new
  <2>5. CASE a # q
    <3>1. hit(q) => index(a) # index(q)
      BY <1>1, <2>3, <2>5, IndexAndTag DEF hit
    <3>2. line'[index(a)] = line[index(a)]
      BY <1>2, <1>4, <2>1, <3>1 DEF Inv, TypeOK, CacheTypeOK, MemoryTypeOK
    <3>3. QED BY <1>5, <2>3, <2>5, <3>2 DEF Inv, Coherent
  <2>6. QED BY <2>4, <2>5
<1>8. QED BY <1>6, <1>7 DEF Inv

(* Every clock edge preserves the invariant. *)
LEMMA InvStep == Inv /\ [Next]_vars => Inv'
<1> SUFFICES ASSUME Inv, [Next]_vars PROVE Inv'
  OBVIOUS
<1>1. ASSUME UNCHANGED <<line, memory>>
      PROVE  Coherent'
  BY <1>1 DEF Inv, Coherent, hit, mem_rdata
<1>2. CASE AcceptRequest
  BY <1>1, <1>2 DEF AcceptRequest, Accept, Inv, TypeOK, CacheTypeOK, MemoryTypeOK, States
<1>3. CASE Lookup
  <2>1. line[index(req_q.addr)].data \in Word
    <3>1. req_q.addr \in Addresses
      BY <1>3, CapturedRequest DEF Lookup, LookupWrite, LookupHit, LookupMiss, Inv
    <3>2. QED BY <3>1, IndexAndTag DEF Inv, TypeOK, CacheTypeOK, MemoryTypeOK
  <2>2. QED BY <1>1, <1>3, <2>1
    DEF Lookup, LookupWrite, LookupHit, LookupMiss, Inv, TypeOK, CacheTypeOK, MemoryTypeOK, States
<1>4. CASE MemoryRead
  BY <1>4, RefillKeepsInv
<1>5. CASE MemoryWrite
  BY <1>5, WriteKeepsInv
<1>6. CASE RespondToCpu
  BY <1>1, <1>6 DEF RespondToCpu, Respond, Inv, TypeOK, CacheTypeOK, MemoryTypeOK, States
<1>7. CASE Reset
  <2>1. line' \in [Lines -> [valid : BOOLEAN, tag : Nat, data : Word]]
    BY <1>7, ZeroWordIsWord DEF Reset, CacheReset, ResetLine
  <2>2. TypeOK'
    BY <1>7, <2>1, ZeroWordIsWord
    DEF Reset, CacheReset, Inv, TypeOK, CacheTypeOK, MemoryTypeOK, States
  <2>3. Coherent'
    BY <1>7, IndexAndTag DEF Reset, CacheReset, Coherent, hit, ResetLine
  <2>4. QED BY <2>2, <2>3 DEF Inv
<1>8. CASE UNCHANGED vars
  BY <1>1, <1>8 DEF vars, Inv, TypeOK, CacheTypeOK, MemoryTypeOK
<1>9. QED BY <1>2, <1>3, <1>4, <1>5, <1>6, <1>7, <1>8 DEF Next

(* Cache and storage keep their types, and the state machine enters REFILL *)
(* only for reads and MEM_WRITE only for writes.                           *)
THEOREM CacheTypeCorrect == Spec => []TypeOK
<1>1. Inv => TypeOK
  BY DEF Inv
<1>2. QED BY <1>1, InvInit, InvStep, PTL DEF Spec

(* No stale line, at any edge.                                             *)
THEOREM CacheIsCoherent == Spec => []Coherent
<1>1. Inv => Coherent
  BY DEF Inv
<1>2. QED BY <1>1, InvInit, InvStep, PTL DEF Spec

(* What a read returns is the memory's word, for as long as the response   *)
(* waits: no later step changes the one without the other.                 *)
THEOREM ResponsesAreCurrent == Spec => []ReadsCurrentData
<1>1. Init => ReadsCurrentData
  BY DEF Init, CacheInit, ReadsCurrentData
<1>2. Inv /\ ReadsCurrentData /\ [Next]_vars => ReadsCurrentData'
  <2> SUFFICES ASSUME Inv, ReadsCurrentData, [Next]_vars PROVE ReadsCurrentData'
    OBVIOUS
  <2>1. CASE Lookup
    <3>1. req_q.addr \in Addresses
      BY <2>1, CapturedRequest DEF Lookup, LookupWrite, LookupHit, LookupMiss, Inv
    <3>2. QED BY <2>1, <3>1 DEF Lookup, LookupWrite, LookupHit, LookupMiss,
                Inv, Coherent, ReadsCurrentData, mem_rdata
  <2>2. CASE MemoryWrite
    BY <2>2 DEF MemoryWrite, WriteThrough, Store, ReadsCurrentData, Inv, TypeOK, CacheTypeOK, MemoryTypeOK
  <2>3. CASE AcceptRequest \/ MemoryRead \/ RespondToCpu \/ Reset \/ UNCHANGED vars
    BY <2>3 DEF AcceptRequest, Accept, MemoryRead, Refill, RespondToCpu, Respond,
       Reset, CacheReset, vars, ReadsCurrentData, mem_rdata
  <2>4. QED BY <2>1, <2>2, <2>3 DEF Next
<1>3. QED BY <1>1, <1>2, InvInit, InvStep, PTL DEF Spec

-----------------------------------------------------------------------------
(* The refinement: each edge is a step of the atomic memory or a stutter.  *)

(* The initial states map to initial states. *)
LEMMA InitImplements == Init => Atomic!Init
<1> SUFFICES ASSUME Init PROVE Atomic!Init
  OBVIOUS
<1>1. \A a \in Addresses : mem_rdata(a) \in Word
  BY IndexAndTag DEF Init, MemoryInit, mem_rdata
<1>2. operation = [phase |-> "idle"]
  BY DEF Init, CacheInit, operation
<1>3. QED BY <1>1, <1>2 DEF Atomic!Init, Atomic!Idle, Atomic!Word, Word

(* Every clock edge maps to an atomic step or to a stutter. *)
LEMMA StepImplements == Inv /\ [Next]_vars => [Atomic!Next]_(Atomic!atomicVars)
<1> SUFFICES ASSUME Inv, [Next]_vars
             PROVE  Atomic!Next \/ UNCHANGED Atomic!atomicVars
  BY DEF Atomic!atomicVars
<1> DEFINE mem == [a \in Addresses |-> mem_rdata(a)]
<1>1. ASSUME UNCHANGED memory PROVE mem' = mem
  BY <1>1 DEF mem_rdata
<1>2. Atomic!Requests = Requests
  BY DEF Atomic!Requests, Requests, Atomic!Reads, Reads, Atomic!Writes, Writes,
     Atomic!Word, Word, Atomic!ZeroWord, ZeroWord
<1>3. CASE AcceptRequest
  <2>1. PICK r \in Requests : Accept(r) /\ UNCHANGED memory
    BY <1>3 DEF AcceptRequest
  <2>2. operation = Atomic!Idle /\ operation' = Atomic!Pending(r)
    BY <2>1 DEF Accept, operation, Atomic!Idle, Atomic!Pending
  <2>3. Atomic!Issue(r)
    BY <1>1, <2>1, <2>2 DEF Atomic!Issue
  <2>4. QED BY <1>2, <2>3 DEF Atomic!Next
<1>4. ASSUME state \in {"LOOKUP", "REFILL", "MEM_WRITE"}
      PROVE  /\ operation = Atomic!Pending(req_q)
             /\ req_q \in Requests /\ req_q.addr \in Addresses
  BY <1>4, CapturedRequest DEF Inv, operation, Atomic!Pending
<1>5. ASSUME state \in {"LOOKUP", "REFILL"}, ~req_q.write, UNCHANGED <<memory, req_q>>,
             state' = "RESP", rsp_rdata_q' = mem_rdata(req_q.addr)
      PROVE  Atomic!Next
  <2>1. operation' = Atomic!Done(mem[req_q.addr])
    BY <1>4, <1>5 DEF operation, Atomic!Done
  <2>2. Atomic!PerformRead(req_q)
    BY <1>1, <1>4, <1>5, <2>1 DEF Atomic!PerformRead
  <2>3. QED BY <1>2, <1>4, <1>5, <2>2 DEF Atomic!Next
<1>6. CASE Lookup
  <2>1. CASE LookupHit
    BY <1>4, <1>5, <1>6, <2>1 DEF Lookup, LookupHit, Inv, Coherent
  <2>2. CASE LookupWrite \/ LookupMiss
    <3>1. operation' = operation
      BY <2>2 DEF LookupWrite, LookupMiss, operation
    <3>2. QED BY <1>1, <1>6, <3>1 DEF Lookup, Atomic!atomicVars
  <2>3. QED BY <1>6, <2>1, <2>2 DEF Lookup
<1>7. CASE MemoryRead
  BY <1>5, <1>7 DEF MemoryRead, Refill, Inv, TypeOK, CacheTypeOK, MemoryTypeOK
<1>8. CASE MemoryWrite
  <2>1. /\ operation = Atomic!Pending(req_q) /\ req_q \in Requests
        /\ req_q.addr \in Addresses /\ req_q.write /\ req_q.wdata \in Word
    BY <1>4, <1>8, CapturedRequest
    DEF MemoryWrite, WriteThrough, Inv, TypeOK, CacheTypeOK, MemoryTypeOK
  <2>2. operation' = Atomic!Done(Atomic!ZeroWord)
    BY <1>8 DEF MemoryWrite, WriteThrough, operation, Atomic!Done,
       Atomic!ZeroWord, ZeroWord
  <2>3. mem' = [mem EXCEPT ![req_q.addr] =
                  Atomic!Merged(@, req_q.wdata, req_q.wstrb)]
    <3>1. \A a \in Addresses :
            memory'[word_index(a)] =
              IF a = req_q.addr THEN Merged(mem_rdata(a), req_q.wdata, req_q.wstrb)
              ELSE mem_rdata(a)
      BY <1>8, <2>1, MemoryAfterWrite DEF MemoryWrite, Store, Inv
    <3>2. Merged(mem_rdata(req_q.addr), req_q.wdata, req_q.wstrb) =
            Atomic!Merged(mem[req_q.addr], req_q.wdata, req_q.wstrb)
      BY <2>1 DEF Merged, Atomic!Merged
    <3>3. \A a \in Addresses : mem'[a] = memory'[word_index(a)]
      BY DEF mem_rdata
    <3> HIDE DEF mem
    <3>4. QED
      <4>1. /\ mem = [a \in Addresses |-> mem_rdata(a)]
            /\ mem' = [a \in Addresses |-> mem'[a]]
        BY DEF mem, mem_rdata
      <4>2. QED BY <2>1, <3>1, <3>2, <3>3, <4>1
  <2>4. Atomic!PerformWrite(req_q)
    BY <2>1, <2>2, <2>3 DEF Atomic!PerformWrite
  <2>5. QED BY <1>2, <2>1, <2>4 DEF Atomic!Next
<1>9. CASE RespondToCpu
  <2>1. operation.phase = "done" /\ operation' = Atomic!Idle
    BY <1>9 DEF RespondToCpu, Respond, operation, Atomic!Idle
  <2>2. Atomic!Respond
    BY <1>1, <1>9, <2>1 DEF RespondToCpu, Atomic!Respond
  <2>3. QED BY <2>2 DEF Atomic!Next
<1>10. CASE Reset
  <2>1. operation' = Atomic!Idle
    BY <1>10 DEF Reset, CacheReset, operation, Atomic!Idle
  <2>2. QED BY <1>1, <1>10, <2>1 DEF Reset, Atomic!Abandon, Atomic!Next
<1>11. CASE UNCHANGED vars
  BY <1>1, <1>11 DEF vars, operation, Atomic!atomicVars
<1>12. QED BY <1>3, <1>6, <1>7, <1>8, <1>9, <1>10, <1>11 DEF Next

(* Cache and controller together are one atomic memory to the CPU side.    *)
THEOREM CacheImplementsAtomicMemory == Spec => ImplementsAtomicMemory
<1>1. QED
  BY InitImplements, InvInit, InvStep, StepImplements, PTL
  DEF Spec, ImplementsAtomicMemory, Atomic!Spec
=============================================================================
