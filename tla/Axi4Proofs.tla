----------------------------- MODULE Axi4Proofs -----------------------------
(***************************************************************************)
(* Theorems about the interconnect and the slaves behind it, for every     *)
(* size of the memories, word shape, set of ids and of addresses, and for  *)
(* every behaviour of the master; and then about the same system with the  *)
(* master of the repository in front.                                      *)
(***************************************************************************)
EXTENDS Axi4System, TLAPS

(* Merging bytes of two words gives a word; the word of zeros is one.      *)
LEMMA WordsAreClosed ==
  /\ ZeroWord \in Word
  /\ \A old, new \in Word, strobes \in SUBSET Lanes : Merged(old, new, strobes) \in Word
BY WordsAssumption DEF ZeroWord, Word, Merged

(* A decoded address is one of its slave's words, relative to its base.    *)
LEMMA Decoding ==
  ASSUME NEW addr \in Addresses
  PROVE  /\ addr \in Nat
         /\ decode(addr) \in Slaves \cup {"unmapped"}
         /\ decode(addr) \in Slaves <=> addr < 2 * MEM_DEPTH
         /\ decode(addr) \in Slaves => addr - base(decode(addr)) \in 0 .. MEM_DEPTH - 1
         /\ decode(addr) = "s0" <=> addr < MEM_DEPTH
<1>1. addr \in Nat /\ MEM_DEPTH \in Nat \ {0}
  BY WordsAssumption, SlaveAssumption
<1>2. CASE addr < MEM_DEPTH
  BY <1>1, <1>2 DEF decode, Slaves, base, S1_BASE
<1>3. CASE addr >= MEM_DEPTH /\ addr < MEM_DEPTH + MEM_DEPTH
  <2>1. decode(addr) = "s1"
    BY <1>1, <1>3 DEF decode, S1_BASE
  <2>2. QED BY <1>1, <1>3, <2>1 DEF Slaves, base, S1_BASE
<1>4. CASE addr >= MEM_DEPTH + MEM_DEPTH
  <2>1. decode(addr) = "unmapped"
    BY <1>1, <1>4 DEF decode, S1_BASE
  <2>2. QED BY <1>1, <1>4, <2>1 DEF Slaves, base, S1_BASE
<1>5. QED BY <1>1, <1>2, <1>3, <1>4

(* The index of a word that is in range is the address itself.             *)
LEMMA IndexInRange ==
  /\ \A n \in Nat : mem_index(n) \in 0 .. MEM_DEPTH - 1
  /\ \A n \in 0 .. MEM_DEPTH - 1 : mem_index(n) = n
  /\ \A n \in 0 .. MEM_DEPTH - 1 : (n + MEM_DEPTH) % MEM_DEPTH = n
<1>1. MEM_DEPTH \in Nat \ {0}
  BY SlaveAssumption
<1>2. \A n \in Nat : n % MEM_DEPTH \in 0 .. MEM_DEPTH - 1
  BY <1>1
<1>3. \A n \in 0 .. MEM_DEPTH - 1 : n % MEM_DEPTH = n
  BY <1>1
<1>4. \A n \in 0 .. MEM_DEPTH - 1 : (n + MEM_DEPTH) % MEM_DEPTH = n
  BY <1>1
<1>5. QED BY <1>2, <1>3, <1>4 DEF mem_index

-----------------------------------------------------------------------------
(* The invariant, write side and read side apart: each side's handshakes   *)
(* depend on its own half only.                                            *)
WriteInv ==
  /\ s_aw \in [Slaves -> {Nothing} \cup [valid : {TRUE}, id : Ids, addr : Nat]]
  /\ s_b \in [Slaves -> {Nothing} \cup [valid : {TRUE}, id : Ids, resp : {"OKAY"}]]
  /\ s_mem \in Memories
  /\ aw_target \in Targets
  /\ b_unmapped \in [valid : BOOLEAN, id : Ids]
  /\ b_unmapped.valid => aw_target = "unmapped"
  /\ \A t \in Slaves : /\ s_aw[t].valid => s_aw[t].addr < MEM_DEPTH
                       /\ ~(s_aw[t].valid /\ s_b[t].valid)
                       /\ (s_aw[t].valid \/ s_b[t].valid) <=> aw_target = t

ReadInv ==
  /\ s_ar_pending \in [Slaves -> BOOLEAN]
  /\ s_r \in [Slaves -> {Nothing} \cup
                [valid : {TRUE}, id : Ids, rdata : Word, resp : {"OKAY"}]]
  /\ ar_target \in Targets
  /\ r_unmapped \in [valid : BOOLEAN, id : Ids]
  /\ r_unmapped.valid <=> ar_target = "unmapped"
  /\ \A t \in Slaves : /\ s_ar_pending[t] = s_r[t].valid
                       /\ s_r[t].valid <=> ar_target = t

(* Together the halves are the two invariants of the runs.                 *)
LEMMA HalvesAreInvariants ==
  WriteInv /\ ReadInv <=> BusTypeOK /\ OnlyTargetsBusy
BY DEF WriteInv, ReadInv, BusTypeOK, SlaveTypeOK, OnlyTargetsBusy

(* The valid bit of what is empty, and the two targets that are no slaves. *)
LEMMA Empty ==
  /\ Nothing.valid = FALSE
  /\ "none" \notin Slaves /\ "unmapped" \notin Slaves
BY DEF Nothing, Slaves

(* After reset nothing is tracked and no slave has anything to do.         *)
LEMMA HalvesInit == BusInit => WriteInv /\ ReadInv
<1> SUFFICES ASSUME BusInit PROVE WriteInv /\ ReadInv
  OBVIOUS
<1> USE DEF BusInit, SlaveInit, NoUnmapped
<1>1. WriteInv
  <2>1. \A t \in Slaves : s_aw[t] = Nothing /\ s_b[t] = Nothing /\ aw_target # t
    BY Empty
  <2>2. QED BY <2>1, Empty, IdsAssumption DEF WriteInv, Targets
<1>2. ReadInv
  <2>1. \A t \in Slaves : /\ s_r[t] = Nothing /\ s_ar_pending[t] = FALSE
                          /\ ar_target # t
    BY Empty
  <2>2. QED BY <2>1, Empty, IdsAssumption DEF ReadInv, Targets
<1>3. QED BY <1>1, <1>2

(* The same on an edge with reset; the memories stay.                      *)
LEMMA HalvesReset == WriteInv /\ BusReset => WriteInv' /\ ReadInv'
<1> SUFFICES ASSUME WriteInv, BusReset PROVE WriteInv' /\ ReadInv'
  OBVIOUS
<1> USE DEF BusReset, SlaveReset, NoUnmapped
<1>1. WriteInv'
  <2>1. \A t \in Slaves : s_aw'[t] = Nothing /\ s_b'[t] = Nothing /\ aw_target' # t
    BY Empty
  <2>2. QED BY <2>1, Empty, IdsAssumption DEF WriteInv, Targets
<1>2. ReadInv'
  <2>1. \A t \in Slaves : /\ s_r'[t] = Nothing /\ s_ar_pending'[t] = FALSE
                          /\ ar_target' # t
    BY Empty
  <2>2. QED BY <2>1, Empty, IdsAssumption DEF ReadInv, Targets
<1>3. QED BY <1>1, <1>2

(* Every edge of the write side preserves the write half.                  *)
LEMMA WriteEdgeKeeps == WriteInv /\ WriteEdge => WriteInv'
<1> SUFFICES ASSUME WriteInv, WriteEdge PROVE WriteInv'
  OBVIOUS
<1>1. ASSUME NEW id \in Ids, NEW addr \in Addresses, AwTransfer(id, addr)
      PROVE  WriteInv'
  <2>1. CASE decode(addr) \in Slaves
    <3>1. addr - base(decode(addr)) \in 0 .. MEM_DEPTH - 1
      BY <2>1, Decoding
    <3>2. /\ aw_target = "none" /\ aw_target' = decode(addr)
          /\ ~b_unmapped.valid
          /\ SlaveTakesAddress(decode(addr), id, addr - base(decode(addr)))
          /\ UNCHANGED b_unmapped
      BY <1>1, <2>1, Empty DEF AwTransfer
    <3>3. PICK n \in 0 .. MEM_DEPTH - 1 :
            /\ s_aw' = [s_aw EXCEPT ![decode(addr)] = [valid |-> TRUE, id |-> id, addr |-> n]]
            /\ UNCHANGED <<s_b, s_mem>>
      BY <3>1, <3>2 DEF SlaveTakesAddress
    <3>4. MEM_DEPTH \in Nat
      BY SlaveAssumption
    <3>5. \A t \in Slaves : ~s_aw[t].valid /\ ~s_b[t].valid
      BY <3>2, Empty DEF WriteInv
    <3>6. \A t \in Slaves :
            /\ s_aw'[t] = IF t = decode(addr) THEN [valid |-> TRUE, id |-> id, addr |-> n]
                          ELSE s_aw[t]
            /\ s_b'[t] = s_b[t]
      BY <3>3 DEF WriteInv
    <3>7. \A t \in Slaves : /\ s_aw'[t].valid => s_aw'[t].addr < MEM_DEPTH
                            /\ ~(s_aw'[t].valid /\ s_b'[t].valid)
                            /\ (s_aw'[t].valid \/ s_b'[t].valid) <=> aw_target' = t
      BY <3>2, <3>4, <3>5, <3>6
    <3>8. s_aw' \in [Slaves -> {Nothing} \cup [valid : {TRUE}, id : Ids, addr : Nat]]
      <4>1. [valid |-> TRUE, id |-> id, addr |-> n] \in [valid : {TRUE}, id : Ids, addr : Nat]
        BY <3>4
      <4>2. s_aw \in [Slaves -> {Nothing} \cup [valid : {TRUE}, id : Ids, addr : Nat]]
        BY DEF WriteInv
      <4>3. QED BY <3>3, <4>1, <4>2
    <3>9. QED BY <2>1, <3>2, <3>3, <3>7, <3>8 DEF WriteInv, Targets
  <2>2. CASE decode(addr) = "unmapped"
    <3>1. /\ aw_target = "none" /\ aw_target' = "unmapped"
          /\ b_unmapped' = [valid |-> FALSE, id |-> id]
          /\ UNCHANGED <<s_aw, s_b, s_mem>>
      BY <1>1, <2>2, Empty DEF AwTransfer, slaveWriteVars
    <3>2. QED BY <3>1, Empty DEF WriteInv, Targets
  <2>3. QED BY <2>1, <2>2, Decoding
<1>2. ASSUME NEW wdata \in Word, NEW wstrb \in SUBSET Lanes, WTransfer(wdata, wstrb)
      PROVE  WriteInv'
  <2>1. CASE aw_target \in Slaves
    <3>1. /\ SlaveTakesData(aw_target, wdata, wstrb)
          /\ UNCHANGED <<aw_target, b_unmapped>>
      BY <1>2, <2>1 DEF WTransfer, Slaves
    <3>2. /\ s_aw[aw_target] \in [valid : {TRUE}, id : Ids, addr : Nat]
          /\ mem_index(s_aw[aw_target].addr) \in 0 .. MEM_DEPTH - 1
      BY <2>1, <3>1, IndexInRange DEF SlaveTakesData, s_wready, WriteInv, Nothing
    <3>3. s_mem' \in Memories
      BY <2>1, <3>1, <3>2, WordsAreClosed DEF SlaveTakesData, WriteInv, Memories
    <3>4. QED BY <2>1, <3>1, <3>2, <3>3
      DEF SlaveTakesData, s_wready, WriteInv, Nothing
  <2>2. CASE aw_target \notin Slaves
    BY <1>2, <2>2 DEF WTransfer, WriteInv, slaveWriteVars
  <2>3. QED BY <2>1, <2>2
<1>3. ASSUME BTransfer PROVE WriteInv'
  <2>1. CASE b_unmapped.valid
    BY <1>3, <2>1 DEF BTransfer, WriteInv, Targets, slaveWriteVars, Slaves
  <2>2. CASE ~b_unmapped.valid
    BY <1>3, <2>2
    DEF BTransfer, m_bvalid, SlaveResponseTaken, WriteInv, Targets, Slaves, Nothing
  <2>3. QED BY <2>1, <2>2
<1>4. ASSUME UNCHANGED writeVars PROVE WriteInv'
  BY <1>4 DEF writeVars, slaveWriteVars, WriteInv
<1>5. QED BY <1>1, <1>2, <1>3, <1>4 DEF WriteEdge

(* Every edge of the read side preserves the read half; what it reads is a *)
(* word because the write half says so of the memories.                    *)
LEMMA ReadEdgeKeeps == WriteInv /\ ReadInv /\ ReadEdge => ReadInv'
<1> SUFFICES ASSUME WriteInv, ReadInv, ReadEdge PROVE ReadInv'
  OBVIOUS
<1>1. ASSUME NEW id \in Ids, NEW addr \in Addresses, ArTransfer(id, addr)
      PROVE  ReadInv'
  <2>1. CASE decode(addr) \in Slaves
    <3> DEFINE t == decode(addr)
               word == s_mem[t][mem_index(addr - base(t))]
               answer == [valid |-> TRUE, id |-> id, rdata |-> word, resp |-> "OKAY"]
    <3>1. /\ ar_target = "none" /\ ar_target' = t
          /\ ~r_unmapped.valid /\ UNCHANGED r_unmapped
          /\ s_ar_pending' = [s_ar_pending EXCEPT ![t] = TRUE]
          /\ s_r' = [s_r EXCEPT ![t] = answer]
      BY <1>1, <2>1, Empty DEF ArTransfer, SlaveTakesRead
    <3>2. word \in Word
      <4>1. mem_index(addr - base(t)) \in 0 .. MEM_DEPTH - 1
        BY <2>1, Decoding, IndexInRange
      <4>2. QED BY <2>1, <4>1 DEF WriteInv, Memories
    <3>3. answer \in [valid : {TRUE}, id : Ids, rdata : Word, resp : {"OKAY"}]
      BY <3>2
    <3>4. answer.valid
      OBVIOUS
    <3> HIDE DEF answer
    <3>5. s_r' \in [Slaves -> {Nothing} \cup
                      [valid : {TRUE}, id : Ids, rdata : Word, resp : {"OKAY"}]]
      BY <3>1, <3>3 DEF ReadInv
    <3>6. \A u \in Slaves :
            /\ s_r'[u] = IF u = t THEN answer ELSE s_r[u]
            /\ s_ar_pending'[u] = IF u = t THEN TRUE ELSE s_ar_pending[u]
            /\ ~s_r[u].valid
      BY <3>1, Empty DEF ReadInv
    <3>7. \A u \in Slaves : /\ s_ar_pending'[u] = s_r'[u].valid
                            /\ s_r'[u].valid <=> ar_target' = u
      BY <3>1, <3>4, <3>6, <3>3 DEF ReadInv
    <3>8. ar_target' # "unmapped"
      BY <2>1, <3>1, Empty
    <3>9. QED BY <2>1, <3>1, <3>5, <3>7, <3>8 DEF ReadInv, Targets
  <2>2. CASE decode(addr) = "unmapped"
    <3>1. /\ ar_target = "none" /\ ar_target' = "unmapped"
          /\ r_unmapped' = [valid |-> TRUE, id |-> id]
          /\ UNCHANGED <<s_ar_pending, s_r>>
      BY <1>1, <2>2, Empty DEF ArTransfer, slaveReadVars
    <3>2. QED BY <3>1, Empty DEF ReadInv, Targets
  <2>3. QED BY <2>1, <2>2, Decoding
<1>2. ASSUME RTransfer PROVE ReadInv'
  <2>1. CASE r_unmapped.valid
    <3>1. /\ ar_target = "unmapped" /\ ar_target' = "none"
          /\ r_unmapped' = [r_unmapped EXCEPT !.valid = FALSE]
          /\ UNCHANGED <<s_ar_pending, s_r>>
      BY <1>2, <2>1 DEF RTransfer, ReadInv, slaveReadVars
    <3>2. r_unmapped' \in [valid : BOOLEAN, id : Ids] /\ ~r_unmapped'.valid
      BY <3>1 DEF ReadInv
    <3>3. QED BY <3>1, <3>2, Empty DEF ReadInv, Targets
  <2>2. CASE ~r_unmapped.valid
    <3>1. /\ ar_target \in Slaves /\ ar_target' = "none"
          /\ r_unmapped' = [r_unmapped EXCEPT !.valid = FALSE]
          /\ s_ar_pending' = [s_ar_pending EXCEPT ![ar_target] = FALSE]
          /\ s_r' = [s_r EXCEPT ![ar_target] = Nothing]
      BY <1>2, <2>2 DEF RTransfer, m_rvalid, SlaveDataTaken
    <3>2. r_unmapped' \in [valid : BOOLEAN, id : Ids] /\ ~r_unmapped'.valid
      BY <3>1 DEF ReadInv
    <3>3. \A u \in Slaves : /\ s_ar_pending'[u] = s_r'[u].valid
                            /\ s_r'[u].valid <=> ar_target' = u
      BY <3>1, Empty DEF ReadInv
    <3>4. QED BY <3>1, <3>2, <3>3, Empty DEF ReadInv, Targets
  <2>3. QED BY <2>1, <2>2
<1>3. ASSUME UNCHANGED readVars PROVE ReadInv'
  BY <1>3 DEF readVars, slaveReadVars, ReadInv
<1>4. QED BY <1>1, <1>2, <1>3 DEF ReadEdge

(* Every edge of the bus preserves both halves.                            *)
LEMMA HalvesStep == WriteInv /\ ReadInv /\ [BusNext]_busVars => WriteInv' /\ ReadInv'
<1>1. UNCHANGED busVars => UNCHANGED writeVars /\ UNCHANGED readVars
  BY DEF busVars
<1>2. UNCHANGED writeVars => WriteEdge
  BY DEF WriteEdge
<1>3. UNCHANGED readVars => ReadEdge
  BY DEF ReadEdge
<1>4. QED BY <1>1, <1>2, <1>3, WriteEdgeKeeps, ReadEdgeKeeps, HalvesReset DEF BusNext

(* The registers of interconnect and slaves keep their types, and local    *)
(* answers belong to unmapped requests.                                    *)
THEOREM BusTypeCorrect == BusSpec => []BusTypeOK
<1>1. WriteInv /\ ReadInv => BusTypeOK
  BY HalvesAreInvariants
<1>2. QED BY <1>1, HalvesInit, HalvesStep, PTL DEF BusSpec

(* No slave is ever left with a request or a response that the             *)
(* interconnect does not track, and none that it tracks is idle.           *)
THEOREM TargetsTracked == BusSpec => []OnlyTargetsBusy
<1>1. WriteInv /\ ReadInv => OnlyTargetsBusy
  BY HalvesAreInvariants
<1>2. QED BY <1>1, HalvesInit, HalvesStep, PTL DEF BusSpec

-----------------------------------------------------------------------------
(* The refinement.  What the two ports are seen doing, by what the         *)
(* registers hold.                                                         *)
WriteView ==
  /\ aw_target = "none" => writeOperation = [phase |-> "idle"]
  /\ b_unmapped.valid =>
       writeOperation = [phase |-> "answered", id |-> b_unmapped.id, resp |-> "DECERR"]
  /\ aw_target = "unmapped" /\ ~b_unmapped.valid =>
       writeOperation = [phase |-> "rejected", id |-> b_unmapped.id]
  /\ aw_target \in Slaves /\ s_b[aw_target].valid =>
       writeOperation = [phase |-> "answered", id |-> s_b[aw_target].id, resp |-> "OKAY"]
  /\ aw_target \in Slaves /\ ~s_b[aw_target].valid =>
       writeOperation = [phase |-> "addressed", id |-> s_aw[aw_target].id,
                         addr |-> s_aw[aw_target].addr + base(aw_target)]

ReadView ==
  /\ ar_target = "none" => readOperation = [phase |-> "idle"]
  /\ ar_target = "unmapped" =>
       readOperation = [phase |-> "answered", id |-> r_unmapped.id,
                        rdata |-> ZeroWord, resp |-> "DECERR"]
  /\ ar_target \in Slaves =>
       readOperation = [phase |-> "answered", id |-> s_r[ar_target].id,
                        rdata |-> s_r[ar_target].rdata, resp |-> "OKAY"]

LEMMA WriteViewed == WriteInv => WriteView
<1> SUFFICES ASSUME WriteInv PROVE WriteView
  OBVIOUS
<1>1. CASE aw_target = "none"
  <2>1. ~b_unmapped.valid /\ ~m_bvalid
    BY <1>1, Empty DEF WriteInv, m_bvalid
  <2>2. writeOperation = [phase |-> "idle"]
    BY <1>1, <2>1, Empty DEF writeOperation
  <2>3. QED BY <1>1, <2>1, <2>2, Empty DEF WriteView
<1>2. CASE aw_target = "unmapped" /\ b_unmapped.valid
  BY <1>2, Empty DEF WriteView, writeOperation, m_bvalid, m_b
<1>3. CASE aw_target = "unmapped" /\ ~b_unmapped.valid
  BY <1>3, Empty DEF WriteView, writeOperation, m_bvalid
<1>4. CASE aw_target \in Slaves /\ s_b[aw_target].valid
  <2>1. ~b_unmapped.valid /\ aw_target # "none" /\ aw_target # "unmapped"
    BY <1>4, Empty DEF WriteInv
  <2>2. s_b[aw_target].resp = "OKAY"
    BY <1>4, Empty DEF WriteInv
  <2>3. m_bvalid /\ m_b = [id |-> s_b[aw_target].id, resp |-> "OKAY"]
    BY <1>4, <2>1, <2>2 DEF m_bvalid, m_b
  <2>4. writeOperation = [phase |-> "answered", id |-> s_b[aw_target].id, resp |-> "OKAY"]
    BY <2>1, <2>3 DEF writeOperation
  <2>5. QED BY <1>4, <2>1, <2>4 DEF WriteView
<1>5. CASE aw_target \in Slaves /\ ~s_b[aw_target].valid
  <2>1. ~b_unmapped.valid /\ aw_target # "none" /\ aw_target # "unmapped"
    BY <1>5, Empty DEF WriteInv
  <2>2. ~m_bvalid
    BY <1>5, <2>1 DEF m_bvalid
  <2>3. writeOperation = [phase |-> "addressed", id |-> s_aw[aw_target].id,
                          addr |-> s_aw[aw_target].addr + base(aw_target)]
    BY <1>5, <2>1, <2>2 DEF writeOperation
  <2>4. QED BY <1>5, <2>1, <2>3 DEF WriteView
<1>6. QED BY <1>1, <1>2, <1>3, <1>4, <1>5 DEF WriteInv, Targets

LEMMA ReadViewed == ReadInv => ReadView
<1> SUFFICES ASSUME ReadInv PROVE ReadView
  OBVIOUS
<1>1. CASE ar_target = "none"
  BY <1>1, Empty DEF ReadView, ReadInv, readOperation, m_rvalid
<1>2. CASE ar_target = "unmapped"
  BY <1>2, Empty DEF ReadView, ReadInv, readOperation, m_rvalid, m_r
<1>3. CASE ar_target \in Slaves
  <2>1. ~r_unmapped.valid /\ s_r[ar_target].valid /\ ar_target # "none"
    BY <1>3, Empty DEF ReadInv
  <2>2. s_r[ar_target].resp = "OKAY"
    BY <1>3, <2>1, Empty DEF ReadInv
  <2>3. QED BY <1>3, <2>1, <2>2, Empty DEF ReadView, readOperation, m_rvalid, m_r
<1>4. QED BY <1>1, <1>2, <1>3 DEF ReadInv, Targets

(* The views after an edge.                                                *)
LEMMA ViewedAfter == (WriteInv' => WriteView') /\ (ReadInv' => ReadView')
BY WriteViewed, ReadViewed, PTL

(* The word at an address of the one memory, in the slave that has it.     *)
LEMMA ContentsOf ==
  \A a \in 0 .. 2 * MEM_DEPTH - 1 :
    /\ a < MEM_DEPTH => a \in 0 .. MEM_DEPTH - 1 /\ a % MEM_DEPTH = a
    /\ ~(a < MEM_DEPTH) => /\ a - MEM_DEPTH \in 0 .. MEM_DEPTH - 1
                           /\ a % MEM_DEPTH = a - MEM_DEPTH
<1> SUFFICES ASSUME NEW a \in 0 .. 2 * MEM_DEPTH - 1
    PROVE /\ a < MEM_DEPTH => a \in 0 .. MEM_DEPTH - 1 /\ a % MEM_DEPTH = a
          /\ ~(a < MEM_DEPTH) => /\ a - MEM_DEPTH \in 0 .. MEM_DEPTH - 1
                                 /\ a % MEM_DEPTH = a - MEM_DEPTH
  OBVIOUS
<1>1. MEM_DEPTH \in Nat \ {0} /\ a \in Nat
  BY SlaveAssumption
<1>2. CASE a < MEM_DEPTH
  BY <1>1, <1>2
<1>3. CASE ~(a < MEM_DEPTH)
  <2>1. a - MEM_DEPTH \in 0 .. MEM_DEPTH - 1
    BY <1>1, <1>3
  <2>2. (a - MEM_DEPTH + MEM_DEPTH) % MEM_DEPTH = a - MEM_DEPTH
    BY <2>1, IndexInRange
  <2>3. a - MEM_DEPTH + MEM_DEPTH = a
    BY <1>1
  <2>4. QED BY <1>3, <2>1, <2>2, <2>3
<1>4. QED BY <1>2, <1>3

(* Word n of slave t stands at address n + base(t), and nowhere else.      *)
LEMMA WordPlace ==
  ASSUME NEW t \in Slaves, NEW n \in 0 .. MEM_DEPTH - 1
  PROVE  /\ n + base(t) \in 0 .. 2 * MEM_DEPTH - 1
         /\ \A a \in 0 .. 2 * MEM_DEPTH - 1 :
              a = n + base(t) <=>
                /\ t = IF a < MEM_DEPTH THEN "s0" ELSE "s1"
                /\ n = a % MEM_DEPTH
<1>1. MEM_DEPTH \in Nat \ {0}
  BY SlaveAssumption
<1>2. CASE t = "s0"
  <2>1. base(t) = 0
    BY <1>2 DEF base
  <2>2. ASSUME NEW a \in 0 .. 2 * MEM_DEPTH - 1
        PROVE  a = n <=> a < MEM_DEPTH /\ n = a % MEM_DEPTH
    <3>1. CASE a < MEM_DEPTH
      BY <3>1, ContentsOf
    <3>2. CASE ~(a < MEM_DEPTH)
      BY <1>1, <3>2
    <3>3. QED BY <3>1, <3>2
  <2>3. n + base(t) = n /\ n \in 0 .. 2 * MEM_DEPTH - 1
    BY <1>1, <2>1
  <2>4. QED BY <1>2, <2>2, <2>3
<1>3. CASE t = "s1"
  <2>1. base(t) = MEM_DEPTH
    BY <1>3 DEF base, S1_BASE
  <2>2. ASSUME NEW a \in 0 .. 2 * MEM_DEPTH - 1
        PROVE  a = n + MEM_DEPTH <=> ~(a < MEM_DEPTH) /\ n = a % MEM_DEPTH
    <3>1. CASE a < MEM_DEPTH
      BY <1>1, <3>1
    <3>2. CASE ~(a < MEM_DEPTH)
      <4>1. a % MEM_DEPTH = a - MEM_DEPTH
        BY <3>2, ContentsOf
      <4>2. QED BY <1>1, <3>2, <4>1
    <3>3. QED BY <3>1, <3>2
  <2>3. n + MEM_DEPTH \in 0 .. 2 * MEM_DEPTH - 1
    BY <1>1
  <2>4. QED BY <1>3, <2>1, <2>2, <2>3
<1>4. QED BY <1>2, <1>3 DEF Slaves

(* The one memory that master and abstract specification see.              *)
memory == [a \in 0 .. 2 * MEM_DEPTH - 1 |-> contents(a)]

LEMMA SameMemory == UNCHANGED s_mem => UNCHANGED memory
BY DEF memory, contents

(* A word that a slave takes is written where the master addressed it.     *)
LEMMA WordWritten ==
  ASSUME WriteInv, aw_target \in Slaves, NEW wdata \in Word, NEW wstrb \in SUBSET Lanes,
         WTransfer(wdata, wstrb)
  PROVE  LET t == aw_target
             a == s_aw[t].addr + base(t)
         IN  /\ s_aw[t].valid /\ ~s_b[t].valid
             /\ a \in 0 .. 2 * MEM_DEPTH - 1
             /\ s_b'[t] = [valid |-> TRUE, id |-> s_aw[t].id, resp |-> "OKAY"]
             /\ memory' = [memory EXCEPT ![a] = Merged(@, wdata, wstrb)]
             /\ UNCHANGED <<aw_target, b_unmapped>>
<1> DEFINE t == aw_target
           n == s_aw[t].addr
<1>1. SlaveTakesData(t, wdata, wstrb) /\ UNCHANGED <<aw_target, b_unmapped>>
  BY Empty DEF WTransfer
<1>2. /\ s_aw[t].valid /\ ~s_b[t].valid
      /\ n \in 0 .. MEM_DEPTH - 1 /\ mem_index(n) = n
  <2>1. s_aw[t].valid /\ ~s_b[t].valid
    BY <1>1 DEF SlaveTakesData, s_wready
  <2>2. n \in Nat /\ n < MEM_DEPTH
    BY <2>1, Empty DEF WriteInv
  <2>3. n \in 0 .. MEM_DEPTH - 1
    BY <2>2, SlaveAssumption
  <2>4. QED BY <2>1, <2>3, IndexInRange
<1>3. s_b'[t] = [valid |-> TRUE, id |-> s_aw[t].id, resp |-> "OKAY"]
  BY <1>1 DEF SlaveTakesData, WriteInv
<1>4. s_mem' = [s_mem EXCEPT ![t][n] = Merged(@, wdata, wstrb)]
  BY <1>1, <1>2 DEF SlaveTakesData
<1>5. \A u \in Slaves, k \in 0 .. MEM_DEPTH - 1 :
        s_mem'[u][k] = IF u = t /\ k = n THEN Merged(s_mem[t][n], wdata, wstrb)
                       ELSE s_mem[u][k]
  BY <1>2, <1>4 DEF WriteInv, Memories
<1>6. ASSUME NEW a \in 0 .. 2 * MEM_DEPTH - 1
      PROVE  contents(a)' = IF a = n + base(t)
                            THEN Merged(contents(a), wdata, wstrb) ELSE contents(a)
  <2>1. /\ (IF a < MEM_DEPTH THEN "s0" ELSE "s1") \in Slaves
        /\ a % MEM_DEPTH \in 0 .. MEM_DEPTH - 1
    BY ContentsOf DEF Slaves
  <2>2. QED BY <1>2, <1>5, <2>1, WordPlace DEF contents
<1>7. n + base(t) \in 0 .. 2 * MEM_DEPTH - 1
  BY <1>2, WordPlace
<1>8. memory' = [a \in 0 .. 2 * MEM_DEPTH - 1 |-> contents(a)']
  BY DEF memory
<1>9. memory' = [memory EXCEPT ![n + base(t)] = Merged(@, wdata, wstrb)]
  BY <1>6, <1>7, <1>8 DEF memory
<1>10. QED BY <1>1, <1>2, <1>3, <1>7, <1>9

(* Every edge of the write side is a step of the write port.               *)
LEMMA WritePort == WriteInv /\ WriteInv' /\ WriteEdge => Ports!WriteStep
<1> SUFFICES ASSUME WriteInv, WriteInv', WriteEdge PROVE Ports!WriteStep
  OBVIOUS
<1> DEFINE write == writeOperation
<1>1. WriteView /\ WriteView'
  BY WriteViewed, ViewedAfter
<1>2. ASSUME NEW id \in Ids, NEW addr \in Addresses, AwTransfer(id, addr)
      PROVE  Ports!WriteStep
  <2>1. write = Ports!Idle /\ aw_target' = decode(addr)
    BY <1>1, <1>2 DEF AwTransfer, WriteView, Ports!Idle
  <2>2. CASE decode(addr) \in Slaves
    <3>1. SlaveTakesAddress(decode(addr), id, addr - base(decode(addr)))
      BY <1>2, <2>2, Empty DEF AwTransfer
    <3>2. /\ s_aw'[decode(addr)] =
               [valid |-> TRUE, id |-> id, addr |-> addr - base(decode(addr))]
          /\ ~s_b'[decode(addr)].valid
          /\ UNCHANGED s_mem
      BY <2>2, <3>1 DEF SlaveTakesAddress, s_awready, WriteInv
    <3>3. addr - base(decode(addr)) + base(decode(addr)) = addr
      BY SlaveAssumption, Decoding DEF base, S1_BASE
    <3>4. write' = [phase |-> "addressed", id |-> id, addr |-> addr]
      BY <1>1, <2>1, <2>2, <3>2, <3>3 DEF WriteView
    <3>5. Ports!AcceptAddress(id, addr)
      BY <2>1, <2>2, <3>2, <3>4, Decoding, SameMemory DEF Ports!AcceptAddress, memory
    <3>6. QED BY <3>5 DEF Ports!WriteStep
  <2>3. CASE decode(addr) = "unmapped"
    <3>1. b_unmapped' = [valid |-> FALSE, id |-> id] /\ UNCHANGED s_mem
      BY <1>2, <2>3, Empty DEF AwTransfer, slaveWriteVars
    <3>2. write' = [phase |-> "rejected", id |-> id]
      BY <1>1, <2>1, <2>3, <3>1 DEF WriteView
    <3>3. Ports!AcceptAddress(id, addr)
      BY <2>1, <2>3, <3>1, <3>2, Decoding, Empty, SameMemory
      DEF Ports!AcceptAddress, memory
    <3>4. QED BY <3>3 DEF Ports!WriteStep
  <2>4. QED BY <2>2, <2>3, Decoding
<1>3. ASSUME NEW wdata \in Word, NEW wstrb \in SUBSET Lanes, WTransfer(wdata, wstrb)
      PROVE  Ports!WriteStep
  <2>1. CASE aw_target \in Slaves
    <3> DEFINE t == aw_target
               n == s_aw[t].addr
    <3>1. /\ s_aw[t].valid /\ ~s_b[t].valid
          /\ s_b'[t] = [valid |-> TRUE, id |-> s_aw[t].id, resp |-> "OKAY"]
          /\ memory' = [memory EXCEPT ![n + base(t)] = Merged(@, wdata, wstrb)]
          /\ UNCHANGED aw_target
      BY <1>3, <2>1, WordWritten
    <3>2. write = [phase |-> "addressed", id |-> s_aw[t].id, addr |-> n + base(t)]
      BY <1>1, <2>1, <3>1 DEF WriteView
    <3>3. write' = [phase |-> "answered", id |-> s_aw[t].id, resp |-> "OKAY"]
      BY <1>1, <2>1, <3>1 DEF WriteView
    <3>4. Ports!PerformWrite(wdata, wstrb)
      BY <3>1, <3>2, <3>3 DEF Ports!PerformWrite, memory, Ports!Merged, Merged
    <3>5. QED BY <3>4 DEF Ports!WriteStep, Ports!Word, Word
  <2>2. CASE aw_target \notin Slaves
    <3>1. /\ aw_target = "unmapped" /\ ~b_unmapped.valid
          /\ b_unmapped' = [b_unmapped EXCEPT !.valid = TRUE]
          /\ UNCHANGED <<aw_target, s_mem>>
      BY <1>3, <2>2 DEF WTransfer, slaveWriteVars
    <3>2. b_unmapped'.valid /\ b_unmapped'.id = b_unmapped.id
      BY <3>1 DEF WriteInv
    <3>3. /\ write = [phase |-> "rejected", id |-> b_unmapped.id]
          /\ write' = [phase |-> "answered", id |-> b_unmapped.id, resp |-> "DECERR"]
      BY <1>1, <3>1, <3>2 DEF WriteView
    <3>4. Ports!RefuseWrite
      BY <3>1, <3>3, SameMemory DEF Ports!RefuseWrite, memory
    <3>5. QED BY <3>4 DEF Ports!WriteStep
  <2>3. QED BY <2>1, <2>2
<1>4. ASSUME BTransfer PROVE Ports!WriteStep
  <2>1. UNCHANGED s_mem
    BY <1>4 DEF BTransfer, slaveWriteVars, SlaveResponseTaken
  <2>2. write.phase = "answered"
    BY <1>1, <1>4 DEF BTransfer, m_bvalid, WriteView
  <2>3. write' = Ports!Idle
    BY <1>1, <1>4 DEF BTransfer, WriteView, Ports!Idle
  <2>4. Ports!FinishWrite
    BY <2>1, <2>2, <2>3, SameMemory DEF Ports!FinishWrite, memory
  <2>5. QED BY <2>4 DEF Ports!WriteStep
<1>5. ASSUME UNCHANGED writeVars PROVE Ports!WriteStep
  <2>1. UNCHANGED s_mem /\ UNCHANGED writeOperation
    BY <1>5 DEF writeVars, slaveWriteVars, writeOperation, m_bvalid, m_b
  <2>2. QED BY <2>1, SameMemory DEF Ports!WriteStep, memory
<1>6. QED BY <1>2, <1>3, <1>4, <1>5 DEF WriteEdge

(* Every edge of the read side is a step of the read port.                 *)
LEMMA ReadPort == WriteInv /\ ReadInv /\ ReadInv' /\ ReadEdge => Ports!ReadStep
<1> SUFFICES ASSUME WriteInv, ReadInv, ReadInv', ReadEdge PROVE Ports!ReadStep
  OBVIOUS
<1> DEFINE read == readOperation
<1>1. ReadView /\ ReadView'
  BY ReadViewed, ViewedAfter
<1>2. ASSUME NEW id \in Ids, NEW addr \in Addresses, ArTransfer(id, addr)
      PROVE  Ports!ReadStep
  <2>1. read = Ports!Idle /\ ar_target' = decode(addr)
    BY <1>1, <1>2 DEF ArTransfer, ReadView, Ports!Idle
  <2>2. CASE decode(addr) \in Slaves
    <3> DEFINE t == decode(addr)
               n == addr - base(t)
    <3>1. n \in 0 .. MEM_DEPTH - 1 /\ n + base(t) = addr /\ addr < 2 * MEM_DEPTH
      BY <2>2, SlaveAssumption, Decoding DEF base, S1_BASE
    <3>2. s_r'[t] = [valid |-> TRUE, id |-> id, rdata |-> s_mem[t][n], resp |-> "OKAY"]
      BY <1>2, <2>2, <3>1, IndexInRange, Empty DEF ArTransfer, SlaveTakesRead, ReadInv
    <3>3. addr \in 0 .. 2 * MEM_DEPTH - 1 /\ contents(addr) = s_mem[t][n]
      BY <2>2, <3>1, WordPlace DEF contents
    <3>4. read' = [phase |-> "answered", id |-> id, rdata |-> memory[addr],
                   resp |-> "OKAY"]
      BY <1>1, <2>1, <2>2, <3>2, <3>3 DEF ReadView, memory
    <3>5. Ports!PerformRead(id, addr)
      BY <2>1, <3>1, <3>4 DEF Ports!PerformRead, memory
    <3>6. QED BY <3>5 DEF Ports!ReadStep
  <2>3. CASE decode(addr) = "unmapped"
    <3>1. r_unmapped' = [valid |-> TRUE, id |-> id]
      BY <1>2, <2>3, Empty DEF ArTransfer
    <3>2. read' = [phase |-> "answered", id |-> id, rdata |-> ZeroWord,
                   resp |-> "DECERR"]
      BY <1>1, <2>1, <2>3, <3>1 DEF ReadView
    <3>3. ~(addr < 2 * MEM_DEPTH)
      BY <2>3, Decoding, Empty
    <3>4. Ports!PerformRead(id, addr)
      BY <2>1, <3>2, <3>3 DEF Ports!PerformRead, Ports!ZeroWord, ZeroWord
    <3>5. QED BY <3>4 DEF Ports!ReadStep
  <2>4. QED BY <2>2, <2>3, Decoding
<1>3. ASSUME RTransfer PROVE Ports!ReadStep
  <2>1. read.phase = "answered"
    BY <1>1, <1>3 DEF RTransfer, m_rvalid, ReadView, ReadInv
  <2>2. read' = Ports!Idle
    BY <1>1, <1>3 DEF RTransfer, ReadView, Ports!Idle
  <2>3. QED BY <2>1, <2>2 DEF Ports!FinishRead, Ports!ReadStep
<1>4. ASSUME UNCHANGED readVars PROVE Ports!ReadStep
  BY <1>4 DEF readVars, slaveReadVars, readOperation, m_rvalid, m_r, Ports!ReadStep
<1>5. QED BY <1>2, <1>3, <1>4 DEF ReadEdge

(* Interconnect and slaves are one memory with a write and a read port,    *)
(* whatever the master does: each request is answered once, with its id,   *)
(* by the slave of its address.                                            *)
THEOREM BusImplementsPorts == BusSpec => ImplementsPorts
<1>1. BusInit => Ports!Init
  <2> SUFFICES ASSUME BusInit PROVE Ports!Init
    OBVIOUS
  <2>1. WriteView /\ ReadView
    BY HalvesInit, WriteViewed, ReadViewed
  <2>2. writeOperation = Ports!Idle /\ readOperation = Ports!Idle
    BY <2>1 DEF BusInit, WriteView, ReadView, Ports!Idle
  <2>3. \A a \in 0 .. 2 * MEM_DEPTH - 1 : contents(a) \in Word
    BY ContentsOf DEF contents, BusInit, SlaveInit, Memories, Slaves
  <2>4. memory \in [0 .. 2 * MEM_DEPTH - 1 -> Word]
    BY <2>3 DEF memory
  <2>5. QED BY <2>2, <2>4 DEF Ports!Init, memory, Ports!Word, Word
<1>2. WriteInv /\ ReadInv /\ [BusNext]_busVars => [Ports!Next]_(Ports!portVars)
  <2> SUFFICES ASSUME WriteInv, ReadInv, [BusNext]_busVars PROVE Ports!Next
    OBVIOUS
  <2>1. WriteInv' /\ ReadInv'
    BY HalvesStep
  <2>2. CASE WriteEdge /\ ReadEdge
    BY <2>1, <2>2, WritePort, ReadPort DEF Ports!Next
  <2>3. CASE BusReset
    <3>1. writeOperation' = Ports!Idle /\ readOperation' = Ports!Idle
      BY <2>1, <2>3, ViewedAfter DEF BusReset, WriteView, ReadView, Ports!Idle
    <3>2. UNCHANGED memory
      BY <2>3, SameMemory DEF BusReset, SlaveReset
    <3>3. QED BY <3>1, <3>2 DEF Ports!Next, Ports!Abandon, memory
  <2>4. CASE UNCHANGED busVars
    <3>1. WriteEdge /\ ReadEdge
      BY <2>4 DEF busVars, WriteEdge, ReadEdge
    <3>2. QED BY <2>2, <3>1
  <2>5. QED BY <2>2, <2>3, <2>4 DEF BusNext
<1>3. QED
  BY <1>1, <1>2, HalvesInit, HalvesStep, PTL DEF BusSpec, ImplementsPorts, Ports!Spec

-----------------------------------------------------------------------------
(* The system with its master. *)

(* The write in progress carries this id and address, before its data.     *)
WriteCarries(id, addr) ==
  /\ aw_target \in Slaves => /\ s_aw[aw_target].id = id
                             /\ s_aw[aw_target].addr + base(aw_target) = addr
  /\ aw_target = "unmapped" => b_unmapped.id = id

(* The inductive form of InStep: what is on the way is the command's.      *)
CommandCarried == state = "SEND_W" => WriteCarries(cmd.id, cmd.request.addr)

Progress ==
  /\ state = "SEND_W" => aw_target = decode(cmd.request.addr) /\ ~m_bvalid
  /\ state = "WAIT_B" => m_bvalid /\ m_b.id = cmd.id
  /\ state = "WAIT_R" => m_rvalid /\ m_r.id = cmd.id
  /\ state \notin {"SEND_W", "WAIT_B"} => aw_target = "none"
  /\ state # "WAIT_R" => ar_target = "none"

SystemInv == WriteInv /\ ReadInv /\ MasterTypeOK /\ CommandCarried /\ Progress

LEMMA SystemInvIsInStep == SystemInv => InStep
BY HalvesAreInvariants DEF SystemInv, InStep, Progress, TypeOK

-----------------------------------------------------------------------------
(* What each handshake of the bus leaves behind. *)
LEMMA AwEffect ==
  ASSUME WriteInv, NEW id \in Ids, NEW addr \in Addresses, AwTransfer(id, addr)
  PROVE  /\ WriteInv'
         /\ aw_target' = decode(addr) /\ ~m_bvalid' /\ WriteCarries(id, addr)'
        /\ UNCHANGED memory
<1>1. WriteInv'
  BY WriteEdgeKeeps DEF WriteEdge
<1>2. CASE decode(addr) \in Slaves
  <2>1. /\ aw_target = "none" /\ ~b_unmapped.valid /\ UNCHANGED b_unmapped
        /\ aw_target' = decode(addr)
        /\ SlaveTakesAddress(decode(addr), id, addr - base(decode(addr)))
    BY <1>2, Empty DEF AwTransfer
  <2>2. /\ s_b' = s_b /\ ~s_b[decode(addr)].valid /\ UNCHANGED s_mem
        /\ s_aw'[decode(addr)].id = id
        /\ s_aw'[decode(addr)].addr = addr - base(decode(addr))
    BY <1>2, <2>1 DEF SlaveTakesAddress, s_awready, WriteInv
  <2>3. addr - base(decode(addr)) + base(decode(addr)) = addr
    BY SlaveAssumption, Decoding DEF base, S1_BASE
  <2>4. base(aw_target)' = base(decode(addr))
    BY <2>1 DEF base
  <2>5. WriteCarries(id, addr)'
    BY <1>2, <2>1, <2>2, <2>3, <2>4, Empty DEF WriteCarries
  <2>6. ~m_bvalid'
    BY <2>1, <2>2 DEF m_bvalid
  <2>7. QED BY <1>1, <2>1, <2>2, <2>5, <2>6, SameMemory
<1>3. CASE decode(addr) = "unmapped"
  <2>1. /\ aw_target' = "unmapped" /\ b_unmapped' = [valid |-> FALSE, id |-> id]
        /\ UNCHANGED s_mem
    BY <1>3, Empty DEF AwTransfer, slaveWriteVars
  <2>2. QED BY <1>1, <1>3, <2>1, Empty, SameMemory DEF m_bvalid, WriteCarries
<1>4. QED BY <1>2, <1>3, Decoding

LEMMA WEffect ==
  ASSUME WriteInv, NEW wdata \in Word, NEW wstrb \in SUBSET Lanes,
         WTransfer(wdata, wstrb), NEW id, NEW addr, WriteCarries(id, addr)
  PROVE  /\ WriteInv'
         /\ aw_target' = aw_target /\ m_bvalid'
         /\ aw_target \in Slaves =>
              /\ m_b' = [id |-> id, resp |-> "OKAY"]
              /\ addr \in 0 .. 2 * MEM_DEPTH - 1
              /\ memory' = [memory EXCEPT ![addr] = Merged(@, wdata, wstrb)]
         /\ aw_target \notin Slaves =>
              /\ m_b' = [id |-> id, resp |-> "DECERR"]
              /\ UNCHANGED memory
         /\ aw_target \in Slaves \cup {"unmapped"}
<1>1. WriteInv' /\ aw_target' = aw_target /\ ~b_unmapped.valid
  BY WriteEdgeKeeps DEF WriteEdge, WTransfer
<1>2. CASE aw_target \in Slaves
  <2>1. /\ s_b'[aw_target] = [valid |-> TRUE, id |-> id, resp |-> "OKAY"]
        /\ addr \in 0 .. 2 * MEM_DEPTH - 1
        /\ memory' = [memory EXCEPT ![addr] = Merged(@, wdata, wstrb)]
        /\ b_unmapped' = b_unmapped
    BY <1>2, WordWritten DEF WriteCarries
  <2>2. m_bvalid' /\ m_b' = [id |-> id, resp |-> "OKAY"]
    BY <1>1, <1>2, <2>1 DEF m_bvalid, m_b
  <2>3. QED BY <1>1, <1>2, <2>1, <2>2
<1>3. CASE aw_target = "unmapped"
  <2>1. b_unmapped' = [b_unmapped EXCEPT !.valid = TRUE] /\ UNCHANGED s_mem
    BY <1>3, Empty DEF WTransfer, slaveWriteVars
  <2>2. b_unmapped'.valid /\ b_unmapped'.id = id
    BY <1>3, <2>1 DEF WriteInv, WriteCarries
  <2>3. m_bvalid' /\ m_b' = [id |-> id, resp |-> "DECERR"]
    BY <2>2 DEF m_bvalid, m_b
  <2>4. QED BY <1>1, <1>3, <2>1, <2>3, Empty, SameMemory
<1>4. QED BY <1>2, <1>3 DEF WTransfer

LEMMA BEffect ==
  ASSUME WriteInv, BTransfer
  PROVE  /\ WriteInv'
         /\ aw_target' = "none" /\ m_b.id \in Ids /\ m_b.resp \in {"OKAY", "DECERR"}
         /\ UNCHANGED memory
<1>1. WriteInv' /\ aw_target' = "none" /\ UNCHANGED memory
  BY WriteEdgeKeeps, SameMemory
  DEF WriteEdge, BTransfer, slaveWriteVars, SlaveResponseTaken
<1>2. CASE b_unmapped.valid
  BY <1>1, <1>2 DEF m_b, WriteInv
<1>3. CASE ~ b_unmapped.valid
  <2>1. aw_target \in Slaves /\ s_b[aw_target].valid
    BY <1>3 DEF BTransfer, m_bvalid
  <2>2. s_b[aw_target] \in [valid : {TRUE}, id : Ids, resp : {"OKAY"}]
    BY <2>1, Empty DEF WriteInv
  <2>3. QED BY <1>1, <1>3, <2>2 DEF m_b
<1>4. QED BY <1>2, <1>3

LEMMA ArEffect ==
  ASSUME WriteInv, ReadInv, NEW id \in Ids, NEW addr \in Addresses, ArTransfer(id, addr)
  PROVE  /\ ReadInv'
         /\ m_rvalid' /\ m_r.id' = id
         /\ addr < 2 * MEM_DEPTH =>
              /\ addr \in 0 .. 2 * MEM_DEPTH - 1
              /\ m_r' = [id |-> id, rdata |-> memory[addr], resp |-> "OKAY"]
         /\ ~(addr < 2 * MEM_DEPTH) =>
              m_r' = [id |-> id, rdata |-> ZeroWord, resp |-> "DECERR"]
<1>1. ReadInv'
  BY ReadEdgeKeeps DEF ReadEdge
<1>2. CASE decode(addr) \in Slaves
  <2>1. /\ ~r_unmapped.valid /\ UNCHANGED r_unmapped /\ ar_target' = decode(addr)
        /\ SlaveTakesRead(decode(addr), id, addr - base(decode(addr)))
    BY <1>2, Empty DEF ArTransfer
  <2> DEFINE t == decode(addr)
             n == addr - base(t)
  <2>2. n \in 0 .. MEM_DEPTH - 1 /\ n + base(t) = addr /\ addr < 2 * MEM_DEPTH
    BY <1>2, SlaveAssumption, Decoding DEF base, S1_BASE
  <2>3. s_r'[t] = [valid |-> TRUE, id |-> id, rdata |-> s_mem[t][n], resp |-> "OKAY"]
    BY <1>2, <2>1, <2>2, IndexInRange DEF SlaveTakesRead, ReadInv
  <2>4. addr \in 0 .. 2 * MEM_DEPTH - 1 /\ memory[addr] = s_mem[t][n]
    BY <1>2, <2>2, WordPlace DEF contents, memory
  <2>5. m_rvalid' /\ m_r' = [id |-> id, rdata |-> memory[addr], resp |-> "OKAY"]
    BY <1>2, <2>1, <2>3, <2>4 DEF m_rvalid, m_r
  <2>6. QED BY <1>1, <2>2, <2>4, <2>5
<1>3. CASE decode(addr) = "unmapped"
  <2>1. r_unmapped' = [valid |-> TRUE, id |-> id]
    BY <1>3, Empty DEF ArTransfer
  <2>2. m_rvalid' /\ m_r' = [id |-> id, rdata |-> ZeroWord, resp |-> "DECERR"]
    BY <2>1 DEF m_rvalid, m_r, ZeroWord
  <2>3. ~(addr < 2 * MEM_DEPTH)
    BY <1>3, Decoding, Empty
  <2>4. QED BY <1>1, <2>2, <2>3
<1>4. QED BY <1>2, <1>3, Decoding

LEMMA REffect ==
  ASSUME WriteInv, ReadInv, RTransfer
  PROVE  /\ ReadInv' /\ ar_target' = "none"
         /\ m_r.id \in Ids /\ m_r.rdata \in Word /\ m_r.resp \in {"OKAY", "DECERR"}
<1>1. ReadInv' /\ ar_target' = "none"
  BY ReadEdgeKeeps DEF ReadEdge, RTransfer
<1>2. CASE r_unmapped.valid
  BY <1>1, <1>2, WordsAreClosed DEF m_r, ReadInv
<1>3. CASE ~ r_unmapped.valid
  <2>1. ar_target \in Slaves /\ s_r[ar_target].valid
    BY <1>3 DEF RTransfer, m_rvalid
  <2>2. s_r[ar_target] \in [valid : {TRUE}, id : Ids, rdata : Word, resp : {"OKAY"}]
    BY <2>1, Empty DEF ReadInv
  <2>3. QED BY <1>1, <1>3, <2>2 DEF m_r
<1>4. QED BY <1>2, <1>3

-----------------------------------------------------------------------------
(* The registers that each half, and what it shows the master, depend on.  *)
LEMMA ReadHalfStays == ReadInv /\ UNCHANGED readVars =>
  ReadInv' /\ ar_target' = ar_target /\ m_rvalid' = m_rvalid /\ m_r' = m_r
BY DEF ReadInv, readVars, slaveReadVars, m_rvalid, m_r

LEMMA WriteHalfStays == WriteInv /\ UNCHANGED writeVars =>
  /\ WriteInv' /\ aw_target' = aw_target /\ m_bvalid' = m_bvalid /\ m_b' = m_b
  /\ UNCHANGED memory
BY SameMemory DEF WriteInv, writeVars, slaveWriteVars, m_bvalid, m_b

(* A command latched in a write state is a write, in a read state a read.  *)
LEMMA CommandsAreRequests ==
  \A c \in Commands :
    /\ c.id \in Ids /\ c.request.addr \in Addresses /\ c.request.write \in BOOLEAN
    /\ c.request.wdata \in Word /\ c.request.wstrb \in SUBSET Lanes
BY WordsAreClosed DEF Commands, Requests, Reads, Writes

LEMMA SystemInvInit == Init => SystemInv
<1> SUFFICES ASSUME Init PROVE SystemInv
  OBVIOUS
<1>1. WriteInv /\ ReadInv
  BY HalvesInit DEF Init
<1>2. MasterTypeOK /\ state = "IDLE"
  BY IdsAssumption, WordsAreClosed
  DEF Init, MasterInit, MasterTypeOK, States, ResetCommand, ResetResponse
<1>3. aw_target = "none" /\ ar_target = "none"
  BY DEF Init, BusInit
<1>4. QED BY <1>1, <1>2, <1>3 DEF SystemInv, CommandCarried, Progress

LEMMA SystemInvStep == SystemInv /\ [Next]_vars => SystemInv'
<1> SUFFICES ASSUME SystemInv, [Next]_vars PROVE SystemInv'
  OBVIOUS
<1> USE DEF SystemInv
<1>1. CASE Issue
  <2>1. PICK c \in Commands : TakeCommand(c)
    BY <1>1 DEF Issue
  <2>2. UNCHANGED writeVars /\ UNCHANGED readVars
    BY <1>1 DEF Issue, busVars
  <2>3. WriteInv' /\ ReadInv' /\ aw_target' = aw_target /\ ar_target' = ar_target
    BY <2>2, WriteHalfStays, ReadHalfStays
  <2>4. /\ state = "IDLE" /\ state' \in {"SEND_AW", "SEND_AR"}
        /\ MasterTypeOK'
    BY <2>1, CommandsAreRequests DEF TakeCommand, MasterTypeOK, States
  <2>5. QED BY <2>3, <2>4 DEF CommandCarried, Progress
<1>2. CASE AddressWrite
  <2>1. cmd \in Commands /\ MasterTypeOK' /\ state' = "SEND_W" /\ cmd' = cmd
    BY <1>2 DEF AddressWrite, SendAw, MasterTypeOK, States
  <2>2. cmd.id \in Ids /\ cmd.request.addr \in Addresses
    BY <2>1, CommandsAreRequests
  <2>3. AwTransfer(cmd.id, cmd.request.addr) /\ UNCHANGED readVars
    BY <1>2 DEF AddressWrite
  <2>4. /\ WriteInv' /\ WriteCarries(cmd.id, cmd.request.addr)'
        /\ aw_target' = decode(cmd.request.addr) /\ ~m_bvalid'
    BY <2>1, <2>2, <2>3, AwEffect
  <2>5. ReadInv' /\ ar_target' = "none"
    BY <1>2, <2>3, ReadHalfStays DEF AddressWrite, SendAw, Progress
  <2>6. decode(cmd.request.addr)' = decode(cmd.request.addr)
    BY <2>1 DEF decode
  <2>7. QED BY <2>1, <2>4, <2>5, <2>6 DEF CommandCarried, Progress
<1>3. CASE DataWrite
  <2>1. cmd \in Commands /\ MasterTypeOK' /\ state' = "WAIT_B" /\ cmd' = cmd
    BY <1>3 DEF DataWrite, SendW, MasterTypeOK, States
  <2>2. /\ cmd.request.wdata \in Word /\ cmd.request.wstrb \in SUBSET Lanes
        /\ WTransfer(cmd.request.wdata, cmd.request.wstrb) /\ UNCHANGED readVars
        /\ WriteCarries(cmd.id, cmd.request.addr)
    BY <1>3, <2>1, CommandsAreRequests DEF DataWrite, SendW, CommandCarried
  <2>3. WriteInv' /\ aw_target' = aw_target /\ m_bvalid' /\ m_b.id' = cmd.id
    BY <2>2, WEffect
  <2>4. ReadInv' /\ ar_target' = "none"
    BY <1>3, <2>2, ReadHalfStays DEF DataWrite, SendW, Progress
  <2>5. QED BY <2>1, <2>3, <2>4 DEF CommandCarried, Progress
<1>4. CASE WriteAnswer
  <2>1. WriteInv' /\ aw_target' = "none" /\ m_b.id \in Ids /\ m_b.resp \in {"OKAY", "DECERR"}
    BY <1>4, BEffect DEF WriteAnswer
  <2>2. MasterTypeOK' /\ state = "WAIT_B" /\ state' = "RESP"
    BY <1>4, <2>1, WordsAreClosed DEF WriteAnswer, TakeB, MasterTypeOK, States
  <2>3. ReadInv' /\ ar_target' = "none"
    BY <1>4, <2>2, ReadHalfStays DEF WriteAnswer, Progress
  <2>4. QED BY <2>1, <2>2, <2>3 DEF CommandCarried, Progress
<1>5. CASE AddressRead
  <2>1. /\ cmd \in Commands /\ MasterTypeOK' /\ state' = "WAIT_R" /\ cmd' = cmd
        /\ state = "SEND_AR"
    BY <1>5 DEF AddressRead, SendAr, MasterTypeOK, States
  <2>2. /\ cmd.id \in Ids /\ cmd.request.addr \in Addresses
        /\ ArTransfer(cmd.id, cmd.request.addr) /\ UNCHANGED writeVars
    BY <1>5, <2>1, CommandsAreRequests DEF AddressRead
  <2>3. ReadInv' /\ m_rvalid' /\ m_r.id' = cmd.id
    BY <2>2, ArEffect
  <2>4. WriteInv' /\ aw_target' = "none"
    BY <2>1, <2>2, WriteHalfStays DEF Progress
  <2>5. QED BY <2>1, <2>3, <2>4 DEF CommandCarried, Progress
<1>6. CASE ReadAnswer
  <2>1. /\ ReadInv' /\ ar_target' = "none"
        /\ m_r.id \in Ids /\ m_r.rdata \in Word /\ m_r.resp \in {"OKAY", "DECERR"}
    BY <1>6, REffect DEF ReadAnswer
  <2>2. MasterTypeOK' /\ state = "WAIT_R" /\ state' = "RESP"
    BY <1>6, <2>1 DEF ReadAnswer, TakeR, MasterTypeOK, States
  <2>3. WriteInv' /\ aw_target' = "none"
    BY <1>6, <2>2, WriteHalfStays DEF ReadAnswer, Progress
  <2>4. QED BY <2>1, <2>2, <2>3 DEF CommandCarried, Progress
<1>7. CASE Respond
  <2>1. state = "RESP" /\ state' = "IDLE" /\ MasterTypeOK'
    BY <1>7 DEF Respond, Complete, MasterTypeOK, States
  <2>2. /\ WriteInv' /\ aw_target' = aw_target
        /\ ReadInv' /\ ar_target' = ar_target
    BY <1>7, WriteHalfStays, ReadHalfStays DEF Respond, busVars
  <2>3. QED BY <2>1, <2>2 DEF CommandCarried, Progress
<1>8. CASE Reset
  <2>1. MasterTypeOK' /\ state' = "IDLE"
    BY <1>8, IdsAssumption, WordsAreClosed
    DEF Reset, MasterReset, MasterTypeOK, States, ResetCommand, ResetResponse
  <2>2. WriteInv' /\ ReadInv' /\ aw_target' = "none" /\ ar_target' = "none"
    BY <1>8, HalvesReset DEF Reset, BusReset
  <2>3. QED BY <2>1, <2>2 DEF CommandCarried, Progress
<1>9. CASE UNCHANGED vars
  <2>1. UNCHANGED writeVars /\ UNCHANGED readVars /\ UNCHANGED masterVars
    BY <1>9 DEF vars, busVars
  <2>2. /\ WriteInv' /\ aw_target' = aw_target /\ m_bvalid' = m_bvalid /\ m_b' = m_b
        /\ ReadInv' /\ ar_target' = ar_target /\ m_rvalid' = m_rvalid /\ m_r' = m_r
    BY <2>1, WriteHalfStays, ReadHalfStays
  <2>3. state' = state /\ cmd' = cmd /\ rsp' = rsp /\ MasterTypeOK'
    BY <2>1 DEF masterVars, MasterTypeOK
  <2>4. s_aw' = s_aw /\ b_unmapped' = b_unmapped
    BY <2>1 DEF writeVars, slaveWriteVars
  <2>5. CommandCarried'
    BY <2>2, <2>3, <2>4 DEF CommandCarried, WriteCarries, base
  <2>6. Progress'
    BY <2>2, <2>3 DEF Progress, decode
  <2>7. QED BY <2>2, <2>3, <2>5, <2>6
<1>10. QED
  BY <1>1, <1>2, <1>3, <1>4, <1>5, <1>6, <1>7, <1>8, <1>9 DEF Next, Transfer

(* Master, interconnect and slaves never disagree on how far the command   *)
(* is: an answer with its id is there where the master waits for one; and  *)
(* all registers keep their types.                                         *)
THEOREM CommandsInStep == Spec => []InStep
BY SystemInvInit, SystemInvStep, SystemInvIsInStep, PTL DEF Spec
-----------------------------------------------------------------------------
(* The refinement.  The operation the command side sees, by the state of   *)
(* the master.                                                             *)
OperationView ==
  /\ state = "IDLE" => operation = Bus!Idle
  /\ state \in {"SEND_AW", "SEND_W", "SEND_AR"} => operation = Bus!Pending(cmd)
  /\ state = "WAIT_B" => operation = Bus!Done(m_b.id, ZeroWord, m_b.resp)
  /\ state = "WAIT_R" => operation = [phase |-> "done", rsp |-> m_r]
  /\ state = "RESP" => operation = [phase |-> "done", rsp |-> rsp]

LEMMA OperationViewed == OperationView
BY DEF OperationView, operation, Bus!Idle, Bus!Pending, Bus!Done

LEMMA OperationViewedAfter == OperationView'
BY OperationViewed, PTL

(* The commands and words of the abstract specification are the system's.  *)
LEMMA SameWords ==
  /\ Bus!Commands = Commands /\ Bus!ZeroWord = ZeroWord /\ Bus!Word = Word
  /\ \A old, new, strobes : Bus!Merged(old, new, strobes) = Merged(old, new, strobes)
BY DEF Bus!Commands, Bus!Requests, Bus!Reads, Bus!Writes, Bus!ZeroWord, Bus!Word,
       Bus!Merged, Commands, Requests, Reads, Writes, ZeroWord, Word, Merged

LEMMA RefinementInit == Init => Bus!Init
<1> SUFFICES ASSUME Init PROVE Bus!Init
  OBVIOUS
<1>1. operation = Bus!Idle
  BY OperationViewed DEF OperationView, Init, MasterInit
<1>2. \A a \in 0 .. 2 * MEM_DEPTH - 1 : contents(a) \in Word
  BY ContentsOf DEF contents, Init, BusInit, SlaveInit, Memories, Slaves
<1>3. QED BY <1>1, <1>2, SameWords DEF Bus!Init

LEMMA RefinementStep == SystemInv /\ [Next]_vars => [Bus!Next]_(Bus!commandVars)
<1> SUFFICES ASSUME SystemInv, [Next]_vars PROVE [Bus!Next]_(Bus!commandVars)
  OBVIOUS
<1> USE DEF SystemInv
<1> DEFINE Stutters == UNCHANGED memory /\ UNCHANGED operation
<1>1. Stutters => UNCHANGED Bus!commandVars
  BY DEF memory, Bus!commandVars
<1>2. CASE Issue
  <2>1. PICK c \in Commands : TakeCommand(c)
    BY <1>2 DEF Issue
  <2>2. operation = Bus!Idle /\ operation' = Bus!Pending(c)
    BY <2>1, OperationViewed, OperationViewedAfter
    DEF OperationView, TakeCommand, Bus!Pending
  <2>3. UNCHANGED memory
    BY <1>2, WriteHalfStays DEF Issue, busVars
  <2>4. Bus!Issue(c)
    BY <2>2, <2>3 DEF Bus!Issue, memory
  <2>5. QED BY <2>1, <2>4, SameWords DEF Bus!Next
<1>3. CASE AddressWrite
  <2>1. /\ cmd \in Commands /\ cmd' = cmd
        /\ state = "SEND_AW" /\ state' = "SEND_W"
        /\ AwTransfer(cmd.id, cmd.request.addr)
    BY <1>3 DEF AddressWrite, SendAw, MasterTypeOK
  <2>2. operation = Bus!Pending(cmd) /\ operation' = Bus!Pending(cmd)
    BY <2>1, OperationViewed, OperationViewedAfter DEF OperationView, Bus!Pending
  <2>3. UNCHANGED memory
    BY <2>1, CommandsAreRequests, AwEffect
  <2>4. QED BY <1>1, <2>2, <2>3
<1>4. CASE DataWrite
  <2>1. /\ cmd \in Commands /\ cmd.request.write
        /\ state = "SEND_W" /\ state' = "WAIT_B"
        /\ WTransfer(cmd.request.wdata, cmd.request.wstrb)
        /\ WriteCarries(cmd.id, cmd.request.addr)
        /\ aw_target = decode(cmd.request.addr)
    BY <1>4 DEF DataWrite, SendW, MasterTypeOK, CommandCarried, Progress
  <2>2. /\ cmd.request.wdata \in Word /\ cmd.request.wstrb \in SUBSET Lanes
        /\ cmd.request.addr \in Addresses
    BY <2>1, CommandsAreRequests
  <2>3. /\ operation = Bus!Pending(cmd)
        /\ operation' = Bus!Done(m_b'.id, ZeroWord, m_b'.resp)
    BY <2>1, OperationViewed, OperationViewedAfter DEF OperationView, Bus!Done, ZeroWord
  <2>4. CASE aw_target \in Slaves
    <3>1. /\ m_b' = [id |-> cmd.id, resp |-> "OKAY"]
          /\ memory' = [memory EXCEPT ![cmd.request.addr] =
                          Merged(@, cmd.request.wdata, cmd.request.wstrb)]
      BY <2>1, <2>2, <2>4, WEffect
    <3>2. cmd.request.addr < 2 * MEM_DEPTH
      BY <2>1, <2>2, <2>4, Decoding
    <3>3. operation' = Bus!Done(cmd.id, ZeroWord, "OKAY")
      BY <2>3, <3>1 DEF Bus!Done
    <3>4. Bus!PerformWrite(cmd)
      BY <2>1, <2>3, <3>1, <3>2, <3>3, SameWords DEF Bus!PerformWrite, memory
    <3>5. QED BY <2>1, <3>4, SameWords DEF Bus!Next
  <2>5. CASE aw_target \notin Slaves
    <3>1. m_b' = [id |-> cmd.id, resp |-> "DECERR"] /\ UNCHANGED memory
      BY <2>1, <2>2, <2>5, WEffect
    <3>2. cmd.request.addr >= 2 * MEM_DEPTH
      BY <2>1, <2>2, <2>5, Decoding, SlaveAssumption
    <3>3. operation' = Bus!Done(cmd.id, ZeroWord, "DECERR")
      BY <2>3, <3>1 DEF Bus!Done
    <3>4. Bus!Refuse(cmd)
      BY <2>3, <3>1, <3>2, <3>3, SameWords DEF Bus!Refuse, memory
    <3>5. QED BY <2>1, <3>4, SameWords DEF Bus!Next
  <2>6. QED BY <2>4, <2>5
<1>5. CASE WriteAnswer
  <2>1. /\ state = "WAIT_B" /\ state' = "RESP" /\ BTransfer
        /\ rsp' = [id |-> m_b.id, rdata |-> ZeroWord, resp |-> m_b.resp]
    BY <1>5 DEF WriteAnswer, TakeB
  <2>2. operation = [phase |-> "done", rsp |-> rsp'] /\ UNCHANGED operation
    BY <2>1, OperationViewed, OperationViewedAfter DEF OperationView, Bus!Done
  <2>3. UNCHANGED memory
    BY <2>1, BEffect
  <2>4. QED BY <1>1, <2>2, <2>3
<1>6. CASE AddressRead
  <2>1. /\ cmd \in Commands /\ ~cmd.request.write
        /\ state = "SEND_AR" /\ state' = "WAIT_R"
        /\ ArTransfer(cmd.id, cmd.request.addr) /\ UNCHANGED writeVars
    BY <1>6 DEF AddressRead, SendAr, MasterTypeOK
  <2>2. cmd.request.addr \in Addresses /\ cmd.id \in Ids /\ UNCHANGED memory
    BY <2>1, CommandsAreRequests, WriteHalfStays
  <2>3. operation = Bus!Pending(cmd) /\ operation' = [phase |-> "done", rsp |-> m_r']
    BY <2>1, OperationViewed, OperationViewedAfter DEF OperationView
  <2>4. CASE cmd.request.addr < 2 * MEM_DEPTH
    <3>1. m_r' = [id |-> cmd.id, rdata |-> memory[cmd.request.addr], resp |-> "OKAY"]
      BY <2>1, <2>2, <2>4, ArEffect
    <3>2. operation' = Bus!Done(cmd.id, memory[cmd.request.addr], "OKAY")
      BY <2>3, <3>1 DEF Bus!Done
    <3>3. Bus!PerformRead(cmd)
      BY <2>1, <2>2, <2>3, <2>4, <3>2 DEF Bus!PerformRead, memory
    <3>4. QED BY <2>1, <3>3, SameWords DEF Bus!Next
  <2>5. CASE ~(cmd.request.addr < 2 * MEM_DEPTH)
    <3>1. m_r' = [id |-> cmd.id, rdata |-> ZeroWord, resp |-> "DECERR"]
      BY <2>1, <2>2, <2>5, ArEffect
    <3>2. operation' = Bus!Done(cmd.id, ZeroWord, "DECERR")
      BY <2>3, <3>1 DEF Bus!Done
    <3>3. cmd.request.addr >= 2 * MEM_DEPTH
      BY <2>2, <2>5, Decoding, SlaveAssumption
    <3>4. Bus!Refuse(cmd)
      BY <2>2, <2>3, <3>2, <3>3, SameWords DEF Bus!Refuse, memory
    <3>5. QED BY <2>1, <3>4, SameWords DEF Bus!Next
  <2>6. QED BY <2>4, <2>5
<1>7. CASE ReadAnswer
  <2>1. /\ state = "WAIT_R" /\ state' = "RESP" /\ UNCHANGED writeVars
        /\ rsp' = [id |-> m_r.id, rdata |-> m_r.rdata, resp |-> m_r.resp]
    BY <1>7 DEF ReadAnswer, TakeR
  <2>2. rsp' = m_r
    BY <2>1 DEF m_r
  <2>3. UNCHANGED operation
    BY <2>1, <2>2, OperationViewed, OperationViewedAfter DEF OperationView
  <2>4. QED BY <1>1, <2>1, <2>3, WriteHalfStays
<1>8. CASE Respond
  <2>1. state = "RESP" /\ state' = "IDLE"
    BY <1>8 DEF Respond, Complete
  <2>2. operation.phase = "done" /\ operation' = Bus!Idle
    BY <2>1, OperationViewed, OperationViewedAfter DEF OperationView, Bus!Idle
  <2>3. UNCHANGED memory
    BY <1>8, WriteHalfStays DEF Respond, busVars
  <2>4. QED BY <2>2, <2>3 DEF Bus!Next, Bus!Respond, memory
<1>9. CASE Reset
  <2>1. operation' = Bus!Idle
    BY <1>9, OperationViewedAfter DEF Reset, MasterReset, OperationView, Bus!Idle
  <2>2. UNCHANGED memory
    BY <1>9, SameMemory DEF Reset, BusReset, SlaveReset
  <2>3. QED BY <2>1, <2>2 DEF Bus!Next, Bus!Abandon, memory
<1>10. CASE UNCHANGED vars
  <2>1. UNCHANGED writeVars /\ UNCHANGED readVars /\ UNCHANGED masterVars
    BY <1>10 DEF vars, busVars
  <2>2. UNCHANGED <<memory, m_b, m_r, state, cmd, rsp>>
    BY <2>1, WriteHalfStays, ReadHalfStays DEF masterVars
  <2>3. UNCHANGED operation
    BY <2>2 DEF operation, ZeroWord
  <2>4. QED BY <1>1, <2>2, <2>3
<1>11. QED
  BY <1>2, <1>3, <1>4, <1>5, <1>6, <1>7, <1>8, <1>9, <1>10 DEF Next, Transfer

(* The command side has one memory, and one command at a time: each is     *)
(* performed once, on the word of its address, and answered with its own   *)
(* id and with what it did, whatever the reset interrupts.                 *)
THEOREM SystemImplementsCommands == Spec => ImplementsCommands
BY SystemInvInit, SystemInvStep, RefinementInit, RefinementStep, PTL
DEF Spec, ImplementsCommands, Bus!Spec
=============================================================================
