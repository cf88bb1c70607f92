-------------------------- MODULE Axi4Interconnect --------------------------
(***************************************************************************)
(* rtl/interconnect/axi4_interconnect.sv between one master, which may     *)
(* offer anything, and the two slaves.  A step is a clock edge: on it the  *)
(* write side and the read side each complete one handshake or none.  (The *)
(* conditions of the three write handshakes exclude one another, and so do *)
(* those of the two read handshakes.)  A channel on which valid or ready   *)
(* is 0 changes nothing.                                                   *)
(***************************************************************************)
EXTENDS Axi4Slave

VARIABLES
  aw_target,   (* where the write in progress goes, "none" if aw_pending=0 *)
  b_unmapped,  (* b_unmapped_valid and b_unmapped_id                       *)
  ar_target,   (* where the read in progress goes, "none" if ar_pending=0  *)
  r_unmapped   (* r_unmapped_valid and r_unmapped_id                       *)

writeVars == <<aw_target, b_unmapped, slaveWriteVars>>
readVars  == <<ar_target, r_unmapped, slaveReadVars>>
busVars   == <<writeVars, readVars>>

Targets == Slaves \cup {"unmapped", "none"}

(* Slave 0 has the words below S1_BASE, slave 1 as many from there on.     *)
S1_BASE == MEM_DEPTH

(* A bug, for the mutants: the end of slave 0 is off by one.               *)
decode_off_by_one(addr) ==
  CASE addr <= S1_BASE                            -> "s0"
    [] addr > S1_BASE /\ addr < S1_BASE + MEM_DEPTH -> "s1"
    [] OTHER                                      -> "unmapped"

decode(addr) ==
  CASE addr < S1_BASE                              -> "s0"
    [] addr >= S1_BASE /\ addr < S1_BASE + MEM_DEPTH -> "s1"
    [] OTHER                                       -> "unmapped"

base(t) == IF t = "s1" THEN S1_BASE ELSE 0

-----------------------------------------------------------------------------
(* The write side.                                                         *)

(* A bug, for the mutants: an address is taken with a write in progress.   *)
AwTransferAnyTime(id, addr) ==
  /\ aw_target' = decode(addr)
  /\ \/ /\ decode(addr) \in Slaves
        /\ SlaveTakesAddress(decode(addr), id, addr - base(decode(addr)))
        /\ UNCHANGED b_unmapped
     \/ /\ decode(addr) = "unmapped"
        /\ b_unmapped' = [valid |-> FALSE, id |-> id]
        /\ UNCHANGED slaveWriteVars

AwTransfer(id, addr) ==
  /\ aw_target = "none" /\ ~b_unmapped.valid
  /\ aw_target' = decode(addr)
  /\ \/ /\ decode(addr) \in Slaves
        /\ SlaveTakesAddress(decode(addr), id, addr - base(decode(addr)))
        /\ UNCHANGED b_unmapped
     \/ /\ decode(addr) = "unmapped"
        /\ b_unmapped' = [valid |-> FALSE, id |-> id]
        /\ UNCHANGED slaveWriteVars

WTransfer(wdata, wstrb) ==
  /\ ~b_unmapped.valid
  /\ \/ /\ aw_target \in Slaves
        /\ SlaveTakesData(aw_target, wdata, wstrb)
        /\ UNCHANGED b_unmapped
     \/ /\ aw_target = "unmapped"
        /\ b_unmapped' = [b_unmapped EXCEPT !.valid = TRUE]
        /\ UNCHANGED slaveWriteVars
  /\ UNCHANGED aw_target

m_bvalid == b_unmapped.valid \/ (aw_target \in Slaves /\ s_b[aw_target].valid)

(* A bug, for the mutants: an unmapped write is answered OKAY.             *)
m_b_okay == IF b_unmapped.valid THEN [id |-> b_unmapped.id, resp |-> "OKAY"]
            ELSE [id |-> s_b[aw_target].id, resp |-> s_b[aw_target].resp]

m_b == IF b_unmapped.valid THEN [id |-> b_unmapped.id, resp |-> "DECERR"]
       ELSE [id |-> s_b[aw_target].id, resp |-> s_b[aw_target].resp]

(* A bug, for the mutants: aw_pending is not cleared by the response.      *)
BTransferKeepsPending ==
  /\ m_bvalid
  /\ b_unmapped' = [b_unmapped EXCEPT !.valid = FALSE]
  /\ IF b_unmapped.valid THEN UNCHANGED slaveWriteVars
     ELSE SlaveResponseTaken(aw_target)
  /\ UNCHANGED aw_target

BTransfer ==
  /\ m_bvalid
  /\ aw_target' = "none"
  /\ b_unmapped' = [b_unmapped EXCEPT !.valid = FALSE]
  /\ IF b_unmapped.valid THEN UNCHANGED slaveWriteVars
     ELSE SlaveResponseTaken(aw_target)

-----------------------------------------------------------------------------
(* The read side.                                                          *)

ArTransfer(id, addr) ==
  /\ ar_target = "none" /\ ~r_unmapped.valid
  /\ ar_target' = decode(addr)
  /\ \/ /\ decode(addr) \in Slaves
        /\ SlaveTakesRead(decode(addr), id, addr - base(decode(addr)))
        /\ UNCHANGED r_unmapped
     \/ /\ decode(addr) = "unmapped"
        /\ r_unmapped' = [valid |-> TRUE, id |-> id]
        /\ UNCHANGED slaveReadVars

m_rvalid == r_unmapped.valid \/ (ar_target \in Slaves /\ s_r[ar_target].valid)

m_r == IF r_unmapped.valid
       THEN [id |-> r_unmapped.id, rdata |-> ZeroWord, resp |-> "DECERR"]
       ELSE [id |-> s_r[ar_target].id, rdata |-> s_r[ar_target].rdata,
             resp |-> s_r[ar_target].resp]

(* Two bugs, for the mutants: the local response, or ar_pending, is not    *)
(* cleared when the response is taken.                                     *)
RTransferKeepsUnmapped ==
  /\ m_rvalid
  /\ ar_target' = "none"
  /\ IF r_unmapped.valid THEN UNCHANGED slaveReadVars
     ELSE SlaveDataTaken(ar_target)
  /\ UNCHANGED r_unmapped

RTransferKeepsPending ==
  /\ m_rvalid
  /\ r_unmapped' = [r_unmapped EXCEPT !.valid = FALSE]
  /\ IF r_unmapped.valid THEN UNCHANGED slaveReadVars
     ELSE SlaveDataTaken(ar_target)
  /\ UNCHANGED ar_target

RTransfer ==
  /\ m_rvalid
  /\ ar_target' = "none"
  /\ r_unmapped' = [r_unmapped EXCEPT !.valid = FALSE]
  /\ IF r_unmapped.valid THEN UNCHANGED slaveReadVars
     ELSE SlaveDataTaken(ar_target)

-----------------------------------------------------------------------------
NoUnmapped == [valid |-> FALSE, id |-> 0]

BusInit ==
  /\ aw_target = "none" /\ b_unmapped = NoUnmapped
  /\ ar_target = "none" /\ r_unmapped = NoUnmapped
  /\ SlaveInit

BusReset ==
  /\ aw_target' = "none" /\ b_unmapped' = NoUnmapped
  /\ ar_target' = "none" /\ r_unmapped' = NoUnmapped
  /\ SlaveReset

WriteEdge ==
  \/ \E id \in Ids, addr \in Addresses : AwTransfer(id, addr)
  \/ \E wdata \in Word, wstrb \in SUBSET Lanes : WTransfer(wdata, wstrb)
  \/ BTransfer
  \/ UNCHANGED writeVars

ReadEdge ==
  \/ \E id \in Ids, addr \in Addresses : ArTransfer(id, addr)
  \/ RTransfer
  \/ UNCHANGED readVars

BusNext == (WriteEdge /\ ReadEdge) \/ BusReset

BusSpec == BusInit /\ [][BusNext]_busVars

-----------------------------------------------------------------------------
(* Types; an address reaches a slave relative to the slave's base, and an  *)
(* unmapped response waits only for an unmapped request.                   *)
BusTypeOK ==
  /\ SlaveTypeOK
  /\ aw_target \in Targets /\ ar_target \in Targets
  /\ b_unmapped \in [valid : BOOLEAN, id : Ids]
  /\ r_unmapped \in [valid : BOOLEAN, id : Ids]
  /\ \A t \in Slaves : s_aw[t].valid => s_aw[t].addr < MEM_DEPTH
  /\ b_unmapped.valid => aw_target = "unmapped"
  /\ r_unmapped.valid <=> ar_target = "unmapped"

(* The tracked target is the only slave with anything to do, and it has    *)
(* exactly one thing to do.  A slave left with a response that nobody      *)
(* tracks would refuse every further request for good; one with nothing to *)
(* answer would hang the master.                                           *)
OnlyTargetsBusy ==
  \A t \in Slaves :
    /\ ~(s_aw[t].valid /\ s_b[t].valid)
    /\ (s_aw[t].valid \/ s_b[t].valid) <=> aw_target = t
    /\ s_ar_pending[t] = s_r[t].valid
    /\ s_r[t].valid <=> ar_target = t

-----------------------------------------------------------------------------
(* Seen by the master, interconnect and slaves are one memory with a write *)
(* port and a read port.                                                   *)
writeOperation ==
  CASE aw_target = "none" -> [phase |-> "idle"]
    [] m_bvalid -> [phase |-> "answered", id |-> m_b.id, resp |-> m_b.resp]
    [] aw_target = "unmapped" /\ ~m_bvalid -> [phase |-> "rejected", id |-> b_unmapped.id]
    [] aw_target \in Slaves /\ ~m_bvalid ->
         [phase |-> "addressed", id |-> s_aw[aw_target].id,
          addr |-> s_aw[aw_target].addr + base(aw_target)]

readOperation ==
  IF m_rvalid
  THEN [phase |-> "answered", id |-> m_r.id, rdata |-> m_r.rdata, resp |-> m_r.resp]
  ELSE [phase |-> "idle"]

(* The word at a mapped address: slave 0 has the first MEM_DEPTH of them.  *)
contents(addr) == s_mem[IF addr < MEM_DEPTH THEN "s0" ELSE "s1"][addr % MEM_DEPTH]

Ports == INSTANCE Axi4Ports
           WITH mem   <- [a \in 0 .. 2 * MEM_DEPTH - 1 |-> contents(a)],
                MAPPED <- 2 * MEM_DEPTH,
                write <- writeOperation,
                read  <- readOperation

(* Every behaviour of interconnect and slaves is one of the two-port       *)
(* memory: each request is answered once, with its own id, by the slave of *)
(* its address, and reads see every write that was answered before them.   *)
ImplementsPorts == Ports!Spec
=============================================================================
