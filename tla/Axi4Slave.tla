------------------------------ MODULE Axi4Slave ------------------------------
(***************************************************************************)
(* The single-beat AXI4 slave, rtl/axi4/axi4_slave.sv, in the two copies   *)
(* that stand behind the interconnect.  An operator is what a clock edge   *)
(* does to one side of slave t when the handshake it is named for          *)
(* completes on that edge; the write and the read side share the memory    *)
(* only.  valid is the _valid or _pending bit of a register; what the      *)
(* register holds while the bit is 0 is never used, and left out.          *)
(***************************************************************************)
EXTENDS Axi4Words

CONSTANT MEM_DEPTH   (* words of a slave's memory; 256 in the RTL *)

ASSUME SlaveAssumption == MEM_DEPTH \in Nat \ {0}

VARIABLES
  s_aw,          (* s_aw[t]: aw_pending, awid_reg and awaddr_reg           *)
  s_b,           (* s_b[t]: s_axi_bvalid, s_axi_bid and s_axi_bresp        *)
  s_mem,         (* s_mem[t]: mem                                          *)
  s_ar_pending,  (* s_ar_pending[t]: ar_pending                            *)
  s_r            (* s_r[t]: s_axi_rvalid, _rid, _rdata and _rresp          *)

slaveWriteVars == <<s_aw, s_b, s_mem>>
slaveReadVars  == <<s_ar_pending, s_r>>

Slaves == {"s0", "s1"}

Nothing == [valid |-> FALSE]

mem_index(addr) == addr % MEM_DEPTH   \* addr[MEM_ADDR_WIDTH+1:2]

s_awready(t) == ~s_aw[t].valid /\ ~s_b[t].valid
s_wready(t)  == s_aw[t].valid /\ ~s_b[t].valid
s_arready(t) == ~s_ar_pending[t] /\ ~s_r[t].valid

SlaveTakesAddress(t, id, addr) ==
  /\ s_awready(t)
  /\ s_aw' = [s_aw EXCEPT ![t] = [valid |-> TRUE, id |-> id, addr |-> addr]]
  /\ UNCHANGED <<s_b, s_mem>>

(* The strobed bytes are written and the response is made on one edge.     *)
SlaveTakesData(t, wdata, wstrb) ==
  /\ s_wready(t)
  /\ s_mem' = [s_mem EXCEPT ![t][mem_index(s_aw[t].addr)] = Merged(@, wdata, wstrb)]
  /\ s_aw' = [s_aw EXCEPT ![t] = Nothing]
  /\ s_b' = [s_b EXCEPT ![t] = [valid |-> TRUE, id |-> s_aw[t].id, resp |-> "OKAY"]]

SlaveResponseTaken(t) ==
  /\ s_b[t].valid
  /\ s_b' = [s_b EXCEPT ![t] = Nothing]
  /\ UNCHANGED <<s_aw, s_mem>>

(* The word is read on the edge that takes the address: a write that       *)
(* completes on the same edge is not seen.                                 *)
SlaveTakesRead(t, id, addr) ==
  /\ s_arready(t)
  /\ s_ar_pending' = [s_ar_pending EXCEPT ![t] = TRUE]
  /\ s_r' = [s_r EXCEPT ![t] = [valid |-> TRUE, id |-> id,
                                rdata |-> s_mem[t][mem_index(addr)], resp |-> "OKAY"]]

SlaveDataTaken(t) ==
  /\ s_r[t].valid
  /\ s_ar_pending' = [s_ar_pending EXCEPT ![t] = FALSE]
  /\ s_r' = [s_r EXCEPT ![t] = Nothing]

(* reset clears all but the memory. *)
SlaveReset ==
  /\ s_aw' = [t \in Slaves |-> Nothing]
  /\ s_b' = [t \in Slaves |-> Nothing]
  /\ s_ar_pending' = [t \in Slaves |-> FALSE]
  /\ s_r' = [t \in Slaves |-> Nothing]
  /\ UNCHANGED s_mem

Memories == [Slaves -> [0 .. MEM_DEPTH - 1 -> Word]]

SlaveInit ==
  /\ s_aw = [t \in Slaves |-> Nothing]
  /\ s_b = [t \in Slaves |-> Nothing]
  /\ s_ar_pending = [t \in Slaves |-> FALSE]
  /\ s_r = [t \in Slaves |-> Nothing]
  /\ s_mem \in Memories

SlaveTypeOK ==
  /\ s_aw \in [Slaves -> {Nothing} \cup [valid : {TRUE}, id : Ids, addr : Nat]]
  /\ s_b \in [Slaves -> {Nothing} \cup [valid : {TRUE}, id : Ids, resp : {"OKAY"}]]
  /\ s_mem \in Memories
  /\ s_ar_pending \in [Slaves -> BOOLEAN]
  /\ s_r \in [Slaves -> {Nothing} \cup
                [valid : {TRUE}, id : Ids, rdata : Word, resp : {"OKAY"}]]
=============================================================================
