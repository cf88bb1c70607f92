------------------------------ MODULE CacheV2 ------------------------------
(***************************************************************************)
(* The direct-mapped, write-through, no-write-allocate cache of            *)
(* rtl/cache_v2.sv.  A step is a clock edge at which the state machine     *)
(* moves; an edge at which it waits (no request, memory or receiver not    *)
(* ready) changes nothing.  The backing memory is the action's argument.   *)
(***************************************************************************)
EXTENDS MemoryWords

CONSTANT NLINES   (* lines of one word each; 16 in the RTL *)

ASSUME CacheAssumption == NLINES \in Nat \ {0}

VARIABLES
  state,        (* the state machine                                       *)
  line,         (* line[i]: valid_array, tag_array and data_array at i     *)
  req_q,        (* the captured request                                    *)
  rsp_rdata_q   (* the response register                                   *)

cacheVars == <<state, line, req_q, rsp_rdata_q>>

States == {"IDLE", "LOOKUP", "REFILL", "MEM_WRITE", "RESP"}

Lines == 0 .. NLINES - 1

(* req_addr[5:2] and req_addr[31:6] *)
index(addr) == addr % NLINES
tag(addr)   == addr \div NLINES

ResetLine    == [valid |-> FALSE, tag |-> 0, data |-> ZeroWord]
ResetRequest == [write |-> FALSE, addr |-> 0, wdata |-> ZeroWord, wstrb |-> {}]

hit(addr) == line[index(addr)].valid /\ line[index(addr)].tag = tag(addr)

merge_wstrb(old, new, wstrb) ==
  [l \in Lanes |-> IF l \in wstrb THEN new[l] ELSE old[l]]

CacheInit ==
  /\ state = "IDLE"
  /\ line = [i \in Lines |-> ResetLine]
  /\ req_q = ResetRequest
  /\ rsp_rdata_q = ZeroWord

CacheReset ==
  /\ state' = "IDLE"
  /\ line' = [i \in Lines |-> ResetLine]
  /\ req_q' = ResetRequest
  /\ rsp_rdata_q' = ZeroWord

Accept(request) ==
  /\ state = "IDLE"
  /\ state' = "LOOKUP"
  /\ req_q' = request
  /\ UNCHANGED <<line, rsp_rdata_q>>

LookupWrite ==
  /\ state = "LOOKUP" /\ req_q.write
  /\ state' = "MEM_WRITE"
  /\ UNCHANGED <<line, req_q, rsp_rdata_q>>

LookupHit ==
  /\ state = "LOOKUP" /\ ~req_q.write /\ hit(req_q.addr)
  /\ state' = "RESP"
  /\ rsp_rdata_q' = line[index(req_q.addr)].data
  /\ UNCHANGED <<line, req_q>>

(* A bug, for the mutants: a write that misses is looked up as a read.     *)
LookupMissAnyRequest ==
  /\ state = "LOOKUP" /\ ~hit(req_q.addr)
  /\ state' = "REFILL"
  /\ UNCHANGED <<line, req_q, rsp_rdata_q>>

LookupMiss ==
  /\ state = "LOOKUP" /\ ~req_q.write /\ ~hit(req_q.addr)
  /\ state' = "REFILL"
  /\ UNCHANGED <<line, req_q, rsp_rdata_q>>

(* A bug, for the mutants: the line is filled and the response is not.     *)
RefillLineOnly(mem_rdata) ==
  /\ state = "REFILL"
  /\ state' = "RESP"
  /\ line' = [line EXCEPT ![index(req_q.addr)] =
                [valid |-> TRUE, tag |-> tag(req_q.addr), data |-> mem_rdata]]
  /\ UNCHANGED <<req_q, rsp_rdata_q>>

(* mem_valid && mem_ready in REFILL. *)
Refill(mem_rdata) ==
  /\ state = "REFILL"
  /\ state' = "RESP"
  /\ line' = [line EXCEPT ![index(req_q.addr)] =
                [valid |-> TRUE, tag |-> tag(req_q.addr), data |-> mem_rdata]]
  /\ rsp_rdata_q' = mem_rdata
  /\ UNCHANGED req_q

(* A bug, for the mutants: a write updates the memory and not the line.    *)
line_not_written(addr, wdata, wstrb) == line

line_after_write(addr, wdata, wstrb) ==
  IF hit(addr)
  THEN [line EXCEPT ![index(addr)].data = merge_wstrb(@, wdata, wstrb)]
  ELSE line

(* mem_valid && mem_ready in MEM_WRITE: a hit updates the line on the edge *)
(* at which the memory takes the write; a miss allocates nothing.          *)
WriteThrough ==
  /\ state = "MEM_WRITE"
  /\ state' = "RESP"
  /\ line' = line_after_write(req_q.addr, req_q.wdata, req_q.wstrb)
  /\ rsp_rdata_q' = ZeroWord
  /\ UNCHANGED req_q

Respond ==
  /\ state = "RESP"
  /\ state' = "IDLE"
  /\ UNCHANGED <<line, req_q, rsp_rdata_q>>

(* Types, and which requests the state machine carries into its states.    *)
CacheTypeOK ==
  /\ state \in States
  /\ line \in [Lines -> [valid : BOOLEAN, tag : Nat, data : Word]]
  /\ req_q \in Requests \cup {ResetRequest}
  /\ state \notin {"IDLE", "RESP"} => req_q \in Requests
  /\ state = "REFILL" => ~req_q.write
  /\ state = "MEM_WRITE" => req_q.write
  /\ rsp_rdata_q \in Word
=============================================================================
