---------------------------- MODULE CacheMemory ----------------------------
(***************************************************************************)
(* cache_v2 in front of memory_controller, as                              *)
(* docs/memory_controller_requirements.md (2) intends them: mem_* of the   *)
(* cache are the ports of the controller, rst is common.  The controller   *)
(* is ready whenever rst is 0, reads combinationally and writes the        *)
(* strobed bytes on the edge of the handshake; rst does not clear it.      *)
(***************************************************************************)
EXTENDS CacheV2, MemoryController

vars == <<state, line, req_q, rsp_rdata_q, memory>>

Init == CacheInit /\ MemoryInit

AcceptRequest == (\E r \in Requests : Accept(r)) /\ UNCHANGED memory

Lookup == (LookupWrite \/ LookupHit \/ LookupMiss) /\ UNCHANGED memory

MemoryRead == Refill(mem_rdata(req_q.addr)) /\ UNCHANGED memory

MemoryWrite == WriteThrough /\ Store(req_q.addr, req_q.wdata, req_q.wstrb)

RespondToCpu == Respond /\ UNCHANGED memory

(* rst = 1 forces mem_ready to 0: no memory request completes on the edge. *)
Reset == CacheReset /\ UNCHANGED memory

Next ==
  \/ AcceptRequest \/ Lookup \/ MemoryRead \/ MemoryWrite \/ RespondToCpu
  \/ Reset

Spec == Init /\ [][Next]_vars

-----------------------------------------------------------------------------
(* The registers and the storage have their types; only a read is in       *)
(* REFILL, only a write in MEM_WRITE.                                      *)
TypeOK == CacheTypeOK /\ MemoryTypeOK

(* No stale line: whatever hits holds what the memory holds, at every edge *)
(* and not only between requests.                                          *)
Coherent ==
  \A a \in Addresses : hit(a) => line[index(a)].data = mem_rdata(a)

(* A response to a read is the word the memory holds when it is presented, *)
(* and stays it for as long as the CPU side lets it wait.                  *)
ReadsCurrentData ==
  state = "RESP" /\ ~req_q.write => rsp_rdata_q = mem_rdata(req_q.addr)

-----------------------------------------------------------------------------
(* The CPU side cannot tell the two from one atomic memory.                *)
operation ==
  CASE state = "IDLE" -> [phase |-> "idle"]
    [] state = "RESP" -> [phase |-> "done", rdata |-> rsp_rdata_q]
    [] OTHER          -> [phase |-> "pending", request |-> req_q]

Atomic == INSTANCE AtomicMemory
            WITH mem <- [a \in Addresses |-> mem_rdata(a)], op <- operation

(* Every behaviour of cache and memory is one of the atomic memory: lines, *)
(* misses, write-through and resets in mid-request are invisible.          *)
ImplementsAtomicMemory == Atomic!Spec
=============================================================================
