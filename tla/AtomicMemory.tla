---------------------------- MODULE AtomicMemory ----------------------------
(***************************************************************************)
(* What the CPU side is promised: one memory, and one request at a time    *)
(* that takes effect atomically between its acceptance and its response.   *)
(* No cache, no lines, no write-through.                                   *)
(***************************************************************************)
EXTENDS MemoryWords

VARIABLES
  mem,   (* mem[a]: the word at address a                                  *)
  op     (* the request in progress, if any: its phase, and the request    *)
         (* while it is pending or the read data once it is done           *)

atomicVars == <<mem, op>>

Idle       == [phase |-> "idle"]
Pending(r) == [phase |-> "pending", request |-> r]
Done(w)    == [phase |-> "done", rdata |-> w]

Init == mem \in [Addresses -> Word] /\ op = Idle

Issue(r) == op = Idle /\ op' = Pending(r) /\ UNCHANGED mem

PerformRead(r) ==
  /\ op = Pending(r) /\ ~r.write
  /\ op' = Done(mem[r.addr])
  /\ UNCHANGED mem

PerformWrite(r) ==
  /\ op = Pending(r) /\ r.write
  /\ op' = Done(ZeroWord)
  /\ mem' = [mem EXCEPT ![r.addr] = Merged(@, r.wdata, r.wstrb)]

Respond == op.phase = "done" /\ op' = Idle /\ UNCHANGED mem

(* A reset abandons the request; what was performed stays performed.       *)
Abandon == op' = Idle /\ UNCHANGED mem

Next ==
  \/ \E r \in Requests : Issue(r) \/ PerformRead(r) \/ PerformWrite(r)
  \/ Respond
  \/ Abandon

Spec == Init /\ [][Next]_atomicVars
=============================================================================
