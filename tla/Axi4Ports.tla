------------------------------ MODULE Axi4Ports ------------------------------
(***************************************************************************)
(* What an AXI4 master is promised of the bus and the slaves behind it:    *)
(* one memory of MAPPED words, a write port and a read port.  Each port    *)
(* serves one request at a time; the two work at the same time.            *)
(***************************************************************************)
EXTENDS Axi4Words

CONSTANT MAPPED   (* The addresses below it are memory, the others are    *)
                  (* answered with DECERR and have no effect.             *)

VARIABLES
  mem,      (* mem[a]: the word at address a                               *)
  write,    (* the write in progress: its phase, id, address or response   *)
  read      (* the read in progress: its phase, id and response            *)

portVars == <<mem, write, read>>

Idle == [phase |-> "idle"]

Init ==
  /\ mem \in [0 .. MAPPED - 1 -> Word]
  /\ write = Idle
  /\ read = Idle

AcceptAddress(id, addr) ==
  /\ write = Idle
  /\ write' = IF addr < MAPPED THEN [phase |-> "addressed", id |-> id, addr |-> addr]
              ELSE [phase |-> "rejected", id |-> id]
  /\ UNCHANGED mem

PerformWrite(wdata, wstrb) ==
  /\ write.phase = "addressed"
  /\ mem' = [mem EXCEPT ![write.addr] = Merged(@, wdata, wstrb)]
  /\ write' = [phase |-> "answered", id |-> write.id, resp |-> "OKAY"]

RefuseWrite ==
  /\ write.phase = "rejected"
  /\ write' = [phase |-> "answered", id |-> write.id, resp |-> "DECERR"]
  /\ UNCHANGED mem

FinishWrite == write.phase = "answered" /\ write' = Idle /\ UNCHANGED mem

WriteStep ==
  \/ \E id \in Ids, addr \in Addresses : AcceptAddress(id, addr)
  \/ \E wdata \in Word, wstrb \in SUBSET Lanes : PerformWrite(wdata, wstrb)
  \/ RefuseWrite
  \/ FinishWrite
  \/ UNCHANGED <<mem, write>>

(* A read takes the word that the memory holds before the step: of a write *)
(* performed in the same step it sees nothing.                             *)
PerformRead(id, addr) ==
  /\ read = Idle
  /\ read' = IF addr < MAPPED
             THEN [phase |-> "answered", id |-> id, rdata |-> mem[addr], resp |-> "OKAY"]
             ELSE [phase |-> "answered", id |-> id, rdata |-> ZeroWord, resp |-> "DECERR"]

FinishRead == read.phase = "answered" /\ read' = Idle

ReadStep ==
  \/ \E id \in Ids, addr \in Addresses : PerformRead(id, addr)
  \/ FinishRead
  \/ UNCHANGED read

(* A reset abandons both requests; what was written stays written.         *)
Abandon == write' = Idle /\ read' = Idle /\ UNCHANGED mem

Next == (WriteStep /\ ReadStep) \/ Abandon

Spec == Init /\ [][Next]_portVars
=============================================================================
