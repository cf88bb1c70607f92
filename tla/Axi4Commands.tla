---------------------------- MODULE Axi4Commands ----------------------------
(***************************************************************************)
(* What the command side of the AXI4 master is promised: one memory, one   *)
(* command at a time, performed atomically, answered with its own id.      *)
(***************************************************************************)
EXTENDS Axi4Words

CONSTANT MAPPED   (* The addresses below it are memory, the others are    *)
                  (* answered with DECERR and have no effect.             *)

VARIABLES
  mem,   (* mem[a]: the word at address a                                  *)
  op     (* the command in progress: its phase, and the command or answer  *)

commandVars == <<mem, op>>

Idle       == [phase |-> "idle"]
Pending(c) == [phase |-> "pending", cmd |-> c]
Done(id, rdata, resp) ==
  [phase |-> "done", rsp |-> [id |-> id, rdata |-> rdata, resp |-> resp]]

Init == mem \in [0 .. MAPPED - 1 -> Word] /\ op = Idle

Issue(c) == op = Idle /\ op' = Pending(c) /\ UNCHANGED mem

Refuse(c) ==
  /\ op = Pending(c) /\ c.request.addr >= MAPPED
  /\ op' = Done(c.id, ZeroWord, "DECERR")
  /\ UNCHANGED mem

PerformRead(c) ==
  /\ op = Pending(c) /\ ~c.request.write /\ c.request.addr < MAPPED
  /\ op' = Done(c.id, mem[c.request.addr], "OKAY")
  /\ UNCHANGED mem

PerformWrite(c) ==
  /\ op = Pending(c) /\ c.request.write /\ c.request.addr < MAPPED
  /\ op' = Done(c.id, ZeroWord, "OKAY")
  /\ mem' = [mem EXCEPT ![c.request.addr] = Merged(@, c.request.wdata, c.request.wstrb)]

Respond == op.phase = "done" /\ op' = Idle /\ UNCHANGED mem

Abandon == op' = Idle /\ UNCHANGED mem

Next ==
  \/ \E c \in Commands : Issue(c) \/ Refuse(c) \/ PerformRead(c) \/ PerformWrite(c)
  \/ Respond
  \/ Abandon

Spec == Init /\ [][Next]_commandVars
=============================================================================
