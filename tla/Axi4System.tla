----------------------------- MODULE Axi4System -----------------------------
(***************************************************************************)
(* Master, interconnect and two slaves wired together, as                  *)
(* tests/axi4_master_interconnect_tb.sv wires them, with a common reset.   *)
(* A handshake between master and interconnect is one step of both; an     *)
(* edge at which the awaited ready or valid is 0 changes nothing.          *)
(***************************************************************************)
EXTENDS Axi4Interconnect, Axi4Master

vars == <<busVars, masterVars>>

Init == BusInit /\ MasterInit

Issue == (\E c \in Commands : TakeCommand(c)) /\ UNCHANGED busVars

AddressWrite == SendAw /\ AwTransfer(cmd.id, cmd.request.addr) /\ UNCHANGED readVars

DataWrite == SendW /\ WTransfer(cmd.request.wdata, cmd.request.wstrb) /\ UNCHANGED readVars

WriteAnswer == TakeB(m_b.id, m_b.resp) /\ BTransfer /\ UNCHANGED readVars

AddressRead == SendAr /\ ArTransfer(cmd.id, cmd.request.addr) /\ UNCHANGED writeVars

ReadAnswer == TakeR(m_r.id, m_r.rdata, m_r.resp) /\ RTransfer /\ UNCHANGED writeVars

Respond == Complete /\ UNCHANGED busVars

Reset == MasterReset /\ BusReset

Transfer ==
  AddressWrite \/ DataWrite \/ WriteAnswer \/ AddressRead \/ ReadAnswer

Next == Issue \/ Transfer \/ Respond \/ Reset

Spec == Init /\ [][Next]_vars

(* A handshake of the bus takes place at the next edge once both sides are *)
(* ready for it, and the command side takes its response at some time.     *)
LiveSpec == Spec /\ WF_vars(Transfer) /\ WF_vars(Respond)

-----------------------------------------------------------------------------
(* Types, and the command and response that each state goes with.          *)
TypeOK == BusTypeOK /\ MasterTypeOK

(* Where the master waits for an answer there is one, and where it sends,  *)
(* somebody listens: the master's state and the three state holders of the *)
(* bus never disagree on how far the command is.                           *)
InStep ==
  /\ TypeOK /\ OnlyTargetsBusy
  /\ state = "SEND_W" => /\ aw_target = decode(cmd.request.addr)
                         /\ ~m_bvalid
  /\ state = "WAIT_B" => m_bvalid /\ m_b.id = cmd.id
  /\ state = "WAIT_R" => m_rvalid /\ m_r.id = cmd.id
  /\ state \notin {"SEND_W", "WAIT_B"} => aw_target = "none"
  /\ state # "WAIT_R" => ar_target = "none"

(* Every command is answered, unless a reset abandons it.                  *)
CommandsComplete == (state # "IDLE") ~> (state = "IDLE")

-----------------------------------------------------------------------------
(* The command side sees one memory and one command at a time.             *)
operation ==
  CASE state = "IDLE"   -> [phase |-> "idle"]
    [] state = "RESP"   -> [phase |-> "done", rsp |-> rsp]
    [] state = "WAIT_B" -> [phase |-> "done", rsp |->
                              [id |-> m_b.id, rdata |-> ZeroWord, resp |-> m_b.resp]]
    [] state = "WAIT_R" -> [phase |-> "done", rsp |-> m_r]
    [] state \in {"SEND_AW", "SEND_W", "SEND_AR"} -> [phase |-> "pending", cmd |-> cmd]

Bus == INSTANCE Axi4Commands
         WITH mem    <- [a \in 0 .. 2 * MEM_DEPTH - 1 |-> contents(a)],
              MAPPED <- 2 * MEM_DEPTH,
              op     <- operation

(* Every command is performed once, on the word of its address, and is     *)
(* answered with its own id and with what it did.                          *)
ImplementsCommands == Bus!Spec
=============================================================================
