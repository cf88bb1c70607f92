----------------------------- MODULE Axi4Master -----------------------------
(***************************************************************************)
(* rtl/axi4/axi4_master.sv: one command at a time, single-beat, the write  *)
(* address before the write data.  An action is a clock edge at which the  *)
(* state machine moves, on the handshake of its current channel; the       *)
(* values received are its arguments.                                      *)
(***************************************************************************)
EXTENDS Axi4Words

VARIABLES
  state,   (* the state machine                                            *)
  cmd,     (* the latched command: its id and the request                  *)
  rsp      (* the latched response: rsp_id, rsp_rdata and rsp_resp         *)

masterVars == <<state, cmd, rsp>>

States ==
  {"IDLE", "SEND_AW", "SEND_W", "WAIT_B", "SEND_AR", "WAIT_R", "RESP"}

ResetCommand ==
  [id |-> 0, request |-> [write |-> FALSE, addr |-> 0, wdata |-> ZeroWord, wstrb |-> {}]]

ResetResponse == [id |-> 0, rdata |-> ZeroWord, resp |-> "OKAY"]

MasterInit == state = "IDLE" /\ cmd = ResetCommand /\ rsp = ResetResponse

MasterReset == state' = "IDLE" /\ cmd' = ResetCommand /\ rsp' = ResetResponse

TakeCommand(c) ==
  /\ state = "IDLE"
  /\ cmd' = c
  /\ state' = IF c.request.write THEN "SEND_AW" ELSE "SEND_AR"
  /\ UNCHANGED rsp

SendAw == state = "SEND_AW" /\ state' = "SEND_W" /\ UNCHANGED <<cmd, rsp>>

SendW == state = "SEND_W" /\ state' = "WAIT_B" /\ UNCHANGED <<cmd, rsp>>

TakeB(bid, bresp) ==
  /\ state = "WAIT_B"
  /\ state' = "RESP"
  /\ rsp' = [id |-> bid, rdata |-> ZeroWord, resp |-> bresp]
  /\ UNCHANGED cmd

SendAr == state = "SEND_AR" /\ state' = "WAIT_R" /\ UNCHANGED <<cmd, rsp>>

TakeR(rid, rdata, rresp) ==
  /\ state = "WAIT_R"
  /\ state' = "RESP"
  /\ rsp' = [id |-> rid, rdata |-> rdata, resp |-> rresp]
  /\ UNCHANGED cmd

Complete == state = "RESP" /\ state' = "IDLE" /\ UNCHANGED <<cmd, rsp>>

MasterTypeOK ==
  /\ state \in States
  /\ cmd \in Commands \cup {ResetCommand}
  /\ state \in {"SEND_AW", "SEND_W", "WAIT_B"} => cmd \in Commands /\ cmd.request.write
  /\ state \in {"SEND_AR", "WAIT_R"} => cmd \in Commands /\ ~cmd.request.write
  /\ rsp \in [id : Ids, rdata : Word, resp : {"OKAY", "DECERR"}]
=============================================================================
