--------------------------- MODULE NocMeshLiveness ---------------------------
(***************************************************************************)
(* NocMesh under a running clock, for liveness.  The parity of the clock   *)
(* is part of the state, so that "infinitely many edges" can be said even  *)
(* of edges that change nothing else.                                      *)
(***************************************************************************)
EXTENDS NocMesh

VARIABLE clk   (* the number of clock edges so far, modulo 2 *)

clockedVars == <<slot, rr_pointer, ep_out_ready, clk>>

Tick == clk' = 1 - clk

ClockedInit == Init /\ clk = 0

ClockedNext == Next /\ Tick

(* The clock runs, and no endpoint refuses packets for ever.  The contract *)
(* bounds service only under such progress of the receivers (9.3).         *)
Fairness ==
  /\ WF_clk(Tick)
  /\ \A e \in Endpoints : []<>(e \in ep_out_ready)

ClockedSpec == ClockedInit /\ [][ClockedNext]_clockedVars /\ Fairness

(* No packet is stuck.  One-packet buffers that wait for each other in a   *)
(* cycle would stop the mesh for good; so would an arbiter that forgets an *)
(* input.  Whatever else is in flight, a buffered packet moves on.         *)
EveryPacketMovesOn ==
  \A r \in Endpoints : \A i \in {j \in Inputs : j = LOCAL_PORT \/ Wired(r, j)} :
    slot[r][i] # NoPacket ~> slot[r][i] = NoPacket
=============================================================================
