------------------------------ MODULE NocRouter ------------------------------
(***************************************************************************)
(* One router of the network on chip, rtl/noc_router.sv, in an environment *)
(* that may offer packets, and withdraw out_ready, in any cycle.           *)
(*                                                                         *)
(* A step is a clock edge.  out_ready is the input of the cycle that ends  *)
(* with the step; the packets offered, and rst, are chosen by the step.    *)
(***************************************************************************)
EXTENDS NocRouterOps

CONSTANTS
  ROUTER_X, ROUTER_Y,
  Arrivals,   (* Arrivals[i]: the packets input i can be offered; none     *)
              (* where the mesh ties in_valid to 0.                        *)
  Receivers   (* The outputs that have a receiver; the mesh ties the       *)
              (* out_ready of the others to 0.                             *)

ASSUME RouterAssumption ==
  /\ ROUTER_X \in {0, 1} /\ ROUTER_Y \in {0, 1}
  /\ Arrivals \in [Inputs -> SUBSET Packets]
  /\ Receivers \subseteq Outputs

VARIABLES
  slot,        (* slot[i]: the packet buffered at input i, or NoPacket     *)
  rr_pointer,  (* rr_pointer[o]: where output o's arbiter starts           *)
  out_ready    (* the outputs whose receiver is ready in this cycle        *)

vars == <<slot, rr_pointer, out_ready>>

Wanted(i)   == route(ROUTER_X, ROUTER_Y, slot, i)
Presents(o) == grant_valid(ROUTER_X, ROUTER_Y, slot, o)
Selected(o) == selected_input(ROUTER_X, ROUTER_Y, slot, rr_pointer, o)
Presented(o) == out_packet(ROUTER_X, ROUTER_Y, slot, rr_pointer, o)
Transfers   == out_transfer(ROUTER_X, ROUTER_Y, slot, out_ready)
IsServed(i) == served_input(ROUTER_X, ROUTER_Y, slot, rr_pointer, out_ready, i)

Offer(i) == Arrivals[i] \cup {NoPacket}

Offers ==
  {[i \in Inputs |-> CASE i = LOCAL_PORT -> l
                      [] i = NORTH_PORT -> n
                      [] i = SOUTH_PORT -> s
                      [] i = EAST_PORT  -> e
                      [] i = WEST_PORT  -> w] :
     l \in Offer(LOCAL_PORT), n \in Offer(NORTH_PORT), s \in Offer(SOUTH_PORT),
     e \in Offer(EAST_PORT), w \in Offer(WEST_PORT)}

(* The registers have their types, and no buffer ever holds a packet of an *)
(* illegal destination.                                                    *)
TypeOK ==
  /\ slot \in [Inputs -> Buffers]
  /\ \A i \in Inputs : slot[i] # NoPacket => valid_dst(slot[i].dst_id)
  /\ rr_pointer \in [Outputs -> Directions]
  /\ out_ready \in SUBSET Receivers

Init ==
  /\ slot = reset_slot
  /\ rr_pointer = reset_rr_pointer
  /\ out_ready \in SUBSET Receivers

(* A clock edge with rst = 1.  Handshakes of the same cycle are lost.      *)
Reset ==
  /\ slot' = reset_slot
  /\ rr_pointer' = reset_rr_pointer

(* A clock edge with rst = 0: every output transfer, every acceptance and  *)
(* every pointer update of the cycle happen together.                      *)
Cycle(in) ==
  /\ slot' = next_slot(ROUTER_X, ROUTER_Y, slot, rr_pointer, out_ready, in)
  /\ rr_pointer' =
       next_rr_pointer(ROUTER_X, ROUTER_Y, slot, rr_pointer, out_ready)

Next ==
  /\ Reset \/ \E in \in Offers : Cycle(in)
  /\ out_ready' \in SUBSET Receivers

Spec == Init /\ [][Next]_vars

-----------------------------------------------------------------------------
(* The contract's stability rule: a packet presented while the receiver is *)
(* not ready is presented again, unchanged, in the next cycle.             *)
StalledPacketStable ==
  [][\A o \in Receivers \ out_ready : Presents(o) /\ ~Reset =>
       Presents(o)' /\ Presented(o)' = Presented(o)]_vars

(* What the arbiter keeps of it: under a stall the output stays valid, its *)
(* pointer does not move, and the arbiter never moves to a requester that  *)
(* is further from the pointer than the one it had selected.               *)
StalledSelectionOnlyAdvances ==
  [][\A o \in Receivers \ out_ready : Presents(o) /\ ~Reset =>
       /\ Presents(o)'
       /\ rr_pointer'[o] = rr_pointer[o]
       /\ rr_offset(rr_pointer[o], selected_input(ROUTER_X, ROUTER_Y, slot', rr_pointer', o))
            <= rr_offset(rr_pointer[o], Selected(o))]_vars
=============================================================================
