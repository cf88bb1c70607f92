---------------------------- MODULE NocRouterOps ----------------------------
(***************************************************************************)
(* The combinational logic of rtl/noc_router.sv, and the next value of the *)
(* registers it clocks, as operators on an explicit state:                 *)
(*   x, y   the parameters ROUTER_X and ROUTER_Y,                          *)
(*   s      the one-packet input buffers: s[i] is slot_packet[i] where     *)
(*          slot_valid[i] is 1, and NoPacket where it is 0,                *)
(*   ptr    the round-robin pointer of every output,                       *)
(*   ready  the set of outputs whose out_ready is 1,                       *)
(*   in     the packet every input port offers, NoPacket when in_valid=0.  *)
(* The module has no behaviour of its own: NocRouter uses the operators    *)
(* for one router, NocMesh for the four routers of the mesh.               *)
(***************************************************************************)
EXTENDS Integers, FiniteSets

CONSTANTS
  Packets,    (* The packets that can be offered: records with a dst_id.   *)
  NoPacket    (* An empty buffer, or a port whose valid is 0.              *)

ASSUME PacketsAssumption ==
  /\ NoPacket \notin Packets
  /\ \A p \in Packets : p.dst_id \in 0..7     \* logic [2:0]

(* Port indices: I_LOCAL and O_LOCAL are both 0, and so on.                *)
LOCAL_PORT == 0
NORTH_PORT == 1
SOUTH_PORT == 2
EAST_PORT  == 3
WEST_PORT  == 4

N_INPUTS == 5
Inputs   == 0 .. N_INPUTS - 1
Outputs  == 0 .. 4

Directions == {"LOCAL", "NORTH", "SOUTH", "EAST", "WEST"}

Buffers == Packets \cup {NoPacket}

valid_dst(dst_id) == dst_id <= 3

dst_x(dst_id) == IF dst_id = 1 \/ dst_id = 3 THEN 1 ELSE 0
dst_y(dst_id) == IF dst_id = 2 \/ dst_id = 3 THEN 1 ELSE 0

(* Three routing bugs, for the mutants: the row first; the row ignored     *)
(* once the column matches; north and south confused.                      *)
calc_route_yx(x, y, packet) ==
  LET dx == dst_x(packet.dst_id)
      dy == dst_y(packet.dst_id)
  IN CASE dy > y              -> "SOUTH"
       [] dy < y              -> "NORTH"
       [] dy = y /\ dx > x    -> "EAST"
       [] dy = y /\ dx < x    -> "WEST"
       [] dy = y /\ dx = x    -> "LOCAL"

calc_route_upside_down(x, y, packet) ==
  LET dx == dst_x(packet.dst_id)
      dy == dst_y(packet.dst_id)
  IN CASE dx > x              -> "EAST"
       [] dx < x              -> "WEST"
       [] dx = x /\ dy > y    -> "NORTH"
       [] dx = x /\ dy < y    -> "SOUTH"
       [] dx = x /\ dy = y    -> "LOCAL"

(* XY routing: the column first, then the row.                             *)
calc_route(x, y, packet) ==
  LET dx == dst_x(packet.dst_id)
      dy == dst_y(packet.dst_id)
  IN CASE dx > x              -> "EAST"
       [] dx < x              -> "WEST"
       [] dx = x /\ dy > y    -> "SOUTH"
       [] dx = x /\ dy < y    -> "NORTH"
       [] dx = x /\ dy = y    -> "LOCAL"

dir_to_index(dir) ==
  CASE dir = "LOCAL" -> LOCAL_PORT
    [] dir = "NORTH" -> NORTH_PORT
    [] dir = "SOUTH" -> SOUTH_PORT
    [] dir = "EAST"  -> EAST_PORT
    [] dir = "WEST"  -> WEST_PORT

index_to_dir(index) ==
  CASE index = LOCAL_PORT -> "LOCAL"
    [] index = NORTH_PORT -> "NORTH"
    [] index = SOUTH_PORT -> "SOUTH"
    [] index = EAST_PORT  -> "EAST"
    [] index = WEST_PORT  -> "WEST"

(* A bug, for the mutants: the served direction keeps the first turn.      *)
next_rr_dir_served(served) == served

next_rr_dir(served) ==
  IF dir_to_index(served) = WEST_PORT
  THEN "LOCAL"
  ELSE index_to_dir(dir_to_index(served) + 1)

(* The output that the packet held by input i asks for.                    *)
route(x, y, s, i) == dir_to_index(calc_route(x, y, s[i]))

request(x, y, s, o, i) == s[i] # NoPacket /\ route(x, y, s, i) = o

(* How many steps the arbiter takes from its start to candidate i.         *)
rr_offset(dir, i) == (i + N_INPUTS - dir_to_index(dir)) % N_INPUTS

(* A bug, for the mutants: fixed priority, the pointer ignored.            *)
grant_fixed_priority(x, y, s, ptr, o, i) ==
  /\ request(x, y, s, o, i)
  /\ \A j \in Inputs : request(x, y, s, o, j) => i <= j

(* The arbiter grants the first requester it meets from the pointer on.    *)
grant(x, y, s, ptr, o, i) ==
  /\ request(x, y, s, o, i)
  /\ \A j \in Inputs : request(x, y, s, o, j) =>
       rr_offset(ptr[o], i) <= rr_offset(ptr[o], j)

selected_input(x, y, s, ptr, o) == CHOOSE i \in Inputs : grant(x, y, s, ptr, o, i)

grant_valid(x, y, s, o) == \E i \in Inputs : request(x, y, s, o, i)

out_packet(x, y, s, ptr, o) ==
  IF grant_valid(x, y, s, o) THEN s[selected_input(x, y, s, ptr, o)]
  ELSE NoPacket

out_transfer(x, y, s, ready) == {o \in ready : grant_valid(x, y, s, o)}

(* Input i is served: its packet is granted an output that is ready.       *)
served_input(x, y, s, ptr, ready, i) ==
  /\ s[i] # NoPacket
  /\ route(x, y, s, i) \in ready
  /\ grant(x, y, s, ptr, route(x, y, s, i), i)

(* A bug, for the mutants: the destination is not checked.                 *)
accept_any(packet) == packet

(* What an empty buffer takes from an offer.  A packet of an illegal       *)
(* destination is accepted by the handshake, and discarded.                *)
accept(packet) ==
  IF packet # NoPacket /\ valid_dst(packet.dst_id) THEN packet ELSE NoPacket

next_slot(x, y, s, ptr, ready, in) ==
  [i \in Inputs |->
     IF served_input(x, y, s, ptr, ready, i) THEN NoPacket
     ELSE IF s[i] = NoPacket THEN accept(in[i])
     ELSE s[i]]

(* A bug, for the mutants: the pointer moves on a grant, transfer or not.  *)
next_rr_pointer_on_grant(x, y, s, ptr, ready) ==
  [o \in Outputs |->
     IF grant_valid(x, y, s, o)
     THEN next_rr_dir(index_to_dir(selected_input(x, y, s, ptr, o)))
     ELSE ptr[o]]

next_rr_pointer(x, y, s, ptr, ready) ==
  [o \in Outputs |->
     IF o \in out_transfer(x, y, s, ready)
     THEN next_rr_dir(index_to_dir(selected_input(x, y, s, ptr, o)))
     ELSE ptr[o]]

(* The registers after a clock edge with rst = 1.                          *)
reset_slot       == [i \in Inputs |-> NoPacket]
reset_rr_pointer == [o \in Outputs |-> "LOCAL"]
=============================================================================
