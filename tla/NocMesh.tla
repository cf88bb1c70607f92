------------------------------- MODULE NocMesh -------------------------------
(***************************************************************************)
(* The 2x2 mesh, rtl/noc_mesh_2x2.sv: four routers and one endpoint at     *)
(* each.  A step is a clock edge of the whole mesh; the four routers take  *)
(* it together, each from what its neighbours present in the same cycle.   *)
(*                                                                         *)
(* Routers R00, R01, R10, R11 (rXY of the source is row, then column) are  *)
(* numbered as their endpoints, 0..3.                                      *)
(***************************************************************************)
EXTENDS NocRouterOps, Sequences

CONSTANTS
  MayStall    (* The endpoints whose out_ready may be 0 in some cycles;    *)
              (* the others always take what they are offered.             *)

Endpoints == 0..3

ASSUME MeshAssumption ==
  /\ MayStall \subseteq Endpoints
  /\ \A p \in Packets : p.src_id \in Endpoints

VARIABLES
  slot,         (* slot[r][i]: what input i of router r buffers            *)
  rr_pointer,   (* rr_pointer[r][o]: where r's arbiter for o starts        *)
  ep_out_ready  (* the endpoints that are ready in this cycle              *)

vars == <<slot, rr_pointer, ep_out_ready>>

(* The parameters of the four instances. *)
ROUTER_X(r) == IF r = 1 \/ r = 3 THEN 1 ELSE 0
ROUTER_Y(r) == IF r = 2 \/ r = 3 THEN 1 ELSE 0

(* The internal links: port d of router r faces port Opposite(d) of        *)
(* Neighbor(r, d).  Every other port but LOCAL is tied off.                *)
Links ==
  {<<0, EAST_PORT>>, <<1, WEST_PORT>>, <<2, EAST_PORT>>, <<3, WEST_PORT>>,
   <<0, SOUTH_PORT>>, <<2, NORTH_PORT>>, <<1, SOUTH_PORT>>, <<3, NORTH_PORT>>}

Wired(r, d) == <<r, d>> \in Links

Neighbor(r, d) == CASE d = EAST_PORT  -> r + 1
                    [] d = WEST_PORT  -> r - 1
                    [] d = SOUTH_PORT -> r + 2
                    [] d = NORTH_PORT -> r - 2

Opposite(d) == CASE d = EAST_PORT  -> WEST_PORT
                 [] d = WEST_PORT  -> EAST_PORT
                 [] d = SOUTH_PORT -> NORTH_PORT
                 [] d = NORTH_PORT -> SOUTH_PORT

Requesters(r, o) ==
  {i \in Inputs : request(ROUTER_X(r), ROUTER_Y(r), slot[r], o, i)}

Presented(r, o) ==
  out_packet(ROUTER_X(r), ROUTER_Y(r), slot[r], rr_pointer[r], o)

(* A bug, for the mutants: a link is always ready, its buffer full or not. *)
ReadyRegardless(r) ==
  {o \in Outputs : \/ o = LOCAL_PORT /\ r \in ep_out_ready
                   \/ Wired(r, o)}

(* out_ready of router r: the endpoint's, or that of the facing input.     *)
Ready(r) ==
  {o \in Outputs : \/ o = LOCAL_PORT /\ r \in ep_out_ready
                   \/ Wired(r, o) /\ slot[Neighbor(r, o)][Opposite(o)] = NoPacket}

(* An endpoint puts its own number in src_id. *)
Own(e) == {p \in Packets : p.src_id = e} \cup {NoPacket}

(* in_valid and in_packet of router r, when its endpoint offers p.         *)
Offered(r, p) ==
  [i \in Inputs |-> IF i = LOCAL_PORT THEN p
                    ELSE IF Wired(r, i) THEN Presented(Neighbor(r, i), Opposite(i))
                    ELSE NoPacket]

(* What the edge can leave in router r's buffers, whatever is offered.     *)
NextSlots(r) ==
  {next_slot(ROUTER_X(r), ROUTER_Y(r), slot[r], rr_pointer[r], Ready(r), Offered(r, p)) :
     p \in Own(r)}

Init ==
  /\ slot = [r \in Endpoints |-> reset_slot]
  /\ rr_pointer = [r \in Endpoints |-> reset_rr_pointer]
  /\ ep_out_ready = Endpoints

(* A clock edge with rst = 1. *)
Reset ==
  /\ slot' = [r \in Endpoints |-> reset_slot]
  /\ rr_pointer' = [r \in Endpoints |-> reset_rr_pointer]

(* A clock edge with rst = 0. *)
Cycle ==
  /\ \E a \in NextSlots(0), b \in NextSlots(1), c \in NextSlots(2), d \in NextSlots(3) :
       slot' = [r \in Endpoints |-> CASE r = 0 -> a [] r = 1 -> b [] r = 2 -> c [] r = 3 -> d]
  /\ rr_pointer' = [r \in Endpoints |->
       next_rr_pointer(ROUTER_X(r), ROUTER_Y(r), slot[r], rr_pointer[r], Ready(r))]

EndpointsChooseReady ==
  \E stalled \in SUBSET MayStall : ep_out_ready' = Endpoints \ stalled

Next ==
  /\ Reset \/ Cycle
  /\ EndpointsChooseReady

Spec == Init /\ [][Next]_vars

-----------------------------------------------------------------------------
(* Where XY routing can have brought a legal packet: it waits at its       *)
(* source's local input, or has crossed its row from its source, or has    *)
(* crossed the column of its destination and is there.                     *)
OnRoute(r, i, p) ==
  \/ i = LOCAL_PORT /\ p.src_id = r /\ valid_dst(p.dst_id)
  \/ /\ i \in {EAST_PORT, WEST_PORT} /\ Wired(r, i)
     /\ p.src_id = Neighbor(r, i)
     /\ dst_x(p.dst_id) = ROUTER_X(r)
  \/ /\ i \in {NORTH_PORT, SOUTH_PORT} /\ Wired(r, i)
     /\ p.dst_id = r
     /\ ROUTER_Y(p.src_id) = ROUTER_Y(Neighbor(r, i))

(* Every buffered packet is on its XY route: a turn the routing does not   *)
(* make, or a crossed link, would put a packet elsewhere.                  *)
PacketsOnRoute ==
  \A r \in Endpoints, i \in Inputs :
    slot[r][i] # NoPacket => OnRoute(r, i, slot[r][i])

(* What the contract's bound of three arbitration opportunities rests on:  *)
(* no packet asks for a tied-off port, at which it would wait for ever,    *)
(* and no output is wanted by more than three inputs at once.              *)
AtMostThreeContend ==
  \A r \in Endpoints, o \in Outputs :
    /\ Requesters(r, o) # {} => o = LOCAL_PORT \/ Wired(r, o)
    /\ Cardinality(Requesters(r, o)) <= 3

-----------------------------------------------------------------------------
(* The packets of the flow from s to d that are in flight, the oldest      *)
(* first: along the route, from the last buffer back to the first.         *)
Held(r, i, s, d) ==
  IF /\ slot[r][i] # NoPacket
     /\ slot[r][i].src_id = s /\ slot[r][i].dst_id = d
  THEN <<slot[r][i]>> ELSE <<>>

(* Where a route turns from the row of its source into the column of its   *)
(* destination. *)
Turn(s, d) == 2 * ROUTER_Y(s) + ROUTER_X(d)

InFlight(s, d) ==
  LET t == Turn(s, d)
  IN    (IF d > t THEN Held(d, NORTH_PORT, s, d)
         ELSE IF d < t THEN Held(d, SOUTH_PORT, s, d) ELSE <<>>)
     \o (IF t > s THEN Held(t, WEST_PORT, s, d)
         ELSE IF t < s THEN Held(t, EAST_PORT, s, d) ELSE <<>>)
     \o Held(s, LOCAL_PORT, s, d)

(* Seen from the endpoints, the mesh is sixteen independent FIFO channels. *)
Flows == INSTANCE NocFlows
           WITH queue <- [s \in Endpoints |-> [d \in Endpoints |-> InFlight(s, d)]],
                ready <- ep_out_ready

(* Every behaviour of the mesh is one of the sixteen channels: no packet   *)
(* is lost, duplicated, altered or overtaken within its flow, and none is  *)
(* delivered to an endpoint that is not ready.                             *)
ImplementsFlows == Flows!Spec
=============================================================================
