---------------------------- MODULE NocMeshProofs ----------------------------
(***************************************************************************)
(* Theorems about the mesh, for every set of packets and every choice of   *)
(* the endpoints that may stall.                                           *)
(***************************************************************************)
EXTENDS NocMesh, NocRouterOpsProofs, FiniteSetTheorems, SequenceTheorems, TLAPS

USE DEF LOCAL_PORT, NORTH_PORT, SOUTH_PORT, EAST_PORT, WEST_PORT

(* The eight links, with both ends of each.                                *)
LEMMA LinkEnds ==
  ASSUME NEW r, NEW i, Wired(r, i)
  PROVE  \/ r = 0 /\ i = 3 /\ Neighbor(r, i) = 1 /\ Opposite(i) = 4
         \/ r = 1 /\ i = 4 /\ Neighbor(r, i) = 0 /\ Opposite(i) = 3
         \/ r = 2 /\ i = 3 /\ Neighbor(r, i) = 3 /\ Opposite(i) = 4
         \/ r = 3 /\ i = 4 /\ Neighbor(r, i) = 2 /\ Opposite(i) = 3
         \/ r = 0 /\ i = 2 /\ Neighbor(r, i) = 2 /\ Opposite(i) = 1
         \/ r = 2 /\ i = 1 /\ Neighbor(r, i) = 0 /\ Opposite(i) = 2
         \/ r = 1 /\ i = 2 /\ Neighbor(r, i) = 3 /\ Opposite(i) = 1
         \/ r = 3 /\ i = 1 /\ Neighbor(r, i) = 1 /\ Opposite(i) = 2
BY DEF Wired, Links, Neighbor, Opposite

(* The place of each router. *)
LEMMA Places ==
  /\ ROUTER_X(0) = 0 /\ ROUTER_X(1) = 1 /\ ROUTER_X(2) = 0 /\ ROUTER_X(3) = 1
  /\ ROUTER_Y(0) = 0 /\ ROUTER_Y(1) = 0 /\ ROUTER_Y(2) = 1 /\ ROUTER_Y(3) = 1
BY DEF ROUTER_X, ROUTER_Y

(* Different routers are at different places. *)
LEMMA SamePlace ==
  ASSUME NEW r \in Endpoints, NEW n \in Endpoints,
         ROUTER_X(r) = ROUTER_X(n), ROUTER_Y(r) = ROUTER_Y(n)
  PROVE  r = n
BY DEF ROUTER_X, ROUTER_Y, Endpoints

(* A legal destination is the router whose place it names. *)
LEMMA DestinationPlace ==
  ASSUME NEW d \in Endpoints
  PROVE  dst_x(d) = ROUTER_X(d) /\ dst_y(d) = ROUTER_Y(d)
BY DEF dst_x, dst_y, ROUTER_X, ROUTER_Y

(* Which output a packet asks for, from where it is and where it goes.     *)
LEMMA RouteOf ==
  ASSUME NEW x \in {0, 1}, NEW y \in {0, 1}, NEW p
  PROVE  /\ dst_x(p.dst_id) \in {0, 1} /\ dst_y(p.dst_id) \in {0, 1}
         /\ dir_to_index(calc_route(x, y, p)) =
              IF dst_x(p.dst_id) > x THEN 3
              ELSE IF dst_x(p.dst_id) < x THEN 4
              ELSE IF dst_y(p.dst_id) > y THEN 2
              ELSE IF dst_y(p.dst_id) < y THEN 1
              ELSE 0
<1>1. dst_x(p.dst_id) \in {0, 1} /\ dst_y(p.dst_id) \in {0, 1}
  BY DEF dst_x, dst_y
<1> DEFINE dx == dst_x(p.dst_id)
           dy == dst_y(p.dst_id)
<1>2. calc_route(x, y, p) =
        IF dx > x THEN "EAST" ELSE IF dx < x THEN "WEST"
        ELSE IF dy > y THEN "SOUTH" ELSE IF dy < y THEN "NORTH" ELSE "LOCAL"
  <2>1. CASE dx > x
    BY <1>1, <2>1 DEF calc_route
  <2>2. CASE dx < x
    BY <1>1, <2>2 DEF calc_route
  <2>3. CASE dx = x /\ dy > y
    BY <1>1, <2>3 DEF calc_route
  <2>4. CASE dx = x /\ dy < y
    BY <1>1, <2>4 DEF calc_route
  <2>5. CASE dx = x /\ dy = y
    BY <1>1, <2>5 DEF calc_route
  <2>6. QED BY <1>1, <2>1, <2>2, <2>3, <2>4, <2>5
<1>3. /\ dir_to_index("EAST") = 3 /\ dir_to_index("WEST") = 4
      /\ dir_to_index("SOUTH") = 2 /\ dir_to_index("NORTH") = 1
      /\ dir_to_index("LOCAL") = 0
  BY DEF dir_to_index
<1>4. QED BY <1>1, <1>2, <1>3

-----------------------------------------------------------------------------
(* One hop keeps a packet on its route: the input it leaves, together with *)
(* the output it asks for, decides where its source and destination are.   *)
LEMMA HopOnRoute ==
  ASSUME NEW r \in Endpoints, NEW i \in Inputs, Wired(r, i),
         NEW j \in Inputs, NEW p,
         p.src_id \in Endpoints, p.dst_id \in Endpoints,
         OnRoute(Neighbor(r, i), j, p),
         LET n == Neighbor(r, i)
         IN  dir_to_index(calc_route(ROUTER_X(n), ROUTER_Y(n), p)) = Opposite(i)
  PROVE  OnRoute(r, i, p)
<1> DEFINE n == Neighbor(r, i)
           dx == dst_x(p.dst_id)
           dy == dst_y(p.dst_id)
<1>1. n \in Endpoints /\ r \in Endpoints
  BY LinkEnds DEF Endpoints
<1>2. ROUTER_X(n) \in {0, 1} /\ ROUTER_Y(n) \in {0, 1}
  BY DEF ROUTER_X, ROUTER_Y
<1>3. Opposite(i) = IF dx > ROUTER_X(n) THEN 3
                    ELSE IF dx < ROUTER_X(n) THEN 4
                    ELSE IF dy > ROUTER_Y(n) THEN 2
                    ELSE IF dy < ROUTER_Y(n) THEN 1
                    ELSE 0
  BY <1>2, RouteOf
<1>4. dx = ROUTER_X(p.dst_id) /\ dy = ROUTER_Y(p.dst_id)
  BY DestinationPlace
<1>5. \/ j = 0 /\ p.src_id = n
      \/ /\ j \in {3, 4} /\ Wired(n, j)
         /\ p.src_id = Neighbor(n, j) /\ dx = ROUTER_X(n)
      \/ j \in {1, 2} /\ p.dst_id = n
  BY DEF OnRoute
<1>6. CASE i \in {3, 4}
  <2>1. Opposite(i) \in {3, 4}
    BY <1>6, LinkEnds
  <2>2. dx # ROUTER_X(n)
    BY <1>2, <1>3, <2>1
  <2>3. j = 0 /\ p.src_id = n
    BY <1>4, <1>5, <2>2
  <2>4. dx = ROUTER_X(r)
    BY <1>3, <1>4, <1>6, <2>2, LinkEnds, Places DEF Endpoints
  <2>5. QED BY <1>6, <2>3, <2>4 DEF OnRoute
<1>7. CASE i \in {1, 2}
  <2>1. Opposite(i) \in {1, 2}
    BY <1>7, LinkEnds
  <2>2. dx = ROUTER_X(n) /\ dy # ROUTER_Y(n)
    BY <1>2, <1>3, <1>4, <2>1, RouteOf
  <2>3. p.dst_id # n
    BY <1>4, <2>2
  <2>4. ROUTER_Y(p.src_id) = ROUTER_Y(n)
    BY <1>5, <2>3, LinkEnds, Places
  <2>5. ROUTER_X(r) = ROUTER_X(n) /\ ROUTER_Y(r) # ROUTER_Y(n)
    BY <1>7, LinkEnds, Places
  <2>6. p.dst_id = r
    <3>1. ROUTER_Y(r) \in {0, 1} /\ ROUTER_Y(n) \in {0, 1}
      BY DEF ROUTER_Y
    <3>2. dy \in {0, 1}
      BY <1>2, RouteOf
    <3>3. ROUTER_X(p.dst_id) = ROUTER_X(r) /\ ROUTER_Y(p.dst_id) = ROUTER_Y(r)
      BY <1>4, <2>2, <2>5, <3>1, <3>2
    <3>4. QED BY <3>3, SamePlace
  <2>7. QED BY <1>7, <2>4, <2>6 DEF OnRoute
<1>8. QED BY <1>6, <1>7, LinkEnds

(* A nonempty output presents the packet of an input that asks for it.     *)
LEMMA PresentedIsHeld ==
  ASSUME NEW r \in Endpoints, NEW o \in Outputs,
         rr_pointer[r][o] \in Directions, Presented(r, o) # NoPacket
  PROVE  \E j \in Inputs :
           /\ j = selected_input(ROUTER_X(r), ROUTER_Y(r), slot[r], rr_pointer[r], o)
           /\ Presented(r, o) = slot[r][j]
           /\ request(ROUTER_X(r), ROUTER_Y(r), slot[r], o, j)
<1> DEFINE x == ROUTER_X(r)
           y == ROUTER_Y(r)
<1>1. grant_valid(x, y, slot[r], o)
  BY DEF Presented, out_packet
<1>2. LET j == selected_input(x, y, slot[r], rr_pointer[r], o)
      IN  j \in Inputs /\ grant(x, y, slot[r], rr_pointer[r], o, j)
  BY <1>1, SelectedRequester
<1>3. QED BY <1>1, <1>2 DEF Presented, out_packet, grant

(* The inductive invariant: types, legality of what is buffered, and the   *)
(* routes.                                                                 *)
MeshTypeOK ==
  /\ slot \in [Endpoints -> [Inputs -> Buffers]]
  /\ rr_pointer \in [Endpoints -> [Outputs -> Directions]]

BuffersAreLegal ==
  \A r \in Endpoints, i \in Inputs :
    slot[r][i] # NoPacket => slot[r][i].dst_id \in Endpoints

MeshInv == MeshTypeOK /\ BuffersAreLegal /\ PacketsOnRoute

(* What an edge does to one router of the mesh. *)
LEMMA CycleOfRouter ==
  ASSUME Cycle, NEW r \in Endpoints
  PROVE  /\ \E p \in Own(r) :
              slot'[r] = next_slot(ROUTER_X(r), ROUTER_Y(r), slot[r], rr_pointer[r],
                                   Ready(r), Offered(r, p))
         /\ rr_pointer'[r] = next_rr_pointer(ROUTER_X(r), ROUTER_Y(r), slot[r],
                                             rr_pointer[r], Ready(r))
<1>1. PICK a \in NextSlots(0), b \in NextSlots(1), c \in NextSlots(2), d \in NextSlots(3) :
        slot' = [q \in Endpoints |-> CASE q = 0 -> a [] q = 1 -> b [] q = 2 -> c [] q = 3 -> d]
  BY DEF Cycle
<1>2. slot'[r] \in NextSlots(r)
  <2>1. r = 0 \/ r = 1 \/ r = 2 \/ r = 3
    BY DEF Endpoints
  <2>2. CASE r = 0
    BY <1>1, <2>2
  <2>3. CASE r = 1
    BY <1>1, <2>3
  <2>4. CASE r = 2
    BY <1>1, <2>4
  <2>5. CASE r = 3
    BY <1>1, <2>5
  <2>6. QED BY <2>1, <2>2, <2>3, <2>4, <2>5
<1>3. QED BY <1>2 DEF NextSlots, Cycle

LEMMA MeshInvInit == Init => MeshInv
<1> SUFFICES ASSUME Init PROVE MeshInv
  OBVIOUS
<1>1. "LOCAL" \in Directions /\ NoPacket \in Buffers
  BY DEF Directions, Buffers
<1>2. \A r \in Endpoints, i \in Inputs : slot[r][i] = NoPacket
  BY DEF Init, reset_slot
<1>3. MeshTypeOK
  BY <1>1 DEF Init, MeshTypeOK, reset_slot, reset_rr_pointer
<1>4. QED BY <1>2, <1>3 DEF MeshInv, BuffersAreLegal, PacketsOnRoute

(* The buffers after an edge: what arrives over a link has made one hop.   *)
LEMMA CycleKeepsRoutes ==
  ASSUME MeshInv, Cycle, NEW r \in Endpoints, NEW i \in Inputs,
         slot'[r][i] # NoPacket
  PROVE  /\ slot'[r][i] \in Packets
         /\ slot'[r][i].dst_id \in Endpoints
         /\ OnRoute(r, i, slot'[r][i])
<1> DEFINE q == slot'[r][i]
<1>1. PICK p \in Own(r) :
        slot'[r] = next_slot(ROUTER_X(r), ROUTER_Y(r), slot[r], rr_pointer[r],
                             Ready(r), Offered(r, p))
  BY CycleOfRouter
<1>2. \/ q = slot[r][i]
      \/ q = Offered(r, p)[i] /\ valid_dst(q.dst_id)
  BY <1>1, BufferStep
<1>3. CASE q = slot[r][i]
  BY <1>3 DEF MeshInv, MeshTypeOK, BuffersAreLegal, PacketsOnRoute, Buffers
<1>4. CASE q = Offered(r, p)[i] /\ valid_dst(q.dst_id)
  <2>1. CASE i = LOCAL_PORT
    <3>1. q \in Packets /\ q.src_id = r
      BY <1>4, <2>1 DEF Offered, Own
    <3>2. q.dst_id \in Endpoints
      BY <1>4, <3>1, PacketsAssumption DEF valid_dst, Endpoints
    <3>3. QED BY <1>4, <2>1, <3>1, <3>2 DEF OnRoute
  <2>2. CASE i # LOCAL_PORT
    <3> DEFINE n == Neighbor(r, i)
               o == Opposite(i)
    <3>1. Wired(r, i) /\ q = Presented(n, o)
      BY <1>4, <2>2 DEF Offered
    <3>2. n \in Endpoints /\ o \in Outputs
      BY <3>1, LinkEnds DEF Endpoints, Outputs
    <3>3. rr_pointer[n][o] \in Directions
      BY <3>2 DEF MeshInv, MeshTypeOK
    <3> HIDE DEF n, o
    <3>4. PICK j \in Inputs : /\ q = slot[n][j]
                              /\ request(ROUTER_X(n), ROUTER_Y(n), slot[n], o, j)
      BY <3>1, <3>2, <3>3, PresentedIsHeld
    <3>5. q \in Packets /\ q.dst_id \in Endpoints /\ OnRoute(n, j, q)
      BY <3>2, <3>4 DEF MeshInv, MeshTypeOK, BuffersAreLegal, PacketsOnRoute, Buffers
    <3>6. q.src_id \in Endpoints
      BY <3>5, MeshAssumption
    <3>7. dir_to_index(calc_route(ROUTER_X(n), ROUTER_Y(n), q)) = o
      BY <3>4 DEF request, route
    <3>8. OnRoute(r, i, q)
      BY <3>1, <3>5, <3>6, <3>7, HopOnRoute DEF n, o
    <3>9. QED BY <3>5, <3>8
  <2>3. QED BY <2>1, <2>2
<1>5. QED BY <1>2, <1>3, <1>4

(* The pointers after an edge. *)
LEMMA CycleKeepsPointers ==
  ASSUME MeshInv, Cycle, NEW r \in Endpoints
  PROVE  rr_pointer'[r] \in [Outputs -> Directions]
<1> DEFINE x == ROUTER_X(r)
           y == ROUTER_Y(r)
           sel(o) == selected_input(x, y, slot[r], rr_pointer[r], o)
<1>1. \A o \in Outputs : rr_pointer[r][o] \in Directions
  BY DEF MeshInv, MeshTypeOK
<1>2. \A o \in Outputs : o \in out_transfer(x, y, slot[r], Ready(r)) =>
        next_rr_dir(index_to_dir(sel(o))) \in Directions
  <2> TAKE o \in Outputs
  <2> HAVE o \in out_transfer(x, y, slot[r], Ready(r))
  <2>1. sel(o) \in Inputs
    BY <1>1, SelectedRequester DEF out_transfer
  <2>2. QED BY <2>1, DirectionIndex
<1>3. rr_pointer'[r] = next_rr_pointer(x, y, slot[r], rr_pointer[r], Ready(r))
  BY CycleOfRouter
<1>4. QED BY <1>1, <1>2, <1>3 DEF next_rr_pointer

(* Every step of the mesh preserves the invariant. *)
LEMMA MeshInvStep == MeshInv /\ [Next]_vars => MeshInv'
<1> SUFFICES ASSUME MeshInv, [Next]_vars PROVE MeshInv'
  OBVIOUS
<1>1. CASE UNCHANGED vars
  BY <1>1 DEF vars, MeshInv, MeshTypeOK, BuffersAreLegal, PacketsOnRoute
<1>2. CASE Reset
  <2>1. "LOCAL" \in Directions /\ NoPacket \in Buffers
    BY DEF Directions, Buffers
  <2>2. \A r \in Endpoints, i \in Inputs : slot'[r][i] = NoPacket
    BY <1>2 DEF Reset, reset_slot
  <2>3. MeshTypeOK'
    BY <1>2, <2>1 DEF Reset, MeshTypeOK, reset_slot, reset_rr_pointer
  <2>4. QED BY <2>2, <2>3 DEF MeshInv, BuffersAreLegal, PacketsOnRoute
<1>3. CASE Cycle
  <2>1. slot' \in [Endpoints -> [Inputs -> Buffers]]
    <3>1. \A r \in Endpoints : slot'[r] = [i \in Inputs |-> slot'[r][i]]
      BY <1>3, CycleOfRouter DEF next_slot
    <3>2. slot' = [r \in Endpoints |-> slot'[r]]
      BY <1>3 DEF Cycle
    <3>3. \A r \in Endpoints, i \in Inputs : slot'[r][i] \in Buffers
      BY <1>3, CycleKeepsRoutes DEF Buffers
    <3>4. QED BY <3>1, <3>2, <3>3
  <2>2. rr_pointer' \in [Endpoints -> [Outputs -> Directions]]
    <3>1. rr_pointer' = [r \in Endpoints |-> rr_pointer'[r]]
      BY <1>3 DEF Cycle
    <3>2. QED BY <1>3, <3>1, CycleKeepsPointers
  <2>3. BuffersAreLegal' /\ PacketsOnRoute'
    BY <1>3, CycleKeepsRoutes DEF BuffersAreLegal, PacketsOnRoute
  <2>4. QED BY <2>1, <2>2, <2>3 DEF MeshInv, MeshTypeOK
<1>4. QED BY <1>1, <1>2, <1>3 DEF Next

-----------------------------------------------------------------------------
(* Only the local input and the wired ones ever hold a packet, and every   *)
(* router has one neighbour in its row and one in its column.              *)
LEMMA ContendersOfRouter ==
  ASSUME MeshInv, NEW r \in Endpoints, NEW o \in Outputs
  PROVE  Requesters(r, o) \subseteq
           {0, IF ROUTER_X(r) = 0 THEN 3 ELSE 4, IF ROUTER_Y(r) = 0 THEN 2 ELSE 1}
<1> SUFFICES ASSUME NEW i \in Requesters(r, o)
             PROVE  i \in {0, IF ROUTER_X(r) = 0 THEN 3 ELSE 4, IF ROUTER_Y(r) = 0 THEN 2 ELSE 1}
  OBVIOUS
<1>1. i \in Inputs /\ slot[r][i] # NoPacket
  BY DEF Requesters, request
<1>2. i = 0 \/ Wired(r, i)
  BY <1>1 DEF MeshInv, PacketsOnRoute, OnRoute
<1>3. CASE Wired(r, i)
  BY <1>3, LinkEnds, Places
<1>4. QED BY <1>2, <1>3

(* No output has more than three contenders. *)
LEMMA ThreeContenders ==
  ASSUME MeshInv, NEW r \in Endpoints, NEW o \in Outputs
  PROVE  Cardinality(Requesters(r, o)) <= 3
<1> DEFINE h == IF ROUTER_X(r) = 0 THEN 3 ELSE 4
           v == IF ROUTER_Y(r) = 0 THEN 2 ELSE 1
<1>1. h # v /\ h # 0 /\ v # 0
  OBVIOUS
<1>2. Requesters(r, o) \subseteq {0, h, v}
  BY ContendersOfRouter
<1> HIDE DEF h, v
<1>3. IsFiniteSet({0, h, v}) /\ Cardinality({0, h, v}) = 3
  <2>1. IsFiniteSet({}) /\ Cardinality({}) = 0
    BY FS_EmptySet
  <2>2. IsFiniteSet({0}) /\ Cardinality({0}) = 1
    BY FS_Singleton
  <2>3. IsFiniteSet({0} \cup {h}) /\ Cardinality({0} \cup {h}) = 2
    BY <1>1, <2>2, FS_AddElement
  <2>4. IsFiniteSet({0} \cup {h} \cup {v}) /\ Cardinality({0} \cup {h} \cup {v}) = 3
    BY <1>1, <2>3, FS_AddElement
  <2>5. {0} \cup {h} \cup {v} = {0, h, v}
    OBVIOUS
  <2>6. QED BY <2>4, <2>5
<1>4. QED BY <1>2, <1>3, FS_Subset

(* No packet asks for an output that is tied off. *)
LEMMA RequestsAreWired ==
  ASSUME MeshInv, NEW r \in Endpoints, NEW o \in Outputs, Requesters(r, o) # {}
  PROVE  o = LOCAL_PORT \/ Wired(r, o)
<1>1. PICK i \in Inputs : request(ROUTER_X(r), ROUTER_Y(r), slot[r], o, i)
  BY DEF Requesters
<1> DEFINE dx == dst_x(slot[r][i].dst_id)
           dy == dst_y(slot[r][i].dst_id)
<1>2. ROUTER_X(r) \in {0, 1} /\ ROUTER_Y(r) \in {0, 1}
  BY DEF ROUTER_X, ROUTER_Y
<1>3. /\ dx \in {0, 1} /\ dy \in {0, 1}
      /\ o = IF dx > ROUTER_X(r) THEN 3 ELSE IF dx < ROUTER_X(r) THEN 4
             ELSE IF dy > ROUTER_Y(r) THEN 2 ELSE IF dy < ROUTER_Y(r) THEN 1 ELSE 0
  BY <1>1, <1>2, RouteOf DEF request, route
<1>4. \/ o = 0
      \/ o = 3 /\ ROUTER_X(r) = 0
      \/ o = 4 /\ ROUTER_X(r) = 1
      \/ o = 2 /\ ROUTER_Y(r) = 0
      \/ o = 1 /\ ROUTER_Y(r) = 1
  BY <1>2, <1>3
<1>5. r = 0 \/ r = 1 \/ r = 2 \/ r = 3
  BY DEF Endpoints
<1>6. QED BY <1>4, <1>5, Places DEF Wired, Links

(* XY routing over these eight links never puts a packet where the route   *)
(* from its source to its destination does not pass.                       *)
THEOREM RoutesAreXY == Spec => []PacketsOnRoute
<1>1. MeshInv => PacketsOnRoute
  BY DEF MeshInv
<1>2. QED BY <1>1, MeshInvInit, MeshInvStep, PTL DEF Spec

(* The bound on the wait of the contract (three arbitration opportunities) *)
(* holds in every mesh: three contenders at most, none for a tied-off port.*)
THEOREM ContentionIsBounded == Spec => []AtMostThreeContend
<1>1. MeshInv => AtMostThreeContend
  BY ThreeContenders, RequestsAreWired DEF AtMostThreeContend
<1>2. QED BY <1>1, MeshInvInit, MeshInvStep, PTL DEF Spec

-----------------------------------------------------------------------------
(***************************************************************************)
(* The refinement of NocFlows.  A packet that is served at one router is   *)
(* buffered by the next in the same edge, and nothing else arrives there:  *)
(* the buffers of a route are a pipeline.                                  *)
(***************************************************************************)
Served(r, i) ==
  served_input(ROUTER_X(r), ROUTER_Y(r), slot[r], rr_pointer[r], Ready(r), i)

OutputOf(r, i) == route(ROUTER_X(r), ROUTER_Y(r), slot[r], i)

(* The other end of a link leads back. *)
LEMMA LinkBack ==
  ASSUME NEW r, NEW o, Wired(r, o)
  PROVE  /\ Neighbor(r, o) \in Endpoints /\ Opposite(o) \in Inputs \ {0}
         /\ Wired(Neighbor(r, o), Opposite(o))
         /\ Neighbor(Neighbor(r, o), Opposite(o)) = r
         /\ Opposite(Opposite(o)) = o
         /\ o \in Outputs \ {0} /\ r \in Endpoints
BY DEF Wired, Links, Neighbor, Opposite, Endpoints, Inputs, N_INPUTS, Outputs

(* Every buffer after an edge. *)
LEMMA BuffersAfter ==
  ASSUME Cycle, NEW r \in Endpoints
  PROVE  \E p \in Own(r) : \A i \in Inputs :
           slot'[r][i] = IF Served(r, i) THEN NoPacket
                         ELSE IF slot[r][i] = NoPacket THEN accept(Offered(r, p)[i])
                         ELSE slot[r][i]
BY CycleOfRouter DEF next_slot, Served

(* The packet of a served input is what the router presents. *)
LEMMA ServedIsPresented ==
  ASSUME MeshInv, NEW r \in Endpoints, NEW i \in Inputs, Served(r, i)
  PROVE  /\ slot[r][i] # NoPacket
         /\ OutputOf(r, i) \in Ready(r)
         /\ Presented(r, OutputOf(r, i)) = slot[r][i]
<1> DEFINE x == ROUTER_X(r)
           y == ROUTER_Y(r)
           o == OutputOf(r, i)
<1>1. /\ slot[r][i] # NoPacket /\ o \in Ready(r)
      /\ grant(x, y, slot[r], rr_pointer[r], o, i)
  BY DEF Served, served_input, OutputOf
<1>2. o \in Outputs
  BY <1>1 DEF Ready
<1>3. rr_pointer[r][o] \in Directions
  BY <1>2 DEF MeshInv, MeshTypeOK
<1> HIDE DEF o
<1>4. grant_valid(x, y, slot[r], o)
  BY <1>1 DEF grant, grant_valid
<1>5. LET j == selected_input(x, y, slot[r], rr_pointer[r], o)
      IN  j \in Inputs /\ grant(x, y, slot[r], rr_pointer[r], o, j)
  BY <1>3, <1>4, SelectedRequester
<1>6. selected_input(x, y, slot[r], rr_pointer[r], o) = i
  BY <1>1, <1>3, <1>5, GrantUnique
<1>7. Presented(r, o) = slot[r][i]
  BY <1>4, <1>6 DEF Presented, out_packet
<1>8. QED BY <1>1, <1>7 DEF o

(* A packet that is served towards a neighbour is there after the edge.    *)
LEMMA ServedIsPassedOn ==
  ASSUME MeshInv, Cycle, NEW r \in Endpoints, NEW i \in Inputs,
         Served(r, i), OutputOf(r, i) # LOCAL_PORT
  PROVE  LET n == Neighbor(r, OutputOf(r, i))
             k == Opposite(OutputOf(r, i))
         IN  slot[n][k] = NoPacket /\ slot'[n][k] = slot[r][i]
<1> DEFINE o == OutputOf(r, i)
           n == Neighbor(r, o)
           k == Opposite(o)
<1>1. slot[r][i] # NoPacket /\ o \in Ready(r) /\ Presented(r, o) = slot[r][i]
  BY ServedIsPresented
<1>2. Wired(r, o) /\ slot[n][k] = NoPacket
  BY <1>1 DEF Ready
<1> HIDE DEF o
<1>3. /\ n \in Endpoints /\ k \in Inputs /\ k # 0 /\ Wired(n, k)
      /\ Neighbor(n, k) = r /\ Opposite(k) = o
  BY <1>2, LinkBack
<1> HIDE DEF n, k
<1>4. PICK p \in Own(n) : \A j \in Inputs :
        slot'[n][j] = IF Served(n, j) THEN NoPacket
                      ELSE IF slot[n][j] = NoPacket THEN accept(Offered(n, p)[j])
                      ELSE slot[n][j]
  BY <1>3, BuffersAfter
<1>5. ~ Served(n, k)
  BY <1>2 DEF Served, served_input
<1>6. Offered(n, p)[k] = slot[r][i]
  BY <1>1, <1>3 DEF Offered
<1>7. slot[r][i].dst_id \in Endpoints
  BY <1>1 DEF MeshInv, BuffersAreLegal
<1>8. accept(slot[r][i]) = slot[r][i]
  BY <1>1, <1>7 DEF accept, valid_dst, Endpoints
<1>9. slot'[n][k] = slot[r][i]
  BY <1>2, <1>3, <1>4, <1>5, <1>6, <1>8
<1>10. QED BY <1>2, <1>9 DEF n, k, o

(* What an empty buffer behind a link receives has been served at the      *)
(* other end.                                                              *)
LEMMA ArrivalWasServed ==
  ASSUME MeshInv, Cycle, NEW n \in Endpoints, NEW k \in Inputs, Wired(n, k),
         slot[n][k] = NoPacket, slot'[n][k] # NoPacket
  PROVE  \E j \in Inputs : /\ Served(Neighbor(n, k), j)
                           /\ OutputOf(Neighbor(n, k), j) = Opposite(k)
                           /\ slot[Neighbor(n, k)][j] = slot'[n][k]
<1> DEFINE r == Neighbor(n, k)
           o == Opposite(k)
<1>1. /\ r \in Endpoints /\ o \in Outputs /\ Wired(r, o)
      /\ Neighbor(r, o) = n /\ Opposite(o) = k /\ k # 0
  <2>1. o \in Inputs
    BY LinkBack
  <2>2. QED BY <2>1, LinkBack DEF Inputs, Outputs, N_INPUTS
<1> HIDE DEF r, o
<1>2. PICK p \in Own(n) : \A j \in Inputs :
        slot'[n][j] = IF Served(n, j) THEN NoPacket
                      ELSE IF slot[n][j] = NoPacket THEN accept(Offered(n, p)[j])
                      ELSE slot[n][j]
  BY BuffersAfter
<1>3. slot'[n][k] = accept(Offered(n, p)[k])
  BY <1>2
<1>4. slot'[n][k] = Presented(r, o)
  BY <1>1, <1>3 DEF accept, Offered, r, o
<1>5. rr_pointer[r][o] \in Directions
  BY <1>1 DEF MeshInv, MeshTypeOK
<1>6. PICK j \in Inputs :
        /\ j = selected_input(ROUTER_X(r), ROUTER_Y(r), slot[r], rr_pointer[r], o)
        /\ Presented(r, o) = slot[r][j]
        /\ request(ROUTER_X(r), ROUTER_Y(r), slot[r], o, j)
  BY <1>1, <1>4, <1>5, PresentedIsHeld
<1>7. grant(ROUTER_X(r), ROUTER_Y(r), slot[r], rr_pointer[r], o, j)
  <2>1. grant_valid(ROUTER_X(r), ROUTER_Y(r), slot[r], o)
    BY <1>6 DEF grant_valid
  <2>2. QED BY <1>5, <1>6, <2>1, SelectedRequester
<1>8. o \in Ready(r)
  BY <1>1 DEF Ready
<1>9. Served(r, j) /\ OutputOf(r, j) = o
  BY <1>6, <1>7, <1>8 DEF Served, served_input, OutputOf, request
<1>10. QED BY <1>4, <1>6, <1>9 DEF r, o

-----------------------------------------------------------------------------
(* Buffer i of router r holds a packet of the flow from s to d; and it is  *)
(* served in this cycle.                                                   *)
InFlow(r, i, s, d) ==
  /\ slot[r][i] # NoPacket
  /\ slot[r][i].src_id = s /\ slot[r][i].dst_id = d

Moves(r, i, s, d) == InFlow(r, i, s, d) /\ Served(r, i)

(* The output a packet of a flow asks for, in terms of places. *)
LEMMA OutputOfFlow ==
  ASSUME NEW r \in Endpoints, NEW i \in Inputs,
         NEW s \in Endpoints, NEW d \in Endpoints, InFlow(r, i, s, d)
  PROVE  OutputOf(r, i) = IF ROUTER_X(d) > ROUTER_X(r) THEN 3
                          ELSE IF ROUTER_X(d) < ROUTER_X(r) THEN 4
                          ELSE IF ROUTER_Y(d) > ROUTER_Y(r) THEN 2
                          ELSE IF ROUTER_Y(d) < ROUTER_Y(r) THEN 1
                          ELSE 0
<1>1. ROUTER_X(r) \in {0, 1} /\ ROUTER_Y(r) \in {0, 1}
  BY DEF ROUTER_X, ROUTER_Y
<1>2. slot[r][i].dst_id = d
  BY DEF InFlow
<1>3. QED BY <1>1, <1>2, RouteOf, DestinationPlace DEF OutputOf, route

(* Where in a router the packets of a flow can be. *)
LEMMA InputOfFlow ==
  ASSUME MeshInv, NEW r \in Endpoints, NEW i \in Inputs,
         NEW s \in Endpoints, NEW d \in Endpoints, InFlow(r, i, s, d)
  PROVE  \/ i = 0 /\ s = r
         \/ /\ i \in {3, 4} /\ Wired(r, i) /\ s = Neighbor(r, i)
            /\ ROUTER_X(d) = ROUTER_X(r)
         \/ i \in {1, 2} /\ Wired(r, i) /\ d = r
<1>1. OnRoute(r, i, slot[r][i])
  BY DEF MeshInv, PacketsOnRoute, InFlow
<1>2. QED BY <1>1, DestinationPlace DEF OnRoute, InFlow

(* The router where the flow from s to d turns into the column. *)
LEMMA TurnPlace ==
  ASSUME NEW s \in Endpoints, NEW d \in Endpoints
  PROVE  /\ Turn(s, d) \in Endpoints
         /\ ROUTER_X(Turn(s, d)) = ROUTER_X(d)
         /\ ROUTER_Y(Turn(s, d)) = ROUTER_Y(s)
<1>1. ROUTER_X(d) \in {0, 1} /\ ROUTER_Y(s) \in {0, 1}
  BY DEF ROUTER_X, ROUTER_Y
<1>2. QED BY <1>1, Places DEF Turn, Endpoints

(* The first hop of a flow that changes column: from the local input of    *)
(* the source to the turn.                                                 *)
LEMMA HopToTurn ==
  ASSUME MeshInv, NEW s \in Endpoints, NEW d \in Endpoints,
         NEW t, t = Turn(s, d), t # s,
         NEW k, k = IF t > s THEN WEST_PORT ELSE EAST_PORT
  PROVE  /\ Wired(t, k) /\ Neighbor(t, k) = s
         /\ \A i \in Inputs : InFlow(s, i, s, d) =>
              i = LOCAL_PORT /\ OutputOf(s, i) = Opposite(k)
<1>1. t \in Endpoints /\ ROUTER_X(t) = ROUTER_X(d) /\ ROUTER_Y(t) = ROUTER_Y(s)
  BY TurnPlace
<1>2. ROUTER_X(s) # ROUTER_X(d)
  BY <1>1, SamePlace
<1>3. <<s, t>> \in {<<0, 1>>, <<1, 0>>, <<2, 3>>, <<3, 2>>}
  BY <1>1, Places DEF Endpoints
<1>4. /\ Wired(t, k) /\ Neighbor(t, k) = s
      /\ Opposite(k) = IF ROUTER_X(d) > ROUTER_X(s) THEN 3 ELSE 4
  BY <1>1, <1>3, Places DEF Wired, Links, Neighbor, Opposite
<1>5. ASSUME NEW i \in Inputs, InFlow(s, i, s, d)
      PROVE  i = LOCAL_PORT /\ OutputOf(s, i) = Opposite(k)
  <2>1. ROUTER_X(s) \in {0, 1} /\ ROUTER_X(d) \in {0, 1}
    BY DEF ROUTER_X
  <2>2. OutputOf(s, i) = Opposite(k)
    BY <1>2, <1>4, <1>5, <2>1, OutputOfFlow
  <2>3. i = LOCAL_PORT
    BY <1>2, <1>5, InputOfFlow
  <2>4. QED BY <2>2, <2>3
<1>6. QED BY <1>4, <1>5

(* The hop of a flow that changes row: from the turn, where it came from   *)
(* the row or is at its source, to the destination.                        *)
LEMMA HopToDestination ==
  ASSUME MeshInv, NEW s \in Endpoints, NEW d \in Endpoints,
         NEW t, t = Turn(s, d), t # d,
         NEW k, k = IF d > t THEN NORTH_PORT ELSE SOUTH_PORT,
         NEW j, j = IF t = s THEN LOCAL_PORT ELSE IF t > s THEN WEST_PORT ELSE EAST_PORT
  PROVE  /\ Wired(d, k) /\ Neighbor(d, k) = t
         /\ \A i \in Inputs : InFlow(t, i, s, d) =>
              i = j /\ OutputOf(t, i) = Opposite(k)
<1>1. t \in Endpoints /\ ROUTER_X(t) = ROUTER_X(d) /\ ROUTER_Y(t) = ROUTER_Y(s)
  BY TurnPlace
<1>2. ROUTER_Y(t) # ROUTER_Y(d)
  BY <1>1, SamePlace
<1>3. <<t, d>> \in {<<0, 2>>, <<2, 0>>, <<1, 3>>, <<3, 1>>}
  BY <1>1, <1>2, Places DEF Endpoints
<1>4. /\ Wired(d, k) /\ Neighbor(d, k) = t
      /\ Opposite(k) = IF ROUTER_Y(d) > ROUTER_Y(t) THEN 2 ELSE 1
  BY <1>3, Places DEF Wired, Links, Neighbor, Opposite
<1>5. ASSUME NEW i \in Inputs, InFlow(t, i, s, d)
      PROVE  i = j /\ OutputOf(t, i) = Opposite(k)
  <2>1. /\ ROUTER_X(t) \in {0, 1} /\ ROUTER_X(d) \in {0, 1}
        /\ ROUTER_Y(t) \in {0, 1} /\ ROUTER_Y(d) \in {0, 1}
    BY DEF ROUTER_X, ROUTER_Y
  <2>2. OutputOf(t, i) = Opposite(k)
    BY <1>1, <1>2, <1>4, <1>5, <2>1, OutputOfFlow
  <2>3. \/ i = 0 /\ s = t
        \/ i \in {3, 4} /\ Wired(t, i) /\ s = Neighbor(t, i)
    BY <1>1, <1>3, <1>5, InputOfFlow
  <2>4. i = j
    BY <2>3, LinkEnds
  <2>5. QED BY <2>2, <2>4
<1>6. QED BY <1>4, <1>5

(* At its destination a packet asks for the local output, and is served    *)
(* only when the endpoint is ready.                                        *)
LEMMA LastHop ==
  ASSUME MeshInv, NEW s \in Endpoints, NEW d \in Endpoints, NEW i \in Inputs,
         Moves(d, i, s, d)
  PROVE  d \in ep_out_ready
<1>1. OutputOf(d, i) = 0
  <2>1. ROUTER_X(d) \in {0, 1} /\ ROUTER_Y(d) \in {0, 1}
    BY DEF ROUTER_X, ROUTER_Y
  <2>2. QED BY <2>1, OutputOfFlow DEF Moves
<1>2. 0 \in Ready(d)
  BY <1>1, ServedIsPresented DEF Moves
<1>3. ~ Wired(d, 0)
  BY LinkEnds
<1>4. QED BY <1>2, <1>3 DEF Ready

-----------------------------------------------------------------------------
(* The first buffer of a flow: it keeps its packet, loses it to the next   *)
(* hop, or takes a new one from the endpoint when it holds none.           *)
LEMMA SourceStage ==
  ASSUME MeshInv, Cycle, NEW s \in Endpoints, NEW d \in Endpoints
  PROVE  LET h == Held(s, LOCAL_PORT, s, d)
         IN  \/ Moves(s, LOCAL_PORT, s, d) /\ h' = <<>>
             \/ ~ Moves(s, LOCAL_PORT, s, d) /\ h' = h
             \/ /\ ~ Moves(s, LOCAL_PORT, s, d) /\ h = <<>>
                /\ \E p \in Flows!FlowPackets(s, d) : h' = <<p>>
<1>1. PICK p \in Own(s) : \A i \in Inputs :
        slot'[s][i] = IF Served(s, i) THEN NoPacket
                      ELSE IF slot[s][i] = NoPacket THEN accept(Offered(s, p)[i])
                      ELSE slot[s][i]
  BY BuffersAfter
<1>2. LOCAL_PORT \in Inputs
  BY DEF Inputs, N_INPUTS
<1>3. CASE Served(s, LOCAL_PORT)
  <2>1. slot'[s][LOCAL_PORT] = NoPacket
    BY <1>1, <1>2, <1>3
  <2>2. QED BY <1>3, <2>1 DEF Held, Moves, InFlow
<1>4. CASE ~ Served(s, LOCAL_PORT) /\ slot[s][LOCAL_PORT] # NoPacket
  <2>1. slot'[s][LOCAL_PORT] = slot[s][LOCAL_PORT]
    BY <1>1, <1>2, <1>4
  <2>2. QED BY <1>4, <2>1 DEF Held, Moves
<1>5. CASE ~ Served(s, LOCAL_PORT) /\ slot[s][LOCAL_PORT] = NoPacket
  <2>1. slot'[s][LOCAL_PORT] = accept(p)
    BY <1>1, <1>2, <1>5 DEF Offered
  <2>2. accept(p) \in {p, NoPacket}
    BY DEF accept
  <2>3. CASE accept(p) = NoPacket
    BY <1>5, <2>1, <2>3 DEF Held, Moves
  <2>4. CASE accept(p) # NoPacket
    <3>1. accept(p) = p /\ p \in Packets
      BY <2>2, <2>4 DEF Own
    <3>2. CASE p.src_id = s /\ p.dst_id = d
      <4>1. p \in Flows!FlowPackets(s, d)
        BY <3>1, <3>2 DEF Flows!FlowPackets
      <4>2. Held(s, LOCAL_PORT, s, d)' = <<p>>
        BY <2>1, <2>4, <3>1, <3>2 DEF Held
      <4>3. Held(s, LOCAL_PORT, s, d) = <<>>
        BY <1>5 DEF Held
      <4>4. QED BY <1>5, <4>1, <4>2, <4>3 DEF Moves
    <3>3. CASE ~ (p.src_id = s /\ p.dst_id = d)
      BY <1>5, <2>1, <3>1, <3>3 DEF Held, Moves
    <3>4. QED BY <3>2, <3>3
  <2>5. QED BY <2>3, <2>4
<1>6. QED BY <1>3, <1>4, <1>5

(* A later buffer of a flow: it takes the packet that the buffer before it *)
(* loses, and only when it holds nothing itself.                           *)
LEMMA LaterStage ==
  ASSUME MeshInv, Cycle, NEW n \in Endpoints, NEW k \in Inputs, Wired(n, k),
         NEW m, m = Neighbor(n, k), NEW j \in Inputs,
         NEW s \in Endpoints, NEW d \in Endpoints,
         \A i \in Inputs : InFlow(m, i, s, d) => i = j /\ OutputOf(m, i) = Opposite(k)
  PROVE  \/ /\ Moves(m, j, s, d) /\ ~ Moves(n, k, s, d)
            /\ Held(n, k, s, d) = <<>>
            /\ Held(n, k, s, d)' = Held(m, j, s, d)
         \/ /\ ~ Moves(m, j, s, d) /\ Moves(n, k, s, d)
            /\ Held(n, k, s, d)' = <<>>
         \/ /\ ~ Moves(m, j, s, d) /\ ~ Moves(n, k, s, d)
            /\ Held(n, k, s, d)' = Held(n, k, s, d)
<1>1. /\ m \in Endpoints /\ Wired(m, Opposite(k)) /\ Opposite(k) # LOCAL_PORT
      /\ Neighbor(m, Opposite(k)) = n /\ Opposite(Opposite(k)) = k
  BY LinkBack
<1>2. CASE Moves(m, j, s, d)
  <2>1. InFlow(m, j, s, d) /\ Served(m, j) /\ OutputOf(m, j) = Opposite(k)
    BY <1>2 DEF Moves
  <2>2. slot[n][k] = NoPacket /\ slot'[n][k] = slot[m][j]
    BY <1>1, <2>1, ServedIsPassedOn
  <2>3. QED BY <1>2, <2>1, <2>2 DEF Moves, InFlow, Held
<1>3. CASE ~ Moves(m, j, s, d)
  <2>1. PICK p \in Own(n) : \A i \in Inputs :
          slot'[n][i] = IF Served(n, i) THEN NoPacket
                        ELSE IF slot[n][i] = NoPacket THEN accept(Offered(n, p)[i])
                        ELSE slot[n][i]
    BY BuffersAfter
  <2>2. CASE Served(n, k)
    <3>1. slot'[n][k] = NoPacket
      BY <2>1, <2>2
    <3>2. QED BY <1>3, <2>2, <3>1 DEF Held, Moves, InFlow
  <2>3. CASE ~ Served(n, k) /\ slot[n][k] # NoPacket
    <3>1. slot'[n][k] = slot[n][k]
      BY <2>1, <2>3
    <3>2. QED BY <1>3, <2>3, <3>1 DEF Held, Moves
  <2>4. CASE ~ Served(n, k) /\ slot[n][k] = NoPacket
    <3>1. ~ (slot'[n][k] # NoPacket /\ slot'[n][k].src_id = s /\ slot'[n][k].dst_id = d)
      <4> SUFFICES ASSUME slot'[n][k] # NoPacket,
                          slot'[n][k].src_id = s, slot'[n][k].dst_id = d
                   PROVE  FALSE
        OBVIOUS
      <4>1. PICK i \in Inputs : Served(m, i) /\ slot[m][i] = slot'[n][k]
        BY <2>4, ArrivalWasServed
      <4>2. InFlow(m, i, s, d)
        BY <4>1 DEF InFlow
      <4>3. QED BY <1>3, <4>1, <4>2 DEF Moves
    <3>2. Held(n, k, s, d)' = <<>> /\ Held(n, k, s, d) = <<>>
      BY <2>4, <3>1 DEF Held
    <3>3. QED BY <1>3, <2>4, <3>2 DEF Moves
  <2>5. QED BY <2>2, <2>3, <2>4
<1>4. QED BY <1>2, <1>3

-----------------------------------------------------------------------------
(* A buffer b of a pipeline, before and after a step: it takes what the    *)
(* buffer c behind it loses, and only when it is empty, loses what it has, *)
(* or keeps it.  The last buffer takes something new instead.              *)
TakesOrLoses(b, b2, c, mB, mC) ==
  \/ mC /\ ~ mB /\ b = <<>> /\ b2 = c
  \/ ~ mC /\ mB /\ b2 = <<>>
  \/ ~ mC /\ ~ mB /\ b2 = b

LosesOrFills(c, c2, mC, New) ==
  \/ mC /\ c2 = <<>>
  \/ ~ mC /\ c2 = c
  \/ ~ mC /\ c = <<>> /\ \E p \in New : c2 = <<p>>

(* Contents q become q2 when arrived enters behind them and, if their head *)
(* leaves, rest is what remains of them.                                   *)
Becomes(q, q2, leaves, rest, arrived) ==
  q2 = IF leaves THEN rest \o arrived ELSE q \o arrived

NewArrivals(New) == {<<>>} \cup {<<p>> : p \in New}

(* Two buffers, c behind b. *)
TwoBuffers(b, b2, mB, c, c2, mC, New) ==
  /\ b \in Seq(Packets) /\ c \in Seq(Packets)
  /\ b2 \in Seq(Packets) /\ c2 \in Seq(Packets)
  /\ mB \in BOOLEAN /\ mC \in BOOLEAN
  /\ TakesOrLoses(b, b2, c, mB, mC)
  /\ LosesOrFills(c, c2, mC, New)

LEMMA TwoPlaces ==
  ASSUME NEW b, NEW b2, NEW mB, NEW c, NEW c2, NEW mC, NEW New,
         TwoBuffers(b, b2, mB, c, c2, mC, New)
  PROVE  \E arrived \in NewArrivals(New) :
           /\ arrived \in Seq(Packets)
           /\ Becomes(b \o c, b2 \o c2, mB, c, arrived)
<1> USE DEF TwoBuffers, TakesOrLoses, LosesOrFills, NewArrivals, Becomes
<1>1. <<>> \in Seq(Packets) /\ b \o c \in Seq(Packets)
  OBVIOUS
<1>2. \A q \in Seq(Packets) : q \o <<>> = q /\ <<>> \o q = q
  BY ConcatEmptySeq
<1>3. CASE mC
  BY <1>1, <1>2, <1>3
<1>4. CASE ~ mC /\ c2 = c
  BY <1>1, <1>2, <1>4
<1>5. CASE ~ mC /\ c = <<>> /\ \E p \in New : c2 = <<p>>
  <2>1. PICK p \in New : c2 = <<p>>
    BY <1>5
  <2>2. b2 \o c2 = IF mB THEN c \o c2 ELSE (b \o c) \o c2
    BY <1>1, <1>2, <1>5
  <2>3. QED BY <2>1, <2>2
<1>6. QED BY <1>3, <1>4, <1>5

(* Concatenation is associative; in the form in which it is used below.    *)
LEMMA Regroup ==
  \A u, v, w \in Seq(Packets) : (u \o v) \o w = u \o (v \o w)
<1> TAKE u, v, w \in Seq(Packets)
<1> QED OBVIOUS

(* A third buffer in front of them. *)
ThreeBuffers(a, a2, mA, b, mB, c, bc2, arrived) ==
  /\ a \in Seq(Packets) /\ a2 \in Seq(Packets) /\ bc2 \in Seq(Packets)
  /\ b \in Seq(Packets) /\ c \in Seq(Packets) /\ arrived \in Seq(Packets)
  /\ mA \in BOOLEAN /\ mB \in BOOLEAN
  /\ mA => \E x \in Packets : a = <<x>>
  /\ TakesOrLoses(a, a2, b, mA, mB)
  /\ Becomes(b \o c, bc2, mB, c, arrived)

LEMMA ThreePlaces ==
  ASSUME NEW a, NEW a2, NEW mA, NEW b, NEW mB, NEW c, NEW bc2, NEW arrived,
         ThreeBuffers(a, a2, mA, b, mB, c, bc2, arrived)
  PROVE  LET q == a \o (b \o c)
         IN  Becomes(q, a2 \o bc2, mA, Tail(q), arrived)
<1> USE DEF ThreeBuffers, TakesOrLoses, Becomes
<1>1. b \o c \in Seq(Packets)
  OBVIOUS
<1>2. \A q \in Seq(Packets) : <<>> \o q = q
  BY ConcatEmptySeq
<1>6. \A u, v, w \in Seq(Packets) : (u \o v) \o w = u \o (v \o w)
  BY Regroup
<1>3. CASE mB
  BY <1>1, <1>2, <1>6, <1>3
<1>4. CASE ~ mB /\ mA
  <2>1. PICK x \in Packets : a = <<x>>
    BY <1>4
  <2>2. Tail(<<x>> \o (b \o c)) = b \o c
    BY <1>1
  <2>3. (b \o c) \o arrived \in Seq(Packets)
    BY <1>1
  <2>4. QED BY <1>2, <1>4, <2>1, <2>2, <2>3
<1>5. CASE ~ mB /\ ~ mA
  <2>1. a2 = a /\ bc2 = (b \o c) \o arrived
    BY <1>5
  <2>2. (a \o (b \o c)) \o arrived = a \o ((b \o c) \o arrived)
    OBVIOUS
  <2>3. QED BY <1>5, <2>1, <2>2
<1>7. QED BY <1>3, <1>4, <1>5

-----------------------------------------------------------------------------
(* What a flow holds in one buffer, before and after a step. *)
LEMMA HeldType ==
  ASSUME MeshInv, MeshInv', NEW r \in Endpoints, NEW i \in Inputs, NEW s, NEW d
  PROVE  /\ Held(r, i, s, d) = <<>> \/ \E q \in Packets : Held(r, i, s, d) = <<q>>
         /\ Held(r, i, s, d) \in Seq(Packets)
         /\ Held(r, i, s, d)' \in Seq(Packets) /\ Len(Held(r, i, s, d)') <= 1
         /\ Moves(r, i, s, d) => \E q \in Packets : Held(r, i, s, d) = <<q>>
         /\ Moves(r, i, s, d) \in BOOLEAN
<1>1. /\ slot[r][i] # NoPacket => slot[r][i] \in Packets
      /\ slot'[r][i] # NoPacket => slot'[r][i] \in Packets
  BY DEF MeshInv, MeshTypeOK, Buffers
<1>2. \A q \in Packets : <<q>> \in Seq(Packets) /\ Len(<<q>>) = 1
  OBVIOUS
<1>3. <<>> \in Seq(Packets) /\ Len(<<>>) = 0
  OBVIOUS
<1>4. QED BY <1>1, <1>2, <1>3 DEF Held, Moves, InFlow, Served, served_input, grant

(* A flow has a place at its source and one for each hop. *)
LEMMA CapacityOfRoute ==
  ASSUME NEW s \in Endpoints, NEW d \in Endpoints
  PROVE  LET t == Turn(s, d)
         IN  Flows!Capacity(s, d) = 1 + (IF t = s THEN 0 ELSE 1) + (IF d = t THEN 0 ELSE 1)
<1>1. /\ s = 0 \/ s = 1 \/ s = 2 \/ s = 3
      /\ d = 0 \/ d = 1 \/ d = 2 \/ d = 3
  BY DEF Endpoints
<1>2. /\ s % 2 = ROUTER_X(s) /\ s \div 2 = ROUTER_Y(s)
      /\ d % 2 = ROUTER_X(d) /\ d \div 2 = ROUTER_Y(d)
  BY <1>1, Places
<1>3. Turn(s, d) = s <=> ROUTER_X(s) = ROUTER_X(d)
  BY TurnPlace, SamePlace
<1>4. d = Turn(s, d) <=> ROUTER_Y(s) = ROUTER_Y(d)
  BY TurnPlace, SamePlace
<1>5. QED BY <1>2, <1>3, <1>4 DEF Flows!Capacity

(* What one edge does to a flow: nothing arrives in front of what is in    *)
(* flight, and only the head leaves, to a ready endpoint.                  *)
FlowAdvances(s, d) ==
  LET q == InFlight(s, d)
  IN  /\ Len(q') <= Flows!Capacity(s, d)
      /\ \E arrived \in Flows!Entering(s, d) :
           \/ q' = q \o arrived
           \/ /\ d \in ep_out_ready /\ q # <<>>
              /\ q' = Tail(q) \o arrived

(* A flow within one router: source and destination are the same endpoint. *)
LEMMA LocalFlow ==
  ASSUME MeshInv, MeshInv', Cycle, NEW s \in Endpoints
  PROVE  FlowAdvances(s, s)
<1> DEFINE c == Held(s, LOCAL_PORT, s, s)
           mC == Moves(s, LOCAL_PORT, s, s)
<1>1. Turn(s, s) = s
  BY TurnPlace, SamePlace
<1>2. LOCAL_PORT \in Inputs
  BY DEF Inputs, N_INPUTS
<1>3. /\ c \in Seq(Packets) /\ c' \in Seq(Packets) /\ Len(c') <= 1
      /\ mC => \E q \in Packets : c = <<q>>
      /\ c = <<>> \/ \E q \in Packets : c = <<q>>
  BY <1>2, HeldType
<1>4. \/ mC /\ c' = <<>>
      \/ ~ mC /\ c' = c
      \/ ~ mC /\ c = <<>> /\ \E p \in Flows!FlowPackets(s, s) : c' = <<p>>
  BY SourceStage
<1>5. mC => s \in ep_out_ready
  BY <1>2, LastHop
<1> HIDE DEF c, mC
<1>6. InFlight(s, s) = c /\ InFlight(s, s)' = c'
  <2>1. ~ (s > s) /\ ~ (s < s)
    BY DEF Endpoints
  <2>2. (<<>> \o <<>>) \o c = c /\ (<<>> \o <<>>) \o c' = c'
    BY <1>3, ConcatEmptySeq
  <2>3. QED BY <1>1, <2>1, <2>2 DEF InFlight, c
<1>7. Len(c') <= Flows!Capacity(s, s)
  BY <1>1, <1>3, CapacityOfRoute
<1>8. \E arrived \in Flows!Entering(s, s) :
        \/ c' = c \o arrived
        \/ s \in ep_out_ready /\ c # <<>> /\ c' = Tail(c) \o arrived
  <2>1. <<>> \in Flows!Entering(s, s)
    BY DEF Flows!Entering
  <2>2. CASE mC /\ c' = <<>>
    <3>1. PICK q \in Packets : c = <<q>>
      BY <1>3, <2>2
    <3>2. c' = Tail(c) \o <<>> /\ c # <<>>
      BY <2>2, <3>1
    <3>3. QED BY <1>5, <2>1, <2>2, <3>2
  <2>3. CASE c' = c
    BY <1>3, <2>1, <2>3, ConcatEmptySeq
  <2>4. CASE c = <<>> /\ \E p \in Flows!FlowPackets(s, s) : c' = <<p>>
    <3>1. c' \in Flows!Entering(s, s)
      BY <2>4 DEF Flows!Entering
    <3>2. c' = c \o c'
      BY <1>3, <2>4, ConcatEmptySeq
    <3>3. QED BY <3>1, <3>2
  <2>5. QED BY <1>4, <2>2, <2>3, <2>4
<1>9. QED BY <1>6, <1>7, <1>8 DEF FlowAdvances


(* The buffers of a route, one part for each hop, the last first. *)
ColumnPart(s, d) ==
  LET t == Turn(s, d)
  IN  IF d > t THEN Held(d, NORTH_PORT, s, d)
      ELSE IF d < t THEN Held(d, SOUTH_PORT, s, d) ELSE <<>>

RowPart(s, d) ==
  LET t == Turn(s, d)
  IN  IF t > s THEN Held(t, WEST_PORT, s, d)
      ELSE IF t < s THEN Held(t, EAST_PORT, s, d) ELSE <<>>

SourcePart(s, d) == Held(s, LOCAL_PORT, s, d)

LEMMA PartsOfRoute ==
  ASSUME NEW s \in Endpoints, NEW d \in Endpoints
  PROVE  /\ InFlight(s, d) = (ColumnPart(s, d) \o RowPart(s, d)) \o SourcePart(s, d)
         /\ InFlight(s, d)' = (ColumnPart(s, d)' \o RowPart(s, d)') \o SourcePart(s, d)'
BY DEF InFlight, ColumnPart, RowPart, SourcePart

LEMMA RowPartIs ==
  ASSUME NEW s \in Endpoints, NEW d \in Endpoints, NEW t, t = Turn(s, d),
         NEW k, k = IF t > s THEN WEST_PORT ELSE EAST_PORT
  PROVE  /\ t # s => /\ RowPart(s, d) = Held(t, k, s, d)
                     /\ RowPart(s, d)' = Held(t, k, s, d)'
         /\ t = s => RowPart(s, d) = <<>> /\ RowPart(s, d)' = <<>>
<1>1. t \in Endpoints
  BY TurnPlace
<1>2. CASE t > s
  BY <1>1, <1>2 DEF RowPart, Endpoints
<1>3. CASE t < s
  BY <1>1, <1>3 DEF RowPart, Endpoints
<1>4. CASE t = s
  BY <1>1, <1>4 DEF RowPart, Endpoints
<1>5. QED BY <1>1, <1>2, <1>3, <1>4 DEF Endpoints

LEMMA ColumnPartIs ==
  ASSUME NEW s \in Endpoints, NEW d \in Endpoints, NEW t, t = Turn(s, d),
         NEW k, k = IF d > t THEN NORTH_PORT ELSE SOUTH_PORT
  PROVE  /\ t # d => /\ ColumnPart(s, d) = Held(d, k, s, d)
                     /\ ColumnPart(s, d)' = Held(d, k, s, d)'
         /\ t = d => ColumnPart(s, d) = <<>> /\ ColumnPart(s, d)' = <<>>
<1>1. t \in Endpoints
  BY TurnPlace
<1>2. CASE d > t
  BY <1>1, <1>2 DEF ColumnPart, Endpoints
<1>3. CASE d < t
  BY <1>1, <1>3 DEF ColumnPart, Endpoints
<1>4. CASE t = d
  BY <1>1, <1>4 DEF ColumnPart, Endpoints
<1>5. QED BY <1>1, <1>2, <1>3, <1>4 DEF Endpoints

(* A flow advances when its contents become, with at most one arrival,     *)
(* what they were or what is left of them without their head.              *)
AdvancesBy(s, d, q, q2, leaves, arrived) ==
  /\ q = InFlight(s, d) /\ q2 = InFlight(s, d)'
  /\ leaves => d \in ep_out_ready /\ q # <<>>
  /\ Len(q2) <= Flows!Capacity(s, d)
  /\ arrived \in NewArrivals(Flows!FlowPackets(s, d))
  /\ Becomes(q, q2, leaves, Tail(q), arrived)

LEMMA AdvanceOf ==
  ASSUME NEW s, NEW d, NEW q, NEW q2, NEW leaves, NEW arrived,
         AdvancesBy(s, d, q, q2, leaves, arrived)
  PROVE  FlowAdvances(s, d)
<1>1. arrived \in Flows!Entering(s, d)
  BY DEF AdvancesBy, NewArrivals, Flows!Entering
<1>2. CASE leaves
  BY <1>1, <1>2 DEF AdvancesBy, Becomes, FlowAdvances
<1>3. CASE ~ leaves
  BY <1>1, <1>3 DEF AdvancesBy, Becomes, FlowAdvances
<1>4. QED BY <1>2, <1>3

(* What leaves or enters the two buffers of a flow with one hop, from the  *)
(* source into buffer k of the destination.                                *)
LEMMA OneHopFlow ==
  ASSUME MeshInv, MeshInv', Cycle, NEW s \in Endpoints, NEW d \in Endpoints,
         NEW k \in Inputs, Wired(d, k), Neighbor(d, k) = s,
         \A i \in Inputs : InFlow(s, i, s, d) =>
           i = LOCAL_PORT /\ OutputOf(s, i) = Opposite(k),
         NEW b, NEW b2, b = Held(d, k, s, d), b2 = Held(d, k, s, d)',
         NEW c, NEW c2, c = SourcePart(s, d), c2 = SourcePart(s, d)',
         InFlight(s, d) = b \o c, InFlight(s, d)' = b2 \o c2,
         Flows!Capacity(s, d) = 2
  PROVE  FlowAdvances(s, d)
<1> DEFINE mB == Moves(d, k, s, d)
           mC == Moves(s, LOCAL_PORT, s, d)
           New == Flows!FlowPackets(s, d)
<1>1. LOCAL_PORT \in Inputs
  BY DEF Inputs, N_INPUTS
<1>2. /\ b \in Seq(Packets) /\ b2 \in Seq(Packets) /\ Len(b2) <= 1
      /\ mB => \E x \in Packets : b = <<x>>
      /\ mB \in BOOLEAN
  BY HeldType
<1>3. /\ c \in Seq(Packets) /\ c2 \in Seq(Packets) /\ Len(c2) <= 1
      /\ mC \in BOOLEAN
  BY <1>1, HeldType DEF SourcePart
<1>4. TakesOrLoses(b, b2, c, mB, mC)
  BY <1>1, LaterStage DEF TakesOrLoses, SourcePart
<1>5. LosesOrFills(c, c2, mC, New)
  BY SourceStage DEF LosesOrFills, SourcePart
<1>6. mB => d \in ep_out_ready
  BY LastHop
<1>7. TwoBuffers(b, b2, mB, c, c2, mC, New)
  BY <1>2, <1>3, <1>4, <1>5 DEF TwoBuffers
<1> HIDE DEF mB, mC, New
<1>8. PICK arrived \in NewArrivals(New) : Becomes(b \o c, b2 \o c2, mB, c, arrived)
  BY <1>7, TwoPlaces, Zenon
<1>9. mB => c = Tail(b \o c) /\ b \o c # <<>>
  <2> SUFFICES ASSUME mB PROVE c = Tail(b \o c) /\ b \o c # <<>>
    OBVIOUS
  <2>1. PICK x \in Packets : b = <<x>>
    BY <1>2
  <2>2. Tail(<<x>> \o c) = c /\ <<x>> \o c # <<>>
    BY <1>3
  <2>3. QED BY <2>1, <2>2
<1>10. Becomes(b \o c, b2 \o c2, mB, Tail(b \o c), arrived)
  BY <1>2, <1>8, <1>9 DEF Becomes
<1>11. Len(b2 \o c2) <= 2
  BY <1>2, <1>3
<1>12. AdvancesBy(s, d, b \o c, b2 \o c2, mB, arrived)
  BY <1>6, <1>8, <1>9, <1>10, <1>11 DEF AdvancesBy, New
<1>13. QED BY <1>12, AdvanceOf, Zenon

(* A flow within a row, and one within a column. *)
LEMMA StraightFlow ==
  ASSUME MeshInv, MeshInv', Cycle, NEW s \in Endpoints, NEW d \in Endpoints,
         s # d, Turn(s, d) = s \/ Turn(s, d) = d
  PROVE  FlowAdvances(s, d)
<1> DEFINE t == Turn(s, d)
           c == SourcePart(s, d)
<1>1. LOCAL_PORT \in Inputs
  BY DEF Inputs, N_INPUTS
<1>2. Flows!Capacity(s, d) = 2
  BY CapacityOfRoute
<1>3. CASE t = d
  <2> DEFINE k == IF t > s THEN WEST_PORT ELSE EAST_PORT
             b == Held(d, k, s, d)
  <2>1. k \in Inputs
    BY DEF Inputs, N_INPUTS
  <2>2. /\ Wired(d, k) /\ Neighbor(d, k) = s
        /\ \A i \in Inputs : InFlow(s, i, s, d) =>
             i = LOCAL_PORT /\ OutputOf(s, i) = Opposite(k)
    BY <1>3, HopToTurn
  <2>3. b \in Seq(Packets) /\ b' \in Seq(Packets)
    BY <2>1, HeldType
  <2>4. /\ ColumnPart(s, d) = <<>> /\ ColumnPart(s, d)' = <<>>
        /\ RowPart(s, d) = b /\ RowPart(s, d)' = b'
    BY <1>3, ColumnPartIs, RowPartIs
  <2>5. <<>> \o b = b /\ <<>> \o b' = b'
    BY <2>3, ConcatEmptySeq
  <2>6. InFlight(s, d) = b \o c /\ InFlight(s, d)' = b' \o c'
    BY <2>4, <2>5, PartsOfRoute
  <2>7. QED BY <1>2, <2>1, <2>2, <2>6, OneHopFlow
<1>4. CASE t = s
  <2> DEFINE k == IF d > t THEN NORTH_PORT ELSE SOUTH_PORT
             b == Held(d, k, s, d)
  <2>1. k \in Inputs
    BY DEF Inputs, N_INPUTS
  <2>2. /\ Wired(d, k) /\ Neighbor(d, k) = s
        /\ \A i \in Inputs : InFlow(s, i, s, d) =>
             i = LOCAL_PORT /\ OutputOf(s, i) = Opposite(k)
    BY <1>4, HopToDestination
  <2>3. b \in Seq(Packets) /\ b' \in Seq(Packets)
    BY <2>1, HeldType
  <2>4. /\ ColumnPart(s, d) = b /\ ColumnPart(s, d)' = b'
        /\ RowPart(s, d) = <<>> /\ RowPart(s, d)' = <<>>
    BY <1>4, ColumnPartIs, RowPartIs
  <2>5. b \o <<>> = b /\ b' \o <<>> = b'
    BY <2>3, ConcatEmptySeq
  <2>6. InFlight(s, d) = b \o c /\ InFlight(s, d)' = b' \o c'
    BY <2>4, <2>5, PartsOfRoute
  <2>7. QED BY <1>2, <2>1, <2>2, <2>6, OneHopFlow
<1>5. QED BY <1>3, <1>4

(* A flow that turns: two hops, three buffers. *)
LEMMA TurningFlow ==
  ASSUME MeshInv, MeshInv', Cycle, NEW s \in Endpoints, NEW d \in Endpoints,
         NEW t, t = Turn(s, d), t # s, t # d,
         NEW k, k = IF t > s THEN WEST_PORT ELSE EAST_PORT,
         NEW l, l = IF d > t THEN NORTH_PORT ELSE SOUTH_PORT,
         NEW a, NEW a2, a = Held(d, l, s, d), a2 = Held(d, l, s, d)',
         NEW b, NEW b2, b = Held(t, k, s, d), b2 = Held(t, k, s, d)',
         NEW c, NEW c2, c = SourcePart(s, d), c2 = SourcePart(s, d)'
  PROVE  FlowAdvances(s, d)
<1> DEFINE mA == Moves(d, l, s, d)
           mB == Moves(t, k, s, d)
           mC == Moves(s, LOCAL_PORT, s, d)
           New == Flows!FlowPackets(s, d)
<1>1. t \in Endpoints /\ k \in Inputs /\ l \in Inputs /\ LOCAL_PORT \in Inputs
  BY TurnPlace DEF Inputs, N_INPUTS
<1>2. /\ Wired(t, k) /\ Neighbor(t, k) = s
      /\ \A i \in Inputs : InFlow(s, i, s, d) =>
           i = LOCAL_PORT /\ OutputOf(s, i) = Opposite(k)
  BY HopToTurn
<1>3. /\ Wired(d, l) /\ Neighbor(d, l) = t
      /\ \A i \in Inputs : InFlow(t, i, s, d) =>
           i = k /\ OutputOf(t, i) = Opposite(l)
  BY HopToDestination
<1>4. /\ a \in Seq(Packets) /\ a2 \in Seq(Packets) /\ Len(a2) <= 1
      /\ mA => \E x \in Packets : a = <<x>>
      /\ mA \in BOOLEAN
  BY <1>1, HeldType
<1>5. /\ b \in Seq(Packets) /\ b2 \in Seq(Packets) /\ Len(b2) <= 1
      /\ mB \in BOOLEAN
  BY <1>1, HeldType
<1>6. /\ c \in Seq(Packets) /\ c2 \in Seq(Packets) /\ Len(c2) <= 1
      /\ mC \in BOOLEAN
  BY <1>1, HeldType DEF SourcePart
<1>7. TakesOrLoses(a, a2, b, mA, mB)
  BY <1>1, <1>3, LaterStage DEF TakesOrLoses
<1>8. TakesOrLoses(b, b2, c, mB, mC)
  BY <1>1, <1>2, LaterStage DEF TakesOrLoses, SourcePart
<1>9. LosesOrFills(c, c2, mC, New)
  BY SourceStage DEF LosesOrFills, SourcePart
<1>10. mA => d \in ep_out_ready
  BY <1>1, LastHop
<1>11. TwoBuffers(b, b2, mB, c, c2, mC, New)
  BY <1>5, <1>6, <1>8, <1>9 DEF TwoBuffers
<1> HIDE DEF mA, mB, mC, New
<1>12. PICK arrived \in NewArrivals(New) :
         /\ arrived \in Seq(Packets)
         /\ Becomes(b \o c, b2 \o c2, mB, c, arrived)
  BY <1>11, TwoPlaces, Zenon
<1> DEFINE q  == a \o (b \o c)
           q2 == a2 \o (b2 \o c2)
<1>13. b2 \o c2 \in Seq(Packets) /\ Len(b2 \o c2) <= 2
  BY <1>5, <1>6
<1>14. ThreeBuffers(a, a2, mA, b, mB, c, b2 \o c2, arrived)
  BY <1>4, <1>5, <1>6, <1>7, <1>12, <1>13 DEF ThreeBuffers
<1>15. Becomes(q, q2, mA, Tail(q), arrived)
  BY <1>14, ThreePlaces, Zenon
<1>16. InFlight(s, d) = (a \o b) \o c /\ InFlight(s, d)' = (a2 \o b2) \o c2
  <2>1. RowPart(s, d) = b /\ RowPart(s, d)' = b2
    BY RowPartIs
  <2>2. ColumnPart(s, d) = a /\ ColumnPart(s, d)' = a2
    BY ColumnPartIs
  <2>3. QED BY <2>1, <2>2, PartsOfRoute
<1>17. (a \o b) \o c = q
  BY <1>4, <1>5, <1>6
<1>18. (a2 \o b2) \o c2 = q2
  BY <1>4, <1>5, <1>6
<1>19. mA => q # <<>>
  <2> SUFFICES ASSUME mA PROVE q # <<>>
    OBVIOUS
  <2>1. PICK x \in Packets : a = <<x>>
    BY <1>4
  <2>2. b \o c \in Seq(Packets)
    BY <1>5, <1>6
  <2>3. <<x>> \o (b \o c) # <<>>
    BY <2>2
  <2>4. QED BY <2>1, <2>3
<1>20. Len(q2) <= Flows!Capacity(s, d)
  <2>1. Flows!Capacity(s, d) = 3
    BY CapacityOfRoute
  <2>2. QED BY <1>4, <1>13, <2>1
<1> HIDE DEF q, q2
<1>21. AdvancesBy(s, d, q, q2, mA, arrived)
  BY <1>10, <1>12, <1>15, <1>16, <1>17, <1>18, <1>19, <1>20 DEF AdvancesBy, New
<1>22. QED BY <1>21, AdvanceOf, Zenon

-----------------------------------------------------------------------------
(* Every flow advances at every edge out of reset. *)
LEMMA EveryFlowAdvances ==
  ASSUME MeshInv, MeshInv', Cycle, NEW s \in Endpoints, NEW d \in Endpoints
  PROVE  FlowAdvances(s, d)
<1>1. CASE s = d
  BY <1>1, LocalFlow
<1>2. CASE s # d /\ (Turn(s, d) = s \/ Turn(s, d) = d)
  BY <1>2, StraightFlow
<1>3. CASE Turn(s, d) # s /\ Turn(s, d) # d
  BY <1>3, TurningFlow
<1>4. QED BY <1>1, <1>2, <1>3

(* The mesh starts where the channels start. *)
LEMMA FlowsInit == Init => Flows!Init
<1> SUFFICES ASSUME Init PROVE Flows!Init
  OBVIOUS
<1>1. \A r \in Endpoints, i \in Inputs : slot[r][i] = NoPacket
  BY DEF Init, reset_slot
<1>2. ASSUME NEW s \in Endpoints, NEW d \in Endpoints
      PROVE  InFlight(s, d) = <<>>
  <2>1. \A r \in Endpoints, i \in Inputs : Held(r, i, s, d) = <<>>
    BY <1>1 DEF Held
  <2>2. /\ Turn(s, d) \in Endpoints
        /\ 0 \in Inputs /\ 1 \in Inputs /\ 2 \in Inputs /\ 3 \in Inputs /\ 4 \in Inputs
    BY TurnPlace DEF Inputs, N_INPUTS
  <2>3. ColumnPart(s, d) = <<>> /\ RowPart(s, d) = <<>> /\ SourcePart(s, d) = <<>>
    BY <2>1, <2>2 DEF ColumnPart, RowPart, SourcePart
  <2>4. (<<>> \o <<>>) \o <<>> = <<>>
    OBVIOUS
  <2>5. QED BY <2>3, <2>4, PartsOfRoute
<1>3. QED BY <1>2 DEF Init, Flows!Init, Flows!Endpoints, Endpoints

(* Every step of the mesh is a step of the channels, or a reset of them.   *)
LEMMA FlowsStep ==
  MeshInv /\ MeshInv' /\ [Next]_vars => [Flows!Next]_(Flows!flowVars)
<1> SUFFICES ASSUME MeshInv, MeshInv', [Next]_vars
             PROVE  [Flows!Next]_(Flows!flowVars)
  OBVIOUS
<1>1. CASE UNCHANGED vars
  BY <1>1 DEF vars, Flows!flowVars, InFlight, Held
<1>2. CASE Reset /\ EndpointsChooseReady
  <2>1. \A r \in Endpoints, i \in Inputs : slot'[r][i] = NoPacket
    BY <1>2 DEF Reset, reset_slot
  <2>2. ASSUME NEW s \in Endpoints, NEW d \in Endpoints
        PROVE  InFlight(s, d)' = <<>>
    <3>1. \A r \in Endpoints, i \in Inputs : Held(r, i, s, d)' = <<>>
      BY <2>1 DEF Held
    <3>2. /\ Turn(s, d) \in Endpoints
          /\ 0 \in Inputs /\ 1 \in Inputs /\ 2 \in Inputs /\ 3 \in Inputs /\ 4 \in Inputs
      BY TurnPlace DEF Inputs, N_INPUTS
    <3>3. ColumnPart(s, d)' = <<>> /\ RowPart(s, d)' = <<>> /\ SourcePart(s, d)' = <<>>
      BY <3>1, <3>2 DEF ColumnPart, RowPart, SourcePart
    <3>4. (<<>> \o <<>>) \o <<>> = <<>>
      OBVIOUS
    <3>5. QED BY <3>3, <3>4, PartsOfRoute
  <2>3. ep_out_ready' \in SUBSET Endpoints
    BY <1>2 DEF EndpointsChooseReady
  <2>4. Flows!Discard
    BY <2>2 DEF Flows!Discard, Flows!Endpoints, Endpoints
  <2>5. QED BY <2>3, <2>4 DEF Flows!Next, Flows!Endpoints, Endpoints
<1>3. CASE Cycle /\ EndpointsChooseReady
  <2>1. \A s, d \in Endpoints : FlowAdvances(s, d)
    BY <1>3, EveryFlowAdvances
  <2>2. Flows!Transport
    <3>1. \A s, d \in Flows!Endpoints : Flows!FlowStep(s, d)
      BY <2>1 DEF FlowAdvances, Flows!FlowStep, Flows!Endpoints, Endpoints
    <3>2. QED BY <3>1 DEF Flows!Transport, Flows!Endpoints, Endpoints
  <2>3. ep_out_ready' \in SUBSET Endpoints
    BY <1>3 DEF EndpointsChooseReady
  <2>4. QED BY <2>2, <2>3 DEF Flows!Next, Flows!Endpoints, Endpoints
<1>4. QED BY <1>1, <1>2, <1>3 DEF Next

(* For every traffic, the mesh is sixteen bounded FIFO channels: no packet *)
(* is lost, duplicated, altered or overtaken within its flow, and none is  *)
(* delivered to an endpoint that is not ready.                             *)
THEOREM MeshImplementsFlows == Spec => ImplementsFlows
<1>1. Init => Flows!Init
  BY FlowsInit
<1>2. MeshInv /\ MeshInv' /\ [Next]_vars => [Flows!Next]_(Flows!flowVars)
  BY FlowsStep
<1>3. QED BY <1>1, <1>2, MeshInvInit, MeshInvStep, PTL
          DEF Spec, ImplementsFlows, Flows!Spec
=============================================================================
