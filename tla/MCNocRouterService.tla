------------------------- MODULE MCNocRouterService -------------------------
(***************************************************************************)
(* TLC instances of NocRouterService, on the corner router (0,0).          *)
(*                                                                         *)
(* Service: LOCAL, NORTH, SOUTH and EAST compete for EP0, of which NORTH   *)
(* is wired in the block tests only, LOCAL and EAST for EP2, and 5 is an   *)
(* illegal destination.                                                    *)
(*                                                                         *)
(* Sources: the arrivals of the mesh, with packets that carry their source *)
(* so that two of them for one output can be told apart.                   *)
(***************************************************************************)
EXTENDS NocRouterService

CONSTANT none     (* a model value for NoPacket *)

ServicePackets == [dst_id : {0, 2, 5}]

ServiceArrivals ==
  [i \in 0..4 |-> CASE i = 0 -> ServicePackets           \* LOCAL
                    [] i \in {1, 2} -> [dst_id : {0}]    \* NORTH, SOUTH
                    [] i = 3 -> [dst_id : {0, 2}]        \* EAST
                    [] OTHER -> {}]

Sent(sources, destinations) == [src_id : sources, dst_id : destinations]

SourcePackets == Sent({0, 1, 2}, {0, 2})

SourceArrivals ==
  [i \in 0..4 |-> CASE i = 0 -> Sent({0}, {0, 2})        \* LOCAL
                    [] i = 2 -> Sent({2}, {0})           \* SOUTH
                    [] i = 3 -> Sent({1}, {0, 2})        \* EAST
                    [] OTHER -> {}]
=============================================================================
