------------------------------ MODULE MCNocMesh ------------------------------
(***************************************************************************)
(* A TLC instance of NocMeshLiveness.  A packet's body stands for its      *)
(* txn_id and payload.                                                     *)
(***************************************************************************)
EXTENDS NocMeshLiveness

CONSTANT none     (* a model value for NoPacket *)

Packet(s, d, b) == [src_id |-> s, dst_id |-> d, body |-> b]

(* EP0, EP1 and EP3 send to EP0, so that three inputs compete there, EP3   *)
(* with two bodies so that its packets can be told apart on their way over *)
(* two hops; EP0 sends to EP3, round the other way, so that all four links *)
(* of the ring are in use; EP1 also sends to nobody.                       *)
RingTraffic ==
  {Packet(s, 0, "a") : s \in {0, 1, 3}}
    \cup {Packet(3, 0, "b"), Packet(0, 3, "a"), Packet(1, 4, "a")}
=============================================================================
