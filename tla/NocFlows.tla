------------------------------ MODULE NocFlows ------------------------------
(***************************************************************************)
(* What the network promises to its endpoints, without routers, buffers or *)
(* arbitration (docs/noc_rtl_interface_contract.md, 6, 11 and 12): every   *)
(* flow, from a source s to a destination d, is a bounded FIFO channel.    *)
(* Packets enter at the tail and leave at the head, only when the          *)
(* destination is ready; none is lost, duplicated or overtaken.            *)
(***************************************************************************)
EXTENDS Integers, Sequences

CONSTANTS Packets, NoPacket

Endpoints == 0..3

VARIABLES
  queue,   (* queue[s][d]: the packets in flight from s to d, oldest first *)
  ready    (* the endpoints that are ready in this cycle                   *)

flowVars == <<queue, ready>>

FlowPackets(s, d) == {p \in Packets : p.src_id = s /\ p.dst_id = d}

(* One place at the source, and one for each hop to another column or row. *)
Capacity(s, d) ==
  1 + (IF s % 2 = d % 2 THEN 0 ELSE 1) + (IF s \div 2 = d \div 2 THEN 0 ELSE 1)

Entering(s, d) == {<<>>} \cup {<<p>> : p \in FlowPackets(s, d)}

Init ==
  /\ queue = [s \in Endpoints |-> [d \in Endpoints |-> <<>>]]
  /\ ready \in SUBSET Endpoints

(* In one cycle a flow may lose its head to its destination, gain a packet *)
(* from its source, both or neither.                                       *)
FlowStep(s, d) ==
  \/ queue'[s][d] = queue[s][d]
  \/ /\ Len(queue'[s][d]) <= Capacity(s, d)
     /\ \E arrived \in Entering(s, d) :
          \/ queue'[s][d] = queue[s][d] \o arrived
          \/ /\ d \in ready /\ queue[s][d] # <<>>
             /\ queue'[s][d] = Tail(queue[s][d]) \o arrived

Transport ==
  /\ DOMAIN queue' = Endpoints
  /\ \A s \in Endpoints : DOMAIN queue'[s] = Endpoints
  /\ \A s, d \in Endpoints : FlowStep(s, d)

(* A reset of the network discards what is in flight. *)
Discard == queue' = [s \in Endpoints |-> [d \in Endpoints |-> <<>>]]

Next == (Transport \/ Discard) /\ ready' \in SUBSET Endpoints

Spec == Init /\ [][Next]_flowVars
=============================================================================
