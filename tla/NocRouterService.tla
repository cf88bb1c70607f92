-------------------------- MODULE NocRouterService --------------------------
(***************************************************************************)
(* NocRouter with a history variable that counts how often a buffered      *)
(* packet was overtaken: the transfers its output made, since it arrived,  *)
(* for other inputs.  docs/noc_rtl_interface_contract.md (9.3) calls each  *)
(* such transfer an arbitration opportunity and bounds their number.       *)
(***************************************************************************)
EXTENDS NocRouter

VARIABLE waited   (* waited[i]: how often input i's packet was overtaken   *)

serviceVars == <<slot, rr_pointer, out_ready, waited>>

ServiceInit == Init /\ waited = [i \in Inputs |-> 0]

ServiceReset == Reset /\ waited' = [i \in Inputs |-> 0]

ServiceCycle(in) ==
  /\ Cycle(in)
  /\ waited' = [i \in Inputs |->
       IF slot[i] = NoPacket \/ IsServed(i) THEN 0
       ELSE IF Wanted(i) \in Transfers THEN waited[i] + 1
       ELSE waited[i]]

ServiceNext ==
  /\ ServiceReset \/ \E in \in Offers : ServiceCycle(in)
  /\ out_ready' \in SUBSET Receivers

ServiceSpec == ServiceInit /\ [][ServiceNext]_serviceVars

-----------------------------------------------------------------------------
(* The router's types, and a counter for every input.                      *)
ServiceTypeOK == TypeOK /\ waited \in [Inputs -> Nat]

(* The inputs at which a packet for output o can arrive.                   *)
Eligible(o) ==
  {i \in Inputs : \E p \in Arrivals[i] :
     /\ valid_dst(p.dst_id)
     /\ dir_to_index(calc_route(ROUTER_X, ROUTER_Y, p)) = o}

(* The inputs that can compete with i for its output and that the arbiter  *)
(* meets after i: those that cannot overtake i before i is served.         *)
Passed(i) ==
  {j \in Eligible(Wanted(i)) :
     rr_offset(rr_pointer[Wanted(i)], j) > rr_offset(rr_pointer[Wanted(i)], i)}

(* A buffered packet waits at an input its route allows, and every input   *)
(* that overtook it is now behind it in the rotation of its output.        *)
OvertakersAreBehind ==
  \A i \in Inputs : slot[i] # NoPacket =>
    /\ i \in Eligible(Wanted(i))
    /\ waited[i] <= Cardinality(Passed(i))

(* Bounded service: a packet is overtaken at most once by every other      *)
(* input that can compete for its output, so it is served within as many   *)
(* arbitration opportunities as its output has eligible inputs.            *)
BoundedService ==
  \A i \in Inputs : slot[i] # NoPacket =>
    waited[i] < Cardinality(Eligible(Wanted(i)))
=============================================================================
