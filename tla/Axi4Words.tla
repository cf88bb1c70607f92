----------------------------- MODULE Axi4Words -----------------------------
(***************************************************************************)
(* The requests of MemoryWords with the transaction ids of AXI4.           *)
(***************************************************************************)
EXTENDS MemoryWords

CONSTANT Ids   (* transaction ids; four bits in the RTL *)

ASSUME IdsAssumption == 0 \in Ids

(* What the command side hands to the master. *)
Commands == [id : Ids, request : Requests]
=============================================================================
