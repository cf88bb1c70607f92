---------------------------- MODULE MemoryWords ----------------------------
(***************************************************************************)
(* Words, byte strobes, addresses and requests of the cache / memory path. *)
(* Addresses are word addresses: every request is word aligned             *)
(* (CACHE-REQ-013), so the two low bits of the byte address are left out.  *)
(***************************************************************************)
EXTENDS Integers

CONSTANTS
  Lanes,      (* The byte lanes of a word; 0..3 in the RTL.                *)
  Bytes,      (* The values of a byte, 0 among them.                       *)
  Addresses   (* The word addresses that the CPU side requests.            *)

ASSUME WordsAssumption ==
  /\ 0 \in Bytes
  /\ Addresses \in SUBSET Nat

Word     == [Lanes -> Bytes]
ZeroWord == [l \in Lanes |-> 0]

(* A request: a read ignores its data and strobes, which are left zero.    *)
Reads    == [write : {FALSE}, addr : Addresses, wdata : {ZeroWord}, wstrb : {{}}]
Writes   == [write : {TRUE}, addr : Addresses, wdata : Word, wstrb : SUBSET Lanes]
Requests == Reads \cup Writes

(* The word with the strobed lanes replaced. *)
Merged(old, new, strobes) ==
  [l \in Lanes |-> IF l \in strobes THEN new[l] ELSE old[l]]
=============================================================================
