-------------------------- MODULE MemoryController --------------------------
(***************************************************************************)
(* The backing memory, rtl/memory_controller.sv: mem_ready is 1 whenever   *)
(* rst is 0, so that a request completes on the edge at which it is made.  *)
(* Reads are combinational, writes take the strobed bytes; rst does not    *)
(* clear the storage, whose initial contents are arbitrary.                *)
(***************************************************************************)
EXTENDS MemoryWords

CONSTANT DEPTH_WORDS   (* words of the storage array; 256 in the RTL *)

word_index(addr) == addr % DEPTH_WORDS   \* mem_addr[9:2]

(* No two requested addresses share a word of the storage: the controller  *)
(* keeps only the low bits of an address, so that addresses DEPTH_WORDS    *)
(* apart are one word to it, but different tags of one line to the cache.  *)
ASSUME NoAliasAssumption ==
  /\ DEPTH_WORDS \in Nat \ {0}
  /\ \A a, b \in Addresses : word_index(a) = word_index(b) => a = b

VARIABLE memory   (* memory[w]: the storage array *)

MemoryTypeOK == memory \in [0 .. DEPTH_WORDS - 1 -> Word]

MemoryInit == memory \in [0 .. DEPTH_WORDS - 1 -> Word]

mem_rdata(addr) == memory[word_index(addr)]

(* A bug, for the mutants: the strobes are ignored.                        *)
memory_after_full_write(addr, wdata, wstrb) ==
  [memory EXCEPT ![word_index(addr)] = wdata]

memory_after_write(addr, wdata, wstrb) ==
  [memory EXCEPT ![word_index(addr)] =
     [l \in Lanes |-> IF l \in wstrb THEN wdata[l] ELSE @[l]]]

(* mem_valid && mem_ready && mem_write *)
Store(addr, wdata, wstrb) == memory' = memory_after_write(addr, wdata, wstrb)
=============================================================================
