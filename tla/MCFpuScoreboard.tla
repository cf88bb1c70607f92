---------------------------- MODULE MCFpuScoreboard ----------------------------
(***************************************************************************)
(* FpuScoreboard with an operation the FPU and the reference agree on, one *)
(* they differ on (two different words, as for -0 + -0) and one outside    *)
(* the contract of the reference.                                          *)
(***************************************************************************)
EXTENDS FpuScoreboard

MCOperations == {"zero", "agree", "differ", "outside"}
MCResults == 0 .. 4
MCDut == [o \in MCOperations |-> CASE o = "zero" -> 0 [] o = "agree" -> 1
                                   [] o = "differ" -> 2 [] o = "outside" -> 3]
MCRef == [o \in MCOperations |-> CASE o = "zero" -> 0 [] o = "agree" -> 1
                                   [] o = "differ" -> 4 [] o = "outside" -> 99]
===============================================================================
