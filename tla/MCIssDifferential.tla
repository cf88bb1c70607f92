--------------------------- MODULE MCIssDifferential ---------------------------
(***************************************************************************)
(* Words of eight bits, the upper half of which stands for the addresses   *)
(* from 0x80000000 on, four registers, and a table of instructions.  Each  *)
(* is given a word of its own; the words left over are illegal.            *)
(*                                                                         *)
(* All programs of three instructions over arithmetic, loads and stores,   *)
(* taken and other branches and an x0 write; longer runs over fewer        *)
(* instructions, with loops and misaligned addresses; instructions only    *)
(* one simulator or the core accepts, among them narrow accesses and       *)
(* reserved functions; a branch into the loop behind the program; and the  *)
(* requests of the smoke test.  x3 is a register the boot code writes.     *)
(***************************************************************************)
EXTENDS IssDifferential, TLC

I(kind, rd, rs1, rs2, imm) ==
  [kind |-> kind, rd |-> rd, rs1 |-> rs1, rs2 |-> rs2, imm |-> imm]

MCTable ==
  1 :> I("addi", 1, 1, 0, 4) @@ 2 :> I("sub", 2, 1, 2, 0) @@ 3 :> I("sra", 2, 1, 2, 0)
    @@ 4 :> I("slt", 2, 1, 2, 0) @@ 5 :> I("beq", 0, 1, 1, 8) @@ 6 :> I("beq", 0, 2, 3, -4)
    @@ 7 :> I("lw", 2, 1, 0, 0) @@ 8 :> I("sw", 0, 1, 2, 0) @@ 9 :> I("add", 0, 1, 2, 0)
    @@ 10 :> I("bne", 0, 1, 2, 4) @@ 11 :> I("sll", 2, 2, 1, 0) @@ 12 :> I("xor", 2, 1, 2, 0)
    @@ 13 :> I("beq", 0, 1, 1, 2) @@ 14 :> I("blt", 0, 1, 2, -4) @@ 15 :> I("beq", 0, 1, 1, -8)
    @@ 16 :> I("srl", 2, 1, 2, 0) @@ 17 :> I("bge", 0, 1, 2, 8)
    @@ 18 :> I("sb", 0, 1, 2, 0) @@ 19 :> I("lbu", 2, 1, 0, 0) @@ 20 :> I("op_add", 2, 1, 2, 0)
    @@ 21 :> I("slti", 2, 1, 0, 4) @@ 22 :> I("sltu", 2, 1, 2, 0) @@ 23 :> I("bltu", 0, 1, 2, 8)
    @@ 24 :> I("lh", 2, 1, 0, 0) @@ 25 :> I("store_reserved", 0, 1, 2, 0)
    @@ 26 :> I("beq", 0, 1, 1, 100)
    @@ 111 :> I("jal", 0, 0, 0, 0)
MCDecode == [word \in 0 .. 255 |-> IF word \in DOMAIN MCTable THEN MCTable[word]
                                   ELSE I("illegal", 0, 0, 0, 0)]

MCBootRegisters == [r \in 0 .. 3 |-> IF r = 3 THEN 192 ELSE 0]

Program(a, b, c) == [i \in 0 .. 3 |-> IF i = 0 THEN a ELSE IF i = 1 THEN b
                                      ELSE IF i = 2 THEN c ELSE 0]

Asked(words, counts, files, limits) ==
  {[program |-> Program(p[1], p[2], p[3]), program_word_count |-> n,
    initial_int_regs |-> [r \in 0 .. 3 |-> f[r + 1]], execution_limit |-> steps] :
     p \in words \X words \X words, n \in counts, f \in files, steps \in limits}

MCSmokeRequests ==
  {[program |-> Program(1, 1, c), program_word_count |-> 3,
    initial_int_regs |-> [r \in 0 .. 3 |-> 0], execution_limit |-> 3] : c \in {2, 9}}

MCRequests ==
  Asked(1 .. 9, {3}, {<<0, 224, 7, 0>>}, {3})
    \cup Asked({2, 4, 6, 7, 8}, {3}, {<<0, 132, 37, 1>>}, {3})
    \cup Asked({1, 3, 7, 8, 15}, {3}, {<<0, 225, 7, 0>>, <<0, 220, 252, 0>>, <<0, 252, 7, 0>>}, {6})
    \cup Asked({1, 7, 15}, {2}, {<<0, 225, 7, 0>>}, {6})
    \cup Asked({10, 11, 13, 16, 17, 111}, {3}, {<<0, 250, 7, 0>>}, {4})
    \cup Asked({10, 12, 14}, {3}, {<<0, 250, 7, 0>>}, {4})
    \cup Asked({18, 19, 20, 21}, {3}, {<<0, 226, 7, 5>>}, {4})
    \cup Asked({18, 22, 23, 24, 25}, {3}, {<<0, 226, 247, 5>>}, {4})
    \cup Asked({26}, {1}, {<<0, 250, 7, 0>>}, {4})
    \cup Asked({2}, {0}, {<<0, 250, 7, 0>>}, {4})
    \cup MCSmokeRequests

\* A commit of another core, an exception, a misaligned commit, a register too many.
MCOtherLines ==
  {Line("commit", 1, 128, 9, 2, 9), Line("other", 0, 128, 0, None, None),
   Line("commit", 0, 130, 7, 1, 9), Line("commit", 0, 132, 6, 40, 9)}

Entry == Line("entry", 0, 128, 1, None, None)
MCSmokeArguments ==
  [q \in MCSmokeRequests |->
     [instructions : {0, 8}, program_base : {128}, program_end : {128, 140},
      expected_file : {<<>>, <<Line("blank", 0, 0, 0, None, None), Entry>>,
                       <<Entry, Line("other", 0, 0, 0, None, None)>>}]]
===============================================================================
