------------------------- MODULE NocRouterOpsProofs -------------------------
(***************************************************************************)
(* What the operators of a router return: the lemmas that the proofs about *)
(* one router and about the mesh share.                                    *)
(***************************************************************************)
EXTENDS NocRouterOps, TLAPS

(* Port indices and directions are in bijection, and next_rr_dir moves one *)
(* index on, from the last back to the first.                              *)
LEMMA DirectionIndex ==
  /\ \A d \in Directions : dir_to_index(d) \in Inputs
  /\ \A i \in Inputs : /\ index_to_dir(i) \in Directions
                       /\ dir_to_index(index_to_dir(i)) = i
                       /\ next_rr_dir(index_to_dir(i)) \in Directions
                       /\ dir_to_index(next_rr_dir(index_to_dir(i)))
                            = IF i = 4 THEN 0 ELSE i + 1
<1> USE DEF Directions, Inputs, N_INPUTS, dir_to_index, index_to_dir,
            LOCAL_PORT, NORTH_PORT, SOUTH_PORT, EAST_PORT, WEST_PORT
<1>1. \A d \in Directions : dir_to_index(d) \in Inputs
  OBVIOUS
<1>2. ASSUME NEW i \in Inputs
      PROVE  /\ index_to_dir(i) \in Directions
             /\ dir_to_index(index_to_dir(i)) = i
  <2>1. i = 0 \/ i = 1 \/ i = 2 \/ i = 3 \/ i = 4
    OBVIOUS
  <2>2. QED BY <2>1
<1>3. ASSUME NEW i \in Inputs
      PROVE  /\ next_rr_dir(index_to_dir(i)) \in Directions
             /\ dir_to_index(next_rr_dir(index_to_dir(i)))
                  = IF i = 4 THEN 0 ELSE i + 1
  <2>1. CASE i = 4
    BY <1>2, <2>1 DEF next_rr_dir
  <2>2. CASE i # 4
    <3>1. next_rr_dir(index_to_dir(i)) = index_to_dir(i + 1)
      BY <1>2, <2>2 DEF next_rr_dir
    <3>2. i + 1 \in Inputs
      BY <2>2
    <3>3. QED BY <3>1, <3>2, <1>2, <2>2
  <2>3. QED BY <2>1, <2>2
<1>4. QED BY <1>1, <1>2, <1>3

(* The route of a packet is a direction, hence its output an output.       *)
LEMMA RouteType ==
  ASSUME NEW x \in {0, 1}, NEW y \in {0, 1}, NEW p
  PROVE  dir_to_index(calc_route(x, y, p)) \in Outputs
<1>1. calc_route(x, y, p) \in Directions
  BY DEF calc_route, dst_x, dst_y, Directions
<1>2. QED BY <1>1, DirectionIndex DEF Inputs, Outputs, N_INPUTS

(* The rotation distance in plain arithmetic; different inputs are at      *)
(* different distances.                                                    *)
LEMMA OffsetType ==
  ASSUME NEW d \in Directions
  PROVE  /\ \A i \in Inputs : /\ rr_offset(d, i) \in 0..4
                              /\ rr_offset(d, i) =
                                   IF i >= dir_to_index(d)
                                   THEN i - dir_to_index(d)
                                   ELSE i + 5 - dir_to_index(d)
         /\ \A i, j \in Inputs : rr_offset(d, i) = rr_offset(d, j) => i = j
<1> DEFINE n == dir_to_index(d)
<1>1. n \in 0..4
  BY DirectionIndex DEF Inputs, N_INPUTS
<1>2. ASSUME NEW i \in 0..4
      PROVE  rr_offset(d, i) = IF i >= n THEN i - n ELSE i + 5 - n
  <2>1. rr_offset(d, i) = (i + 5 - n) % 5
    BY DEF rr_offset, N_INPUTS
  <2>2. QED BY <1>1, <2>1
<1>3. QED BY <1>1, <1>2 DEF Inputs, N_INPUTS

(* A nonempty set of requesters has a first one from the pointer on.       *)
LEMMA FirstRequester ==
  ASSUME NEW d \in Directions, NEW req \in SUBSET Inputs, req # {}
  PROVE  \E i \in req : \A j \in req : rr_offset(d, i) <= rr_offset(d, j)
<1> DEFINE At(k) == \E i \in req : rr_offset(d, i) = k
<1>1. \A i \in req : rr_offset(d, i) \in 0..4
  BY OffsetType
<1>2. At(0) \/ At(1) \/ At(2) \/ At(3) \/ At(4)
  BY <1>1
<1>3. QED BY <1>1, <1>2

(* After input j is served the pointer stands behind it: j is then the     *)
(* last of the rotation, and inputs that were behind j keep their order.   *)
LEMMA RotationAfterService ==
  ASSUME NEW d \in Directions, NEW j \in Inputs,
         NEW e, e = next_rr_dir(index_to_dir(j))
  PROVE  /\ e \in Directions
         /\ rr_offset(e, j) = 4
         /\ \A i \in Inputs : rr_offset(d, i) > rr_offset(d, j) =>
              rr_offset(e, i) = rr_offset(d, i) - rr_offset(d, j) - 1
<1>1. e \in Directions /\ dir_to_index(e) = IF j = 4 THEN 0 ELSE j + 1
  BY DirectionIndex
<1>2. dir_to_index(d) \in 0..4
  BY DirectionIndex DEF Inputs, N_INPUTS
<1>3. rr_offset(e, j) = 4
  <2>1. rr_offset(e, j) = IF j >= dir_to_index(e) THEN j - dir_to_index(e)
                          ELSE j + 5 - dir_to_index(e)
    BY <1>1, OffsetType
  <2>2. QED BY <1>1, <2>1 DEF Inputs, N_INPUTS
<1>4. ASSUME NEW i \in Inputs, rr_offset(d, i) > rr_offset(d, j)
      PROVE  rr_offset(e, i) = rr_offset(d, i) - rr_offset(d, j) - 1
  <2>1. /\ rr_offset(e, i) = IF i >= dir_to_index(e) THEN i - dir_to_index(e)
                             ELSE i + 5 - dir_to_index(e)
        /\ rr_offset(d, i) = IF i >= dir_to_index(d) THEN i - dir_to_index(d)
                             ELSE i + 5 - dir_to_index(d)
        /\ rr_offset(d, j) = IF j >= dir_to_index(d) THEN j - dir_to_index(d)
                             ELSE j + 5 - dir_to_index(d)
    BY <1>1, OffsetType
  <2>2. QED BY <1>1, <1>2, <1>4, <2>1 DEF Inputs, N_INPUTS
<1>5. QED BY <1>1, <1>3, <1>4

(* The arbiter selects a requester, and none is met before it.             *)
LEMMA SelectedRequester ==
  ASSUME NEW x, NEW y, NEW s, NEW ptr, NEW o,
         ptr[o] \in Directions, grant_valid(x, y, s, o)
  PROVE  LET i == selected_input(x, y, s, ptr, o)
         IN  i \in Inputs /\ grant(x, y, s, ptr, o, i)
<1> DEFINE req == {i \in Inputs : request(x, y, s, o, i)}
<1>1. req \in SUBSET Inputs /\ req # {}
  BY DEF grant_valid
<1>2. \E i \in req : \A j \in req : rr_offset(ptr[o], i) <= rr_offset(ptr[o], j)
  BY <1>1, FirstRequester
<1>3. \E i \in Inputs : grant(x, y, s, ptr, o, i)
  BY <1>2 DEF grant
<1>4. QED BY <1>3 DEF selected_input

(* At most one input is granted an output.                                 *)
LEMMA GrantUnique ==
  ASSUME NEW x, NEW y, NEW s, NEW ptr, NEW o, ptr[o] \in Directions,
         NEW i \in Inputs, NEW j \in Inputs,
         grant(x, y, s, ptr, o, i), grant(x, y, s, ptr, o, j)
  PROVE  i = j
<1>1. rr_offset(ptr[o], i) = rr_offset(ptr[o], j)
  <2>1. /\ rr_offset(ptr[o], i) <= rr_offset(ptr[o], j)
        /\ rr_offset(ptr[o], j) <= rr_offset(ptr[o], i)
    BY DEF grant
  <2>2. rr_offset(ptr[o], i) \in 0..4 /\ rr_offset(ptr[o], j) \in 0..4
    BY OffsetType
  <2>3. QED BY <2>1, <2>2
<1>2. QED BY <1>1, OffsetType

(* What a clock edge does to one input buffer: it is emptied when its      *)
(* packet is served, filled by a legal packet when it was empty, or kept.  *)
LEMMA BufferStep ==
  ASSUME NEW x, NEW y, NEW s, NEW ptr, NEW ready, NEW in, NEW i \in Inputs
  PROVE  LET n == next_slot(x, y, s, ptr, ready, in)[i]
         IN  \/ n = NoPacket
             \/ /\ s[i] = NoPacket
                /\ n = in[i] /\ in[i] # NoPacket
                /\ valid_dst(in[i].dst_id)
             \/ /\ ~served_input(x, y, s, ptr, ready, i)
                /\ n = s[i]
BY DEF next_slot, accept
=============================================================================
