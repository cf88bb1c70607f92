--------------------------- MODULE NocRouterProofs ---------------------------
(***************************************************************************)
(* Theorems about one router, for every position, every set of packets and *)
(* every choice of what can arrive at its inputs.                          *)
(***************************************************************************)
EXTENDS NocRouterService, NocRouterOpsProofs, FiniteSetTheorems, TLAPS

(* Every offered packet is one its input can be offered.                   *)
LEMMA OffersType ==
  ASSUME NEW in \in Offers, NEW i \in Inputs
  PROVE  in[i] \in Buffers /\ (in[i] # NoPacket => in[i] \in Arrivals[i])
<1>1. i = 0 \/ i = 1 \/ i = 2 \/ i = 3 \/ i = 4
  BY DEF Inputs, N_INPUTS
<1>2. in[i] \in Offer(i)
  BY <1>1 DEF Offers, Offer, Inputs, N_INPUTS,
     LOCAL_PORT, NORTH_PORT, SOUTH_PORT, EAST_PORT, WEST_PORT
<1>3. QED BY <1>2, RouterAssumption DEF Offer, Buffers

(* Every step of the service specification is a step of the router.        *)
LEMMA ServiceStepIsStep == [ServiceNext]_serviceVars => [Next]_vars
BY DEF ServiceNext, ServiceReset, ServiceCycle, Next, serviceVars, vars

(* The type invariant, which includes that a router never buffers a packet *)
(* of an illegal destination.                                              *)
LEMMA TypeInit == Init => TypeOK
<1> SUFFICES ASSUME Init PROVE TypeOK
  OBVIOUS
<1>1. "LOCAL" \in Directions
  BY DEF Directions
<1>2. QED BY <1>1, RouterAssumption
  DEF Init, TypeOK, reset_slot, reset_rr_pointer, Buffers

(* Every clock edge preserves it.                                          *)
LEMMA TypeStep == TypeOK /\ [Next]_vars => TypeOK'
<1> SUFFICES ASSUME TypeOK, [Next]_vars PROVE TypeOK'
  OBVIOUS
<1>1. CASE UNCHANGED vars
  BY <1>1 DEF vars, TypeOK
<1>2. CASE Reset /\ out_ready' \in SUBSET Receivers
  <2>1. "LOCAL" \in Directions
    BY DEF Directions
  <2>2. QED BY <1>2, <2>1
    DEF Reset, TypeOK, reset_slot, reset_rr_pointer, Buffers
<1>3. ASSUME NEW in \in Offers, Cycle(in), out_ready' \in SUBSET Receivers
      PROVE  TypeOK'
  <2>1. \A i \in Inputs : /\ slot'[i] \in Buffers
                          /\ slot'[i] # NoPacket => valid_dst(slot'[i].dst_id)
    <3> TAKE i \in Inputs
    <3>1. in[i] \in Buffers
      BY OffersType
    <3>2. NoPacket \in Buffers /\ slot[i] \in Buffers
      BY DEF TypeOK, Buffers
    <3>3. QED BY <1>3, <3>1, <3>2, BufferStep DEF Cycle, TypeOK
  <2>2. slot' \in [Inputs -> Buffers]
    BY <1>3, <2>1 DEF Cycle, next_slot
  <2>3. rr_pointer' \in [Outputs -> Directions]
    <3>1. \A o \in Outputs : o \in Transfers =>
            next_rr_dir(index_to_dir(Selected(o))) \in Directions
      <4> TAKE o \in Outputs
      <4> HAVE o \in Transfers
      <4>1. Selected(o) \in Inputs
        BY SelectedRequester DEF Transfers, out_transfer, Selected, TypeOK
      <4>2. QED BY <4>1, DirectionIndex
    <3>2. QED BY <1>3, <3>1
      DEF Cycle, next_rr_pointer, Transfers, Selected, TypeOK
  <2>4. QED BY <1>3, <2>1, <2>2, <2>3 DEF TypeOK
<1>4. QED BY <1>1, <1>2, <1>3 DEF Next

(* A router's registers keep their types, and it never buffers a packet of *)
(* an illegal destination, wherever it is and whatever is offered to it.   *)
THEOREM RouterTypeCorrect == Spec => []TypeOK
<1>1. Init => TypeOK
  BY TypeInit
<1>2. TypeOK /\ [Next]_vars => TypeOK'
  BY TypeStep
<1>3. QED BY <1>1, <1>2, PTL DEF Spec

(* The sets of inputs that are counted are finite.                         *)
LEMMA EligibleFinite ==
  ASSUME NEW o
  PROVE  /\ IsFiniteSet(Eligible(o))
         /\ \A S \in SUBSET Eligible(o) :
              IsFiniteSet(S) /\ Cardinality(S) \in Nat
<1>1. IsFiniteSet(Inputs)
  <2>1. 0 \in Int /\ N_INPUTS - 1 \in Int
    BY DEF N_INPUTS
  <2>2. QED BY <2>1, FS_Interval DEF Inputs
<1>2. Eligible(o) \in SUBSET Inputs
  BY DEF Eligible
<1>3. IsFiniteSet(Eligible(o))
  BY <1>1, <1>2, FS_Subset
<1>4. ASSUME NEW S \in SUBSET Eligible(o)
      PROVE  IsFiniteSet(S) /\ Cardinality(S) \in Nat
  BY <1>3, FS_Subset, FS_CardinalityType
<1>5. QED BY <1>3, <1>4

(* The inductive invariant of bounded service. *)
ServiceInv == ServiceTypeOK /\ OvertakersAreBehind

(* After reset no packet waits.                                            *)
LEMMA ServiceInvInit == ServiceInit => ServiceInv
<1> SUFFICES ASSUME ServiceInit PROVE ServiceInv
  OBVIOUS
<1>1. TypeOK
  BY TypeInit DEF ServiceInit
<1>2. waited \in [Inputs -> Nat]
  BY DEF ServiceInit
<1>3. \A i \in Inputs : slot[i] = NoPacket
  BY DEF ServiceInit, Init, reset_slot
<1>4. QED BY <1>1, <1>2, <1>3 DEF ServiceInv, ServiceTypeOK, OvertakersAreBehind

(* A packet that has just arrived has been overtaken by nobody.            *)
LEMMA NewPacket ==
  ASSUME ServiceInv, NEW in \in Offers, ServiceCycle(in), NEW i \in Inputs,
         slot[i] = NoPacket, slot'[i] # NoPacket
  PROVE  /\ i \in Eligible(Wanted(i)')
         /\ waited'[i] <= Cardinality(Passed(i)')
<1>1. /\ slot'[i] = in[i] /\ in[i] # NoPacket
      /\ valid_dst(in[i].dst_id)
  BY BufferStep DEF ServiceCycle, Cycle
<1>2. in[i] \in Arrivals[i]
  BY <1>1, OffersType
<1>3. i \in Eligible(Wanted(i)')
  BY <1>1, <1>2 DEF Eligible, Wanted, route
<1>4. waited'[i] = 0
  BY DEF ServiceCycle
<1>5. Cardinality(Passed(i)') \in Nat
  <2>1. Passed(i)' \in SUBSET Eligible(Wanted(i)')
    BY DEF Passed
  <2>2. QED BY <2>1, EligibleFinite
<1>6. QED BY <1>3, <1>4, <1>5

(* A packet whose output serves another input gains that input behind it.  *)
LEMMA OvertakenPacket ==
  ASSUME ServiceInv, NEW in \in Offers, ServiceCycle(in), NEW i \in Inputs,
         slot[i] # NoPacket, ~IsServed(i), slot'[i] = slot[i],
         Wanted(i) \in Transfers
  PROVE  waited'[i] <= Cardinality(Passed(i)')
<1> DEFINE o == Wanted(i)
           d == rr_pointer[o]
           j == Selected(o)
           e == next_rr_dir(index_to_dir(j))
<1>1. o \in Outputs /\ grant_valid(ROUTER_X, ROUTER_Y, slot, o)
  BY RouterAssumption DEF Transfers, out_transfer, ServiceInv, ServiceTypeOK, TypeOK
<1>2. d \in Directions
  BY <1>1 DEF ServiceInv, ServiceTypeOK, TypeOK
<1>3. request(ROUTER_X, ROUTER_Y, slot, o, i)
  BY DEF request, Wanted
<1>4. /\ j \in Inputs /\ request(ROUTER_X, ROUTER_Y, slot, o, j)
      /\ rr_offset(d, j) <= rr_offset(d, i)
      /\ grant(ROUTER_X, ROUTER_Y, slot, rr_pointer, o, j)
  BY <1>1, <1>2, <1>3, SelectedRequester DEF Selected, grant
<1>5. j \in Inputs /\ slot[j] # NoPacket /\ Wanted(j) = o
  BY <1>4 DEF request, Wanted
<1>6. j \in Eligible(o)
  BY <1>5 DEF ServiceInv, OvertakersAreBehind
<1>7. j # i
  BY <1>4, <1>5 DEF IsServed, served_input, Transfers, out_transfer, Wanted
<1> HIDE DEF o, j
<1>8. rr_offset(d, j) < rr_offset(d, i)
  BY <1>2, <1>4, <1>5, <1>7, OffsetType
<1>9. rr_pointer'[o] = e /\ Wanted(i)' = o
  BY <1>1 DEF o, j, ServiceCycle, Cycle, next_rr_pointer, Transfers, Selected,
     Wanted, route
<1>10. Passed(i) \cup {j} \subseteq Passed(i)'
  <2>1. Passed(i)' = {k \in Eligible(o) : rr_offset(e, k) > rr_offset(e, i)}
    BY <1>9 DEF Passed
  <2>2. rr_offset(e, j) > rr_offset(e, i)
    BY <1>2, <1>5, <1>8, RotationAfterService, OffsetType
  <2>3. ASSUME NEW k \in Passed(i)
        PROVE  k \in Eligible(o) /\ rr_offset(e, k) > rr_offset(e, i)
    <3>1. k \in Eligible(o) /\ k \in Inputs /\ rr_offset(d, k) > rr_offset(d, i)
      BY DEF o, Passed, Eligible
    <3>2. QED BY <3>1, <1>2, <1>5, <1>8, RotationAfterService, OffsetType
  <2>4. QED BY <2>1, <2>2, <2>3, <1>6
<1>11. j \notin Passed(i)
  BY <1>2, <1>5, <1>8, OffsetType DEF o, Passed
<1>12. Cardinality(Passed(i)) + 1 <= Cardinality(Passed(i)')
  <2>1. Passed(i) \in SUBSET Eligible(o) /\ Passed(i)' \in SUBSET Eligible(o)
    BY <1>9 DEF o, Passed
  <2>2. IsFiniteSet(Passed(i)) /\ IsFiniteSet(Passed(i)')
    BY <2>1, EligibleFinite
  <2>3. Cardinality(Passed(i) \cup {j}) = Cardinality(Passed(i)) + 1
    BY <2>2, <1>11, FS_AddElement
  <2>4. Cardinality(Passed(i) \cup {j}) <= Cardinality(Passed(i)')
    BY <2>2, <1>10, FS_Subset
  <2>5. QED BY <2>3, <2>4
<1>13. waited'[i] = waited[i] + 1 /\ waited[i] <= Cardinality(Passed(i))
  BY DEF ServiceCycle, ServiceInv, OvertakersAreBehind
<1>14. /\ waited[i] \in Nat
       /\ Cardinality(Passed(i)) \in Nat /\ Cardinality(Passed(i)') \in Nat
  BY <1>9, EligibleFinite DEF o, Passed, ServiceInv, ServiceTypeOK
<1>15. QED BY <1>12, <1>13, <1>14

(* Every clock edge preserves the invariant.                               *)
LEMMA ServiceInvStep == ServiceInv /\ [ServiceNext]_serviceVars => ServiceInv'
<1> SUFFICES ASSUME ServiceInv, [ServiceNext]_serviceVars PROVE ServiceInv'
  OBVIOUS
<1>1. TypeOK'
  BY ServiceStepIsStep, TypeStep DEF ServiceInv, ServiceTypeOK
<1>2. CASE UNCHANGED serviceVars
  BY <1>2 DEF serviceVars, ServiceInv, ServiceTypeOK, TypeOK,
     OvertakersAreBehind, Passed, Wanted
<1>3. CASE ServiceReset
  <2>1. \A i \in Inputs : slot'[i] = NoPacket
    BY <1>3 DEF ServiceReset, Reset, reset_slot
  <2>2. waited' \in [Inputs -> Nat]
    BY <1>3 DEF ServiceReset
  <2>3. QED BY <1>1, <2>1, <2>2 DEF ServiceInv, ServiceTypeOK, OvertakersAreBehind
<1>4. ASSUME NEW in \in Offers, ServiceCycle(in)
      PROVE  ServiceInv'
  <2>1. waited' \in [Inputs -> Nat]
    BY <1>4 DEF ServiceCycle, ServiceInv, ServiceTypeOK
  <2>2. ASSUME NEW i \in Inputs, slot'[i] # NoPacket
        PROVE  /\ i \in Eligible(Wanted(i)')
               /\ waited'[i] <= Cardinality(Passed(i)')
    <3>1. CASE slot[i] = NoPacket
      BY <1>4, <2>2, <3>1, NewPacket
    <3>2. CASE slot[i] # NoPacket
      <4>1. ~IsServed(i) /\ slot'[i] = slot[i]
        BY <1>4, <2>2, <3>2, BufferStep DEF ServiceCycle, Cycle, IsServed
      <4>2. Wanted(i)' = Wanted(i) /\ i \in Eligible(Wanted(i))
        BY <3>2, <4>1 DEF Wanted, route, ServiceInv, OvertakersAreBehind
      <4>3. CASE Wanted(i) \in Transfers
        BY <1>4, <3>2, <4>1, <4>2, <4>3, OvertakenPacket
      <4>4. CASE Wanted(i) \notin Transfers
        <5>1. Wanted(i) \in Outputs
          BY RouteType, RouterAssumption DEF Wanted, route
        <5>2. rr_pointer'[Wanted(i)] = rr_pointer[Wanted(i)]
          BY <1>4, <4>4, <5>1
          DEF ServiceCycle, Cycle, next_rr_pointer, Transfers
        <5>3. Passed(i)' = Passed(i)
          BY <4>2, <5>2 DEF Passed
        <5>4. waited'[i] = waited[i]
          BY <1>4, <3>2, <4>1, <4>4 DEF ServiceCycle
        <5>5. QED BY <3>2, <4>2, <5>3, <5>4 DEF ServiceInv, OvertakersAreBehind
      <4>5. QED BY <4>3, <4>4
    <3>3. QED BY <3>1, <3>2
  <2>3. OvertakersAreBehind'
    BY <2>2 DEF OvertakersAreBehind, Eligible
  <2>4. QED BY <1>1, <2>1, <2>3 DEF ServiceInv, ServiceTypeOK
<1>5. QED BY <1>2, <1>3, <1>4 DEF ServiceNext

(* Whoever overtook a waiting packet is behind it in the rotation of the   *)
(* output both want: the arbiter remembers enough in its pointer.          *)
THEOREM OvertakersBehind == ServiceSpec => [](ServiceTypeOK /\ OvertakersAreBehind)
<1>1. ServiceInit => ServiceInv
  BY ServiceInvInit
<1>2. ServiceInv /\ [ServiceNext]_serviceVars => ServiceInv'
  BY ServiceInvStep
<1>3. ServiceInv => ServiceTypeOK /\ OvertakersAreBehind
  BY DEF ServiceInv
<1>4. QED BY <1>1, <1>2, <1>3, PTL DEF ServiceSpec

(* A buffered packet is overtaken by each other eligible input at most     *)
(* once: no starvation by the round-robin arbiter, whatever arrives, and   *)
(* whenever the receivers are ready.                                       *)
THEOREM ServiceIsBounded == ServiceSpec => []BoundedService
<1>1. ServiceTypeOK /\ OvertakersAreBehind => BoundedService
  <2> SUFFICES ASSUME ServiceTypeOK, OvertakersAreBehind,
                      NEW i \in Inputs, slot[i] # NoPacket
               PROVE  waited[i] < Cardinality(Eligible(Wanted(i)))
    BY DEF BoundedService
  <2> DEFINE E == Eligible(Wanted(i))
  <2>1. i \in E /\ waited[i] <= Cardinality(Passed(i)) /\ waited[i] \in Nat
    BY DEF OvertakersAreBehind, ServiceTypeOK
  <2>2. Passed(i) \in SUBSET E
    BY DEF Passed
  <2>3. i \notin Passed(i)
    <3>1. rr_offset(rr_pointer[Wanted(i)], i) \in Int
      <4>1. Wanted(i) \in Outputs
        BY RouteType, RouterAssumption DEF Wanted, route
      <4>2. rr_pointer[Wanted(i)] \in Directions
        BY <4>1 DEF ServiceTypeOK, TypeOK
      <4>3. QED BY <4>2, OffsetType
    <3>2. QED BY <3>1 DEF Passed
  <2> HIDE DEF E
  <2>4. IsFiniteSet(E) /\ IsFiniteSet(Passed(i))
    BY <2>2, EligibleFinite DEF E
  <2>5. Cardinality(Passed(i)) \in Nat /\ Cardinality(E) \in Nat
    BY <2>4, FS_CardinalityType
  <2>6. Cardinality(Passed(i)) < Cardinality(E)
    <3>1. /\ Cardinality(Passed(i)) <= Cardinality(E)
          /\ Cardinality(E) = Cardinality(Passed(i)) => E = Passed(i)
      BY <2>2, <2>4, FS_Subset
    <3>2. QED BY <3>1, <2>1, <2>3, <2>5
  <2>7. QED BY <2>1, <2>5, <2>6 DEF E
<1>2. QED BY <1>1, OvertakersBehind, PTL

(* A packet whose output is not ready in this cycle stays in its buffer:   *)
(* no other output can serve it.                                           *)
LEMMA UnreadyKeepsPacket ==
  ASSUME NEW in \in Offers, Cycle(in), NEW i \in Inputs,
         slot[i] # NoPacket, Wanted(i) \notin out_ready
  PROVE  slot'[i] = slot[i]
BY DEF Cycle, next_slot, served_input, Wanted

(* Under a stall the arbiter keeps its pointer, keeps offering, and moves  *)
(* only to requesters that are nearer to the pointer.                      *)
THEOREM StallOnlyAdvances == Spec => StalledSelectionOnlyAdvances
<1> DEFINE Advances(o) ==
      /\ Presents(o)'
      /\ rr_pointer'[o] = rr_pointer[o]
      /\ rr_offset(rr_pointer[o],
                   selected_input(ROUTER_X, ROUTER_Y, slot', rr_pointer', o))
           <= rr_offset(rr_pointer[o], Selected(o))
<1>1. ASSUME TypeOK, [Next]_vars, NEW o \in Receivers \ out_ready,
             Presents(o), ~Reset
      PROVE  Advances(o)
  <2>1. o \in Outputs /\ rr_pointer[o] \in Directions
    BY <1>1, RouterAssumption DEF TypeOK
  <2>2. CASE UNCHANGED vars
    <3>1. Presents(o)' /\ rr_pointer' = rr_pointer /\ slot' = slot
      BY <1>1, <2>2 DEF vars, Presents, grant_valid, request, route
    <3>2. Selected(o) \in Inputs
      BY <1>1, <2>1, SelectedRequester DEF Presents, Selected, request
    <3>3. QED BY <2>1, <3>1, <3>2, OffsetType DEF Selected
  <2>3. ASSUME NEW in \in Offers, Cycle(in) PROVE Advances(o)
    <3> DEFINE i == Selected(o)
    <3>1. i \in Inputs /\ request(ROUTER_X, ROUTER_Y, slot, o, i)
      BY <1>1, <2>1, SelectedRequester DEF Presents, Selected, grant
    <3>2. i \in Inputs /\ slot[i] # NoPacket /\ Wanted(i) = o
      BY <3>1 DEF request, Wanted
    <3> HIDE DEF i
    <3>3. slot'[i] = slot[i]
      BY <1>1, <2>3, <3>2, UnreadyKeepsPacket
    <3>4. request(ROUTER_X, ROUTER_Y, slot', o, i)
      BY <3>2, <3>3 DEF request, Wanted, route
    <3>5. rr_pointer'[o] = rr_pointer[o]
      BY <1>1, <2>1, <2>3 DEF Cycle, next_rr_pointer, out_transfer
    <3>6. grant_valid(ROUTER_X, ROUTER_Y, slot', o)
      BY <3>2, <3>4 DEF grant_valid
    <3>7. rr_offset(rr_pointer'[o],
                    selected_input(ROUTER_X, ROUTER_Y, slot', rr_pointer', o))
            <= rr_offset(rr_pointer'[o], i)
      BY <2>1, <3>2, <3>4, <3>5, <3>6, SelectedRequester DEF grant
    <3>8. Presents(o)'
      BY <3>6 DEF Presents, grant_valid, request, route
    <3>9. QED BY <3>5, <3>7, <3>8 DEF i
  <2>4. QED BY <1>1, <2>2, <2>3 DEF Next
<1>2. TypeOK /\ [Next]_vars =>
        [\A o \in Receivers \ out_ready : Presents(o) /\ ~Reset => Advances(o)]_vars
  BY <1>1
<1>3. QED BY <1>2, RouterTypeCorrect, PTL DEF Spec, StalledSelectionOnlyAdvances
=============================================================================
