---------------------------- MODULE PowerAwareProofs ----------------------------
(***************************************************************************)
(* The safety properties of the power-aware domain, for every set of data  *)
(* and every sequence of requests, edges and resets.                       *)
(***************************************************************************)
EXTENDS PowerAware, TLAPS

(* What is retained is what was seen last, and in ST_SAVE, where isolation *)
(* has not begun, the word on show is the one about to be kept.            *)
Inv == TypeOK /\ RetainsLastSeen

LEMMA InvInit == Init => Inv
<1> SUFFICES ASSUME Init PROVE Inv
  OBVIOUS
<1>1. state \in States
  BY DEF Init, States, ST_ON, ST_RESTORE
<1>2. TypeOK
  BY <1>1, DataAssumption DEF Init, TypeOK
<1>3. RetainsLastSeen
  BY DEF Init, RetainsLastSeen
<1>4. QED BY <1>2, <1>3 DEF Inv

LEMMA InvNext == Inv /\ [Next]_vars => Inv'
<1> SUFFICES ASSUME Inv, [Next]_vars PROVE Inv'
  OBVIOUS
<1> USE DEF States, ST_ON, ST_SAVE, ST_ISOLATED, ST_OFF, ST_RESTORE
<1>1. CASE Drive
  BY <1>1 DEF Inv, TypeOK, RetainsLastSeen, isolation_en, Drive
<1>2. CASE Reset
  BY <1>2, DataAssumption DEF Inv, TypeOK, RetainsLastSeen, isolation_en, Reset, wires
<1>3. CASE Edge
  <2>1. TypeOK'
    BY <1>3, DataAssumption DEF Inv, TypeOK, Edge, wires, next_state, saved_state, next_reg,
      data_out, switchable_data_out, domain_on, isolation_en, save_req, restore_req
  <2>2. RetainsLastSeen'
    <3>1. CASE isolation_en
      BY <1>3, <3>1 DEF Inv, RetainsLastSeen, Edge, saved_state, domain_on, isolation_en, save_req
    <3>2. CASE ~ isolation_en
      \* Isolation begins after ST_SAVE only.
      <4>1. isolation_en' => state = ST_SAVE
        BY <1>3, <3>2 DEF Inv, TypeOK, Edge, next_state, isolation_en
      <4>2. state = ST_SAVE => retained_state' = state_reg /\ seen' = state_reg
        BY <1>3 DEF Edge, saved_state, data_out, switchable_data_out,
          domain_on, isolation_en, save_req
      <4>3. QED BY <4>1, <4>2 DEF RetainsLastSeen
    <3>3. QED BY <3>1, <3>2
  <2>3. QED BY <2>1, <2>2 DEF Inv
<1>4. CASE UNCHANGED vars
  BY <1>4 DEF Inv, TypeOK, RetainsLastSeen, isolation_en, vars, wires
<1>5. QED BY <1>1, <1>2, <1>3, <1>4 DEF Next

LEMMA InvAlways == Spec => []Inv
BY InvInit, InvNext, PTL DEF Spec

(* Registers and wires have their types.                                   *)
THEOREM PowerTypes == Spec => []TypeOK
BY InvAlways, PTL DEF Inv

(* The retention register keeps the word the consumer saw last.            *)
THEOREM Retention == Spec => []RetainsLastSeen
BY InvAlways, PTL DEF Inv

(* The step that ends the isolation shows the word seen last.              *)
THEOREM TransparentWake == Spec => WakeIsTransparent
<1>1. Inv /\ [Next]_vars => [isolation_en /\ ~ isolation_en' => data_out' = seen']_vars
  <2> SUFFICES ASSUME Inv, Next, isolation_en, ~ isolation_en'
               PROVE  data_out' = seen'
    OBVIOUS
  <2> USE DEF ST_ON, ST_SAVE, ST_ISOLATED, ST_OFF, ST_RESTORE
  <2>1. CASE Drive
    BY <2>1 DEF Drive, isolation_en
  <2>2. CASE Reset
    BY <2>2 DEF Reset, data_out, switchable_data_out, isolation_en, domain_on
  <2>3. CASE Edge
    <3>1. state = ST_RESTORE
      BY <2>3 DEF Edge, next_state, isolation_en
    <3>2. state_reg' = retained_state /\ seen' = seen /\ state' = ST_ON
      BY <2>3, <3>1 DEF Edge, next_reg, next_state, domain_on, restore_req, isolation_en
    <3>3. data_out' = state_reg'
      BY <3>2 DEF data_out, switchable_data_out, isolation_en, domain_on
    <3>4. QED BY <3>2, <3>3 DEF Inv, RetainsLastSeen
  <2>4. QED BY <2>1, <2>2, <2>3 DEF Next
<1>2. QED BY <1>1, InvAlways, PTL DEF Spec, WakeIsTransparent

(* The power is switched behind the isolation, or by a reset.              *)
THEOREM IsolatedPower == Spec => PowerSwitchesIsolated
<1>1. Inv /\ [Next]_vars =>
        [domain_on # domain_on' => \/ isolation_en /\ isolation_en'
                                   \/ Reset]_vars
  BY DEF Inv, TypeOK, States, Next, Drive, Edge, next_state, domain_on, isolation_en,
    ST_ON, ST_SAVE, ST_ISOLATED, ST_OFF, ST_RESTORE
<1>2. QED BY <1>1, InvAlways, PTL DEF Spec, PowerSwitchesIsolated
===============================================================================
