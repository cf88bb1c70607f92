------------------------------- MODULE PowerAware -------------------------------
(***************************************************************************)
(* The power-aware domain of rtl/power_aware, wired as in                  *)
(* tests/power_aware_tb.sv: the power controller, the switchable block     *)
(* with its retention register, and the isolation boundary between the     *)
(* block and its consumer.                                                 *)
(*                                                                         *)
(* Requests and data are wires the environment changes at any time; the    *)
(* registers change at a clock edge and at the asynchronous reset.         *)
(***************************************************************************)
EXTENDS Integers

CONSTANTS Data, Zero
ASSUME DataAssumption == Zero \in Data

VARIABLES power_down_req, wake_req, data_in,    \* wires
          state,                                \* of the controller
          state_reg, retained_state,            \* of the switchable block
          seen          \* the word the consumer sampled last without isolation

wires == <<power_down_req, wake_req, data_in>>
vars  == <<wires, state, state_reg, retained_state, seen>>

ST_ON       == 0
ST_SAVE     == 1
ST_ISOLATED == 2
ST_OFF      == 3
ST_RESTORE  == 4
States      == ST_ON .. ST_RESTORE

\* Every state is followed by the next code (a mutant of next_state).
next_state_counts ==
  IF (state = ST_ON /\ ~ power_down_req) \/ (state = ST_OFF /\ ~ wake_req) THEN state
  ELSE state + 1

\* The cycle that isolates is left out (a mutant of next_state).
next_state_skips ==
  IF state = ST_ON THEN (IF power_down_req THEN ST_SAVE ELSE ST_ON)
  ELSE IF state = ST_SAVE THEN ST_OFF
  ELSE IF state = ST_OFF THEN (IF wake_req THEN ST_RESTORE ELSE ST_OFF)
  ELSE ST_ON

\* The controller waits for the end of the request to power down (a mutant of
\* next_state).
next_state_waits ==
  IF state = ST_ON THEN (IF power_down_req THEN ST_SAVE ELSE ST_ON)
  ELSE IF state = ST_SAVE THEN ST_ISOLATED
  ELSE IF state = ST_ISOLATED THEN ST_OFF
  ELSE IF state = ST_OFF THEN (IF wake_req /\ ~ power_down_req THEN ST_RESTORE ELSE ST_OFF)
  ELSE ST_ON

next_state ==
  IF state = ST_ON THEN (IF power_down_req THEN ST_SAVE ELSE ST_ON)
  ELSE IF state = ST_SAVE THEN ST_ISOLATED
  ELSE IF state = ST_ISOLATED THEN ST_OFF
  ELSE IF state = ST_OFF THEN (IF wake_req THEN ST_RESTORE ELSE ST_OFF)
  ELSE ST_ON

\* Outputs of the controller; codes beyond the five behave as ST_ON.
domain_on    == state # ST_OFF
isolation_en == state \in {ST_ISOLATED, ST_OFF, ST_RESTORE}
save_req     == state = ST_SAVE
restore_req  == state = ST_RESTORE

\* The outputs of the block and of the boundary.
switchable_data_out == IF domain_on THEN state_reg ELSE Zero
data_out            == IF isolation_en THEN Zero ELSE switchable_data_out

-------------------------------------------------------------------------------
Init == /\ power_down_req = FALSE /\ wake_req = FALSE /\ data_in = Zero
        /\ state = ST_ON
        /\ state_reg = Zero /\ retained_state = Zero /\ seen = Zero

\* The environment changes its wires, one at a time.
Drive == /\ \/ power_down_req' = ~ power_down_req /\ UNCHANGED <<wake_req, data_in>>
            \/ wake_req' = ~ wake_req /\ UNCHANGED <<power_down_req, data_in>>
            \/ data_in' \in Data /\ UNCHANGED <<power_down_req, wake_req>>
         /\ UNCHANGED <<state, state_reg, retained_state, seen>>

Reset == /\ state' = ST_ON
         /\ state_reg' = Zero /\ retained_state' = Zero /\ seen' = Zero
         /\ UNCHANGED wires

\* The block samples its input in the cycle it is saved in (a mutant of
\* saved_state).
saved_state_late == IF domain_on /\ save_req THEN data_in ELSE retained_state

saved_state == IF domain_on /\ save_req THEN state_reg ELSE retained_state

\* The restore is overtaken by the data (a mutant of next_reg).
next_reg_samples == IF domain_on THEN data_in ELSE state_reg

\* The block goes on sampling its input while it is saved and isolated.
next_reg == IF ~ domain_on THEN state_reg
            ELSE IF restore_req THEN retained_state ELSE data_in

Edge == /\ state' = next_state
        /\ retained_state' = saved_state
        /\ state_reg' = next_reg
        /\ seen' = IF isolation_en THEN seen ELSE data_out
        /\ UNCHANGED wires

Next == Drive \/ Reset \/ Edge

\* The clock does not stop.
Spec == Init /\ [][Next]_vars /\ WF_vars(Edge)

-------------------------------------------------------------------------------
TypeOK ==
  /\ power_down_req \in BOOLEAN /\ wake_req \in BOOLEAN /\ data_in \in Data
  /\ state \in States
  /\ state_reg \in Data /\ retained_state \in Data /\ seen \in Data

\* The retention register keeps the word the consumer saw last: although the block
\* goes on sampling its input until the power is gone, only the word of the SAVE
\* cycle, the last one without isolation, is what is kept.
RetainsLastSeen == isolation_en => retained_state = seen

\* The first word the consumer sees after a power cycle is the last it saw before,
\* whatever happened to the input and the requests in between.
WakeIsTransparent ==
  [][isolation_en /\ ~ isolation_en' => data_out' = seen']_vars

\* The power of the domain comes and goes behind the isolation only; a reset
\* switches both at once and shows zero.
PowerSwitchesIsolated ==
  [][domain_on # domain_on' => \/ isolation_en /\ isolation_en'
                               \/ Reset]_vars

\* A request to wake is heard in ST_OFF only, so a pulse may be lost; one that is
\* held is served from every state, and whatever the other request does.
HeldWakeIsServed == wake_req ~> (~ wake_req \/ ~ isolation_en)
===============================================================================
