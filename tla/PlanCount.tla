------------------------------ MODULE PlanCount ------------------------------
(***************************************************************************)
(* What the planner promises about the number of schedule plans of a       *)
(* student who works in one tab: there always is one, and never more than  *)
(* a limit; plans come and go one at a time.                               *)
(***************************************************************************)
EXTENDS Naturals
CONSTANT Limit
VARIABLE count

Init == count \in 1 .. Limit
Gain == count < Limit /\ count' = count + 1
Lose == count > 1 /\ count' = count - 1
Spec == Init /\ [][Gain \/ Lose]_count
==============================================================================
