------------------------------ MODULE MCFactory ------------------------------
(***************************************************************************)
(* Instances of Factory for TLC.                                           *)
(***************************************************************************)
EXTENDS Factory

MCGates == <<"recon", "anchoring">>

\* An obstacle of each kind the pipeline tells apart.
MCObstacles == {
  [stage |-> "pack", raises |-> FALSE],       \* no pack authored
  [stage |-> "anchoring", raises |-> TRUE],   \* a gate raises
  [stage |-> "grid", raises |-> TRUE],        \* a condition raises
  [stage |-> "card", raises |-> FALSE]}       \* the scaffold cannot be rendered

NoObstacles == {}
=============================================================================
