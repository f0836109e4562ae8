-------------------------- MODULE MCStepsTemplate --------------------------
(***************************************************************************)
(* Instances of StepsTemplate for TLC.                                     *)
(***************************************************************************)
EXTENDS StepsTemplate

MCName == {"", "a", "b", "c"}
Sound(n) == [name |-> n, refs |-> 1, sound |-> TRUE]
MCStep == {Sound("a"), Sound("b"), [name |-> "c", refs |-> 2, sound |-> TRUE]}
==============================================================================
