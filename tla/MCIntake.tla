------------------------------- MODULE MCIntake -------------------------------
(* Small instances of Intake for TLC.                                      *)
EXTENDS Intake, TLC

IntakeSymmetry ==
    Permutations(Workers) \cup Permutations(Callers) \cup Permutations(Deliveries)
    \cup Permutations(Messages) \cup Permutations(Profiles) \cup Permutations(Parses)
=============================================================================
