---------------------------- MODULE MCApprovalFlow ----------------------------
(* Small instances of ApprovalFlow for TLC.                                *)
EXTENDS ApprovalFlow, TLC

FlowSymmetry == Permutations(Workers) \cup Permutations(Callers)
=============================================================================
