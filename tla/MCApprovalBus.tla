--------------------------- MODULE MCApprovalBus ---------------------------
(* TLC instance of ApprovalBus.                                            *)
EXTENDS ApprovalBus, TLC

OpsSymmetry == Permutations(Ops)
=============================================================================
