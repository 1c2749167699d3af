---------------------------- MODULE MCIntercept ----------------------------
(* Instances of Intercept for TLC. *)
EXTENDS Intercept

CONSTANTS m, a

AllSyscalls == Kinds
=============================================================================
