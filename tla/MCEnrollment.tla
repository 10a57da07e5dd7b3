---------------------------- MODULE MCEnrollment ----------------------------
(***************************************************************************)
(* The module TLC runs for Enrollment.                                     *)
(***************************************************************************)
EXTENDS Enrollment, TLC

RelaySymmetry == Permutations(Relays)

=============================================================================
