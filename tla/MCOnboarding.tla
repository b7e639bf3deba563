---------------------------- MODULE MCOnboarding ----------------------------
(***************************************************************************)
(* Two requests of one user.                                               *)
(***************************************************************************)
EXTENDS Onboarding, TLC

CONSTANTS p1, p2, u1

OneUser == [p \in Posts |-> u1]

=============================================================================
