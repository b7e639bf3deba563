--------------------------- MODULE MCLeadPrivacy ---------------------------
(***************************************************************************)
(* An old contact of phone p1 and a newer one of p2; two more events of p1 *)
(* arrive; two requests ask to erase p1.                                   *)
(***************************************************************************)
EXTENDS LeadPrivacy, TLC

CONSTANTS e1, e2, e3, e4, r1, r2, p1, p2

PhoneOfThem == [e \in Events |-> IF e = e2 THEN p2 ELSE p1]
BothAskForP1 == r1 :> p1 @@ r2 :> p1

=============================================================================
