---------------------------- MODULE PhoneFormat ----------------------------
(***************************************************************************)
(* Telephone numbers as they are written, a sequence of characters, and as *)
(* leads.phone stores them.  Of the characters only the digits and the     *)
(* plus sign are told apart from the rest.                                 *)
(***************************************************************************)
EXTENDS Characters

\* Digits and plus signs are kept; behind a leading + only digits are.  What has
\* neither gives the empty string, which is not NULL.
NormalisePhone(written) ==
  LET kept == Only(written, Digit \cup {"+"}) IN
  IF kept # <<>> /\ Head(kept) = "+"
  THEN <<"+">> \o Only(Tail(kept), Digit)
  ELSE kept
=============================================================================
