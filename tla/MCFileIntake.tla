---------------------------- MODULE MCFileIntake ----------------------------
(***************************************************************************)
(* An instance of FileIntake for TLC: which rows the files hold, and what  *)
(* stands in their cells.                                                  *)
(***************************************************************************)
EXTENDS FileIntake, TLC

CONSTANTS u1, u2, u3, u4, r1, r2, r3, w1

\* A short file; its first row alone, uploaded for itself; a longer file with a
\* ragged row before both of them; and one with too many rows.
Files == u1 :> <<r1, r2>> @@ u4 :> <<r1>> @@ u2 :> <<r3, r1, r2>>
      @@ u3 :> <<r3, r3, r3, r3>>

\* A card number of 13 digits and one of 14 that is none; an account's branch
\* code; identity numbers behind a full stop, with a tab in it, and inside a longer
\* word; a remark.
Card == <<"4", "2", "2", "2", "2", "2", "2", "2", "2", "2", "2", "2", "2">>
Order == <<"4", "2", "2", "2", "2", "2", "2", "2", "2", "2", "2", "2", "2", "7">>
Branch == <<"a", "a", "a", "a", "0", "1", "2", "A", "9", "a", "3">>
Tabbed == <<"1", "2", "3", "4", "tab", "5", "6", "7", "8", "-", "9", "0", "1", "2">>
Person == <<"a", ".", "1", "2", "3", "4", " ", "5", "6", "7", "8", "-", "9", "0", "1", "2">>
Suffixed == <<"1", "2", "3", "4", "5", "6", "7", "8", "9", "0", "1", "2", "_", "a">>
Remark == <<"a", " ", "1", "2">>
Cells == r1 :> {Card, Order, Branch} @@ r2 :> {Person, Tabbed, Suffixed, Remark} @@ r3 :> {}
=============================================================================
