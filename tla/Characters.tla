----------------------------- MODULE Characters -----------------------------
(***************************************************************************)
(* Texts are sequences of characters.  re.sub with a character class, by   *)
(* which telephone numbers and card numbers are cleaned, keeps the         *)
(* characters of a set and their order.                                    *)
(***************************************************************************)
EXTENDS Integers, Sequences

Digit == {"0", "1", "2", "3", "4", "5", "6", "7", "8", "9"}

\* re.sub(r"[^...]", "", s), keep being the characters the class lists.
Only(s, keep) ==
  LET kept[n \in 0..Len(s)] ==
        IF n = 0 THEN <<>>
        ELSE IF s[n] \in keep THEN Append(kept[n - 1], s[n]) ELSE kept[n - 1]
  IN kept[Len(s)]
=============================================================================
