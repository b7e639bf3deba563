----------------------------- MODULE DataPolicy -----------------------------
(***************************************************************************)
(* Which cells of an uploaded row hold a regulated identifier.  A cell is  *)
(* a sequence of ASCII characters.  The regular expressions tell apart the *)
(* digits, letters (one in each case here), the underscore (a word         *)
(* character), the blank and the hyphen, the other white space (a tab      *)
(* here) and whatever else ends a word (a full stop here).                 *)
(***************************************************************************)
EXTENDS Characters

Value(d) ==
  CASE d = "0" -> 0 [] d = "1" -> 1 [] d = "2" -> 2 [] d = "3" -> 3 [] d = "4" -> 4
    [] d = "5" -> 5 [] d = "6" -> 6 [] d = "7" -> 7 [] d = "8" -> 8 [] d = "9" -> 9
Letter == {"A"}
Separator == {" ", "-"}
Word == Digit \cup Letter \cup {"a", "_"}
Character == Word \cup Separator \cup {"tab", "."}

Upper(cell) == [k \in 1..Len(cell) |-> IF cell[k] = "a" THEN "A" ELSE cell[k]]

\* \b between positions i and i + 1.
InWord(s, i) == i \in 1..Len(s) /\ s[i] \in Word
Boundary(s, i) == InWord(s, i) # InWord(s, i + 1)

\* re.search(\b<shape>\b, s), a shape being one set of characters per position.
Contains(s, shape) ==
  \E i \in 0..(Len(s) - Len(shape)) :
    /\ Boundary(s, i) /\ Boundary(s, i + Len(shape))
    /\ \A k \in 1..Len(shape) : s[i + k] \in shape[k]

\* Twelve digits, with or without white space or a hyphen behind the fourth and the
\* eighth.
Grouped(n, gaps) == [k \in 1..n |-> IF k \in gaps THEN Separator \cup {"tab"} ELSE Digit]
Aadhaar == {Grouped(12, {}), Grouped(13, {5}), Grouped(13, {9}), Grouped(14, {5, 10})}
Pan == [k \in 1..10 |-> IF k \in 6..9 THEN Digit ELSE Letter]
Ifsc == [k \in 1..11 |-> IF k <= 4 THEN Letter ELSE IF k = 5 THEN {"0"}
                         ELSE Letter \cup Digit]
Passport == [k \in 1..8 |-> IF k = 1 THEN Letter ELSE Digit]

\* Fault: a doubled digit is not reduced.
WeighUnreduced(n, fromRight) == IF fromRight % 2 = 1 THEN 2 * n ELSE n

\* Every second digit from the right counts double, reduced by 9 above 9.
Weigh(n, fromRight) ==
  IF fromRight % 2 = 1 THEN (IF 2 * n > 9 THEN 2 * n - 9 ELSE 2 * n) ELSE n

LuhnValid(digits) ==
  LET total[k \in 0..Len(digits)] ==
        IF k = 0 THEN 0
        ELSE total[k - 1] + Weigh(Value(digits[k]), Len(digits) - k)
  IN total[Len(digits)] % 10 = 0

\* _CC_RAW matches s from i to j: 13 to 19 digits, single separators between.
DigitsIn(s, i, j) == Only(SubSeq(s, i, j), Digit)
CardShaped(s, i, j) ==
  /\ Boundary(s, i - 1) /\ Boundary(s, j)
  /\ s[i] \in Digit /\ s[j] \in Digit
  /\ \A k \in i..j : s[k] \in Digit \cup Separator
  /\ \A k \in i..(j - 1) : s[k] \in Digit \/ s[k + 1] \in Digit
  /\ Len(DigitsIn(s, i, j)) \in 13..19

\* finditer: leftmost matches, each as long as it can be, without overlap.
HasCard(s) ==
  LET n == Len(s)
      starts(p) == {i \in p..n : \E j \in i..n : CardShaped(s, i, j)}
      first(p) == CHOOSE i \in starts(p) : \A h \in starts(p) : i <= h
      last(i) == CHOOSE j \in i..n : /\ CardShaped(s, i, j)
                                     /\ \A h \in i..n : CardShaped(s, i, h) => h <= j
      from[p \in 1..(n + 1)] ==
        /\ starts(p) # {}
        /\ LET i == first(p) IN LET j == last(i) IN
           LuhnValid(DigitsIn(s, i, j)) \/ from[j + 1]
  IN from[1]

\* _classify_value: a card, or one of the Indian identifiers, anywhere in it.
Regulated(cell) ==
  LET s == Upper(cell) IN
  \/ HasCard(s)
  \/ \E shape \in Aadhaar \cup {Pan, Ifsc, Passport} : Contains(s, shape)

\* strip_sensitive_fields: the cells that may be stored.
Strip(cells) == {cell \in cells : ~Regulated(cell)}
=============================================================================
