-------------------------- MODULE CharacterProofs --------------------------
(***************************************************************************)
(* What cleaning a text, weighing its digits and looking for a card number *)
(* in it compute, for texts of every length.  The definitions recurse over *)
(* the positions of a text: that such a recursion has a value, and what is *)
(* true of it, is proved by induction over sets of natural numbers.        *)
(***************************************************************************)
EXTENDS PhoneFormat, DataPolicy, SequenceTheorems, WellFoundedInduction, TLAPS

-----------------------------------------------------------------------------
(* Induction.                                                              *)

LEMMA LeastNumber ==
  ASSUME NEW T, T \subseteq Nat, T # {}
  PROVE  \E m \in T : \A k \in T : m <= k
<1> DEFINE R == OpToRel(<, Nat)
<1>1. IsWellFoundedOn(R, Nat)
  BY NatLessThanWellFounded
<1>2. R = {ss \in Nat \X Nat : ss[1] < ss[2]}
  BY DEF OpToRel
<1> HIDE DEF R
<1>3. PICK m \in T : \A k \in T : <<k, m>> \notin R
  BY <1>1, WFMin
<1>4. \A k \in T : ~(k < m)
  BY <1>2, <1>3
<1> QED
  BY <1>3, <1>4

LEMMA Induct ==
  ASSUME NEW S, 0 \in S, \A n \in Nat : n \in S => n + 1 \in S
  PROVE  Nat \subseteq S
<1> SUFFICES ASSUME Nat \ S # {} PROVE FALSE
  OBVIOUS
<1>1. PICK m \in Nat \ S : \A k \in Nat \ S : m <= k
  BY LeastNumber
<1>2. m - 1 \in Nat /\ m - 1 \in S
  BY <1>1
<1> QED
  BY <1>1, <1>2

\* The functions on 0..N that start at v0 and go from value to value by step.
Runs(N, V, v0, step) ==
  {f \in [0..N -> V] : f[0] = v0 /\ \A n \in 1..N : f[n] = step[<<f[n - 1], n>>]}

LEMMA FiniteRecursion ==
  ASSUME NEW N \in Nat, NEW V, NEW v0 \in V, NEW step \in [V \X (1..N) -> V]
  PROVE  Runs(N, V, v0, step) # {}
<1> DEFINE Good(k, f) == f[0] = v0 /\ \A n \in 1..k : f[n] = step[<<f[n - 1], n>>]
           S == {k \in Nat : k <= N => \E f \in [0..k -> V] : Good(k, f)}
<1>1. 0 \in S
  <2>1. [n \in 0..0 |-> v0] \in [0..0 -> V] /\ Good(0, [n \in 0..0 |-> v0])
    OBVIOUS
  <2> QED
    BY <2>1
<1>2. ASSUME NEW k \in Nat, k \in S PROVE k + 1 \in S
  <2> SUFFICES ASSUME k + 1 <= N PROVE \E f \in [0..(k + 1) -> V] : Good(k + 1, f)
    OBVIOUS
  <2>1. PICK f \in [0..k -> V] : Good(k, f)
    BY <1>2
  <2> DEFINE g == [n \in 0..(k + 1) |-> IF n = k + 1 THEN step[<<f[k], k + 1>>] ELSE f[n]]
  <2>2. g \in [0..(k + 1) -> V]
    <3>1. <<f[k], k + 1>> \in V \X (1..N)
      OBVIOUS
    <3> QED
      BY <3>1
  <2>3. g[0] = v0
    BY <2>1
  <2>4. ASSUME NEW n \in 1..(k + 1) PROVE g[n] = step[<<g[n - 1], n>>]
    BY <2>1
  <2> QED
    BY <2>2, <2>3, <2>4
<1>3. N \in S
  BY <1>1, <1>2, Induct
<1> QED
  BY <1>3 DEF Runs

-----------------------------------------------------------------------------
(* Cleaning a text.                                                        *)

\* What is kept of a text up to each position.
KeptUpTo(C, s, keep) ==
  {f \in [0..Len(s) -> Seq(C \cap keep)] :
     /\ f[0] = <<>>
     /\ \A n \in 1..Len(s) : f[n] = IF s[n] \in keep THEN Append(f[n - 1], s[n]) ELSE f[n - 1]
     /\ Only(s, keep) = f[Len(s)]}

\* Only works through a text position by position.
LEMMA OnlyByPosition ==
  ASSUME NEW C, NEW s \in Seq(C), NEW keep
  PROVE  KeptUpTo(C, s, keep) # {}
<1> DEFINE N == Len(s)
           V == Seq(C \cap keep)
           step == [x \in V \X (1..N) |->
                      IF s[x[2]] \in keep THEN Append(x[1], s[x[2]]) ELSE x[1]]
           Eq(f) == f = [n \in 0..N |->
                      IF n = 0 THEN <<>>
                      ELSE IF s[n] \in keep THEN Append(f[n - 1], s[n]) ELSE f[n - 1]]
<1>1. N \in Nat /\ <<>> \in V
  OBVIOUS
<1>2. step \in [V \X (1..N) -> V]
  <2>1. ASSUME NEW v \in V, NEW n \in 1..N, s[n] \in keep PROVE Append(v, s[n]) \in V
    BY <2>1
  <2> QED
    BY <2>1
<1> DEFINE empty == <<>>
<1>3. Runs(N, V, empty, step) # {}
  <2>1. empty \in V
    BY <1>1
  <2> HIDE DEF V, step, N, empty, Eq
  <2> QED
    BY <1>1, <1>2, <2>1, FiniteRecursion
<1>4. PICK g \in [0..N -> V] : g[0] = <<>> /\ \A n \in 1..N : g[n] = step[<<g[n - 1], n>>]
  <2> HIDE DEF V, step, N
  <2> QED
    BY <1>3 DEF Runs
<1> HIDE DEF N
<1>5. Eq(g)
  <2>1. ASSUME NEW n \in 1..N
        PROVE  g[n] = IF s[n] \in keep THEN Append(g[n - 1], s[n]) ELSE g[n - 1]
    <3> HIDE DEF V
    <3>1. n - 1 \in 0..N /\ g[n - 1] \in V
      BY <1>1
    <3>2. <<g[n - 1], n>> \in V \X (1..N)
      BY <3>1
    <3> QED
      BY <1>4, <3>2
  <2>2. DOMAIN g = 0..N /\ g = [n \in 0..N |-> g[n]] /\ g[0] = <<>>
    BY <1>4
  <2>3. \A n \in 0..N : n # 0 => n \in 1..N
    BY <1>1
  <2> QED
    BY <2>1, <2>2, <2>3
<1> DEFINE h == CHOOSE f : Eq(f)
<1>6. Eq(h)
  <2> HIDE DEF Eq
  <2> QED
    BY <1>5
<1>7. Only(s, keep) = h[N]
  BY DEF Only, N
<1> HIDE DEF h
<1>8. /\ h[0] = <<>>
      /\ \A n \in 1..N : h[n] = IF s[n] \in keep THEN Append(h[n - 1], s[n]) ELSE h[n - 1]
  <2>1. 0 \in 0..N /\ \A n \in 1..N : n \in 0..N /\ n # 0
    BY <1>1
  <2>2. \A n \in 0..N : h[n] = IF n = 0 THEN <<>>
                     ELSE IF s[n] \in keep THEN Append(h[n - 1], s[n]) ELSE h[n - 1]
    BY <1>6
  <2> QED
    BY <2>1, <2>2
<1>9. h \in [0..N -> V]
  <2> DEFINE S == {n \in Nat : n <= N => h[n] \in V}
  <2>1. 0 \in S
    BY <1>1, <1>8
  <2>2. ASSUME NEW n \in Nat, n \in S PROVE n + 1 \in S
    <3> SUFFICES ASSUME n + 1 <= N PROVE h[n + 1] \in V
      OBVIOUS
    <3>1. n + 1 \in 1..N /\ (n + 1) - 1 = n /\ h[n] \in V
      BY <2>2, <1>1
    <3>2. h[n + 1] = IF s[n + 1] \in keep THEN Append(h[n], s[n + 1]) ELSE h[n]
      BY <1>8, <3>1
    <3>3. s[n + 1] \in keep => Append(h[n], s[n + 1]) \in V
      BY <3>1 DEF N
    <3> QED
      BY <3>1, <3>2, <3>3
  <2> HIDE DEF V
  <2>3. \A n \in Nat : n \in S
    <3> HIDE DEF S
    <3> QED
      BY <2>1, <2>2, Induct
  <2>4. \A n \in 0..N : h[n] \in V
    BY <1>1, <2>3
  <2>5. h = [n \in 0..N |-> h[n]]
    BY <1>6
  <2> QED
    BY <2>4, <2>5
<1>10. h \in KeptUpTo(C, s, keep)
  BY <1>7, <1>8, <1>9 DEF N, KeptUpTo
<1> QED
  BY <1>10

\* The characters kept are among those the class lists.
LEMMA OnlyType ==
  ASSUME NEW C, NEW s \in Seq(C), NEW keep
  PROVE  Only(s, keep) \in Seq(C \cap keep)
BY OnlyByPosition DEF KeptUpTo

\* A text of listed characters is left as it is.
LEMMA OnlyIdentity ==
  ASSUME NEW keep, NEW s \in Seq(keep)
  PROVE  Only(s, keep) = s
<1>p. PICK kept \in KeptUpTo(keep, s, keep) : TRUE
  BY OnlyByPosition
<1>1. /\ kept \in [0..Len(s) -> Seq(keep)] /\ kept[0] = <<>>
      /\ \A n \in 1..Len(s) :
           kept[n] = IF s[n] \in keep THEN Append(kept[n - 1], s[n]) ELSE kept[n - 1]
      /\ Only(s, keep) = kept[Len(s)]
  <2>1. keep \cap keep = keep
    OBVIOUS
  <2> QED
    BY <2>1 DEF KeptUpTo
<1> DEFINE S == {n \in Nat : n <= Len(s) =>
                   Len(kept[n]) = n /\ \A k \in 1..n : kept[n][k] = s[k]}
<1>2. 0 \in S
  BY <1>1
<1>3. ASSUME NEW n \in Nat, n \in S PROVE n + 1 \in S
  <2> SUFFICES ASSUME n + 1 <= Len(s)
               PROVE  Len(kept[n + 1]) = n + 1 /\ \A k \in 1..(n + 1) : kept[n + 1][k] = s[k]
    OBVIOUS
  <2>1. n + 1 \in 1..Len(s) /\ n \in 0..Len(s) /\ (n + 1) - 1 = n
    OBVIOUS
  <2>2. kept[n] \in Seq(keep) /\ s[n + 1] \in keep
    BY <1>1, <2>1
  <2>3. kept[n + 1] = Append(kept[n], s[n + 1])
    BY <1>1, <2>1, <2>2
  <2>4. Len(kept[n]) = n /\ \A k \in 1..n : kept[n][k] = s[k]
    BY <1>3, <2>1
  <2> HIDE DEF S
  <2> QED
    BY <2>2, <2>3, <2>4, AppendProperties
<1>4. Len(s) \in S
  <2> HIDE DEF S
  <2> QED
    BY <1>2, <1>3, Induct
<1>5. kept[Len(s)] \in Seq(keep) /\ Len(kept[Len(s)]) = Len(s)
  BY <1>1, <1>4
<1> QED
  BY <1>1, <1>4, <1>5, SeqEqual

-----------------------------------------------------------------------------
(* Telephone numbers.                                                      *)

\* A number that has been brought into the form leads.phone stores keeps it: the
\* stored phone, cleaned again, finds its own lead (normalise_phone).
THEOREM NormaliseIdempotent ==
  ASSUME NEW C, NEW written \in Seq(C)
  PROVE  NormalisePhone(NormalisePhone(written)) = NormalisePhone(written)
<1> DEFINE Key == Digit \cup {"+"}
           kept == Only(written, Key)
           key == NormalisePhone(written)
<1>1. kept \in Seq(Key)
  <2>1. kept \in Seq(C \cap Key)
    BY OnlyType
  <2> QED
    BY <2>1, SeqMonotonic
<1>2. CASE kept # <<>> /\ Head(kept) = "+"
  <2> DEFINE rest == Only(Tail(kept), Digit)
  <2>1. key = <<"+">> \o rest
    BY <1>2 DEF NormalisePhone
  <2>2. rest \in Seq(Digit)
    <3>1. Tail(kept) \in Seq(Key)
      BY <1>1, <1>2, HeadTailProperties
    <3>2. rest \in Seq(Key \cap Digit)
      BY <3>1, OnlyType
    <3> QED
      BY <3>2, SeqMonotonic
  <2> HIDE DEF rest
  <2>3. key \in Seq(Key) /\ key # <<>> /\ Head(key) = "+" /\ Tail(key) = rest
    <3>1. rest \in Seq(Key) /\ <<"+">> \in Seq(Key) /\ Len(<<"+">>) = 1
      BY <2>2, SeqMonotonic
    <3>2. /\ key \in Seq(Key) /\ Len(key) = 1 + Len(rest) /\ key[1] = "+"
          /\ \A i \in 1..Len(rest) : key[i + 1] = rest[i]
      <4> HIDE DEF key
      <4>1. /\ key \in Seq(Key) /\ Len(key) = 1 + Len(rest)
            /\ \A i \in 1..(1 + Len(rest)) :
                 key[i] = IF i <= 1 THEN <<"+">>[i] ELSE rest[i - 1]
        BY <2>1, <3>1, ConcatProperties
      <4> QED
        BY <3>1, <4>1
    <3>3. key # <<>> /\ Head(key) = "+"
      BY <3>2
    <3>4. Tail(key) \in Seq(Key) /\ Len(Tail(key)) = Len(rest)
          /\ \A i \in 1..Len(rest) : Tail(key)[i] = rest[i]
      <4> HIDE DEF key
      <4> QED
        BY <3>1, <3>2, <3>3, HeadTailProperties
    <3> HIDE DEF key
    <3> QED
      BY <3>1, <3>2, <3>3, <3>4, SeqEqual
  <2>4. Only(key, Key) = key /\ Only(Tail(key), Digit) = rest
    <3> HIDE DEF key
    <3> QED
      BY <2>2, <2>3, OnlyIdentity
  <2>5. NormalisePhone(key) = <<"+">> \o rest
    <3> HIDE DEF key
    <3> QED
      BY <2>3, <2>4 DEF NormalisePhone
  <2> QED
    BY <2>1, <2>5
<1>3. CASE ~(kept # <<>> /\ Head(kept) = "+")
  <2>1. key = kept
    BY <1>3 DEF NormalisePhone
  <2>2. Only(key, Key) = key
    BY <1>1, <2>1, OnlyIdentity
  <2> QED
    BY <1>3, <2>1, <2>2 DEF NormalisePhone
<1> QED
  BY <1>2, <1>3

\* A text is cleaned by cleaning all of it but the last character first.
LEMMA OnlyAppend ==
  ASSUME NEW C, NEW t \in Seq(C), NEW c \in C, NEW keep
  PROVE  Only(Append(t, c), keep) =
           IF c \in keep THEN Append(Only(t, keep), c) ELSE Only(t, keep)
<1> DEFINE s == Append(t, c)
<1>1. s \in Seq(C) /\ Len(s) = Len(t) + 1 /\ Len(t) \in Nat /\ s[Len(t) + 1] = c
      /\ \A n \in 1..Len(t) : s[n] = t[n]
  BY AppendProperties
<1>f. PICK f \in KeptUpTo(C, t, keep) : TRUE
  BY OnlyByPosition
<1>2. /\ f[0] = <<>>
      /\ \A n \in 1..Len(t) : f[n] = IF t[n] \in keep THEN Append(f[n - 1], t[n]) ELSE f[n - 1]
      /\ Only(t, keep) = f[Len(t)]
  BY Zenon DEF KeptUpTo
<1> HIDE DEF s
<1>g. PICK g \in KeptUpTo(C, s, keep) : TRUE
  BY <1>1, OnlyByPosition
<1>3. /\ g[0] = <<>>
      /\ \A n \in 1..Len(s) : g[n] = IF s[n] \in keep THEN Append(g[n - 1], s[n]) ELSE g[n - 1]
      /\ Only(s, keep) = g[Len(s)]
  BY Zenon DEF KeptUpTo
<1> DEFINE S == {n \in Nat : n <= Len(t) => g[n] = f[n]}
<1>4. 0 \in S
  BY <1>2, <1>3
<1>5. ASSUME NEW n \in Nat, n \in S PROVE n + 1 \in S
  <2> SUFFICES ASSUME n + 1 <= Len(t) PROVE g[n + 1] = f[n + 1]
    OBVIOUS
  <2>1. n + 1 \in 1..Len(t) /\ n + 1 \in 1..Len(s) /\ (n + 1) - 1 = n /\ g[n] = f[n]
    BY <1>1, <1>5
  <2>2. s[n + 1] = t[n + 1]
    BY <1>1, <2>1
  <2> QED
    BY <1>2, <1>3, <2>1, <2>2
<1>6. Len(t) \in S
  <2> HIDE DEF S
  <2> QED
    BY <1>1, <1>4, <1>5, Induct
<1>7. g[Len(t)] = Only(t, keep)
  BY <1>1, <1>2, <1>6
<1>8. Len(s) \in 1..Len(s) /\ Len(s) - 1 = Len(t) /\ s[Len(s)] = c
  BY <1>1
<1>9. Only(s, keep) = IF c \in keep THEN Append(Only(t, keep), c) ELSE Only(t, keep)
  BY <1>3, <1>7, <1>8
<1> QED
  BY <1>9 DEF s

\* A first character that is not kept does not matter.
LEMMA OnlyDropsFirst ==
  ASSUME NEW C, NEW t \in Seq(C), NEW c \in C, NEW keep, c \notin keep
  PROVE  Only(<<c>> \o t, keep) = Only(t, keep)
<1> DEFINE s == <<c>> \o t
<1>1. s \in Seq(C) /\ Len(s) = Len(t) + 1 /\ Len(t) \in Nat /\ s[1] = c
      /\ \A n \in 1..Len(t) : s[n + 1] = t[n]
  <2>1. <<c>> \in Seq(C) /\ Len(<<c>>) = 1 /\ <<c>>[1] = c
    OBVIOUS
  <2>2. /\ s \in Seq(C) /\ Len(s) = 1 + Len(t)
        /\ \A i \in 1..(1 + Len(t)) : s[i] = IF i <= 1 THEN <<c>>[i] ELSE t[i - 1]
    <3>1. \A a, b \in Seq(C) : Len(a) = 1 =>
            /\ a \o b \in Seq(C) /\ Len(a \o b) = 1 + Len(b)
            /\ \A i \in 1..(1 + Len(b)) : (a \o b)[i] = IF i <= 1 THEN a[i] ELSE b[i - 1]
      <4> SUFFICES ASSUME NEW a \in Seq(C), NEW b \in Seq(C), Len(a) = 1
                   PROVE  /\ a \o b \in Seq(C) /\ Len(a \o b) = 1 + Len(b)
                          /\ \A i \in 1..(1 + Len(b)) :
                               (a \o b)[i] = IF i <= 1 THEN a[i] ELSE b[i - 1]
        OBVIOUS
      <4> HIDE DEF s
      <4>1. /\ a \o b \in Seq(C) /\ Len(a \o b) = Len(a) + Len(b)
            /\ \A i \in 1..(Len(a) + Len(b)) :
                 (a \o b)[i] = IF i <= Len(a) THEN a[i] ELSE b[i - Len(a)]
        BY ConcatProperties
      <4> QED
        BY <4>1
    <3> QED
      BY <2>1, <3>1
  <2> HIDE DEF s
  <2> QED
    BY <2>1, <2>2
<1>f. PICK f \in KeptUpTo(C, t, keep) : TRUE
  BY OnlyByPosition
<1>2. /\ f[0] = <<>>
      /\ \A n \in 1..Len(t) : f[n] = IF t[n] \in keep THEN Append(f[n - 1], t[n]) ELSE f[n - 1]
      /\ Only(t, keep) = f[Len(t)]
  BY Zenon DEF KeptUpTo
<1> HIDE DEF s
<1>g. PICK g \in KeptUpTo(C, s, keep) : TRUE
  BY <1>1, OnlyByPosition
<1>3. /\ g[0] = <<>>
      /\ \A n \in 1..Len(s) : g[n] = IF s[n] \in keep THEN Append(g[n - 1], s[n]) ELSE g[n - 1]
      /\ Only(s, keep) = g[Len(s)]
  BY Zenon DEF KeptUpTo
<1> DEFINE S == {n \in Nat : n <= Len(t) => g[n + 1] = f[n]}
<1>4. 0 \in S
  <2>1. 1 \in 1..Len(s) /\ 1 - 1 = 0
    BY <1>1
  <2> QED
    BY <1>1, <1>2, <1>3, <2>1
<1>5. ASSUME NEW n \in Nat, n \in S PROVE n + 1 \in S
  <2> SUFFICES ASSUME n + 1 <= Len(t) PROVE g[(n + 1) + 1] = f[n + 1]
    OBVIOUS
  <2>1. /\ n + 1 \in 1..Len(t) /\ (n + 1) + 1 \in 1..Len(s)
        /\ (n + 1) - 1 = n /\ ((n + 1) + 1) - 1 = n + 1 /\ g[n + 1] = f[n]
    BY <1>1, <1>5
  <2>2. s[(n + 1) + 1] = t[n + 1]
    BY <1>1, <2>1
  <2> QED
    BY <1>2, <1>3, <2>1, <2>2
<1>6. Len(t) \in S
  <2> HIDE DEF S
  <2> QED
    BY <1>1, <1>4, <1>5, Induct
<1>7. Only(s, keep) = Only(t, keep)
  BY <1>1, <1>2, <1>3, <1>6
<1> QED
  BY <1>7 DEF s

\* Cleaning once for a smaller class is cleaning for both, one after the other.
LEMMA OnlyTwice ==
  ASSUME NEW C, NEW s \in Seq(C), NEW keep, NEW less, less \subseteq keep
  PROVE  Only(Only(s, keep), less) = Only(s, less)
<1>f. PICK f \in KeptUpTo(C, s, keep) : TRUE
  BY OnlyByPosition
<1>1. /\ f[0] = <<>>
      /\ \A n \in 1..Len(s) : f[n] = IF s[n] \in keep THEN Append(f[n - 1], s[n]) ELSE f[n - 1]
      /\ Only(s, keep) = f[Len(s)]
  BY Zenon DEF KeptUpTo
<1>g. PICK g \in KeptUpTo(C, s, less) : TRUE
  BY OnlyByPosition
<1>2. /\ g[0] = <<>>
      /\ \A n \in 1..Len(s) : g[n] = IF s[n] \in less THEN Append(g[n - 1], s[n]) ELSE g[n - 1]
      /\ Only(s, less) = g[Len(s)]
  BY Zenon DEF KeptUpTo
<1> DEFINE S == {n \in Nat : n <= Len(s) => Only(f[n], less) = g[n]}
<1>3. 0 \in S
  <2>1. <<>> \in Seq(less)
    OBVIOUS
  <2>2. Only(<<>>, less) = <<>>
    BY <2>1, OnlyIdentity
  <2> QED
    BY <1>1, <1>2, <2>2
<1>4. ASSUME NEW n \in Nat, n \in S PROVE n + 1 \in S
  <2> SUFFICES ASSUME n + 1 <= Len(s) PROVE Only(f[n + 1], less) = g[n + 1]
    OBVIOUS
  <2>1. n + 1 \in 1..Len(s) /\ n \in 0..Len(s) /\ (n + 1) - 1 = n /\ Only(f[n], less) = g[n]
    BY <1>4
  <2>2. s[n + 1] \in C /\ f[n] \in Seq(C \cap keep)
    <3>1. f \in [0..Len(s) -> Seq(C \cap keep)]
      BY Zenon DEF KeptUpTo
    <3> QED
      BY <2>1, <3>1
  <2>3. CASE s[n + 1] \in keep
    <3>1. f[n + 1] = Append(f[n], s[n + 1])
      BY <1>1, <2>1, <2>3
    <3>2. Only(Append(f[n], s[n + 1]), less) =
            IF s[n + 1] \in less THEN Append(Only(f[n], less), s[n + 1]) ELSE Only(f[n], less)
      <4> DEFINE D == C \cap keep
                 t == f[n]
                 c == s[n + 1]
      <4>1. t \in Seq(D) /\ c \in D
        BY <2>2, <2>3
      <4> HIDE DEF D, t, c
      <4>2. Only(Append(t, c), less) =
              IF c \in less THEN Append(Only(t, less), c) ELSE Only(t, less)
        BY <4>1, OnlyAppend
      <4> QED
        BY <4>2 DEF t, c
    <3> QED
      BY <1>2, <2>1, <3>1, <3>2
  <2>4. CASE s[n + 1] \notin keep
    <3>1. f[n + 1] = f[n] /\ g[n + 1] = g[n]
      BY <1>1, <1>2, <2>1, <2>4
    <3> QED
      BY <2>1, <3>1
  <2> QED
    BY <2>3, <2>4
<1>5. Len(s) \in S
  <2> HIDE DEF S
  <2> QED
    BY <1>3, <1>4, Induct
<1> QED
  BY <1>1, <1>2, <1>5

\* Whatever is cut from a number, its digits are stored, all of them and in order:
\* two numbers with different digits are never stored as one (normalise_phone).
THEOREM DigitsSurvive ==
  ASSUME NEW C, NEW written \in Seq(C)
  PROVE  Only(NormalisePhone(written), Digit) = Only(written, Digit)
<1> DEFINE Key == Digit \cup {"+"}
           kept == Only(written, Key)
<1>1. kept \in Seq(Key) /\ Only(kept, Digit) = Only(written, Digit)
  <2>1. kept \in Seq(C \cap Key)
    BY OnlyType
  <2>2. Only(kept, Digit) = Only(written, Digit)
    <3>1. Digit \subseteq Key
      OBVIOUS
    <3> HIDE DEF Key
    <3> QED
      BY <3>1, OnlyTwice
  <2> QED
    BY <2>1, <2>2, SeqMonotonic
<1>2. "+" \in Key /\ "+" \notin Digit
  BY DEF Digit
<1>3. CASE kept # <<>> /\ Head(kept) = "+"
  <2> DEFINE rest == Only(Tail(kept), Digit)
  <2>1. NormalisePhone(written) = <<"+">> \o rest
    BY <1>3 DEF NormalisePhone
  <2> HIDE DEF kept
  <2>2. Tail(kept) \in Seq(Key) /\ kept = <<"+">> \o Tail(kept)
    BY <1>1, <1>3, HeadTailProperties
  <2>3. rest \in Seq(Digit)
    <3>1. rest \in Seq(Key \cap Digit)
      BY <2>2, OnlyType
    <3> QED
      BY <3>1, SeqMonotonic
  <2>4. Only(kept, Digit) = rest
    <3>1. Only(<<"+">> \o Tail(kept), Digit) = Only(Tail(kept), Digit)
      <4> DEFINE t == Tail(kept)
      <4>1. t \in Seq(Key)
        BY <2>2
      <4> HIDE DEF Key, t
      <4>2. Only(<<"+">> \o t, Digit) = Only(t, Digit)
        BY <1>2, <4>1, OnlyDropsFirst
      <4> QED
        BY <4>2 DEF t
    <3> QED
      BY <2>2, <3>1
  <2>5. Only(<<"+">> \o rest, Digit) = rest
    <3> HIDE DEF rest
    <3>1. rest \in Seq(Key)
      BY <2>3, SeqMonotonic
    <3>2. Only(rest, Digit) = rest
      BY <2>3, OnlyIdentity
    <3> HIDE DEF Key
    <3> QED
      BY <1>2, <3>1, <3>2, OnlyDropsFirst
  <2> QED
    BY <1>1, <2>1, <2>4, <2>5
<1>4. CASE ~(kept # <<>> /\ Head(kept) = "+")
  <2>1. NormalisePhone(written) = kept
    BY <1>4 DEF NormalisePhone
  <2> QED
    BY <1>1, <2>1
<1> QED
  BY <1>3, <1>4

-----------------------------------------------------------------------------
(* The check digit.                                                        *)

\* Digits have values of their own.
LEMMA ValueOfDigit ==
  /\ \A d \in Digit : Value(d) \in 0..9
  /\ \A c, d \in Digit : Value(c) = Value(d) => c = d
<1>1. /\ Value("0") = 0 /\ Value("1") = 1 /\ Value("2") = 2 /\ Value("3") = 3
      /\ Value("4") = 4 /\ Value("5") = 5 /\ Value("6") = 6 /\ Value("7") = 7
      /\ Value("8") = 8 /\ Value("9") = 9
  BY DEF Value
<1>2. \A d \in Digit : Value(d) \in 0..9
  BY <1>1 DEF Digit
<1>3. ASSUME NEW c \in Digit, NEW d \in Digit, Value(c) = Value(d) PROVE c = d
  BY <1>1, <1>3 DEF Digit
<1> QED
  BY <1>2, <1>3

\* Doubling and reducing keeps digits apart.
LEMMA WeighOfDigit ==
  ASSUME NEW a \in 0..9, NEW b \in 0..9, NEW p
  PROVE  /\ Weigh(a, p) \in 0..9
         /\ Weigh(a, p) = Weigh(b, p) => a = b
BY DEF Weigh

LEMMA Difference ==
  \A a, b \in 0..9 : a # b =>
    a - b \in (-9)..9 /\ a - b # 0 /\ a \in Int /\ b \in Int
OBVIOUS

\* A total moved by less than ten is no longer divisible by ten.
LEMMA NearMultiple ==
  \A x \in Int, e \in (-9)..9 : e # 0 /\ x % 10 = 0 => (x + e) % 10 # 0
OBVIOUS

\* LuhnValid adds up a text of digits position by position.
LEMMA LuhnByPosition ==
  ASSUME NEW s \in Seq(Digit)
  PROVE  \E total \in [0..Len(s) -> Int] :
           /\ total[0] = 0
           /\ \A k \in 1..Len(s) :
                total[k] = total[k - 1] + Weigh(Value(s[k]), Len(s) - k)
           /\ LuhnValid(s) <=> total[Len(s)] % 10 = 0
<1> DEFINE N == Len(s)
           W(k) == Weigh(Value(s[k]), N - k)
           step == [x \in Int \X (1..N) |-> x[1] + W(x[2])]
           Eq(f) == f = [k \in 0..N |-> IF k = 0 THEN 0 ELSE f[k - 1] + W(k)]
<1>1. N \in Nat /\ \A k \in 1..N : W(k) \in Int
  <2>1. ASSUME NEW k \in 1..N PROVE W(k) \in 0..9
    <3>1. Value(s[k]) \in 0..9
      BY ValueOfDigit
    <3> QED
      BY <3>1, WeighOfDigit
  <2> QED
    BY <2>1
<1>2. LuhnValid(s) <=> (CHOOSE f : Eq(f))[N] % 10 = 0
  BY DEF LuhnValid
<1> HIDE DEF N, W
<1>3. step \in [Int \X (1..N) -> Int]
  BY <1>1
<1>4. Runs(N, Int, 0, step) # {}
  <2> DEFINE V == Int
             zero == 0
  <2>1. zero \in V /\ step \in [V \X (1..N) -> V]
    BY <1>3
  <2> HIDE DEF step, V, zero
  <2>2. Runs(N, V, zero, step) # {}
    BY <1>1, <2>1, FiniteRecursion
  <2> QED
    BY <2>2 DEF V, zero
<1>5. PICK g \in [0..N -> Int] : g[0] = 0 /\ \A k \in 1..N : g[k] = step[<<g[k - 1], k>>]
  <2> HIDE DEF step
  <2> QED
    BY <1>4 DEF Runs
<1>6. Eq(g)
  <2>1. ASSUME NEW k \in 1..N PROVE g[k] = g[k - 1] + W(k)
    <3>1. k - 1 \in 0..N /\ g[k - 1] \in Int
      BY <1>1
    <3>2. <<g[k - 1], k>> \in Int \X (1..N)
      BY <3>1
    <3> QED
      BY <1>5, <3>2
  <2>2. DOMAIN g = 0..N /\ g = [k \in 0..N |-> g[k]] /\ g[0] = 0
    BY <1>5
  <2>3. \A k \in 0..N : k # 0 => k \in 1..N
    BY <1>1
  <2> QED
    BY <2>1, <2>2, <2>3
<1> DEFINE h == CHOOSE f : Eq(f)
<1>7. Eq(h)
  <2> HIDE DEF Eq
  <2> QED
    BY <1>6
<1>8. LuhnValid(s) <=> h[N] % 10 = 0
  BY <1>2
<1> HIDE DEF h
<1>9. h[0] = 0 /\ \A k \in 1..N : h[k] = h[k - 1] + W(k)
  <2>1. 0 \in 0..N /\ \A k \in 1..N : k \in 0..N /\ k # 0
    BY <1>1
  <2>2. \A k \in 0..N : h[k] = IF k = 0 THEN 0 ELSE h[k - 1] + W(k)
    BY <1>7
  <2> QED
    BY <2>1, <2>2
<1>10. h \in [0..N -> Int]
  <2> DEFINE S == {k \in Nat : k <= N => h[k] \in Int}
  <2>1. 0 \in S
    BY <1>9
  <2>2. ASSUME NEW k \in Nat, k \in S PROVE k + 1 \in S
    <3> SUFFICES ASSUME k + 1 <= N PROVE h[k + 1] \in Int
      OBVIOUS
    <3>1. k + 1 \in 1..N /\ (k + 1) - 1 = k /\ h[k] \in Int
      BY <2>2, <1>1
    <3> QED
      BY <1>1, <1>9, <3>1
  <2>3. \A k \in Nat : k \in S
    <3> HIDE DEF S
    <3> QED
      BY <2>1, <2>2, Induct
  <2>4. \A k \in 0..N : h[k] \in Int
    BY <1>1, <2>3
  <2>5. h = [k \in 0..N |-> h[k]]
    BY <1>7
  <2> QED
    BY <2>4, <2>5
<1> QED
  BY <1>8, <1>9, <1>10 DEF N, W

\* A number the check digit accepts is refused with any one digit changed, whatever
\* its length (_luhn_valid).
THEOREM LuhnDetectsSlips ==
  ASSUME NEW s \in Seq(Digit), NEW k \in 1..Len(s), NEW d \in Digit, d # s[k],
         LuhnValid(s)
  PROVE  ~LuhnValid([s EXCEPT ![k] = d])
<1> DEFINE N == Len(s)
           t == [s EXCEPT ![k] = d]
<1>1. /\ N \in Nat /\ t \in Seq(Digit) /\ Len(t) = N
      /\ \A i \in 1..N : t[i] = IF i = k THEN d ELSE s[i]
  BY ExceptSeq
<1> HIDE DEF t
<1>2. PICK f \in [0..N -> Int] :
        /\ f[0] = 0
        /\ \A i \in 1..N : f[i] = f[i - 1] + Weigh(Value(s[i]), N - i)
        /\ LuhnValid(s) <=> f[N] % 10 = 0
  BY LuhnByPosition
<1>3. PICK g \in [0..N -> Int] :
        /\ g[0] = 0
        /\ \A i \in 1..N : g[i] = g[i - 1] + Weigh(Value(t[i]), N - i)
        /\ LuhnValid(t) <=> g[N] % 10 = 0
  BY <1>1, LuhnByPosition
<1> DEFINE delta == Weigh(Value(d), N - k) - Weigh(Value(s[k]), N - k)
<1>4. delta \in (-9)..9 /\ delta # 0
      /\ Weigh(Value(d), N - k) \in Int /\ Weigh(Value(s[k]), N - k) \in Int
  <2>1. /\ s[k] \in Digit /\ Value(d) \in 0..9 /\ Value(s[k]) \in 0..9
        /\ Value(d) # Value(s[k])
    BY ValueOfDigit
  <2>2. /\ Weigh(Value(d), N - k) \in 0..9 /\ Weigh(Value(s[k]), N - k) \in 0..9
        /\ Weigh(Value(d), N - k) # Weigh(Value(s[k]), N - k)
    BY <2>1, WeighOfDigit
  <2> QED
    BY <2>2, Difference
<1> DEFINE S == {i \in Nat : i <= N => g[i] = f[i] + (IF i < k THEN 0 ELSE delta)}
<1>5. 0 \in S
  BY <1>2, <1>3
<1>6. ASSUME NEW i \in Nat, i \in S PROVE i + 1 \in S
  <2> SUFFICES ASSUME i + 1 <= N
               PROVE  g[i + 1] = f[i + 1] + (IF i + 1 < k THEN 0 ELSE delta)
    OBVIOUS
  <2>1. /\ i + 1 \in 1..N /\ (i + 1) - 1 = i /\ i \in 0..N
        /\ f[i] \in Int /\ g[i] \in Int
    BY <1>1
  <2>2. g[i] = f[i] + (IF i < k THEN 0 ELSE delta)
    BY <1>6, <2>1
  <2>3. /\ f[i + 1] = f[i] + Weigh(Value(s[i + 1]), N - (i + 1))
        /\ g[i + 1] = g[i] + Weigh(Value(t[i + 1]), N - (i + 1))
        /\ t[i + 1] = IF i + 1 = k THEN d ELSE s[i + 1]
    BY <1>1, <1>2, <1>3, <2>1
  <2>4. Weigh(Value(s[i + 1]), N - (i + 1)) \in Int
    <3>1. Value(s[i + 1]) \in 0..9
      BY <2>1, ValueOfDigit
    <3> QED
      BY <3>1, WeighOfDigit
  <2>5. CASE i + 1 = k
    BY <1>4, <2>1, <2>2, <2>3, <2>5
  <2>6. CASE i + 1 # k
    <3> DEFINE w == Weigh(Value(s[i + 1]), N - (i + 1))
    <3>1. i < k <=> i + 1 < k
      BY <2>6
    <3>2. f[i + 1] = f[i] + w /\ g[i + 1] = g[i] + w /\ w \in Int
      BY <2>3, <2>4, <2>6
    <3>3. delta \in Int
      BY <1>4
    <3> HIDE DEF delta, w, S
    <3> QED
      BY <2>1, <2>2, <3>1, <3>2, <3>3
  <2> QED
    BY <2>5, <2>6
<1>7. g[N] = f[N] + delta /\ f[N] \in Int
  <2>1. N \in S
    <3> HIDE DEF S
    <3> QED
      BY <1>1, <1>5, <1>6, Induct
  <2> QED
    BY <1>1, <2>1
<1>8. f[N] % 10 = 0
  BY <1>2
<1>9. g[N] % 10 # 0
  <2> HIDE DEF delta
  <2> QED
    BY <1>4, <1>7, <1>8, NearMultiple
<1> QED
  BY <1>3, <1>9 DEF t

-----------------------------------------------------------------------------
(* Looking for a card number.                                              *)

LEMMA GreatestNumber ==
  ASSUME NEW n \in Nat, NEW T, T \subseteq 0..n, T # {}
  PROVE  \E m \in T : \A k \in T : k <= m
<1> DEFINE R == {k \in Nat : k <= n /\ n - k \in T}
<1>1. R # {}
  <2>1. PICK k \in T : TRUE
    OBVIOUS
  <2>2. n - k \in R
    BY <2>1
  <2> QED
    BY <2>2
<1>2. PICK m \in R : \A k \in R : m <= k
  <2> HIDE DEF R
  <2>1. R \subseteq Nat
    BY DEF R
  <2> QED
    BY <1>1, <2>1, LeastNumber
<1>3. n - m \in T /\ m \in Nat
  BY <1>2
<1>4. ASSUME NEW k \in T PROVE k <= n - m
  <2>1. k \in 0..n /\ n - k \in R
    OBVIOUS
  <2>2. m <= n - k
    BY <1>2, <2>1
  <2> QED
    BY <1>3, <2>1, <2>2
<1> QED
  BY <1>3, <1>4

\* finditer's next match from p on: where it starts, and how far it goes.
Starts(s, p) == {i \in p..Len(s) : \E j \in i..Len(s) : CardShaped(s, i, j)}
First(s, p) == CHOOSE i \in Starts(s, p) : \A h \in Starts(s, p) : i <= h
Last(s, i) == CHOOSE j \in i..Len(s) :
  /\ CardShaped(s, i, j)
  /\ \A h \in i..Len(s) : CardShaped(s, i, h) => h <= j

LEMMA NextMatch ==
  ASSUME NEW C, NEW s \in Seq(C), NEW p \in 1..(Len(s) + 1), Starts(s, p) # {}
  PROVE  LET i == First(s, p)
             j == Last(s, i)
         IN  /\ i \in Starts(s, p) /\ \A h \in Starts(s, p) : i <= h
             /\ j \in i..Len(s) /\ CardShaped(s, i, j)
             /\ \A h \in i..Len(s) : CardShaped(s, i, h) => h <= j
<1> DEFINE i == First(s, p)
           j == Last(s, i)
           Ends == {h \in i..Len(s) : CardShaped(s, i, h)}
<1>1. Starts(s, p) \subseteq Nat /\ Len(s) \in Nat
  BY DEF Starts
<1>2. i \in Starts(s, p) /\ \A h \in Starts(s, p) : i <= h
  <2>1. \E m \in Starts(s, p) : \A h \in Starts(s, p) : m <= h
    BY <1>1, LeastNumber
  <2> QED
    BY <2>1 DEF First
<1> HIDE DEF i
<1>3. i \in 1..Len(s) /\ Ends # {}
  BY <1>1, <1>2 DEF Starts
<1>4. Ends \subseteq 0..Len(s)
  BY <1>1, <1>3
<1>5. \E m \in Ends : \A h \in Ends : h <= m
  <2> HIDE DEF Ends
  <2> QED
    BY <1>1, <1>3, <1>4, GreatestNumber
<1>6. /\ j \in i..Len(s) /\ CardShaped(s, i, j)
      /\ \A h \in i..Len(s) : CardShaped(s, i, h) => h <= j
  <2>1. \E m \in i..Len(s) :
          CardShaped(s, i, m) /\ \A h \in i..Len(s) : CardShaped(s, i, h) => h <= m
    BY <1>5
  <2> QED
    BY <2>1 DEF Last
<1> QED
  BY <1>2, <1>6 DEF i

\* Whether the matches from p on hold a card number.
MatchIsCard(s, p) == LuhnValid(DigitsIn(s, First(s, p), Last(s, First(s, p))))
After(s, p) == Last(s, First(s, p)) + 1

LEMMA CardSearch ==
  ASSUME NEW C, NEW s \in Seq(C)
  PROVE  \E from \in [1..(Len(s) + 1) -> BOOLEAN] :
           /\ HasCard(s) <=> from[1]
           /\ \A p \in 1..(Len(s) + 1) :
                from[p] <=> /\ Starts(s, p) # {}
                            /\ MatchIsCard(s, p) \/ from[After(s, p)]
<1> DEFINE n == Len(s)
           D == 1..(n + 1)
           Hit(p) == Starts(s, p) # {} /\ MatchIsCard(s, p)
           Body(f, p) == Starts(s, p) # {} /\ (MatchIsCard(s, p) \/ f[After(s, p)])
           Eq(f) == f = [p \in D |-> Body(f, p)]
           Closed(T) == \A p \in D :
             Hit(p) \/ (Starts(s, p) # {} /\ After(s, p) \in T) => p \in T
           A == {p \in D : \A T \in SUBSET D : Closed(T) => p \in T}
<1>1. n \in Nat /\ 1 \in D
  OBVIOUS
<1>2. \A p \in D : Starts(s, p) # {} => After(s, p) \in D
  <2> TAKE p \in D
  <2> HAVE Starts(s, p) # {}
  <2>1. First(s, p) \in Starts(s, p) /\ Last(s, First(s, p)) \in First(s, p)..Len(s)
    BY NextMatch
  <2> QED
    BY <1>1, <2>1 DEF After, Starts
<1>3. \A p \in D : p \in A <=> Starts(s, p) # {} /\ (MatchIsCard(s, p) \/ After(s, p) \in A)
  <2> HIDE DEF D
  <2>1. Closed(A)
    OBVIOUS
  <2>2. ASSUME NEW p \in A, ~(Hit(p) \/ (Starts(s, p) # {} /\ After(s, p) \in A)) PROVE FALSE
    <3>1. Closed(A \ {p})
      BY <2>1, <2>2
    <3> QED
      BY <3>1
  <2> QED
    BY <2>1, <2>2
<1> HIDE DEF A, D
<1> DEFINE g == [p \in D |-> p \in A]
<1>4. Eq(g)
  <2>1. ASSUME NEW p \in D PROVE (p \in A) <=> Body(g, p)
    <3>1. Starts(s, p) # {} => (g[After(s, p)] <=> After(s, p) \in A)
      BY <1>2
    <3> QED
      BY <1>3, <3>1
  <2>2. ASSUME NEW p \in D PROVE (p \in A) = Body(g, p)
    <3>1. Body(g, p) \in BOOLEAN
      OBVIOUS
    <3> HIDE DEF g, Body
    <3>2. CASE p \in A
      BY <2>1, <3>1, <3>2
    <3>3. CASE p \notin A
      BY <2>1, <3>1, <3>3
    <3> QED
      BY <3>2, <3>3
  <2> HIDE DEF Body
  <2> QED
    BY <2>2, Zenon
<1> DEFINE h == CHOOSE f : Eq(f)
<1>5. Eq(h)
  <2> HIDE DEF Eq
  <2> QED
    BY <1>4
<1>6. HasCard(s) = h[1]
  BY DEF HasCard, D, Starts, First, Last, MatchIsCard, After
<1> HIDE DEF h
<1>7. h \in [D -> BOOLEAN] /\ \A p \in D : h[p] = Body(h, p)
  BY <1>5
<1> QED
  BY <1>1, <1>6, <1>7 DEF D

\* What is taken for a card number is one: a stretch of 13 to 19 digits with single
\* separators between them, alone between word boundaries, that ends in the right
\* check digit (_classify_value).
THEOREM CardIsCard ==
  ASSUME NEW C, NEW s \in Seq(C), HasCard(s)
  PROVE  \E i \in 1..Len(s) : \E j \in i..Len(s) :
           CardShaped(s, i, j) /\ LuhnValid(DigitsIn(s, i, j))
<1> DEFINE n == Len(s)
<1>1. PICK from \in [1..(n + 1) -> BOOLEAN] :
        /\ HasCard(s) <=> from[1]
        /\ \A p \in 1..(n + 1) :
             from[p] <=> Starts(s, p) # {} /\ (MatchIsCard(s, p) \/ from[After(s, p)])
  BY CardSearch
<1> DEFINE T == {p \in 1..(n + 1) : from[p]}
<1>2. T \subseteq 0..(n + 1) /\ T # {} /\ n + 1 \in Nat
  BY <1>1
<1>3. PICK p \in T : \A q \in T : q <= p
  <2> HIDE DEF T
  <2> QED
    BY <1>2, GreatestNumber
<1>4. /\ p \in 1..(n + 1) /\ Starts(s, p) # {}
      /\ MatchIsCard(s, p) \/ from[After(s, p)]
  BY <1>1, <1>3
<1>5. /\ First(s, p) \in Starts(s, p)
      /\ Last(s, First(s, p)) \in First(s, p)..n /\ CardShaped(s, First(s, p), Last(s, First(s, p)))
  BY <1>4, NextMatch
<1>6. First(s, p) \in p..n /\ First(s, p) \in 1..n
  BY <1>4, <1>5 DEF Starts
<1>7. MatchIsCard(s, p)
  <2>1. After(s, p) \in 1..(n + 1) /\ After(s, p) > p
    BY <1>4, <1>5, <1>6 DEF After
  <2>2. After(s, p) \notin T
    BY <1>3, <1>4, <2>1
  <2> QED
    BY <1>4, <2>1, <2>2
<1> QED
  BY <1>5, <1>6, <1>7 DEF MatchIsCard

\* A cell that is a card number as a whole, however it is grouped, is found.
THEOREM CardAloneIsFound ==
  ASSUME NEW C, NEW s \in Seq(C), Len(s) >= 1,
         CardShaped(s, 1, Len(s)), LuhnValid(DigitsIn(s, 1, Len(s)))
  PROVE  HasCard(s)
<1> DEFINE n == Len(s)
<1>1. n \in Nat /\ 1 \in 1..n /\ n \in 1..n /\ 1 \in 1..(n + 1)
  OBVIOUS
<1>2. 1 \in Starts(s, 1)
  BY <1>1 DEF Starts
<1>3. First(s, 1) = 1
  <2>1. First(s, 1) \in Starts(s, 1) /\ First(s, 1) <= 1
    BY <1>1, <1>2, NextMatch
  <2> QED
    BY <1>1, <2>1 DEF Starts
<1>4. Last(s, 1) = n
  <2>1. Last(s, 1) \in 1..n /\ n <= Last(s, 1)
    BY <1>1, <1>2, <1>3, NextMatch
  <2> QED
    BY <1>1, <2>1
<1>5. MatchIsCard(s, 1)
  BY <1>3, <1>4 DEF MatchIsCard
<1> QED
  BY <1>1, <1>2, <1>5, CardSearch

-----------------------------------------------------------------------------
(* Cells of digits.                                                        *)

LEMMA TextOver ==
  ASSUME NEW C, NEW s \in Seq(C), NEW D, \A k \in 1..Len(s) : s[k] \in D
  PROVE  s \in Seq(D)
OBVIOUS

\* A text of digits is one word.
LEMMA DigitsAreOneWord ==
  ASSUME NEW s \in Seq(Digit), NEW i \in 0..Len(s)
  PROVE  Boundary(s, i) <=> Len(s) > 0 /\ (i = 0 \/ i = Len(s))
<1>1. \A k \in Int : InWord(s, k) <=> k \in 1..Len(s)
  <2>1. \A d \in Digit : d \in Word
    BY DEF Word
  <2>2. \A k \in 1..Len(s) : s[k] \in Digit
    OBVIOUS
  <2> QED
    BY <2>1, <2>2 DEF InWord
<1>2. Boundary(s, i) <=> ~(InWord(s, i) <=> InWord(s, i + 1))
  BY DEF Boundary, InWord
<1>3. i \in Int /\ i + 1 \in Int /\ Len(s) \in Nat
  OBVIOUS
<1> QED
  BY <1>1, <1>2, <1>3

LEMMA CardOfDigits ==
  ASSUME NEW s \in Seq(Digit), NEW i \in 1..Len(s), NEW j \in i..Len(s)
  PROVE  CardShaped(s, i, j) <=> i = 1 /\ j = Len(s) /\ Len(s) \in 13..19
<1>1. /\ Boundary(s, i - 1) <=> i = 1
      /\ Boundary(s, j) <=> j = Len(s)
  BY DigitsAreOneWord
<1>2. i = 1 /\ j = Len(s) => DigitsIn(s, i, j) = s
  BY SubSeqFull, OnlyIdentity DEF DigitsIn
<1>3. \A k \in i..j : s[k] \in Digit
  OBVIOUS
<1> QED
  BY <1>1, <1>2, <1>3 DEF CardShaped

LEMMA CardLength == \A n \in 13..19 : n \in Nat /\ n >= 1 /\ n # 12
OBVIOUS

LEMMA CardsOfDigits ==
  ASSUME NEW s \in Seq(Digit)
  PROVE  HasCard(s) <=> Len(s) \in 13..19 /\ LuhnValid(s)
<1>1. DigitsIn(s, 1, Len(s)) = s
  BY SubSeqFull, OnlyIdentity DEF DigitsIn
<1>2. ASSUME HasCard(s) PROVE Len(s) \in 13..19 /\ LuhnValid(s)
  <2>1. PICK i \in 1..Len(s) : \E j \in i..Len(s) :
          CardShaped(s, i, j) /\ LuhnValid(DigitsIn(s, i, j))
    BY <1>2, CardIsCard
  <2>2. PICK j \in i..Len(s) : CardShaped(s, i, j) /\ LuhnValid(DigitsIn(s, i, j))
    BY <2>1
  <2> QED
    BY <1>1, <2>2, CardOfDigits
<1>3. ASSUME Len(s) \in 13..19, LuhnValid(s) PROVE HasCard(s)
  <2>1. CardShaped(s, 1, Len(s))
    BY <1>3, CardOfDigits
  <2>2. Len(s) >= 1
    BY <1>3, CardLength
  <2> QED
    BY <1>1, <1>3, <2>1, <2>2, CardAloneIsFound
<1> QED
  BY <1>2, <1>3

\* The pattern of an identity number asks for 12 digits or has a separator in it,
\* the others begin with a letter.
LEMMA Shapes ==
  ASSUME NEW shape \in Aadhaar \cup {Pan, Ifsc, Passport}
  PROVE  \E n \in 1..14 :
           /\ n = Len(shape)
           /\ n # 12 => \E k \in 1..n : \A d \in Digit : d \notin shape[k]
<1>1. /\ \A d \in Digit : d \notin Letter
      /\ \A d \in Digit : d \notin Separator \cup {"tab"}
  BY DEF Digit, Letter, Separator
<1>2. \/ shape = Grouped(12, {})
      \/ shape \in {Grouped(13, {5}), Grouped(13, {9}), Grouped(14, {5, 10})}
      \/ shape \in {Pan, Ifsc, Passport}
  BY DEF Aadhaar
<1>3. CASE shape = Grouped(12, {})
  <2>1. \E n \in 1..14 : n = Len(shape) /\ n = 12
    BY <1>3 DEF Grouped
  <2> QED
    BY <2>1
<1>4. CASE shape \in {Grouped(13, {5}), Grouped(13, {9}), Grouped(14, {5, 10})}
  <2>1. PICK n \in 13..14 : n = Len(shape)
    BY <1>4 DEF Grouped
  <2>2. shape[5] = Separator \cup {"tab"} \/ shape[9] = Separator \cup {"tab"}
    BY <1>4 DEF Grouped
  <2>3. n \in 1..14 /\ 5 \in 1..n /\ 9 \in 1..n
    OBVIOUS
  <2> QED
    BY <1>1, <2>1, <2>2, <2>3
<1>5. CASE shape \in {Pan, Ifsc, Passport}
  <2>1. PICK n \in 1..14 : n = Len(shape)
    BY <1>5 DEF Pan, Ifsc, Passport
  <2>2. shape[1] = Letter /\ 1 \in 1..n
    BY <1>5 DEF Pan, Ifsc, Passport
  <2> QED
    BY <1>1, <2>1, <2>2
<1> QED
  BY <1>2, <1>3, <1>4, <1>5

LEMMA UpperOfDigits ==
  ASSUME NEW s \in Seq(Digit)
  PROVE  Upper(s) = s
<1>1. \A k \in 1..Len(s) : s[k] # "a"
  <2>1. \A d \in Digit : d # "a"
    BY DEF Digit
  <2> QED
    BY <2>1
<1>2. s = [k \in 1..Len(s) |-> s[k]]
  OBVIOUS
<1> QED
  BY <1>1, <1>2 DEF Upper

\* A cell of 13 to 19 digits is held back exactly if its check digit is right: no
\* pattern but that of a card number fits it (_classify_value).
THEOREM DigitsRegulated ==
  ASSUME NEW s \in Seq(Digit), Len(s) \in 13..19
  PROVE  Regulated(s) <=> LuhnValid(s)
<1>1. HasCard(s) <=> LuhnValid(s)
  BY CardsOfDigits
<1>2. ASSUME NEW shape \in Aadhaar \cup {Pan, Ifsc, Passport}, Contains(s, shape)
      PROVE  FALSE
  <2>1. PICK i \in 0..(Len(s) - Len(shape)) :
          /\ Boundary(s, i) /\ Boundary(s, i + Len(shape))
          /\ \A k \in 1..Len(shape) : s[i + k] \in shape[k]
    BY <1>2 DEF Contains
  <2>2. PICK m \in 13..19 : m = Len(s)
    OBVIOUS
  <2>3. PICK n \in 1..14 :
          /\ n = Len(shape)
          /\ n # 12 => \E k \in 1..n : \A d \in Digit : d \notin shape[k]
    BY Shapes
  <2>4. i \in 0..(m - n) /\ i \in 0..m /\ i + n \in 0..m
    BY <2>2, <2>3
  <2>5. i = 0 /\ n = m
    <3>1. (i = 0 \/ i = m) /\ (i + n = 0 \/ i + n = m)
      BY <2>1, <2>2, <2>3, <2>4, DigitsAreOneWord
    <3> QED
      BY <2>4, <3>1
  <2>6. PICK k \in 1..n : \A d \in Digit : d \notin shape[k]
    <3>1. n # 12
      BY <2>5
    <3> QED
      BY <2>3, <3>1
  <2>7. s[k] \in Digit /\ s[k] \in shape[k]
    <3>1. k \in 1..Len(s) /\ i + k = k
      BY <2>2, <2>5
    <3> QED
      BY <2>1, <2>3, <3>1
  <2> QED
    BY <2>6, <2>7
<1> QED
  BY <1>1, <1>2, UpperOfDigits DEF Regulated

\* A card number of digits only is no longer taken for one with any one digit
\* changed, nor for any other identifier.
THEOREM SlipIsHarmless ==
  ASSUME NEW s \in Seq(Digit), HasCard(s), NEW k \in 1..Len(s), NEW d \in Digit, d # s[k]
  PROVE  ~Regulated([s EXCEPT ![k] = d])
<1> DEFINE t == [s EXCEPT ![k] = d]
<1>1. Len(s) \in 13..19 /\ LuhnValid(s)
  BY CardsOfDigits
<1>2. t \in Seq(Digit) /\ Len(t) = Len(s)
  BY ExceptSeq
<1>3. ~LuhnValid(t)
  BY <1>1, LuhnDetectsSlips
<1> HIDE DEF t
<1>4. ~Regulated(t)
  BY <1>1, <1>2, <1>3, DigitsRegulated
<1> QED
  BY <1>4 DEF t
=============================================================================
