---------------------------- MODULE SelectLemmas ----------------------------
(***************************************************************************)
(* Induction over the naturals in a form without operator parameters, and  *)
(* what Select computes.                                                   *)
(***************************************************************************)
EXTENDS Select, TLAPS, SequenceTheorems, WellFoundedInduction

\* A set of naturals that is not empty has a least element.
LEMMA LeastNatural ==
    ASSUME NEW S, S \subseteq Nat, S # {}
    PROVE  \E n \in S : \A m \in S : n <= m
<1> DEFINE Below == {ss \in Nat \X Nat : ss[1] < ss[2]}
<1>1. IsWellFoundedOn(Below, Nat)
  BY NatLessThanWellFounded, Zenon DEF OpToRel
<1>2. PICK n \in S : \A m \in S : ~(<<m, n>> \in Below)
  <2> HIDE DEF Below
  <2> QED BY <1>1, WFMin
<1>3. ASSUME NEW m \in S, m < n PROVE FALSE
  <2>1. <<m, n>> \in Below
    BY <1>3
  <2> QED BY <1>2, <2>1
<1> QED BY <1>3

\* Induction with the set of the numbers for which the claim holds.
LEMMA NatSetInduction ==
    ASSUME NEW S, 0 \in S, \A n \in Nat : n \in S => n + 1 \in S
    PROVE  Nat \subseteq S
<1> SUFFICES ASSUME Nat \ S # {} PROVE FALSE
  OBVIOUS
<1>1. PICK n \in Nat \ S : \A m \in Nat \ S : n <= m
  BY LeastNatural
<1>2. n # 0 /\ n - 1 \in Nat /\ n - 1 \in S
  BY <1>1
<1> QED BY <1>1, <1>2

\* The partial results of Select.
Selects(f, s, T) ==
    /\ f[0] = <<>>
    /\ \A i \in 1 .. Len(s) :
          f[i] = IF s[i] \in T THEN Append(f[i - 1], s[i]) ELSE f[i - 1]

\* The recursion of Select has a solution, and Select is its last value.
LEMMA SelectRecursion ==
    ASSUME NEW s, NEW T, Len(s) \in Nat
    PROVE  \E f : Selects(f, s, T) /\ Select(s, T) = f[Len(s)]
<1> DEFINE Body(f, n) == [i \in 0 .. n |->
                IF i = 0 THEN <<>>
                ELSE IF s[i] \in T THEN Append(f[i - 1], s[i]) ELSE f[i - 1]]
           Solvable == {n \in Nat : \E f : f = Body(f, n)}
<1>1. 0 \in Solvable
  <2>1. Body([i \in {0} |-> <<>>], 0) = [i \in {0} |-> <<>>]
    OBVIOUS
  <2> QED BY <2>1
<1>2. ASSUME NEW n \in Nat, n \in Solvable PROVE n + 1 \in Solvable
  <2>1. PICK f : f = Body(f, n)
    BY <1>2
  <2> DEFINE last == IF s[n + 1] \in T THEN Append(f[n], s[n + 1]) ELSE f[n]
             g == [i \in 0 .. n + 1 |-> IF i = n + 1 THEN last ELSE f[i]]
  <2>2. \A i \in 0 .. n + 1 : g[i] = Body(g, n + 1)[i]
    <3> SUFFICES ASSUME NEW i \in 0 .. n + 1 PROVE g[i] = Body(g, n + 1)[i]
      OBVIOUS
    <3>1. CASE i = n + 1
      <4>1. g[i - 1] = f[n] /\ g[i] = last
        BY <3>1
      <4> QED BY <3>1, <4>1
    <3>2. CASE i # n + 1
      <4>1. i \in 0 .. n /\ g[i] = f[i] /\ (i # 0 => g[i - 1] = f[i - 1])
        BY <3>2
      <4>2. f[i] = IF i = 0 THEN <<>>
                   ELSE IF s[i] \in T THEN Append(f[i - 1], s[i]) ELSE f[i - 1]
        BY <2>1, <4>1
      <4> QED BY <4>1, <4>2
    <3> QED BY <3>1, <3>2
  <2>3. g = Body(g, n + 1)
    BY <2>2
  <2>4. \E h : h = Body(h, n + 1)
    <3> HIDE DEF g, Body
    <3> QED BY <2>3
  <2> QED BY <2>4, SMTT(30)
<1>3. Len(s) \in Solvable
  <2> HIDE DEF Solvable
  <2> QED BY <1>1, <1>2, NatSetInduction
<1>4. \E f : f = Body(f, Len(s))
  BY <1>3
<1> DEFINE sel == CHOOSE f : f = Body(f, Len(s))
<1>5. sel = Body(sel, Len(s))
  <2> HIDE DEF Body
  <2> QED BY <1>4
<1>6. Select(s, T) = sel[Len(s)]
  BY DEF Select
<1> HIDE DEF sel
<1>7. \A i \in 0 .. Len(s) :
         sel[i] = IF i = 0 THEN <<>>
                  ELSE IF s[i] \in T THEN Append(sel[i - 1], s[i]) ELSE sel[i - 1]
  BY <1>5
<1>8. Selects(sel, s, T)
  <2>1. sel[0] = <<>>
    BY <1>7
  <2>2. ASSUME NEW i \in 1 .. Len(s)
        PROVE  sel[i] = IF s[i] \in T THEN Append(sel[i - 1], s[i]) ELSE sel[i - 1]
    BY <1>7
  <2> QED BY <2>1, <2>2 DEF Selects
<1> QED BY <1>6, <1>8

\* What lies behind the end of a prefix does not matter to it.
LEMMA SelectPrefix ==
    ASSUME NEW s, NEW t, NEW T, NEW n \in Nat, n <= Len(s), n <= Len(t),
           Len(s) \in Nat, Len(t) \in Nat, \A i \in 1 .. n : s[i] = t[i],
           NEW f, Selects(f, s, T), NEW g, Selects(g, t, T)
    PROVE  f[n] = g[n]
<1> DEFINE Same == {k \in Nat : k <= n => f[k] = g[k]}
<1>1. 0 \in Same
  BY DEF Selects
<1>2. ASSUME NEW k \in Nat, k \in Same PROVE k + 1 \in Same
  <2> SUFFICES ASSUME k + 1 <= n PROVE f[k + 1] = g[k + 1]
    OBVIOUS
  <2>1. f[k] = g[k] /\ s[k + 1] = t[k + 1]
    BY <1>2
  <2>2. k + 1 \in 1 .. Len(s) /\ k + 1 \in 1 .. Len(t) /\ (k + 1) - 1 = k
    OBVIOUS
  <2>3. f[k + 1] = IF s[k + 1] \in T THEN Append(f[k], s[k + 1]) ELSE f[k]
    BY <2>2 DEF Selects
  <2>4. g[k + 1] = IF t[k + 1] \in T THEN Append(g[k], t[k + 1]) ELSE g[k]
    BY <2>2 DEF Selects
  <2> QED BY <2>1, <2>3, <2>4
<1>3. n \in Same
  <2> HIDE DEF Same
  <2> QED BY <1>1, <1>2, NatSetInduction
<1> QED BY <1>3

\* Nothing is selected from nothing.
LEMMA SelectEmpty == ASSUME NEW T PROVE Select(<<>>, T) = <<>>
<1>1. Len(<<>>) = 0
  OBVIOUS
<1>2. PICK f : Selects(f, <<>>, T) /\ Select(<<>>, T) = f[Len(<<>>)]
  BY <1>1, SelectRecursion
<1> QED BY <1>1, <1>2 DEF Selects

\* One more element.
LEMMA SelectAppend ==
    ASSUME NEW S, NEW s \in Seq(S), NEW x \in S, NEW T
    PROVE  Select(Append(s, x), T) =
               IF x \in T THEN Append(Select(s, T), x) ELSE Select(s, T)
<1> DEFINE t == Append(s, x)
<1>1. /\ Len(s) \in Nat /\ Len(t) = Len(s) + 1 /\ t[Len(s) + 1] = x
      /\ \A i \in 1 .. Len(s) : s[i] = t[i]
  BY AppendProperties, LenProperties
<1> HIDE DEF t
<1>2. PICK f : Selects(f, s, T) /\ Select(s, T) = f[Len(s)]
  BY <1>1, SelectRecursion
<1>3. PICK g : Selects(g, t, T) /\ Select(t, T) = g[Len(t)]
  BY <1>1, SelectRecursion
<1>4. f[Len(s)] = g[Len(s)]
  BY <1>1, <1>2, <1>3, SelectPrefix
<1>5. Len(t) \in 1 .. Len(t) /\ Len(t) - 1 = Len(s)
  BY <1>1
<1>6. g[Len(t)] = IF x \in T THEN Append(g[Len(s)], x) ELSE g[Len(s)]
  BY <1>1, <1>3, <1>5 DEF Selects
<1> QED BY <1>2, <1>3, <1>4, <1>6 DEF t

\* The result consists of elements of the sequence, and is no longer.
LEMMA SelectType ==
    ASSUME NEW S, NEW s \in Seq(S), NEW T
    PROVE  Select(s, T) \in Seq(S \cap T) /\ Len(Select(s, T)) <= Len(s)
<1>1. Len(s) \in Nat /\ \A i \in 1 .. Len(s) : s[i] \in S
  BY LenProperties, ElementOfSeq
<1>2. PICK f : Selects(f, s, T) /\ Select(s, T) = f[Len(s)]
  BY <1>1, SelectRecursion
<1> DEFINE Good == {n \in Nat : n <= Len(s) => f[n] \in Seq(S \cap T) /\ Len(f[n]) <= n}
<1>3. 0 \in Good
  <2>1. f[0] = <<>>
    BY <1>2 DEF Selects
  <2>2. <<>> \in Seq(S \cap T) /\ Len(<<>>) = 0
    BY EmptySeq
  <2>3. f[0] \in Seq(S \cap T) /\ Len(f[0]) = 0
    BY <2>1, <2>2, Zenon
  <2>4. f[0] \in Seq(S \cap T) /\ Len(f[0]) <= 0
    BY <2>3
  <2> QED BY <2>4
<1>4. ASSUME NEW n \in Nat, n \in Good PROVE n + 1 \in Good
  <2> SUFFICES ASSUME n + 1 <= Len(s)
               PROVE  f[n + 1] \in Seq(S \cap T) /\ Len(f[n + 1]) <= n + 1
    OBVIOUS
  <2>1. f[n] \in Seq(S \cap T) /\ Len(f[n]) <= n /\ s[n + 1] \in S
    BY <1>1, <1>4
  <2>2. f[n + 1] = IF s[n + 1] \in T THEN Append(f[n], s[n + 1]) ELSE f[n]
    <3>1. n + 1 \in 1 .. Len(s) /\ (n + 1) - 1 = n
      BY <1>1
    <3> QED BY <1>2, <3>1 DEF Selects
  <2>3. CASE s[n + 1] \in T
    <3>1. f[n + 1] = Append(f[n], s[n + 1]) /\ s[n + 1] \in S \cap T
      BY <2>1, <2>2, <2>3
    <3>2. f[n + 1] \in Seq(S \cap T) /\ Len(f[n + 1]) = Len(f[n]) + 1
      BY <2>1, <3>1, AppendProperties
    <3> QED BY <2>1, <3>2, LenProperties
  <2>4. CASE s[n + 1] \notin T
    BY <2>1, <2>2, <2>4, LenProperties
  <2> QED BY <2>3, <2>4
<1>5. Len(s) \in Good
  <2> HIDE DEF Good
  <2> QED BY <1>1, <1>3, <1>4, NatSetInduction
<1> QED BY <1>1, <1>2, <1>5

-----------------------------------------------------------------------------
(* Ranges of a sequence that grows at its end.                             *)

\* A range extended by the next position.
LEMMA RangeNext ==
    ASSUME NEW S, NEW s \in Seq(S), NEW lo \in Nat, NEW hi \in Nat,
           lo >= 1, lo <= hi + 1, hi + 1 <= Len(s)
    PROVE  SubSeq(s, lo, hi + 1) = Append(SubSeq(s, lo, hi), s[hi + 1])
<1> DEFINE a == SubSeq(s, lo, hi)
           b == SubSeq(s, lo, hi + 1)
           x == s[hi + 1]
<1>1. \A i \in lo .. hi + 1 : s[i] \in S
  BY ElementOfSeq, LenProperties
<1>2. /\ a \in Seq(S) /\ Len(a) = hi - lo + 1
      /\ \A i \in 1 .. hi - lo + 1 : a[i] = s[lo + i - 1]
  BY <1>1, LenProperties, SubSeqProperties
<1>3. /\ b \in Seq(S) /\ Len(b) = hi - lo + 2
      /\ \A i \in 1 .. hi - lo + 2 : b[i] = s[lo + i - 1]
  BY <1>1, LenProperties, SubSeqProperties
<1>4. x \in S
  BY <1>1
<1> HIDE DEF a, b, x
<1>5. /\ Append(a, x) \in Seq(S) /\ Len(Append(a, x)) = Len(a) + 1
      /\ \A i \in 1 .. Len(a) : Append(a, x)[i] = a[i]
      /\ Append(a, x)[Len(a) + 1] = x
  BY <1>2, <1>4, AppendProperties
<1>6. \A i \in 1 .. Len(b) : b[i] = Append(a, x)[i]
  <2> SUFFICES ASSUME NEW i \in 1 .. Len(b) PROVE b[i] = Append(a, x)[i]
    OBVIOUS
  <2>1. CASE i = Len(b)
    <3>1. b[i] = x
      <4>1. lo + i - 1 = hi + 1
        BY <1>3, <2>1
      <4> QED BY <1>3, <4>1 DEF x
    <3> QED BY <1>2, <1>3, <1>5, <2>1, <3>1
  <2>2. CASE i # Len(b)
    BY <1>2, <1>3, <1>5, <2>2
  <2> QED BY <2>1, <2>2
<1>7. b = Append(a, x)
  BY <1>2, <1>3, <1>5, <1>6, SeqEqual
<1> QED BY <1>7 DEF a, b, x

\* An appended element is outside the ranges of what was there.
LEMMA RangeOfAppend ==
    ASSUME NEW S, NEW s \in Seq(S), NEW x \in S, NEW lo \in Nat, NEW hi \in Int,
           lo >= 1, hi <= Len(s)
    PROVE  SubSeq(Append(s, x), lo, hi) = SubSeq(s, lo, hi)
<1> DEFINE t == Append(s, x)
<1>1. /\ t \in Seq(S) /\ Len(t) = Len(s) + 1 /\ Len(s) \in Nat
      /\ \A i \in 1 .. Len(s) : t[i] = s[i]
  BY AppendProperties, LenProperties
<1> HIDE DEF t
<1>2. CASE lo > hi
  BY <1>1, <1>2, SubSeqEmpty DEF t
<1>3. CASE lo <= hi
  <2>1. /\ SubSeq(t, lo, hi) \in Seq(S) /\ Len(SubSeq(t, lo, hi)) = hi - lo + 1
        /\ \A i \in 1 .. hi - lo + 1 : SubSeq(t, lo, hi)[i] = t[lo + i - 1]
    BY <1>1, <1>3, ElementOfSeq, SubSeqProperties
  <2>2. /\ SubSeq(s, lo, hi) \in Seq(S) /\ Len(SubSeq(s, lo, hi)) = hi - lo + 1
        /\ \A i \in 1 .. hi - lo + 1 : SubSeq(s, lo, hi)[i] = s[lo + i - 1]
    BY <1>1, <1>3, ElementOfSeq, SubSeqProperties
  <2>3. \A i \in 1 .. hi - lo + 1 : SubSeq(t, lo, hi)[i] = SubSeq(s, lo, hi)[i]
    BY <1>1, <1>3, <2>1, <2>2
  <2>4. SubSeq(t, lo, hi) = SubSeq(s, lo, hi)
    BY <2>1, <2>2, <2>3, SeqEqual
  <2> QED BY <2>4 DEF t
<1> QED BY <1>1, <1>2, <1>3

\* What is selected from a range extended by one position.
LEMMA SelectNext ==
    ASSUME NEW S, NEW s \in Seq(S), NEW T, NEW lo \in Nat, NEW hi \in Nat,
           lo >= 1, lo <= hi + 1, hi + 1 <= Len(s)
    PROVE  Select(SubSeq(s, lo, hi + 1), T) =
               IF s[hi + 1] \in T
               THEN Append(Select(SubSeq(s, lo, hi), T), s[hi + 1])
               ELSE Select(SubSeq(s, lo, hi), T)
<1>1. \A i \in lo .. hi + 1 : s[i] \in S
  BY ElementOfSeq, LenProperties
<1>2. SubSeq(s, lo, hi) \in Seq(S) /\ s[hi + 1] \in S
  BY <1>1, LenProperties, SubSeqProperties
<1>3. SubSeq(s, lo, hi + 1) = Append(SubSeq(s, lo, hi), s[hi + 1])
  BY RangeNext
<1> DEFINE a == SubSeq(s, lo, hi)
           x == s[hi + 1]
<1>4. a \in Seq(S) /\ x \in S
  BY <1>2
<1>5. Select(Append(a, x), T) = IF x \in T THEN Append(Select(a, T), x) ELSE Select(a, T)
  <2> HIDE DEF a, x
  <2> QED BY <1>4, SelectAppend
<1> QED BY <1>3, <1>5, Zenon

\* Nothing is selected from an empty range.
LEMMA SelectNothing ==
    ASSUME NEW s, NEW T, NEW lo \in Int, NEW hi \in Int, hi < lo
    PROVE  Select(SubSeq(s, lo, hi), T) = <<>>
<1>1. SubSeq(s, lo, hi) = <<>>
  BY SubSeqEmpty
<1> QED BY <1>1, SelectEmpty

\* Two sets that agree on the elements of a sequence select the same.
LEMMA SelectAgree ==
    ASSUME NEW S, NEW s \in Seq(S), NEW T, NEW U,
           \A i \in 1 .. Len(s) : s[i] \in T <=> s[i] \in U
    PROVE  Select(s, T) = Select(s, U)
<1>1. Len(s) \in Nat
  BY LenProperties
<1>2. PICK f : Selects(f, s, T) /\ Select(s, T) = f[Len(s)]
  BY <1>1, SelectRecursion
<1>3. PICK g : Selects(g, s, U) /\ Select(s, U) = g[Len(s)]
  BY <1>1, SelectRecursion
<1> DEFINE Same == {n \in Nat : n <= Len(s) => f[n] = g[n]}
<1>4. 0 \in Same
  BY <1>2, <1>3 DEF Selects
<1>5. ASSUME NEW n \in Nat, n \in Same PROVE n + 1 \in Same
  <2> SUFFICES ASSUME n + 1 <= Len(s) PROVE f[n + 1] = g[n + 1]
    OBVIOUS
  <2>1. n + 1 \in 1 .. Len(s) /\ n + 1 - 1 = n /\ f[n] = g[n]
    BY <1>1, <1>5
  <2> QED BY <1>2, <1>3, <2>1 DEF Selects
<1>6. Len(s) \in Same
  <2> HIDE DEF Same
  <2> QED BY <1>1, <1>4, <1>5, NatSetInduction
<1> QED BY <1>1, <1>2, <1>3, <1>6
=============================================================================
