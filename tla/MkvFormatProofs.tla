-------------------------- MODULE MkvFormatProofs ---------------------------
(***************************************************************************)
(* Lemmas about Matroska files as sequences of cells: the walk of the      *)
(* demuxer as a recursion, files that grow or are patched, sums of sizes,  *)
(* the first and last of a set of positions, where a demuxer stands in a   *)
(* file laid out as Matroska wants it, and what it has read of it.         *)
(***************************************************************************)
EXTENDS MkvFormat, SelectLemmas, FiniteSetTheorems

\* f follows the walk over the first n cells of F.
Walks(f, F, n) ==
    /\ f[0] = Demuxer0
    /\ \A k \in 1 .. n : f[k] = ReadCell(f[k - 1], F[k], Len(F))

\* Walk is such a recursion.
LEMMA WalkRecursion ==
    ASSUME NEW F, NEW n \in Nat
    PROVE  \E f : Walks(f, F, n) /\ Walk(F, n) = f[n]
<1> DEFINE Step(d, k) == ReadCell(d, F[k], Len(F))
           Body(f, m) == [k \in 0 .. m |-> IF k = 0 THEN Demuxer0 ELSE Step(f[k - 1], k)]
           Solvable == {m \in Nat : \E f : f = Body(f, m)}
<1> HIDE DEF Step
<1>1. 0 \in Solvable
  <2> DEFINE f == [k \in 0 .. 0 |-> Demuxer0]
  <2>1. f = Body(f, 0)
    OBVIOUS
  <2>2. \E h : h = Body(h, 0)
    <3> HIDE DEF f, Body
    <3> QED BY <2>1
  <2> QED BY <2>2
<1>2. ASSUME NEW m \in Nat, m \in Solvable PROVE m + 1 \in Solvable
  <2>1. PICK f : f = Body(f, m)
    BY <1>2
  <2> DEFINE last == Step(f[m], m + 1)
             g == [k \in 0 .. m + 1 |-> IF k = m + 1 THEN last ELSE f[k]]
  <2>2. \A k \in 0 .. m + 1 : g[k] = Body(g, m + 1)[k]
    <3> SUFFICES ASSUME NEW k \in 0 .. m + 1 PROVE g[k] = Body(g, m + 1)[k]
      OBVIOUS
    <3>1. CASE k = m + 1
      <4>1. g[k - 1] = f[m] /\ g[k] = last
        BY <3>1
      <4> QED BY <3>1, <4>1
    <3>2. CASE k # m + 1
      <4>1. k \in 0 .. m /\ g[k] = f[k] /\ (k # 0 => g[k - 1] = f[k - 1])
        BY <3>2
      <4>2. f[k] = IF k = 0 THEN Demuxer0 ELSE Step(f[k - 1], k)
        BY <2>1, <4>1
      <4> QED BY <4>1, <4>2
    <3> QED BY <3>1, <3>2
  <2>3. g = Body(g, m + 1)
    BY <2>2
  <2>4. \E h : h = Body(h, m + 1)
    <3> HIDE DEF g, Body
    <3> QED BY <2>3
  <2> QED BY <2>4
<1>3. n \in Solvable
  <2> HIDE DEF Solvable
  <2> QED BY <1>1, <1>2, NatSetInduction
<1> DEFINE walked == CHOOSE f : f = Body(f, n)
<1>4. walked = Body(walked, n)
  <2>1. \E f : f = Body(f, n)
    BY <1>3
  <2> HIDE DEF Body
  <2> QED BY <2>1
<1>5. Walk(F, n) = walked[n]
  BY DEF Walk, Step
<1> HIDE DEF walked
<1>6. Walks(walked, F, n)
  <2>1. walked[0] = Demuxer0
    BY <1>4
  <2>2. \A k \in 1 .. n : walked[k] = Step(walked[k - 1], k)
    <3> SUFFICES ASSUME NEW k \in 1 .. n PROVE walked[k] = Step(walked[k - 1], k)
      OBVIOUS
    <3>1. k \in 0 .. n /\ k # 0
      OBVIOUS
    <3> QED BY <1>4, <3>1
  <2> QED BY <2>1, <2>2 DEF Walks, Step
<1> QED BY <1>5, <1>6

\* d is a demuxer.
Shape(d) == DOMAIN d = DOMAIN Demuxer0

Moved(d) == [d EXCEPT !.pos = @ + 1]

\* Nothing comes before the first element of a sequence.
LEMMA SumToZero == ASSUME NEW s PROVE SumTo(s, 0) = 0
<1> DEFINE Body(f) == [k \in 0 .. 0 |-> IF k = 0 THEN 0 ELSE f[k - 1] + s[k]]
           g == [k \in 0 .. 0 |-> 0]
<1>1. g = Body(g)
  OBVIOUS
<1>2. \E f : f = Body(f)
  <2> HIDE DEF g, Body
  <2> QED BY <1>1
<1> DEFINE sum == CHOOSE f : f = Body(f)
<1>3. sum = Body(sum)
  <2> HIDE DEF Body
  <2> QED BY <1>2
<1>4. SumTo(s, 0) = sum[0]
  BY DEF SumTo
<1> HIDE DEF sum
<1> QED BY <1>3, <1>4

\* H is F with one more cell, or with cell k replaced.
Extended(H, F, c) ==
    /\ Len(H) = Len(F) + 1 /\ H[Len(F) + 1] = c
    /\ \A i \in 1 .. Len(F) : H[i] = F[i]

Patched(H, F, k, c) ==
    /\ Len(H) = Len(F) /\ H[k] = c
    /\ \A i \in 1 .. Len(F) : i # k => H[i] = F[i]

\* A set of numbers up to n has a least one, which Min finds.
LEMMA LeastInRange ==
    ASSUME NEW n \in Nat, NEW S, S \subseteq 1 .. n, S # {}
    PROVE  Min(S) \in S /\ \A i \in S : Min(S) <= i
<1>1. S \subseteq Nat
  OBVIOUS
<1>2. \E i \in S : \A j \in S : i <= j
  BY <1>1, LeastNatural
<1> QED BY <1>2 DEF Min

\* A set of numbers up to n has a greatest one.
LEMMA GreatestInRange ==
    ASSUME NEW n \in Nat, NEW S, S \subseteq 0 .. n, S # {}
    PROVE  \E i \in S : \A j \in S : j <= i
<1> DEFINE T == {n - i : i \in S}
<1>1. T \subseteq Nat /\ T # {}
  <2>1. \A i \in S : n - i \in Nat
    OBVIOUS
  <2>2. \E i \in S : n - i \in T
    OBVIOUS
  <2> QED BY <2>1, <2>2
<1>2. PICK t \in T : \A u \in T : t <= u
  BY <1>1, LeastNatural
<1>3. PICK i \in S : t = n - i
  OBVIOUS
<1>4. ASSUME NEW j \in S PROVE j <= i
  <2>1. n - j \in T
    OBVIOUS
  <2>2. t <= n - j /\ i \in 0 .. n /\ j \in 0 .. n
    BY <1>2, <2>1
  <2> QED BY <1>3, <2>2
<1> QED BY <1>4

\* CHOOSE finds the last of a set of positions.
LEMMA LastChosen ==
    ASSUME NEW n \in Nat, NEW S, S \subseteq 1 .. n, S # {}
    PROVE  LET m == CHOOSE k \in S : \A j \in S : j <= k IN m \in S /\ \A j \in S : j <= m
<1>1. S \subseteq 0 .. n
  OBVIOUS
<1>2. \E k \in S : \A j \in S : j <= k
  BY <1>1, GreatestInRange
<1> QED BY <1>2

\* The same of the first of a set.
LEMMA FirstChosen ==
    ASSUME NEW n \in Nat, NEW S, S \subseteq 1 .. n, S # {}
    PROVE  LET m == CHOOSE k \in S : \A j \in S : k <= j IN m \in S /\ \A j \in S : m <= j
<1>1. S \subseteq Nat
  OBVIOUS
<1>2. \E k \in S : \A j \in S : k <= j
  BY <1>1, LeastNatural
<1> QED BY <1>2

\* F is a sequence of any cells.
IsSeq(F) == \E S : F \in Seq(S)

\* Append, on a sequence of any cells.
LEMMA SeqAppend ==
    ASSUME NEW F, IsSeq(F), NEW c
    PROVE  /\ Len(F) \in Nat /\ DOMAIN F = 1 .. Len(F)
           /\ IsSeq(Append(F, c)) /\ Extended(Append(F, c), F, c)
           /\ DOMAIN Append(F, c) = 1 .. Len(F) + 1
<1>1. PICK S : F \in Seq(S)
  BY DEF IsSeq
<1>2. F \in Seq(S \cup {c}) /\ c \in S \cup {c}
  <2>1. Len(F) \in Nat /\ F \in [1 .. Len(F) -> S]
    BY <1>1, LenProperties
  <2>2. F \in [1 .. Len(F) -> S \cup {c}]
    BY <2>1
  <2> QED BY <2>1, <2>2
<1>3. /\ Append(F, c) \in Seq(S \cup {c}) /\ Len(Append(F, c)) = Len(F) + 1
      /\ Len(F) \in Nat /\ Append(F, c)[Len(F) + 1] = c
      /\ \A i \in 1 .. Len(F) : Append(F, c)[i] = F[i]
  BY <1>2, AppendProperties, LenProperties
<1> QED BY <1>2, <1>3, LenProperties DEF IsSeq, Extended

\* Replacing one cell of a sequence of any cells.
LEMMA SeqPatch ==
    ASSUME NEW F, IsSeq(F), NEW k \in 1 .. Len(F), NEW c
    PROVE  IsSeq([F EXCEPT ![k] = c]) /\ Patched([F EXCEPT ![k] = c], F, k, c)
<1>1. PICK S : F \in Seq(S)
  BY DEF IsSeq
<1> DEFINE H == [F EXCEPT ![k] = c]
<1>2. Len(F) \in Nat /\ F \in [1 .. Len(F) -> S]
  BY <1>1, LenProperties
<1>3. H \in [1 .. Len(F) -> S \cup {c}]
  BY <1>2
<1>4. H \in Seq(S \cup {c}) /\ Len(H) = Len(F)
  BY <1>2, <1>3
<1>5. H[k] = c /\ \A i \in 1 .. Len(F) : i # k => H[i] = F[i]
  BY <1>2
<1> QED BY <1>4, <1>5 DEF IsSeq, Patched

-----------------------------------------------------------------------------
(* A file that was laid out as Matroska wants it, and where a demuxer      *)
(* stands in it.  M is the number of cells that the file will have.        *)

\* No reader gets past cell i.
BrokenAt(F, i, M) ==
    \/ i = 1 /\ ~F[i].matroska
    \/ F[i] = Torn
    \/ F[i].el \in {"segment", "cluster"} /\ F[i].size # Unknown /\ i + F[i].size > M
    \/ F[i].el = "group" /\ ~F[i].hasBlock
    \/ IsBlock(F[i]) /\ F[i].block.lacing = "fixed" /\ Len(F[i].block.rest) % F[i].block.count # 0
    \/ IsBlock(F[i]) /\ Alone(F[i].block) /\ F[i].block.vint = 0

\* The first n cells are sound.
Clean(F, n, M) == n <= M /\ \A i \in 1 .. n : ~BrokenAt(F, i, M)

\* p is the last of the first n cells of its kind; there is none.
LastOf(F, el, p, n) == p \in 1 .. n /\ F[p].el = el /\ \A i \in p + 1 .. n : F[i].el # el
None(F, el, n) == \A i \in 1 .. n : F[i].el # el

\* Closed the first n cells a cluster of unknown size is open, one of known size
\* is open, or is complete.
Endless(F, n) == \E p \in 1 .. n : LastOf(F, "cluster", p, n) /\ F[p].size = Unknown
Within(F, n)  == \E p \in 1 .. n : /\ LastOf(F, "cluster", p, n) /\ F[p].size # Unknown
                                   /\ n < p + F[p].size
Closed(F, n)  == \E p \in 1 .. n : /\ LastOf(F, "cluster", p, n) /\ F[p].size # Unknown
                                   /\ p + F[p].size <= n

\* Cell n + 1 stands where it may.
Placed(F, n) ==
    LET el == F[n + 1].el
    IN  \/ n = 0 /\ el = "ebml"
        \/ n = 1 /\ el = "segment" /\ F[n + 1].size = Unknown
        \/ /\ n >= 2 /\ None(F, "cluster", n)
           /\ el \in {"void", "seekhead", "info", "tracks", "tags", "cluster"}
        \/ /\ (Endless(F, n) \/ Closed(F, n)) /\ F[n].el # "cluster"
           /\ el \in {"tags", "cluster"}
        \/ /\ (Endless(F, n) \/ Within(F, n))
           /\ IF F[n].el = "cluster" THEN el = "timestamp" ELSE el \in {"simple", "group"}

\* Where the demuxer is after n cells.
Place(d, F, n, M) ==
    /\ Shape(d) /\ d.pos = n
    /\ n = 0 => d.phase = "ebml"
    /\ n = 1 => d.phase = "segment"
    /\ n >= 2 => d.phase \in {"header", "in", "top"} /\ d.segEnd = M
    /\ n >= 2 /\ None(F, "cluster", n) => d.phase = "header"
    /\ \A p \in 1 .. n : LastOf(F, "cluster", p, n) =>
          /\ IF F[p].size = Unknown THEN d.phase = "in" /\ d.end = M
             ELSE \/ d.phase = "in" /\ d.end = p + F[p].size
                  \/ d.phase = "top" /\ p + F[p].size <= n
          /\ p < n => \A t \in 1 .. n : LastOf(F, "timestamp", t, n) => d.ts = F[t].ts

\* Cluster sizes are unknown or positive.
Sized(F, n) == \A i \in 1 .. n : F[i].el = "cluster" => F[i].size \in {Unknown} \cup (Nat \ {0})

\* The error that a broken cell makes of a reader.
Stopped(r, d) == r.phase = "error" /\ r.packets = d.packets

\* What a demuxer that has moved to m makes of cell n + 1.
ReadAs(r, m, F, n, M) ==
    /\ n = 0 => r = [m EXCEPT !.phase = "segment"]
    /\ n = 1 => r = [m EXCEPT !.phase = "header", !.segEnd = M]
    /\ n >= 2 /\ F[n + 1].el = "cluster" => r = EnterCluster(m, F[n + 1], M)
    /\ n >= 2 /\ None(F, "cluster", n) /\ F[n + 1].el # "cluster" => r = HeaderElement(m, F[n + 1])
    /\ Closed(F, n) /\ F[n + 1].el # "cluster" => r = TopElement(m, F[n + 1])
    /\ (Endless(F, n) \/ Within(F, n)) /\ F[n + 1].el # "cluster" => r = ClusterElement(m, F[n + 1])

\* Which branch of ReadCell takes a cell.
LEMMA ReadCellAt ==
    ASSUME NEW F, NEW n \in Nat, NEW M \in Nat, n + 1 <= M, Sized(F, n + 1),
           NEW d, Place(d, F, n, M), Placed(F, n),
           ~BrokenAt(F, n + 1, M)
    PROVE  ReadAs(ReadCell(d, F[n + 1], M), Moved(d), F, n, M)
<1> DEFINE c == F[n + 1]
           m == Moved(d)
           r == ReadCell(d, c, M)
           fits == c.size = Unknown \/ m.pos + c.size <= M
           top  == d.phase = "top" \/ (d.phase = "in" /\ d.pos >= d.end)
           fail == [d EXCEPT !.phase = "error"]
<1>1. m.pos = n + 1 /\ d.pos = n /\ m.phase = d.phase
  BY DEF Place, Shape, Demuxer0, Moved
<1>2. n = 0 => r = [m EXCEPT !.phase = "segment"]
  <2> SUFFICES ASSUME n = 0 PROVE r = [m EXCEPT !.phase = "segment"]
    OBVIOUS
  <2>1. d.phase = "ebml" /\ c.el = "ebml" /\ c.matroska
    BY DEF Place, Placed, BrokenAt, None, Endless, Closed, Within
  <2> QED BY <2>1 DEF ReadCell, Moved
<1>3. n = 1 => r = [m EXCEPT !.phase = "header", !.segEnd = M]
  <2> SUFFICES ASSUME n = 1 PROVE r = [m EXCEPT !.phase = "header", !.segEnd = M]
    OBVIOUS
  <2>1. d.phase = "segment"
    BY DEF Place
  <2>2. ~Endless(F, n) /\ ~Closed(F, n) /\ ~Within(F, n) => c.el = "segment" /\ c.size = Unknown
    BY DEF Placed
  <2>3. ~LastOf(F, "cluster", 1, 1)
    BY <2>1 DEF Place
  <2>4. ~Endless(F, n) /\ ~Closed(F, n) /\ ~Within(F, n)
    BY <2>3 DEF Endless, Closed, Within
  <2> QED BY <2>1, <2>2, <2>4 DEF ReadCell, Moved
<1>4. ASSUME n >= 2
      PROVE  r = CASE c.el \in {"torn", "master"} -> fail
                   [] c.el = "cluster" -> IF fits THEN EnterCluster(m, c, M) ELSE fail
                   [] OTHER -> IF d.phase = "header" THEN HeaderElement(m, c)
                               ELSE IF top THEN TopElement(m, c) ELSE ClusterElement(m, c)
  <2>1. d.phase \in {"header", "in", "top"} /\ d.segEnd = M /\ ~(d.pos >= d.segEnd)
    BY <1>1, <1>4 DEF Place
  <2> QED BY <2>1 DEF ReadCell, Moved
<1>5. n >= 2 => c.el \notin {"torn", "master"}
  BY DEF Placed
<1>6. c.el = "cluster" => fits
  <2>1. c.el = "cluster" => c.size = Unknown \/ c.size \in Nat
    BY DEF Sized
  <2>2. c.el = "cluster" => c.size = Unknown \/ ~(n + 1 + c.size > M)
    BY DEF BrokenAt
  <2> QED BY <1>1, <2>1, <2>2
<1> HIDE DEF r, m, c, fits, top, fail
<1>7. n >= 2 /\ c.el = "cluster" => r = EnterCluster(m, c, M)
  BY <1>4, <1>6
<1>8. n >= 2 /\ c.el # "cluster" =>
          r = IF d.phase = "header" THEN HeaderElement(m, c)
              ELSE IF top THEN TopElement(m, c) ELSE ClusterElement(m, c)
  BY <1>4, <1>5
<1>9. n >= 2 /\ None(F, "cluster", n) => d.phase = "header"
  BY DEF Place
<1>10. Closed(F, n) => n >= 2 /\ d.phase # "header" /\ top
  <2> SUFFICES ASSUME NEW p \in 1 .. n, LastOf(F, "cluster", p, n), F[p].size # Unknown,
                      p + F[p].size <= n
               PROVE  n >= 2 /\ d.phase # "header" /\ top
    BY DEF Closed
  <2>1. F[p].size \in Nat \ {0}
    BY DEF LastOf, Sized
  <2>2. (d.phase = "in" /\ d.end = p + F[p].size) \/ d.phase = "top"
    BY DEF Place
  <2> QED BY <1>1, <2>1, <2>2 DEF top
<1>11. Endless(F, n) \/ Within(F, n) => n >= 2 /\ d.phase = "in" /\ ~top
  <2>1. ASSUME NEW p \in 1 .. n, LastOf(F, "cluster", p, n), F[p].size = Unknown
        PROVE  n >= 2 /\ d.phase = "in" /\ ~top
    <3>1. d.phase = "in" /\ d.end = M
      BY <2>1 DEF Place
    <3>2. n # 1 /\ n # 0
      BY <3>1 DEF Place
    <3> QED BY <1>1, <3>1, <3>2 DEF top
  <2>2. ASSUME NEW p \in 1 .. n, LastOf(F, "cluster", p, n), F[p].size # Unknown, n < p + F[p].size
        PROVE  n >= 2 /\ d.phase = "in" /\ ~top
    <3>1. F[p].size \in Nat \ {0}
      BY <2>2 DEF LastOf, Sized
    <3>2. d.phase = "in" /\ d.end = p + F[p].size
      BY <2>2, <3>1 DEF Place
    <3>3. n # 1 /\ n # 0
      BY <3>2 DEF Place
    <3> QED BY <1>1, <2>2, <3>1, <3>2, <3>3 DEF top
  <2> QED BY <2>1, <2>2 DEF Endless, Within
<1> QED
  BY <1>2, <1>3, <1>7, <1>8, <1>9, <1>10, <1>11 DEF r, m, c, ReadAs

\* A broken cell stops the reader.
LEMMA ReadCellBroken ==
    ASSUME NEW F, NEW n \in Nat, NEW M \in Nat, n + 1 <= M, Sized(F, n + 1),
           NEW d, Place(d, F, n, M), Placed(F, n) \/ F[n + 1] = Torn,
           BrokenAt(F, n + 1, M)
    PROVE  Stopped(ReadCell(d, F[n + 1], M), d)
<1> DEFINE c == F[n + 1]
           m == Moved(d)
           r == ReadCell(d, c, M)
           fits == c.size = Unknown \/ m.pos + c.size <= M
           top  == d.phase = "top" \/ (d.phase = "in" /\ d.pos >= d.end)
           fail == [d EXCEPT !.phase = "error"]
<1>1. m.pos = n + 1 /\ d.pos = n /\ m.phase = d.phase /\ m.packets = d.packets /\ Shape(m)
  BY DEF Place, Shape, Demuxer0, Moved
<1>2. Stopped(fail, d)
  BY DEF Place, Shape, Demuxer0, Stopped
<1>3. CASE n = 0
  <2>1. d.phase = "ebml" /\ ~(c.el = "ebml" /\ c.matroska)
    <3>1. d.phase = "ebml"
      BY <1>3 DEF Place
    <3>2. c = Torn => c.el # "ebml"
      BY DEF Torn
    <3>3. c.el = "ebml" => ~c.matroska
      BY <1>3, <3>2 DEF BrokenAt, IsBlock
    <3> QED BY <3>1, <3>3
  <2>2. r = fail
    BY <2>1 DEF ReadCell, Moved
  <2> QED BY <1>2, <2>2
<1>4. CASE n = 1
  <2>1. d.phase = "segment" /\ ~LastOf(F, "cluster", 1, 1)
    BY <1>4 DEF Place
  <2>2. c = Torn
    <3>1. ~Endless(F, n) /\ ~Closed(F, n) /\ ~Within(F, n)
      BY <1>4, <2>1 DEF Endless, Closed, Within
    <3>2. Placed(F, n) => c.el = "segment" /\ c.size = Unknown
      BY <1>4, <3>1 DEF Placed
    <3>3. c.el = "segment" /\ c.size = Unknown => c = Torn
      BY <1>4 DEF BrokenAt, IsBlock
    <3> QED BY <3>2, <3>3
  <2>3. c.el # "segment"
    BY <2>2 DEF Torn
  <2>4. r = fail
    BY <2>1, <2>3 DEF ReadCell, Moved
  <2> QED BY <1>2, <2>4
<1>5. ASSUME n >= 2
      PROVE  r = CASE c.el \in {"torn", "master"} -> fail
                   [] c.el = "cluster" -> IF fits THEN EnterCluster(m, c, M) ELSE fail
                   [] OTHER -> IF d.phase = "header" THEN HeaderElement(m, c)
                               ELSE IF top THEN TopElement(m, c) ELSE ClusterElement(m, c)
  <2>1. d.phase \in {"header", "in", "top"} /\ d.segEnd = M /\ ~(d.pos >= d.segEnd)
    BY <1>1, <1>5 DEF Place
  <2> QED BY <2>1 DEF ReadCell, Moved
<1>6. c = Torn => c.el = "torn"
  BY DEF Torn
<1>7. n >= 2 /\ c = Torn => Stopped(r, d)
  <2> HIDE DEF r, m, c, fits, top, fail
  <2> QED BY <1>2, <1>5, <1>6
<1>8. n >= 2 /\ c.el = "cluster" => ~fits
  <2>0. n >= 2 => n + 1 # 1
    OBVIOUS
  <2>1. n >= 2 /\ c.el = "cluster" => c.size # Unknown /\ n + 1 + c.size > M
    BY <1>6, <2>0 DEF BrokenAt, IsBlock
  <2>2. c.el = "cluster" /\ c.size # Unknown => c.size \in Nat
    BY DEF Sized
  <2> QED BY <1>1, <2>1, <2>2 DEF Unknown
<1>9. n >= 2 /\ c.el = "cluster" => Stopped(r, d)
  <2> HIDE DEF r, m, c, fits, top, fail
  <2> QED BY <1>2, <1>5, <1>8
<1>10. ASSUME n >= 2, c # Torn, c.el # "cluster" PROVE Stopped(r, d)
  <2>1. Placed(F, n)
    BY <1>10
  <2>2. n + 1 # 1
    BY <1>10
  <2>3. IsBlock(c)
    BY <1>10, <2>1, <2>2 DEF BrokenAt, Placed, IsBlock
  <2>4. Endless(F, n) \/ Within(F, n)
    BY <1>10, <2>1, <2>3 DEF Placed, IsBlock
  <2>5. d.phase = "in" /\ ~top
    <3>1. ASSUME NEW p \in 1 .. n, LastOf(F, "cluster", p, n), F[p].size = Unknown
          PROVE  d.phase = "in" /\ d.end = M
      BY <3>1 DEF Place
    <3>2. ASSUME NEW p \in 1 .. n, LastOf(F, "cluster", p, n), F[p].size # Unknown, n < p + F[p].size
          PROVE  d.phase = "in" /\ d.end = p + F[p].size
      <4>1. F[p].size \in Nat \ {0}
        BY <3>2 DEF LastOf, Sized
      <4> QED BY <3>2, <4>1 DEF Place
    <3> QED BY <1>1, <2>4, <3>1, <3>2 DEF Endless, Within, top, Sized, LastOf
  <2>6. r = ClusterElement(m, c)
    <3>1. c.el \notin {"torn", "master", "cluster"} /\ d.phase # "header"
      BY <1>10, <2>3, <2>5 DEF IsBlock
    <3> HIDE DEF r, m, c, fits, top, fail
    <3> QED BY <1>5, <1>10, <2>5, <3>1
  <2> DEFINE bad == [m EXCEPT !.phase = "error"]
  <2>7. Stopped(bad, d)
    BY <1>1 DEF Stopped, Shape, Demuxer0
  <2>8. \/ c.el = "group" /\ ~c.hasBlock
        \/ c.block.lacing = "fixed" /\ Len(c.block.rest) % c.block.count # 0
        \/ Alone(c.block) /\ c.block.vint = 0
    BY <1>10, <2>2, <2>3 DEF BrokenAt, IsBlock
  <2>9. /\ c.block.lacing = "fixed" /\ Len(c.block.rest) % c.block.count # 0 => BadLacing(c.block)
        /\ Alone(c.block) /\ c.block.vint = 0 => BadLacing(c.block)
    BY DEF BadLacing
  <2>10. ClusterElement(m, c) = bad
    <3>1. CASE c.el = "simple"
      <4>1. BadLacing(c.block)
        BY <2>8, <2>9, <3>1
      <4> QED BY <3>1, <4>1 DEF ClusterElement
    <3>2. CASE c.el = "group"
      <4>1. ~c.hasBlock \/ BadLacing(c.block)
        BY <2>8, <2>9, <3>2
      <4>2. ~c.hasBlock => ClusterElement(m, c) = bad
        BY <3>2 DEF ClusterElement
      <4>3. c.hasBlock /\ BadLacing(c.block) => ClusterElement(m, c) = bad
        BY <3>2 DEF ClusterElement
      <4> QED BY <4>1, <4>2, <4>3
    <3> QED BY <2>3, <3>1, <3>2 DEF IsBlock
  <2> QED BY <2>6, <2>7, <2>10
<1> QED
  BY <1>3, <1>4, <1>7, <1>9, <1>10

\* The last cell of a kind, with one cell more.
LEMMA LastNext ==
    ASSUME NEW F, NEW el, NEW n \in Nat, NEW p \in 1 .. n + 1
    PROVE  /\ F[n + 1].el = el => (LastOf(F, el, p, n + 1) <=> p = n + 1)
           /\ F[n + 1].el # el => (LastOf(F, el, p, n + 1) <=> LastOf(F, el, p, n))
<1>1. CASE p = n + 1
  <2>1. p + 1 .. n + 1 = {} /\ ~(p \in 1 .. n)
    BY <1>1
  <2> QED BY <1>1, <2>1 DEF LastOf
<1>2. CASE p # n + 1
  <2>1. p \in 1 .. n /\ n + 1 \in p + 1 .. n + 1
    BY <1>2
  <2>2. \A i \in p + 1 .. n + 1 : i \in p + 1 .. n \/ i = n + 1
    BY <2>1
  <2>3. \A i \in p + 1 .. n : i \in p + 1 .. n + 1
    BY <2>1
  <2> QED BY <2>1, <2>2, <2>3 DEF LastOf
<1> QED BY <1>1, <1>2

\* The flag and the duration of the frames of a block.
KeyOf(c) == IF c.el = "simple" THEN c.key ELSE ~c.ref
DurOf(c) == IF c.el = "simple" THEN 0 ELSE c.dur

\* The distance of the frames of a block, in timestamp units.
StepOf(d, b) == IF b.lacing = "none" THEN 0 ELSE DefaultDurTS(d, b.track)

\* A block whose frames can be told apart.
Sound(c) == IsBlock(c) => ~BadLacing(c.block) /\ (c.el = "group" => c.hasBlock)

\* What the branches of ReadCell change.
InHeader(r, m, c) ==
    /\ Shape(r) /\ r.pos = m.pos /\ r.phase = m.phase /\ r.segEnd = m.segEnd
    /\ r.packets = m.packets
    /\ c.el # "info" => r.scale = m.scale
    /\ c.el = "info" => r.scale = IF c.scale > 0 THEN c.scale ELSE m.scale
    /\ c.el # "tracks" => r.entries = m.entries
    /\ c.el = "tracks" => r.entries = m.entries
           \o [k \in DOMAIN c.entries |-> ParseTrackEntry(c.entries[k])]
    /\ r.tags = IF c.el = "tags" THEN WithTags(m, c).tags ELSE m.tags

OnTop(r, m, c) ==
    /\ Shape(r) /\ r.pos = m.pos /\ r.phase = "top" /\ r.segEnd = m.segEnd
    /\ r.packets = m.packets /\ r.ts = m.ts /\ r.scale = m.scale /\ r.entries = m.entries
    /\ r.tags = IF c.el = "tags" THEN WithTags(m, c).tags ELSE m.tags

InCluster(r, m, c) ==
    /\ Shape(r) /\ r.pos = m.pos /\ r.phase = m.phase /\ r.segEnd = m.segEnd
    /\ r.end = m.end /\ r.scale = m.scale /\ r.entries = m.entries /\ r.tags = m.tags
    /\ r.ts = IF c.el = "timestamp" THEN c.ts ELSE m.ts
    /\ r.packets = IF IsBlock(c)
                   THEN m.packets \o Unlace(c.block, m.ts, StepOf(m, c.block), KeyOf(c), DurOf(c))
                   ELSE m.packets

\* What the handlers of the three places do to a sound element.
LEMMA ElementsChange ==
    ASSUME NEW m, Shape(m), NEW c, Sound(c)
    PROVE  /\ InHeader(HeaderElement(m, c), m, c)
           /\ OnTop(TopElement(m, c), m, c)
           /\ InCluster(ClusterElement(m, c), m, c)
<1>1. /\ Shape(WithTags(m, c)) /\ WithTags(m, c).pos = m.pos /\ WithTags(m, c).phase = m.phase
      /\ WithTags(m, c).segEnd = m.segEnd /\ WithTags(m, c).packets = m.packets
      /\ WithTags(m, c).scale = m.scale /\ WithTags(m, c).entries = m.entries
      /\ WithTags(m, c).ts = m.ts
  BY DEF WithTags, Shape, Demuxer0
<1>2. LET r == HeaderElement(m, c)
      IN  /\ Shape(r) /\ r.pos = m.pos /\ r.phase = m.phase /\ r.segEnd = m.segEnd
          /\ r.packets = m.packets
          /\ c.el # "info" => r.scale = m.scale
          /\ c.el = "info" => r.scale = IF c.scale > 0 THEN c.scale ELSE m.scale
          /\ c.el # "tracks" => r.entries = m.entries
          /\ c.el = "tracks" => r.entries = m.entries
                 \o [k \in DOMAIN c.entries |-> ParseTrackEntry(c.entries[k])]
          /\ r.tags = IF c.el = "tags" THEN WithTags(m, c).tags ELSE m.tags
  <2>1. CASE c.el = "info"
    <3>1. HeaderElement(m, c) = [m EXCEPT !.scale = IF c.scale > 0 THEN c.scale ELSE @, !.date = c.date]
      BY <2>1 DEF HeaderElement
    <3> QED BY <2>1, <3>1 DEF Shape, Demuxer0
  <2>2. CASE c.el = "tracks"
    <3> DEFINE es == m.entries \o [k \in DOMAIN c.entries |-> ParseTrackEntry(c.entries[k])]
    <3>1. HeaderElement(m, c) = [m EXCEPT !.entries = es]
      BY <2>2 DEF HeaderElement
    <3> HIDE DEF es
    <3>2. LET r == HeaderElement(m, c)
          IN  /\ Shape(r) /\ r.pos = m.pos /\ r.phase = m.phase /\ r.segEnd = m.segEnd
              /\ r.packets = m.packets /\ r.scale = m.scale /\ r.entries = es /\ r.tags = m.tags
      BY <3>1 DEF Shape, Demuxer0
    <3> QED BY <2>2, <3>2 DEF es
  <2>3. CASE c.el = "tags"
    <3>1. HeaderElement(m, c) = WithTags(m, c)
      BY <2>3 DEF HeaderElement
    <3> QED BY <1>1, <2>3, <3>1
  <2>4. CASE c.el \notin {"info", "tracks", "tags"}
    <3>1. HeaderElement(m, c) = m
      BY <2>4 DEF HeaderElement
    <3> QED BY <2>4, <3>1
  <2> QED BY <2>1, <2>2, <2>3, <2>4
<1>3. LET r == TopElement(m, c)
      IN  /\ Shape(r) /\ r.pos = m.pos /\ r.phase = "top" /\ r.segEnd = m.segEnd
          /\ r.packets = m.packets /\ r.ts = m.ts /\ r.scale = m.scale /\ r.entries = m.entries
          /\ r.tags = IF c.el = "tags" THEN WithTags(m, c).tags ELSE m.tags
  <2> DEFINE t == [m EXCEPT !.phase = "top"]
  <2>1. /\ Shape(t) /\ t.pos = m.pos /\ t.phase = "top" /\ t.segEnd = m.segEnd /\ t.packets = m.packets
        /\ t.ts = m.ts /\ t.scale = m.scale /\ t.entries = m.entries /\ t.tags = m.tags
    BY DEF Shape, Demuxer0
  <2>2. /\ Shape(WithTags(t, c)) /\ WithTags(t, c).pos = m.pos /\ WithTags(t, c).phase = "top"
        /\ WithTags(t, c).segEnd = m.segEnd /\ WithTags(t, c).packets = m.packets
        /\ WithTags(t, c).ts = m.ts /\ WithTags(t, c).scale = m.scale
        /\ WithTags(t, c).entries = m.entries
    <3> HIDE DEF t
    <3> QED BY <2>1 DEF WithTags, Shape, Demuxer0
  <2>3. WithTags(t, c).tags = WithTags(m, c).tags
    BY DEF WithTags, Shape, Demuxer0
  <2>4. TopElement(m, c) = IF c.el = "tags" THEN WithTags(t, c) ELSE t
    BY DEF TopElement
  <2> HIDE DEF t
  <2> QED BY <2>1, <2>2, <2>3, <2>4
<1>4. LET r == ClusterElement(m, c)
      IN  /\ Shape(r) /\ r.pos = m.pos /\ r.phase = m.phase /\ r.segEnd = m.segEnd
          /\ r.end = m.end /\ r.scale = m.scale /\ r.entries = m.entries /\ r.tags = m.tags
          /\ r.ts = IF c.el = "timestamp" THEN c.ts ELSE m.ts
          /\ r.packets = IF IsBlock(c)
                         THEN m.packets \o Unlace(c.block, m.ts, StepOf(m, c.block), KeyOf(c), DurOf(c))
                         ELSE m.packets
  <2>1. CASE c.el = "timestamp"
    <3>1. ClusterElement(m, c) = [m EXCEPT !.ts = c.ts] /\ ~IsBlock(c)
      BY <2>1 DEF ClusterElement, IsBlock
    <3> QED BY <2>1, <3>1 DEF Shape, Demuxer0
  <2>2. CASE IsBlock(c)
    <3> DEFINE ps == m.packets \o Unlace(c.block, m.ts, StepOf(m, c.block), KeyOf(c), DurOf(c))
    <3>1. ClusterElement(m, c) = [m EXCEPT !.packets = ps]
      <4>1. ~BadLacing(c.block) /\ (c.el = "group" => c.hasBlock)
        BY <2>2 DEF Sound
      <4>2. CASE c.el = "simple"
        BY <4>1, <4>2 DEF ClusterElement, StepOf, KeyOf, DurOf
      <4>3. CASE c.el = "group"
        BY <4>1, <4>3 DEF ClusterElement, StepOf, KeyOf, DurOf
      <4> QED BY <2>2, <4>2, <4>3 DEF IsBlock
    <3> HIDE DEF ps
    <3>2. LET r == ClusterElement(m, c)
          IN  /\ Shape(r) /\ r.pos = m.pos /\ r.phase = m.phase /\ r.segEnd = m.segEnd
              /\ r.end = m.end /\ r.scale = m.scale /\ r.entries = m.entries /\ r.tags = m.tags
              /\ r.ts = m.ts /\ r.packets = ps
      BY <3>1 DEF Shape, Demuxer0
    <3>3. c.el # "timestamp"
      BY <2>2 DEF IsBlock
    <3> QED BY <2>2, <3>2, <3>3 DEF ps
  <2>3. CASE c.el \notin {"timestamp", "simple", "group"}
    <3>1. ClusterElement(m, c) = m /\ ~IsBlock(c)
      BY <2>3 DEF ClusterElement, IsBlock
    <3> QED BY <2>3, <3>1
  <2> QED BY <2>1, <2>2, <2>3 DEF IsBlock
<1> QED BY <1>2, <1>3, <1>4 DEF InHeader, OnTop, InCluster

\* The open cluster is the last one: only one of these is the case.
LEMMA OneScope ==
    ASSUME NEW F, NEW n \in Nat, Sized(F, n)
    PROVE  /\ None(F, "cluster", n) => ~Endless(F, n) /\ ~Within(F, n) /\ ~Closed(F, n)
           /\ Closed(F, n) => ~Endless(F, n) /\ ~Within(F, n)
           /\ Endless(F, n) => ~Within(F, n)
<1>1. ASSUME NEW p \in 1 .. n, NEW q \in 1 .. n, LastOf(F, "cluster", p, n), LastOf(F, "cluster", q, n)
      PROVE  p = q
  <2>1. ~(q \in p + 1 .. n) /\ ~(p \in q + 1 .. n)
    BY <1>1 DEF LastOf
  <2> QED BY <2>1
<1>2. ASSUME NEW p \in 1 .. n, LastOf(F, "cluster", p, n) PROVE ~None(F, "cluster", n)
  BY <1>2 DEF LastOf, None
<1>3. None(F, "cluster", n) => ~Endless(F, n) /\ ~Within(F, n) /\ ~Closed(F, n)
  BY <1>2 DEF Endless, Within, Closed
<1>4. Endless(F, n) => ~Within(F, n) /\ ~Closed(F, n)
  BY <1>1 DEF Endless, Within, Closed
<1>5. Closed(F, n) => ~Within(F, n)
  <2> SUFFICES ASSUME NEW p \in 1 .. n, NEW q \in 1 .. n,
                      LastOf(F, "cluster", p, n), LastOf(F, "cluster", q, n),
                      F[p].size # Unknown, p + F[p].size <= n, n < q + F[q].size
               PROVE  FALSE
    BY DEF Within, Closed
  <2>1. p = q /\ F[p].size \in Nat
    BY <1>1 DEF Sized, LastOf
  <2> QED BY <2>1
<1> QED BY <1>3, <1>4, <1>5

\* A readable cell moves the demuxer to its place behind it.
LEMMA PlaceNext ==
    ASSUME NEW F, NEW n \in Nat, NEW M \in Nat, n + 1 <= M, Sized(F, n + 1),
           NEW d, Place(d, F, n, M), Placed(F, n), ~BrokenAt(F, n + 1, M), Sound(F[n + 1])
    PROVE  Place(ReadCell(d, F[n + 1], M), F, n + 1, M)
<1> DEFINE c == F[n + 1]
           m == Moved(d)
           r == ReadCell(d, c, M)
<1>1. /\ Shape(m) /\ m.pos = n + 1 /\ m.phase = d.phase /\ m.segEnd = d.segEnd /\ m.end = d.end
      /\ m.ts = d.ts
  BY DEF Place, Shape, Demuxer0, Moved
<1>0. ReadAs(r, m, F, n, M)
  BY ReadCellAt
<1>2. CASE n = 0
  <2>1. r = [m EXCEPT !.phase = "segment"]
    BY <1>0, <1>2 DEF ReadAs
  <2>2. Shape(r) /\ r.pos = 1 /\ r.phase = "segment"
    BY <1>1, <1>2, <2>1 DEF Shape, Demuxer0
  <2>3. c.el = "ebml"
    BY <1>2 DEF Placed, Endless, Closed, Within
  <2> HIDE DEF r
  <2>4. \A p \in 1 .. 1 : ~LastOf(F, "cluster", p, 1)
    BY <1>2, <2>3 DEF LastOf
  <2>5. Place(r, F, 1, M)
    BY <2>2, <2>4 DEF Place
  <2> QED BY <1>2, <2>5 DEF r
<1>3. CASE n = 1
  <2>1. r = [m EXCEPT !.phase = "header", !.segEnd = M]
    BY <1>0, <1>3 DEF ReadAs
  <2>2. Shape(r) /\ r.pos = 2 /\ r.phase = "header" /\ r.segEnd = M
    BY <1>1, <1>3, <2>1 DEF Shape, Demuxer0
  <2>3. ~LastOf(F, "cluster", 1, 1)
    BY <1>3 DEF Place
  <2>4. c.el = "segment"
    BY <1>3, <2>3 DEF Placed, Endless, Closed, Within
  <2> HIDE DEF r
  <2>5. \A p \in 1 .. 2 : ~LastOf(F, "cluster", p, 2)
    <3> SUFFICES ASSUME NEW p \in 1 .. 2 PROVE ~LastOf(F, "cluster", p, 2)
      OBVIOUS
    <3>1. ~LastOf(F, "cluster", p, 1)
      BY <2>3 DEF LastOf
    <3>2. LastOf(F, "cluster", p, 2) <=> LastOf(F, "cluster", p, 1)
      BY <1>3, <2>4, LastNext
    <3> QED BY <3>1, <3>2
  <2>6. Place(r, F, 2, M)
    BY <2>2, <2>5 DEF Place
  <2> QED BY <1>3, <2>6 DEF r
<1>4. ASSUME n >= 2, c.el = "cluster" PROVE Place(r, F, n + 1, M)
  <2>1. r = EnterCluster(m, c, M)
    BY <1>0, <1>4 DEF ReadAs
  <2>2. /\ Shape(r) /\ r.pos = n + 1 /\ r.phase = "in" /\ r.segEnd = m.segEnd
        /\ r.end = IF c.size = Unknown THEN m.segEnd ELSE m.pos + c.size
    BY <1>1, <2>1 DEF Shape, Demuxer0, EnterCluster
  <2> HIDE DEF r
  <2>3. r.segEnd = M
    BY <1>1, <1>4, <2>2 DEF Place
  <2>4. ASSUME NEW p \in 1 .. n + 1, LastOf(F, "cluster", p, n + 1) PROVE p = n + 1
    BY <1>4, <2>4, LastNext
  <2>5. ~None(F, "cluster", n + 1)
    <3>1. n + 1 \in 1 .. n + 1
      OBVIOUS
    <3> QED BY <1>4, <3>1 DEF None
  <2>6. n + 1 >= 2 /\ n + 1 # 0 /\ n + 1 # 1
    BY <1>4
  <2> QED BY <1>1, <2>2, <2>3, <2>4, <2>5, <2>6 DEF Place
<1>5. ASSUME n >= 2, c.el # "cluster", Shape(r), r.pos = n + 1, r.segEnd = M,
             r.phase \in {"header", "in", "top"},
             None(F, "cluster", n) => r.phase = "header",
             Endless(F, n) \/ Within(F, n) => r.phase = "in" /\ r.end = d.end
                       /\ r.ts = IF c.el = "timestamp" THEN c.ts ELSE d.ts,
             Closed(F, n) => r.phase = "top" /\ r.ts = d.ts /\ c.el # "timestamp"
      PROVE  Place(r, F, n + 1, M)
  <2> HIDE DEF r
  <2>1. None(F, "cluster", n + 1) => r.phase = "header"
    BY <1>5 DEF None
  <2>2. ASSUME NEW p \in 1 .. n + 1, LastOf(F, "cluster", p, n + 1)
        PROVE  /\ IF F[p].size = Unknown THEN r.phase = "in" /\ r.end = M
                  ELSE \/ r.phase = "in" /\ r.end = p + F[p].size
                       \/ r.phase = "top" /\ p + F[p].size <= n + 1
               /\ p < n + 1 => \A t \in 1 .. n + 1 : LastOf(F, "timestamp", t, n + 1) => r.ts = F[t].ts
    <3>1. p \in 1 .. n /\ LastOf(F, "cluster", p, n)
      <4>1. LastOf(F, "cluster", p, n)
        BY <1>5, <2>2, LastNext
      <4> QED BY <4>1 DEF LastOf
    <3>2. F[p].size = Unknown \/ F[p].size \in Nat \ {0}
      BY <3>1 DEF Sized, LastOf
    <3>3. /\ IF F[p].size = Unknown THEN d.phase = "in" /\ d.end = M
             ELSE \/ d.phase = "in" /\ d.end = p + F[p].size
                  \/ d.phase = "top" /\ p + F[p].size <= n
          /\ p < n => \A t \in 1 .. n : LastOf(F, "timestamp", t, n) => d.ts = F[t].ts
      BY <3>1 DEF Place
    <3>4. \/ F[p].size = Unknown /\ Endless(F, n)
          \/ F[p].size # Unknown /\ n < p + F[p].size /\ Within(F, n)
          \/ F[p].size # Unknown /\ p + F[p].size <= n /\ Closed(F, n)
      BY <3>1, <3>2 DEF Endless, Within, Closed
    <3>5. IF F[p].size = Unknown THEN r.phase = "in" /\ r.end = M
          ELSE \/ r.phase = "in" /\ r.end = p + F[p].size
               \/ r.phase = "top" /\ p + F[p].size <= n + 1
      BY <1>5, <3>2, <3>3, <3>4
    <3>6. ASSUME NEW t \in 1 .. n + 1, LastOf(F, "timestamp", t, n + 1) PROVE r.ts = F[t].ts
      <4>1. CASE c.el = "timestamp"
        <5>1. t = n + 1
          BY <3>6, <4>1, LastNext
        <5> QED BY <1>5, <3>4, <4>1, <5>1
      <4>2. CASE c.el # "timestamp"
        <5>1. LastOf(F, "timestamp", t, n)
          BY <3>6, <4>2, LastNext
        <5>2. t \in 1 .. n
          BY <5>1 DEF LastOf
        <5>3. p < n
          <6> SUFFICES ASSUME p = n PROVE FALSE
            BY <3>1
          <6>1. F[n].el = "cluster"
            BY <3>1 DEF LastOf
          <6>2. Endless(F, n) \/ Within(F, n)
            BY <3>2, <3>4
          <6>3. ~None(F, "cluster", n)
            BY <3>1, <6>1 DEF None
          <6> QED BY <1>5, <4>2, <6>1, <6>2, <6>3 DEF Placed
        <5>4. r.ts = d.ts
          BY <1>5, <3>4, <4>2
        <5> QED BY <3>3, <5>1, <5>2, <5>3, <5>4
      <4> QED BY <4>1, <4>2
    <3> QED BY <3>5, <3>6
  <2>3. n + 1 >= 2 /\ n + 1 # 0 /\ n + 1 # 1
    BY <1>5
  <2> QED BY <1>5, <2>1, <2>2, <2>3 DEF Place
<1>6. ASSUME n >= 2, c.el # "cluster" PROVE Place(r, F, n + 1, M)
  <2>1. /\ None(F, "cluster", n) => ~Endless(F, n) /\ ~Within(F, n) /\ ~Closed(F, n)
        /\ Closed(F, n) => ~Endless(F, n) /\ ~Within(F, n)
    <3>1. Sized(F, n)
      BY DEF Sized
    <3> QED BY <3>1, OneScope
  <2>2. None(F, "cluster", n) \/ Endless(F, n) \/ Within(F, n) \/ Closed(F, n)
    BY <1>6 DEF Placed
  <2>3. m.segEnd = M /\ d.phase \in {"header", "in", "top"}
    BY <1>1, <1>6 DEF Place
  <2>4. CASE None(F, "cluster", n)
    <3>1. r = HeaderElement(m, c) /\ d.phase = "header"
      BY <1>0, <1>6, <2>4 DEF ReadAs, Place
    <3>2. Shape(r) /\ r.pos = m.pos /\ r.phase = m.phase /\ r.segEnd = m.segEnd
      <4>1. InHeader(r, m, c)
        <5> HIDE DEF r, m
        <5> QED BY <1>1, <3>1, ElementsChange
      <4> HIDE DEF r, m
      <4> QED BY <4>1 DEF InHeader
    <3> HIDE DEF r, m
    <3> QED BY <1>1, <1>5, <1>6, <2>1, <2>3, <2>4, <3>1, <3>2
  <2>5. CASE Closed(F, n)
    <3>1. r = TopElement(m, c)
      BY <1>0, <1>6, <2>5 DEF ReadAs
    <3>2. Shape(r) /\ r.pos = m.pos /\ r.phase = "top" /\ r.segEnd = m.segEnd /\ r.ts = m.ts
      BY <1>1, <3>1, ElementsChange DEF OnTop
    <3>3. c.el # "timestamp"
      BY <1>6, <2>1, <2>5 DEF Placed
    <3> HIDE DEF r, m
    <3> QED BY <1>1, <1>5, <1>6, <2>1, <2>3, <2>5, <3>2, <3>3
  <2>6. CASE Endless(F, n) \/ Within(F, n)
    <3>1. r = ClusterElement(m, c)
      BY <1>0, <1>6, <2>6 DEF ReadAs
    <3>2. /\ Shape(r) /\ r.pos = m.pos /\ r.phase = m.phase /\ r.segEnd = m.segEnd /\ r.end = m.end
          /\ r.ts = IF c.el = "timestamp" THEN c.ts ELSE m.ts
      BY <1>1, <3>1, ElementsChange DEF InCluster
    <3>3. d.phase = "in"
      <4>1. ASSUME NEW p \in 1 .. n, LastOf(F, "cluster", p, n),
                   F[p].size = Unknown \/ n < p + F[p].size
            PROVE  d.phase = "in"
        <5>1. F[p].size = Unknown \/ F[p].size \in Nat \ {0}
          BY <4>1 DEF Sized, LastOf
        <5> QED BY <4>1, <5>1 DEF Place
      <4> QED BY <2>6, <4>1 DEF Endless, Within
    <3> HIDE DEF r, m
    <3> QED BY <1>1, <1>5, <1>6, <2>1, <2>3, <2>6, <3>2, <3>3
  <2> QED BY <2>2, <2>4, <2>5, <2>6
<1> QED
  <2>1. n = 0 \/ n = 1 \/ n >= 2
    OBVIOUS
  <2> QED BY <1>2, <1>3, <1>4, <1>6, <2>1

\* What the reader of cell n + 1 has, given what it had.
Content(r, d, F, n) ==
    LET c == F[n + 1]
    IN  /\ r.scale = IF c.el = "info" THEN (IF c.scale > 0 THEN c.scale ELSE d.scale) ELSE d.scale
        /\ r.entries = IF c.el = "tracks"
                       THEN d.entries \o [k \in DOMAIN c.entries |-> ParseTrackEntry(c.entries[k])]
                       ELSE d.entries
        /\ r.tags = IF c.el = "tags" /\ ~Endless(F, n) THEN WithTags(d, c).tags ELSE d.tags
        /\ r.packets = IF IsBlock(c)
                       THEN d.packets \o Unlace(c.block, d.ts, StepOf(d, c.block), KeyOf(c), DurOf(c))
                       ELSE d.packets

\* What a placed and sound cell adds to what a demuxer has read.
LEMMA ContentNext ==
    ASSUME NEW F, NEW n \in Nat, NEW M \in Nat, n + 1 <= M, Sized(F, n + 1),
           NEW d, Place(d, F, n, M), Placed(F, n), ~BrokenAt(F, n + 1, M), Sound(F[n + 1])
    PROVE  Content(ReadCell(d, F[n + 1], M), d, F, n)
<1> DEFINE c == F[n + 1]
           m == Moved(d)
           r == ReadCell(d, c, M)
<1>0. ReadAs(r, m, F, n, M)
  BY ReadCellAt
<1>1. /\ Shape(m) /\ m.ts = d.ts /\ m.packets = d.packets /\ m.scale = d.scale
      /\ m.entries = d.entries /\ m.tags = d.tags
  BY DEF Place, Shape, Demuxer0, Moved
<1>2. WithTags(m, c).tags = WithTags(d, c).tags
  BY DEF Place, Shape, Demuxer0, Moved, WithTags
<1>3. StepOf(m, c.block) = StepOf(d, c.block)
  BY <1>1 DEF StepOf, DefaultDurTS
<1>4. ASSUME r.scale = m.scale, r.entries = m.entries, r.packets = m.packets, r.tags = m.tags,
             c.el \notin {"info", "tracks", "tags", "simple", "group"}
      PROVE  Content(r, d, F, n)
  <2> HIDE DEF r, m
  <2> QED BY <1>1, <1>4 DEF Content, IsBlock
<1>5. CASE n = 0
  <2>1. r = [m EXCEPT !.phase = "segment"]
    BY <1>0, <1>5 DEF ReadAs
  <2>2. r.scale = m.scale /\ r.entries = m.entries /\ r.packets = m.packets /\ r.tags = m.tags
    BY <1>1, <2>1 DEF Shape, Demuxer0
  <2>3. c.el = "ebml"
    BY <1>5 DEF Placed, Endless, Closed, Within
  <2> QED BY <1>4, <2>2, <2>3
<1>6. CASE n = 1
  <2>1. r = [m EXCEPT !.phase = "header", !.segEnd = M]
    BY <1>0, <1>6 DEF ReadAs
  <2>2. r.scale = m.scale /\ r.entries = m.entries /\ r.packets = m.packets /\ r.tags = m.tags
    BY <1>1, <2>1 DEF Shape, Demuxer0
  <2>3. ~LastOf(F, "cluster", 1, 1)
    BY <1>6 DEF Place
  <2>4. c.el = "segment"
    BY <1>6, <2>3 DEF Placed, Endless, Closed, Within
  <2> QED BY <1>4, <2>2, <2>4
<1>7. CASE n >= 2 /\ c.el = "cluster"
  <2>1. r = EnterCluster(m, c, M)
    BY <1>0, <1>7 DEF ReadAs
  <2>2. r.scale = m.scale /\ r.entries = m.entries /\ r.packets = m.packets /\ r.tags = m.tags
    BY <1>1, <2>1 DEF Shape, Demuxer0, EnterCluster
  <2> QED BY <1>4, <1>7, <2>2
<1>8. CASE n >= 2 /\ c.el # "cluster"
  <2>1. /\ None(F, "cluster", n) => ~Endless(F, n) /\ ~Within(F, n) /\ ~Closed(F, n)
        /\ Closed(F, n) => ~Endless(F, n) /\ ~Within(F, n)
        /\ Endless(F, n) => ~Within(F, n)
    <3>1. Sized(F, n)
      BY DEF Sized
    <3> QED BY <3>1, OneScope
  <2>2. None(F, "cluster", n) \/ Endless(F, n) \/ Within(F, n) \/ Closed(F, n)
    BY <1>8 DEF Placed
  <2>3. CASE None(F, "cluster", n)
    <3>1. InHeader(r, m, c)
      <4>1. r = HeaderElement(m, c)
        BY <1>0, <1>8, <2>3 DEF ReadAs
      <4> HIDE DEF r, m
      <4> QED BY <1>1, <4>1, ElementsChange
    <3>2. ~IsBlock(c) /\ ~Endless(F, n)
      BY <1>8, <2>1, <2>3 DEF Placed, IsBlock
    <3>9. Content(r, d, F, n)
      <4> HIDE DEF r, m
      <4> QED BY <1>1, <1>2, <3>1, <3>2 DEF InHeader, Content
    <3> QED BY <3>9
  <2>4. CASE Closed(F, n)
    <3>1. OnTop(r, m, c)
      <4>1. r = TopElement(m, c)
        BY <1>0, <1>8, <2>4 DEF ReadAs
      <4> HIDE DEF r, m
      <4> QED BY <1>1, <4>1, ElementsChange
    <3>2. c.el = "tags" /\ ~IsBlock(c) /\ ~Endless(F, n)
      BY <1>8, <2>1, <2>4 DEF Placed, IsBlock
    <3>9. Content(r, d, F, n)
      <4> HIDE DEF r, m
      <4> QED BY <1>1, <1>2, <3>1, <3>2 DEF OnTop, Content
    <3> QED BY <3>9
  <2>5. CASE Endless(F, n) \/ Within(F, n)
    <3>1. InCluster(r, m, c)
      <4>1. r = ClusterElement(m, c)
        BY <1>0, <1>8, <2>5 DEF ReadAs
      <4> HIDE DEF r, m
      <4> QED BY <1>1, <4>1, ElementsChange
    <3>2. c.el \in {"tags", "timestamp", "simple", "group"}
      BY <1>8, <2>1, <2>5 DEF Placed
    <3>3. c.el = "tags" => Endless(F, n)
      BY <1>8, <2>1, <2>5 DEF Placed
    <3>4. r.scale = d.scale /\ r.entries = d.entries /\ r.tags = d.tags
      <4> HIDE DEF r, m
      <4> QED BY <1>1, <3>1 DEF InCluster
    <3>5. r.packets = IF IsBlock(c)
                      THEN d.packets \o Unlace(c.block, d.ts, StepOf(d, c.block), KeyOf(c), DurOf(c))
                      ELSE d.packets
      <4> HIDE DEF r, m, c
      <4> QED BY <1>1, <1>3, <3>1 DEF InCluster
    <3>9. Content(r, d, F, n)
      <4> HIDE DEF r, m
      <4> QED BY <3>2, <3>3, <3>4, <3>5 DEF Content
    <3> QED BY <3>9
  <2> QED BY <2>2, <2>3, <2>4, <2>5
<1> QED
  <2>1. n = 0 \/ n = 1 \/ n >= 2
    OBVIOUS
  <2> QED BY <1>5, <1>6, <1>7, <1>8, <2>1

-----------------------------------------------------------------------------
(* What has been read of the header, and the tags.                         *)

\* The track entries of a Tracks element.
Parses(es) == [k \in DOMAIN es |-> ParseTrackEntry(es[k])]

\* Info and Tracks, as far as they stand in the first n cells.
HeadSeen(d, F, n) ==
    /\ \A i \in 1 .. n : F[i].el = "info" => d.scale = F[i].scale
    /\ None(F, "info", n) => d.scale = 1
    /\ \A i \in 1 .. n : F[i].el = "tracks" => d.entries = Parses(F[i].entries)
    /\ None(F, "tracks", n) => d.entries = <<>>

\* Cell n + 1 is no second Info or Tracks.
First(F, n) ==
    /\ F[n + 1].el = "info" => F[n + 1].scale \in Nat \ {0} /\ None(F, "info", n)
    /\ F[n + 1].el = "tracks" => IsSeq(F[n + 1].entries) /\ None(F, "tracks", n)

\* Parsed entries are as many as the elements.
LEMMA ParsedIs ==
    ASSUME NEW es, IsSeq(es)
    PROVE  /\ <<>> \o Parses(es) = Parses(es) /\ IsSeq(Parses(es)) /\ Len(Parses(es)) = Len(es)
           /\ \A k \in 1 .. Len(es) : Parses(es)[k] = ParseTrackEntry(es[k])
<1> DEFINE ps == Parses(es)
<1>1. Len(es) \in Nat /\ DOMAIN es = 1 .. Len(es)
  <2>1. PICK S : es \in Seq(S)
    BY DEF IsSeq
  <2> QED BY <2>1, LenProperties
<1>2. ps \in [1 .. Len(es) -> {ps[k] : k \in 1 .. Len(es)}]
  BY <1>1 DEF Parses
<1>3. \A k \in 1 .. Len(es) : ps[k] = ParseTrackEntry(es[k])
  BY <1>1 DEF Parses
<1> HIDE DEF ps
<1>4. ps \in Seq({ps[k] : k \in 1 .. Len(es)}) /\ Len(ps) = Len(es)
  BY <1>1, <1>2
<1>5. <<>> \o ps = ps
  BY <1>4, ConcatEmptySeq
<1> QED BY <1>3, <1>4, <1>5 DEF IsSeq, ps

\* One cell more.
LEMMA NoneNext ==
    ASSUME NEW F, NEW el, NEW n \in Nat
    PROVE  None(F, el, n + 1) <=> None(F, el, n) /\ F[n + 1].el # el
<1>1. 1 .. n + 1 = (1 .. n) \cup {n + 1}
  OBVIOUS
<1> QED BY <1>1 DEF None

\* One cell more of the header.
LEMMA HeadMore ==
    ASSUME NEW F, NEW n \in Nat, NEW d, NEW r, Content(r, d, F, n), HeadSeen(d, F, n), First(F, n)
    PROVE  HeadSeen(r, F, n + 1)
<1> DEFINE c == F[n + 1]
<1>0. r.scale = IF c.el = "info" THEN (IF c.scale > 0 THEN c.scale ELSE d.scale) ELSE d.scale
  BY DEF Content
<1>1. r.entries = IF c.el = "tracks" THEN d.entries \o Parses(c.entries) ELSE d.entries
  BY DEF Content, Parses
<1>2. \A i \in 1 .. n + 1 : i \in 1 .. n \/ i = n + 1
  OBVIOUS
<1>3. CASE c.el = "info"
  <2>1. None(F, "info", n) /\ c.scale \in Nat /\ c.scale > 0
    BY <1>3 DEF First
  <2>2. r.scale = c.scale /\ r.entries = d.entries
    BY <1>0, <1>1, <1>3, <2>1
  <2>3. ~None(F, "info", n + 1)
    BY <1>2, <1>3 DEF None
  <2>4. None(F, "tracks", n + 1) <=> None(F, "tracks", n)
    BY <1>3, NoneNext
  <2> QED BY <1>2, <1>3, <2>1, <2>2, <2>3, <2>4 DEF HeadSeen, None
<1>4. CASE c.el = "tracks"
  <2>1. None(F, "tracks", n) /\ d.entries = <<>> /\ IsSeq(c.entries)
    BY <1>4 DEF First, HeadSeen
  <2>2. r.scale = d.scale /\ r.entries = Parses(c.entries)
    BY <1>0, <1>1, <1>4, <2>1, ParsedIs
  <2>3. ~None(F, "tracks", n + 1) /\ (None(F, "info", n + 1) <=> None(F, "info", n))
    BY <1>4, NoneNext
  <2> QED BY <1>2, <1>4, <2>1, <2>2, <2>3 DEF HeadSeen, None
<1>5. CASE c.el \notin {"info", "tracks"}
  <2>1. r.scale = d.scale /\ r.entries = d.entries
    BY <1>0, <1>1, <1>5
  <2>2. (None(F, "tracks", n + 1) <=> None(F, "tracks", n)) /\ (None(F, "info", n + 1) <=> None(F, "info", n))
    BY <1>5, NoneNext
  <2> QED BY <1>2, <1>5, <2>1, <2>2 DEF HeadSeen
<1> QED BY <1>3, <1>4, <1>5

\* The Tags elements that count, and what they set.
Seen(F, n) == {i \in 1 .. n : F[i].el = "tags" /\ ~Endless(F, i)}

\* i is the last Tags element that sets name.
LastWith(F, n, name, i) ==
    /\ i \in Seen(F, n) /\ name \in DOMAIN F[i].tags
    /\ \A j \in Seen(F, n) : name \in DOMAIN F[j].tags => j <= i

\* T maps every name that was set to its last value.
TagsRead(T, F, n) ==
    /\ T = [name \in DOMAIN T |-> T[name]]
    /\ DOMAIN T = UNION {DOMAIN F[i].tags : i \in Seen(F, n)}
    /\ \A name, i : LastWith(F, n, name, i) => T[name] = F[i].tags[name]

\* No cell but a cluster header opens or closes a cluster without a size.
LEMMA EndlessNext ==
    ASSUME NEW F, NEW n \in Nat, F[n + 1].el # "cluster"
    PROVE  Endless(F, n + 1) <=> Endless(F, n)
<1>1. \A p \in 1 .. n + 1 : LastOf(F, "cluster", p, n + 1) <=> LastOf(F, "cluster", p, n)
  BY LastNext
<1>2. \A p : LastOf(F, "cluster", p, n) => p \in 1 .. n /\ p \in 1 .. n + 1
  BY DEF LastOf
<1> QED BY <1>1, <1>2 DEF Endless

\* One cell more of the tags.
LEMMA TagsNext ==
    ASSUME NEW F, NEW n \in Nat, NEW d, Shape(d), NEW r, Content(r, d, F, n), TagsRead(d.tags, F, n)
    PROVE  TagsRead(r.tags, F, n + 1)
<1> DEFINE c == F[n + 1]
           S == Seen(F, n)
           counts == c.el = "tags" /\ ~Endless(F, n)
<1>1. Seen(F, n + 1) = IF counts THEN S \cup {n + 1} ELSE S
  <2>1. 1 .. n + 1 = (1 .. n) \cup {n + 1} /\ ~(n + 1 \in 1 .. n)
    OBVIOUS
  <2>2. (c.el = "tags" /\ ~Endless(F, n + 1)) <=> counts
    BY EndlessNext
  <2> QED BY <2>1, <2>2 DEF Seen
<1>2. S \subseteq 1 .. n
  BY DEF Seen
<1>3. CASE ~counts
  <2>1. r.tags = d.tags /\ Seen(F, n + 1) = S
    BY <1>1, <1>3 DEF Content
  <2> QED BY <2>1 DEF TagsRead, LastWith
<1>4. CASE counts
  <2> DEFINE T == r.tags
  <2>1. T = [name \in DOMAIN c.tags \cup DOMAIN d.tags |->
                IF name \in DOMAIN c.tags THEN c.tags[name] ELSE d.tags[name]]
    BY <1>4 DEF Content, WithTags, Shape, Demuxer0
  <2> HIDE DEF T
  <2>2. Seen(F, n + 1) = S \cup {n + 1}
    BY <1>1, <1>4
  <2>3. DOMAIN T = UNION {DOMAIN F[i].tags : i \in Seen(F, n + 1)}
    <3>1. DOMAIN T = DOMAIN c.tags \cup UNION {DOMAIN F[i].tags : i \in S}
      BY <2>1 DEF TagsRead
    <3> QED BY <2>2, <3>1
  <2>4. ASSUME NEW name, NEW i, LastWith(F, n + 1, name, i) PROVE T[name] = F[i].tags[name]
    <3>1. CASE i = n + 1
      BY <2>1, <2>4, <3>1 DEF LastWith
    <3>2. CASE i # n + 1
      <4>1. i \in S /\ name \in DOMAIN F[i].tags
        BY <2>2, <2>4, <3>2 DEF LastWith
      <4>2. name \notin DOMAIN c.tags
        <5>1. ~(n + 1 <= i)
          BY <1>2, <4>1
        <5> QED BY <2>2, <2>4, <5>1 DEF LastWith
      <4>3. LastWith(F, n, name, i)
        BY <2>2, <2>4, <4>1 DEF LastWith
      <4>4. name \in DOMAIN d.tags /\ d.tags[name] = F[i].tags[name]
        BY <4>1, <4>3 DEF TagsRead
      <4> QED BY <2>1, <4>2, <4>4
    <3> QED BY <3>1, <3>2
  <2>5. T = [name \in DOMAIN T |-> T[name]]
    BY <2>1
  <2>6. TagsRead(T, F, n + 1)
    BY <2>3, <2>4, <2>5 DEF TagsRead
  <2> QED BY <2>6 DEF T
<1> QED BY <1>3, <1>4
=============================================================================
