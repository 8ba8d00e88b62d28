------------------------------ MODULE AskProofs ------------------------------
(***************************************************************************)
(* Proofs about searching the vault and answering from it, for every set   *)
(* of notes, texts, questions and requests, every budget, limit, relation  *)
(* of texts and interleaving: what a note is cut into, and what an answer  *)
(* cites.                                                                  *)
(***************************************************************************)
EXTENDS Intelligence, FoldProofs

-----------------------------------------------------------------------------
(* The paragraphs and passages of a note *)

LineSize(l) == IF l = <<>> THEN 0 ELSE 2 * Len(l)
Counted(s) == FoldLeft(LAMBDA m, l : m + (IF l = <<>> THEN 0 ELSE 2 * Len(l)), 0, s)

\* r counts the characters from the start of the note.
Measures(r, lines) ==
  /\ r \in [0 .. Len(lines) -> Nat]
  /\ r[0] = 0
  /\ \A k \in 1 .. Len(lines) : r[k] = r[k - 1] + LineSize(lines[k])

\* The characters of a note, counted line by line.
LEMMA CountSteps ==
  ASSUME NEW W, NEW s \in Seq(Seq(W))
  PROVE  \E r : Measures(r, s) /\ Counted(s) = r[Len(s)]
<1> DEFINE n == Len(s)
           X == Nat
           h == [x \in X |-> [k \in 1 .. n |-> x + LineSize(s[k])]]
           Is(f) == f = [p \in SUBSET (DOMAIN s) |->
                           IF p = {} THEN 0 ELSE f[p \ {Max(p)}] + LineSize(s[Max(p)])]
           f == CHOOSE f : Is(f)
<1>1. Counted(s) = f[DOMAIN s]
  BY Zenon DEF LineSize, Counted, FoldLeft, MapThenFoldSet
<1>2. n \in Nat /\ DOMAIN s = 1 .. n /\ 0 \in X
  OBVIOUS
<1>3. ASSUME NEW x \in X, NEW k \in 1 .. n PROVE x + LineSize(s[k]) \in X
  <2>1. s[k] \in Seq(W)
    OBVIOUS
  <2>2. LineSize(s[k]) \in Nat
    BY <2>1 DEF LineSize
  <2>3. QED
    BY <2>2
<1> HIDE DEF n, X
<1>4. /\ h \in [X -> [1 .. n -> X]]
      /\ \A x \in X, k \in 1 .. n : h[x][k] = x + LineSize(s[k])
  BY <1>3
<1> HIDE DEF h
<1>5. Is(f)
  <2>1. PICK g : Folded(g, X, 0, n, h)
    BY <1>2, <1>4, Folds
  <2>2. /\ g \in [SUBSET (1 .. n) -> X]
        /\ \A p \in SUBSET (1 .. n) :
             g[p] = IF p = {} THEN 0 ELSE h[g[p \ {Max(p)}]][Max(p)]
    BY <2>1 DEF Folded
  <2>3. ASSUME NEW p \in SUBSET (1 .. n)
        PROVE  g[p] = IF p = {} THEN 0 ELSE g[p \ {Max(p)}] + LineSize(s[Max(p)])
    <3>1. CASE p = {}
      BY <2>2, <3>1
    <3>2. CASE p # {}
      <4>1. Max(p) \in 1 .. n /\ g[p \ {Max(p)}] \in X
        BY <1>2, <2>2, <3>2, Greatest
      <4>2. QED
        BY <1>4, <2>2, <3>2, <4>1
    <3>3. QED
      BY <3>1, <3>2
  <2>4. Is(g)
    BY <1>2, <2>2, <2>3
  <2> HIDE DEF Is
  <2>5. QED
    BY <2>4
<1>6. Iterates(f, X, 0, n, h)
  <2>1. ASSUME NEW p \in SUBSET (1 .. n)
        PROVE  f[p] = IF p = {} THEN 0 ELSE f[p \ {Max(p)}] + LineSize(s[Max(p)])
    BY <1>2, <1>5
  <2> HIDE DEF f
  <2>2. ASSUME NEW p \in SUBSET (1 .. n), p # {}, f[p \ {Max(p)}] \in X
        PROVE  f[p] = h[f[p \ {Max(p)}]][Max(p)]
    <3>1. Max(p) \in 1 .. n
      BY <1>2, <2>2, Greatest
    <3>2. QED
      BY <1>4, <2>1, <2>2, <3>1
  <2>3. QED
    BY <2>1, <2>2 DEF Iterates
<1> HIDE DEF f
<1>7. PICK r : Climbs(f, r, X, 0, n, h)
  <2>1. 0 \in X /\ n \in Nat /\ h \in [X -> [1 .. n -> X]]
    BY <1>2, <1>4
  <2>2. QED
    BY <1>6, <2>1, FoldGoesUp
<1>8. ASSUME NEW k \in 1 .. n PROVE r[k] = r[k - 1] + LineSize(s[k])
  <2>1. r[k - 1] \in X /\ r[k] = h[r[k - 1]][k]
    BY <1>2, <1>7 DEF Climbs, Unrolled
  <2>2. QED
    BY <1>4, <2>1
<1>9. r \in [0 .. n -> X] /\ r[0] = 0
  BY <1>7 DEF Climbs, Unrolled
<1>10. QED
  BY <1>1, <1>2, <1>7, <1>8, <1>9 DEF n, X, Climbs, Measures

\* Every note can be measured from its start.
LEMMA Measured ==
  ASSUME NEW W, NEW lines \in Seq(Seq(W))
  PROVE  /\ \A k \in 1 .. Len(lines) : LineSize(lines[k]) \in Nat
         /\ \E r : Measures(r, lines)
<1> DEFINE n == Len(lines)
           h == [x \in Nat |-> [k \in 1 .. n |-> x + LineSize(lines[k])]]
<1>1. n \in Nat
  OBVIOUS
<1>2. ASSUME NEW k \in 1 .. n PROVE LineSize(lines[k]) \in Nat
  <2>1. lines[k] \in Seq(W)
    OBVIOUS
  <2>2. QED
    BY <2>1 DEF LineSize
<1> HIDE DEF n
<1>3. h \in [Nat -> [1 .. n -> Nat]] /\ 0 \in Nat
  BY <1>2
<1>4. \A x \in Nat, k \in 1 .. n : h[x][k] = x + LineSize(lines[k])
  OBVIOUS
<1> HIDE DEF h
<1>5. PICK r : Unrolled(r, Nat, 0, n, h)
  BY <1>1, <1>3, Unrolls
<1>6. /\ r \in [0 .. n -> Nat] /\ r[0] = 0
      /\ \A k \in 1 .. n : r[k] = h[r[k - 1]][k]
  BY <1>5 DEF Unrolled
<1>7. ASSUME NEW k \in 1 .. n PROVE r[k] = r[k - 1] + LineSize(lines[k])
  <2>1. r[k - 1] \in Nat
    BY <1>1, <1>6
  <2>2. QED
    BY <1>4, <1>6, <2>1
<1>8. QED
  BY <1>2, <1>6, <1>7 DEF Measures, n

\* The characters of some lines are those before the end less those before the start.
LEMMA CharsBetween ==
  ASSUME NEW W, NEW lines \in Seq(Seq(W)), NEW r, Measures(r, lines),
         NEW from \in 1 .. Len(lines) + 1, NEW to \in from - 1 .. Len(lines)
  PROVE  Chars(lines, from, to) = r[to] - r[from - 1]
<1> DEFINE s == SubSeq(lines, from, to)
           n == to - from + 1
<1>1. s \in Seq(Seq(W))
  OBVIOUS
<1>2. n \in Nat /\ Len(s) = n /\ Len(lines) \in Nat
  OBVIOUS
<1>3. \A k \in 1 .. n : s[k] = lines[from - 1 + k]
  OBVIOUS
<1>4. Chars(lines, from, to) = Counted(s)
  BY DEF Chars, Counted
<1> HIDE DEF s
<1>5. PICK q : Measures(q, s) /\ Counted(s) = q[Len(s)]
  BY <1>1, CountSteps
<1>6. q \in [0 .. n -> Nat] /\ q[0] = 0 /\ Counted(s) = q[n]
      /\ \A k \in 1 .. n : q[k] = q[k - 1] + LineSize(s[k])
  BY <1>2, <1>5 DEF Measures
<1>7. r \in [0 .. Len(lines) -> Nat]
      /\ \A k \in 1 .. Len(lines) : r[k] = r[k - 1] + LineSize(lines[k])
  BY DEF Measures
<1> DEFINE G == {k \in 0 .. n : q[k] = r[from - 1 + k] - r[from - 1]}
<1>8. 0 \in G
  <2>1. from - 1 + 0 = from - 1 /\ r[from - 1] \in Nat
    BY <1>7
  <2>2. q[0] = r[from - 1 + 0] - r[from - 1]
    BY <1>6, <2>1
  <2>3. 0 \in 0 .. n
    BY <1>2
  <2>4. QED
    BY <2>2, <2>3
<1>9. ASSUME NEW k \in 1 .. n, k - 1 \in G PROVE k \in G
  <2>1. from - 1 + k \in 1 .. Len(lines) /\ from - 1 \in 0 .. Len(lines)
        /\ from - 1 + (k - 1) \in 0 .. Len(lines)
        /\ from - 1 + (k - 1) = (from - 1 + k) - 1
    BY <1>2
  <2>2. q[k - 1] = r[(from - 1 + k) - 1] - r[from - 1]
    BY <1>9, <2>1
  <2>3. q[k] = q[k - 1] + LineSize(lines[from - 1 + k])
    BY <1>3, <1>6
  <2>4. r[from - 1 + k] = r[(from - 1 + k) - 1] + LineSize(lines[from - 1 + k])
    BY <1>7, <2>1
  <2>5. LineSize(lines[from - 1 + k]) \in Nat
    BY <2>1, Measured
  <2>6. r[(from - 1 + k) - 1] \in Nat /\ r[from - 1] \in Nat
    BY <1>7, <2>1
  <2> DEFINE before == r[(from - 1 + k) - 1]
             base == r[from - 1]
             size == LineSize(lines[from - 1 + k])
  <2>7. q[k] = r[from - 1 + k] - r[from - 1]
    <3>1. q[k] = q[k - 1] + size /\ q[k - 1] = before - base /\ r[from - 1 + k] = before + size
      BY <2>2, <2>3, <2>4, Zenon
    <3>2. before \in Nat /\ base \in Nat /\ size \in Nat
      BY <2>5, <2>6
    <3>3. r[from - 1] = base
      OBVIOUS
    <3> HIDE DEF before, base, size
    <3>4. (before - base) + size = (before + size) - base
      BY <3>2
    <3>5. QED
      BY <3>1, <3>3, <3>4, Zenon
  <2>8. QED
    BY <2>7
<1> HIDE DEF G, n
<1>10. \A k \in 0 .. n : k \in G
  BY <1>2, <1>8, <1>9, Upward
<1>11. n \in G
  BY <1>2, <1>10
<1>12. Counted(s) = r[from - 1 + n] - r[from - 1]
  BY <1>6, <1>11 DEF G
<1>13. from - 1 + n = to
  BY DEF n
<1>14. QED
  BY <1>4, <1>12, <1>13


\* The line is there and not blank.
Has(lines, i) == i \in DOMAIN lines /\ lines[i] # <<>>

\* A maximal run of lines that are not blank.
IsParagraph(lines, p) ==
  /\ p[1] <= p[2]
  /\ \A i \in p[1] .. p[2] : Has(lines, i)
  /\ ~ Has(lines, p[1] - 1)
  /\ ~ Has(lines, p[2] + 1)

\* ps are the paragraphs of the note, in their order.
Paragraphed(lines, ps) ==
  /\ ps \in Seq((1 .. Len(lines)) \X (1 .. Len(lines)))
  /\ \A k \in 1 .. Len(ps) : IsParagraph(lines, ps[k])
  /\ \A j, k \in 1 .. Len(ps) : j < k => ps[j][2] + 1 < ps[k][1]
  /\ \A i \in 1 .. Len(lines) :
       lines[i] # <<>> => \E k \in 1 .. Len(ps) : ps[k][1] <= i /\ i <= ps[k][2]

\* Paragraphs returns the maximal runs of lines that are not blank, in their order.
LEMMA ParagraphsOfNote ==
  ASSUME NEW W, NEW lines \in Seq(Seq(W))
  PROVE  Paragraphed(lines, Paragraphs(lines))
<1> DEFINE n == Len(lines)
           N == 1 .. n
           Filled(i) == Has(lines, i)
           S == {i \in DOMAIN lines : Filled(i) /\ ~Filled(i - 1)}
           less == {p \in S \X S : p[1] < p[2]}
           End(i) == CHOOSE j \in DOMAIN lines :
                       j >= i /\ ~Filled(j + 1) /\ \A k \in i .. j : Filled(k)
           order == Ordered(S, less)
           m == Cardinality(S)
           ps == Paragraphs(lines)
<1>1. n \in Nat /\ DOMAIN lines = N
  OBVIOUS
<1>2. ps = [k \in DOMAIN order |-> <<order[k], End(order[k])>>]
  BY Zenon DEF Paragraphs, Has
<1>3. ASSUME NEW i \in N, Filled(i)
      PROVE  /\ End(i) \in N /\ End(i) >= i /\ ~Filled(End(i) + 1)
             /\ \A k \in i .. End(i) : Filled(k)
  <2> DEFINE T == {j \in i .. n : ~Filled(j + 1)}
  <2>1. T \in SUBSET Nat /\ n \in T
    <3>1. ~Filled(n + 1)
      BY <1>1 DEF Has
    <3>2. QED
      BY <1>1, <3>1
  <2> HIDE DEF T
  <2>2. PICK j \in T : \A k \in T : j <= k
    BY <2>1, Least
  <2>3. j \in N /\ j >= i /\ ~Filled(j + 1)
    BY <1>1, <2>2 DEF T
  <2>4. ASSUME NEW k \in i .. j PROVE Filled(k)
    <3>1. CASE k = i
      BY <1>3, <3>1
    <3>2. CASE k # i
      <4>1. k - 1 \in i .. n /\ k - 1 < j
        BY <1>1, <2>3, <3>2
      <4>2. k - 1 \notin T
        <5>1. k - 1 \in Int /\ j \in Int /\ ~ (j <= k - 1)
          BY <2>3, <4>1
        <5>2. QED
          BY <2>2, <5>1
      <4>3. Filled((k - 1) + 1)
        BY <4>1, <4>2 DEF T
      <4>4. (k - 1) + 1 = k
        OBVIOUS
      <4>5. QED
        BY <4>3, <4>4
    <3>3. QED
      BY <3>1, <3>2
  <2> HIDE DEF Filled
  <2>5. j \in DOMAIN lines /\ j >= i /\ ~Filled(j + 1) /\ \A k \in i .. j : Filled(k)
    BY <1>1, <2>3, <2>4
  <2>6. End(i) \in DOMAIN lines /\ End(i) >= i /\ ~Filled(End(i) + 1)
        /\ \A k \in i .. End(i) : Filled(k)
    BY <2>5
  <2>7. QED
    BY <1>1, <2>6
<1>4. S \in SUBSET N
  BY <1>1
<1>5. IsFiniteSet(S)
  <2>1. IsFiniteSet(N)
    BY <1>1, FS_Interval
  <2>2. QED
    BY <1>4, <2>1, FS_Subset
<1>6. TotalOrder(less, S)
  <2> HIDE DEF S
  <2>1. \A x \in S : x \in Int
    BY <1>1, <1>4
  <2>2. \A x, y \in S : <<x, y>> \in less <=> x < y
    OBVIOUS
  <2> HIDE DEF less
  <2>3. \A x, y \in S : x # y => <<x, y>> \in less \/ <<y, x>> \in less
    BY <2>1, <2>2
  <2>4. \A x \in S : <<x, x>> \notin less
    BY <2>1, <2>2
  <2>5. \A x, y, z \in S : <<x, y>> \in less /\ <<y, z>> \in less => <<x, z>> \in less
    BY <2>1, <2>2
  <2>6. QED
    BY <2>3, <2>4, <2>5 DEF TotalOrder
<1>7. \A i \in S : Filled(i) /\ ~Filled(i - 1)
  OBVIOUS
<1>8. ASSUME NEW i \in N, Filled(i)
      PROVE  \E j \in S : j <= i /\ \A k \in j .. i : Filled(k)
  <2> DEFINE T == {j \in 1 .. i : \A k \in j .. i : Filled(k)}
  <2>1. T \in SUBSET Nat /\ i \in T
    <3>1. i .. i = {i}
      OBVIOUS
    <3>2. \A k \in i .. i : Filled(k)
      BY <1>8, <3>1
    <3>3. QED
      BY <3>2
  <2> HIDE DEF T
  <2>2. PICK j \in T : \A k \in T : j <= k
    BY <2>1, Least
  <2>3. j \in 1 .. i /\ \A k \in j .. i : Filled(k)
    BY <2>2 DEF T
  <2>4. j \in N /\ Filled(j)
    BY <1>1, <2>3
  <2>5. ~Filled(j - 1)
    <3>1. SUFFICES ASSUME Filled(j - 1) PROVE FALSE
      OBVIOUS
    <3>2. j - 1 \in N
      BY <1>1, <3>1 DEF Has
    <3>3. \A k \in (j - 1) .. i : Filled(k)
      <4>1. \A k \in (j - 1) .. i : k = j - 1 \/ k \in j .. i
        BY <2>3
      <4>2. QED
        BY <2>3, <3>1, <4>1
    <3>4. j - 1 \in 1 .. i
      BY <2>3, <3>2
    <3>5. j - 1 \in T
      BY <3>3, <3>4 DEF T
    <3>6. QED
      BY <2>2, <2>3, <3>5
  <2>6. j \in S
    BY <1>1, <2>4, <2>5
  <2>7. QED
    BY <2>3, <2>6
<1> HIDE DEF S, less
<1>9. /\ m \in Nat
      /\ order \in [1 .. m -> S]
      /\ ToSet(order) = S
      /\ \A j, k \in 1 .. m : j < k => <<order[j], order[k]>> \in less
  BY <1>5, <1>6, OrderedSet
<1>10. \A j, k \in 1 .. m : j < k => order[j] < order[k]
  <2>1. \A p \in less : p[1] < p[2]
    BY DEF less
  <2>2. QED
    BY <1>9, <2>1
<1>11. \A j \in S : \E k \in 1 .. m : order[k] = j
  <2>1. DOMAIN order = 1 .. m
    BY <1>9
  <2>2. QED
    BY <1>9, <2>1 DEF ToSet
<1> HIDE DEF order, m, End, Filled
<1>12. ps = [k \in 1 .. m |-> <<order[k], End(order[k])>>]
  BY <1>2, <1>9
<1> HIDE DEF ps
<1>13. \A k \in 1 .. m :
         /\ order[k] \in N /\ End(order[k]) \in N
         /\ ps[k] = <<order[k], End(order[k])>>
  BY <1>3, <1>4, <1>7, <1>9, <1>12
<1>14. ps \in Seq(N \X N) /\ Len(ps) = m
  <2>1. ps \in [1 .. m -> N \X N]
    BY <1>12, <1>13
  <2>2. QED
    BY <1>9, <2>1
<1>15. ASSUME NEW k \in 1 .. m PROVE IsParagraph(lines, ps[k])
  <2> DEFINE i == order[k]
  <2>1. i \in S /\ i \in N /\ ps[k] = <<i, End(i)>>
    BY <1>9, <1>13
  <2>2. Filled(i) /\ ~Filled(i - 1)
    BY <1>7, <2>1
  <2> HIDE DEF i
  <2>3. End(i) >= i /\ End(i) \in N /\ ~Filled(End(i) + 1) /\ \A j \in i .. End(i) : Filled(j)
    BY <1>3, <2>1, <2>2
  <2>4. ps[k][1] = i /\ ps[k][2] = End(i)
    BY <2>1
  <2>5. ps[k][1] <= ps[k][2]
    BY <1>1, <2>1, <2>3, <2>4
  <2>6. QED
    BY <2>2, <2>3, <2>4, <2>5 DEF IsParagraph, Filled
<1>16. ASSUME NEW j \in 1 .. m, NEW k \in 1 .. m, j < k
       PROVE  ps[j][2] + 1 < ps[k][1]
  <2> DEFINE a == ps[j][1]
             b == ps[j][2]
             c == ps[k][1]
  <2>1. a \in N /\ b \in N /\ c \in N /\ a < c
    <3>1. a = order[j] /\ b = End(order[j]) /\ c = order[k]
      BY <1>13
    <3>2. order[j] \in N /\ End(order[j]) \in N /\ order[k] \in N
      BY <1>13
    <3>3. order[j] < order[k]
      BY <1>10, <1>16
    <3> HIDE DEF a, b, c
    <3>4. QED
      BY <3>1, <3>2, <3>3
  <2>2. /\ \A i \in a .. b : Filled(i)
        /\ ~Filled(b + 1)
    BY <1>15 DEF IsParagraph, Filled
  <2>3. Filled(c) /\ ~Filled(c - 1)
    <3>1. ps[k][1] = order[k] /\ order[k] \in S
      BY <1>9, <1>13
    <3>2. QED
      BY <1>7, <3>1
  <2> HIDE DEF a, b, c
  <2>4. c # b + 1
    BY <2>2, <2>3
  <2>5. ~ (c - 1 \in a .. b)
    BY <2>2, <2>3
  <2>6. b + 1 < c
    BY <1>1, <2>1, <2>4, <2>5
  <2>7. QED
    BY <2>6 DEF b, c
<1>17. ASSUME NEW i \in N, lines[i] # <<>>
       PROVE  \E k \in 1 .. m : ps[k][1] <= i /\ i <= ps[k][2]
  <2>1. Filled(i)
    BY <1>1, <1>17 DEF Filled, Has
  <2>2. PICK j \in S : j <= i /\ \A k \in j .. i : Filled(k)
    BY <1>8, <2>1
  <2>3. PICK k \in 1 .. m : order[k] = j
    BY <1>11
  <2>4. ps[k][1] = j /\ ps[k][2] = End(j) /\ j \in N
    BY <1>13, <2>3
  <2>5. End(j) \in N /\ ~Filled(End(j) + 1) /\ End(j) >= j
    BY <1>3, <1>7, <2>4
  <2>6. ~ (End(j) + 1 \in j .. i)
    BY <2>2, <2>5
  <2>7. i <= End(j)
    BY <1>1, <2>2, <2>4, <2>5, <2>6
  <2>8. QED
    BY <2>2, <2>4, <2>7
<1>18. QED
  BY <1>14, <1>15, <1>16, <1>17 DEF Paragraphed, ps

\* Of the characters before, those of blank lines are none.
LEMMA BlankBetween ==
  ASSUME NEW W, NEW lines \in Seq(Seq(W)), NEW r, Measures(r, lines),
         NEW a \in 0 .. Len(lines), NEW b \in a .. Len(lines),
         \A i \in a + 1 .. b : lines[i] = <<>>
  PROVE  r[b] = r[a]
<1> DEFINE n == b - a
           G == {k \in 0 .. n : r[a + k] = r[a]}
<1>1. n \in Nat /\ Len(lines) \in Nat
  OBVIOUS
<1>2. r \in [0 .. Len(lines) -> Nat]
      /\ \A k \in 1 .. Len(lines) : r[k] = r[k - 1] + LineSize(lines[k])
  BY DEF Measures
<1>3. 0 \in G
  <2>1. a + 0 = a
    OBVIOUS
  <2>2. QED
    BY <1>1, <2>1
<1>4. ASSUME NEW k \in 1 .. n, k - 1 \in G PROVE k \in G
  <2>1. a + k \in 1 .. Len(lines) /\ a + k \in a + 1 .. b /\ (a + k) - 1 = a + (k - 1)
    BY <1>1
  <2>2. LineSize(lines[a + k]) = 0
    BY <2>1 DEF LineSize
  <2>3. r[a + k] = r[a + (k - 1)] + 0
    BY <1>2, <2>1, <2>2
  <2>4. r[a + (k - 1)] = r[a] /\ r[a] \in Nat
    BY <1>2, <1>4
  <2>5. r[a + k] = r[a]
    BY <2>3, <2>4
  <2>6. QED
    BY <2>5
<1> HIDE DEF G, n
<1>5. n \in G
  <2>1. \A k \in 0 .. n : k \in G
    BY <1>1, <1>3, <1>4, Upward
  <2>2. QED
    BY <1>1, <2>1
<1>6. r[a + n] = r[a]
  BY <1>5 DEF G
<1>7. a + n = b
  BY DEF n
<1>8. QED
  BY <1>6, <1>7

\* Between two paragraphs that follow each other every line is blank.
LEMMA BlankOutside ==
  ASSUME NEW W, NEW lines \in Seq(Seq(W)), NEW ps, Paragraphed(lines, ps),
         NEW k \in 1 .. Len(ps), k - 1 \in 1 .. Len(ps),
         NEW i \in 1 .. Len(lines), ps[k - 1][2] < i, i < ps[k][1]
  PROVE  lines[i] = <<>>
<1> DEFINE m == Len(ps)
           N == 1 .. Len(lines)
           F == [j \in 1 .. m |-> ps[j][1]]
           L == [j \in 1 .. m |-> ps[j][2]]
<1>1. m \in Nat /\ Len(lines) \in Nat /\ \A j \in 1 .. m : ps[j] \in N \X N
  <2>1. ps \in Seq(N \X N)
    BY DEF Paragraphed
  <2> HIDE DEF N
  <2>2. QED
    BY <2>1
<1>2. \A j \in 1 .. m : ps[j][1] <= ps[j][2]
  BY DEF Paragraphed, IsParagraph
<1>3. \A j, l \in 1 .. m : j < l => ps[j][2] + 1 < ps[l][1]
  BY DEF Paragraphed
<1>4. lines[i] # <<>> => \E l \in 1 .. m : ps[l][1] <= i /\ i <= ps[l][2]
  BY DEF Paragraphed
<1>5. \A j \in 1 .. m : F[j] = ps[j][1] /\ L[j] = ps[j][2]
  OBVIOUS
<1>6. \A j \in 1 .. m : F[j] \in N /\ L[j] \in N /\ F[j] <= L[j]
  BY <1>1, <1>2, <1>5
<1> HIDE DEF F, L, m
<1>7. \A j, l \in 1 .. m : j < l => L[j] + 1 < F[l]
  BY <1>3, <1>5
<1>8. lines[i] # <<>> => \E l \in 1 .. m : F[l] <= i /\ i <= L[l]
  BY <1>4, <1>5
<1>9. k \in 1 .. m /\ k - 1 \in 1 .. m
  BY DEF m
<1>10. L[k - 1] < i /\ i < F[k]
  BY <1>5, <1>9
<1>11. ASSUME NEW l \in 1 .. m, F[l] <= i, i <= L[l] PROVE FALSE
  <2>1. F[l] \in Int /\ L[l] \in Int /\ i \in Int /\ l \in Int /\ k \in Int
    BY <1>1, <1>6
  <2>2. /\ F[k] \in Int /\ L[k] \in Int /\ F[k] <= L[k]
        /\ F[k - 1] \in Int /\ L[k - 1] \in Int /\ F[k - 1] <= L[k - 1]
    <3>1. \A j \in 1 .. m : F[j] \in Int /\ L[j] \in Int /\ F[j] <= L[j]
      BY <1>1, <1>6
    <3>2. QED
      BY <1>9, <3>1, Zenon
  <2>3. ~ (l < k - 1) /\ ~ (l > k)
    <3>1. /\ l < k - 1 => L[l] + 1 < F[k - 1]
          /\ k < l => L[k] + 1 < F[l]
      BY <1>7, <1>9
    <3>2. ~ (L[l] + 1 < F[k - 1])
      BY <1>10, <1>11, <2>1, <2>2
    <3>3. ~ (L[k] + 1 < F[l])
      BY <1>10, <1>11, <2>1, <2>2
    <3>4. QED
      BY <2>1, <3>1, <3>2, <3>3
  <2>4. l = k \/ l = k - 1
    BY <2>1, <2>3
  <2>5. QED
    BY <1>10, <1>11, <2>1, <2>2, <2>4
<1>12. QED
  BY <1>8, <1>11

\* chunk_markdown: a paragraph joins the chunk in hand, or begins another.
Gathered(lines, acc, p) ==
  LET size == Chars(lines, p[1], p[2])
  IN  IF acc.size > 0 /\ acc.size + size > NoteChars
      THEN [done |-> Append(acc.done, acc.cur), cur |-> p, size |-> size]
      ELSE [acc EXCEPT !.cur = IF acc.size = 0 THEN p ELSE <<@[1], p[2]>>,
                       !.size = @ + size]

NoChunks == [done |-> <<>>, cur |-> <<0, 0>>, size |-> 0]
LastGathered(lines, ps) == FoldLeft(LAMBDA acc, p : Gathered(lines, acc, p), NoChunks, ps)

Places(lines) == (0 .. Len(lines)) \X (0 .. Len(lines))
Accs(lines) == [done : Seq(Places(lines)), cur : Places(lines), size : Nat]

\* The chunk holds the paragraphs from the i-th to the j-th.
IsChunk(lines, ps, c) ==
  \E i, j \in 1 .. Len(ps) :
    /\ i <= j /\ c[1] = ps[i][1] /\ c[2] = ps[j][2]
    /\ Chars(lines, c[1], c[2]) <= NoteChars \/ i = j

\* The first paragraph of the chunk b would have burst the chunk a.
Overfills(lines, ps, a, b) ==
  \E i \in 1 .. Len(ps) :
    b[1] = ps[i][1] /\ ps[i][2] <= b[2] /\ Chars(lines, a[1], ps[i][2]) > NoteChars

\* q are chunks of the first k paragraphs, in their order.
Chunked(lines, ps, q, k) ==
  /\ q \in Seq((1 .. Len(lines)) \X (1 .. Len(lines)))
  /\ \A a \in 1 .. Len(q) : IsChunk(lines, ps, q[a])
  /\ \A a, b \in 1 .. Len(q) : a < b => q[a][2] < q[b][1]
  /\ \A i \in 1 .. k : \E a \in 1 .. Len(q) : q[a][1] <= ps[i][1] /\ ps[i][2] <= q[a][2]
  /\ \A a \in 2 .. Len(q) : Overfills(lines, ps, q[a - 1], q[a])

Gathering(lines, ps, k, acc) ==
  /\ acc \in Accs(lines)
  /\ k = 0 => acc.done = <<>> /\ acc.size = 0
  /\ k > 0 => /\ acc.size > 0
              /\ acc.size = Chars(lines, acc.cur[1], acc.cur[2])
              /\ acc.cur[2] = ps[k][2]
              /\ Chunked(lines, ps, Append(acc.done, acc.cur), k)

\* The size of a paragraph, and of one with all that precedes it in its chunk.
LEMMA ParagraphSize ==
  ASSUME NEW W, NEW lines \in Seq(Seq(W)), NEW ps, Paragraphed(lines, ps),
         NEW k \in 1 .. Len(ps)
  PROVE  /\ Chars(lines, ps[k][1], ps[k][2]) \in Nat
         /\ Chars(lines, ps[k][1], ps[k][2]) > 0
         /\ \A c \in 1 .. Len(lines) :
              k > 1 /\ c <= ps[k - 1][2] =>
                Chars(lines, c, ps[k][2]) =
                  Chars(lines, c, ps[k - 1][2]) + Chars(lines, ps[k][1], ps[k][2])
<1> DEFINE n == Len(lines)
           N == 1 .. n
           x == ps[k][1]
           y == ps[k][2]
<1>1. PICK r : Measures(r, lines)
  BY Measured
<1>2. n \in Nat /\ x \in N /\ y \in N /\ x <= y /\ lines[x] # <<>>
  <2>1. ps[k] \in N \X N
    BY DEF Paragraphed
  <2>2. IsParagraph(lines, ps[k])
    BY DEF Paragraphed
  <2>3. x \in x .. y
    BY <2>1, <2>2 DEF IsParagraph
  <2>4. QED
    BY <2>1, <2>2, <2>3 DEF IsParagraph, Has
<1>3. r \in [0 .. n -> Nat] /\ \A i \in N : r[i] = r[i - 1] + LineSize(lines[i])
  BY <1>1 DEF Measures
<1> HIDE DEF x, y
<1>4. \A a \in N : \A b \in a .. n : Chars(lines, a, b) = r[b] - r[a - 1]
  <2>1. \A a \in N : a \in 1 .. n + 1 /\ \A b \in a .. n : b \in a - 1 .. n
    BY <1>2
  <2>2. QED
    BY <1>1, <2>1, CharsBetween
<1>5. \A a \in 0 .. n : \A b \in a .. n : r[a] <= r[b]
  <2>1. SUFFICES ASSUME NEW a \in 0 .. n, NEW b \in a .. n PROVE r[a] <= r[b]
    OBVIOUS
  <2> DEFINE m == b - a
             G == {i \in 0 .. m : r[a] <= r[a + i]}
  <2>2. m \in Nat
    OBVIOUS
  <2>3. 0 \in G
    <3>1. a + 0 = a
      OBVIOUS
    <3>2. r[a] \in Nat
      BY <1>2, <1>3
    <3>3. r[a] <= r[a + 0]
      BY <3>1, <3>2
    <3>4. 0 \in 0 .. m
      BY <2>2
    <3>5. QED
      BY <3>3, <3>4
  <2>4. ASSUME NEW i \in 1 .. m, i - 1 \in G PROVE i \in G
    <3>1. a + i \in N /\ (a + i) - 1 = a + (i - 1) /\ a + (i - 1) \in 0 .. n
      BY <1>2, <2>2
    <3>2. r[a + i] = r[a + (i - 1)] + LineSize(lines[a + i])
      BY <1>3, <3>1
    <3>3. LineSize(lines[a + i]) \in Nat
      BY <3>1, Measured
    <3>4. r[a] <= r[a + (i - 1)] /\ r[a] \in Nat /\ r[a + (i - 1)] \in Nat
      BY <1>3, <2>4, <3>1
    <3>5. r[a] <= r[a + i]
      BY <3>2, <3>3, <3>4
    <3>6. QED
      BY <3>5
  <2> HIDE DEF G, m
  <2>5. \A i \in 0 .. m : i \in G
    BY <2>2, <2>3, <2>4, Upward
  <2>6. m \in G
    BY <2>2, <2>5
  <2>7. r[a] <= r[a + m]
    BY <2>6 DEF G
  <2>8. a + m = b
    BY DEF m
  <2>9. QED
    BY <2>7, <2>8
<1>6. LineSize(lines[x]) \in Nat /\ LineSize(lines[x]) > 0
  <2>1. lines[x] \in Seq(W) /\ lines[x] # <<>>
    BY <1>2
  <2>2. Len(lines[x]) \in Nat /\ Len(lines[x]) > 0
    BY <2>1
  <2>3. QED
    BY <2>1, <2>2 DEF LineSize
<1>7. Chars(lines, x, y) = r[y] - r[x - 1]
  <2>1. y \in x .. n
    BY <1>2
  <2> HIDE DEF N
  <2>2. QED
    BY <1>2, <1>4, <2>1, Zenon
<1>8. r[x - 1] \in Nat /\ r[x] \in Nat /\ r[y] \in Nat /\ r[x] <= r[y]
      /\ r[x] = r[x - 1] + LineSize(lines[x])
  <2>1. x - 1 \in 0 .. n /\ x \in 0 .. n /\ y \in 0 .. n /\ y \in x .. n
    BY <1>2
  <2>2. QED
    BY <1>2, <1>3, <1>5, <2>1
<1>9. Chars(lines, x, y) \in Nat /\ Chars(lines, x, y) > 0
  BY <1>6, <1>7, <1>8
<1>10. ASSUME NEW c \in N, k > 1, c <= ps[k - 1][2]
       PROVE  Chars(lines, c, y) = Chars(lines, c, ps[k - 1][2]) + Chars(lines, x, y)
  <2> DEFINE z == ps[k - 1][2]
  <2>1. k - 1 \in 1 .. Len(ps) /\ k - 1 < k
    BY <1>10
  <2>2. z \in N /\ z + 1 < x
    <3>1. ps[k - 1] \in N \X N
      BY <2>1 DEF Paragraphed
    <3>2. ps[k - 1][2] + 1 < ps[k][1]
      BY <2>1 DEF Paragraphed
    <3>3. QED
      BY <3>1, <3>2 DEF x
  <2>3. ASSUME NEW i \in z + 1 .. x - 1 PROVE lines[i] = <<>>
    <3>1. i \in N /\ z < i /\ i < x
      <4>1. z \in Int /\ x \in Int /\ i \in Int /\ z + 1 <= i /\ i <= x - 1 /\ 1 <= z /\ x <= n
        BY <1>2, <2>2
      <4> HIDE DEF z
      <4>2. QED
        BY <1>2, <4>1
    <3>2. QED
      BY <2>1, <3>1, BlankOutside DEF x
  <2> HIDE DEF z
  <2>4. r[x - 1] = r[z]
    <3>1. z \in 0 .. Len(lines) /\ x - 1 \in z .. Len(lines)
      BY <1>2, <2>2
    <3>2. QED
      BY <1>1, <2>3, <3>1, BlankBetween
  <2>5. c \in N /\ c <= z
    BY <1>10 DEF z
  <2>6. z \in c .. n /\ y \in c .. n /\ c - 1 \in 0 .. n /\ z \in 0 .. n
    BY <1>2, <2>2, <2>5
  <2>7. /\ Chars(lines, c, y) = r[y] - r[c - 1]
        /\ Chars(lines, c, z) = r[z] - r[c - 1]
        /\ r[z] \in Nat /\ r[c - 1] \in Nat
    BY <1>3, <1>4, <2>5, <2>6
  <2>8. QED
    BY <1>7, <1>8, <2>4, <2>7 DEF z
<1>11. QED
  BY <1>9, <1>10 DEF x, y

\* Where the paragraphs of a note may be.
LEMMA ParagraphPlaces ==
  ASSUME NEW lines, Len(lines) \in Nat, NEW ps, Paragraphed(lines, ps)
  PROVE  /\ Len(ps) \in Nat
         /\ \A k \in 1 .. Len(ps) :
              /\ ps[k] \in (1 .. Len(lines)) \X (1 .. Len(lines))
              /\ ps[k][1] \in 1 .. Len(lines) /\ ps[k][2] \in 1 .. Len(lines)
              /\ ps[k][1] <= ps[k][2]
<1> DEFINE N == 1 .. Len(lines)
<1>1. ps \in Seq(N \X N)
  BY DEF Paragraphed
<1>2. \A k \in 1 .. Len(ps) : ps[k][1] <= ps[k][2]
  BY DEF Paragraphed, IsParagraph
<1> HIDE DEF N
<1>3. Len(ps) \in Nat /\ \A k \in 1 .. Len(ps) : ps[k] \in N \X N
  BY <1>1
<1>4. \A k \in 1 .. Len(ps) : ps[k][1] \in N /\ ps[k][2] \in N
  BY <1>3
<1>5. QED
  BY <1>2, <1>3, <1>4 DEF N

\* Where the chunks of a note may be.
LEMMA ChunkPlaces ==
  ASSUME NEW lines, Len(lines) \in Nat, NEW ps, Paragraphed(lines, ps),
         NEW c, IsChunk(lines, ps, c)
  PROVE  c[1] \in 1 .. Len(lines) /\ c[2] \in 1 .. Len(lines) /\ c[1] <= c[2]
<1>1. PICK i \in 1 .. Len(ps), j \in 1 .. Len(ps) :
        i <= j /\ c[1] = ps[i][1] /\ c[2] = ps[j][2]
  BY DEF IsChunk
<1>2. /\ ps[i][1] \in 1 .. Len(lines) /\ ps[i][2] \in 1 .. Len(lines) /\ ps[i][1] <= ps[i][2]
      /\ ps[j][1] \in 1 .. Len(lines) /\ ps[j][2] \in 1 .. Len(lines) /\ ps[j][1] <= ps[j][2]
  BY ParagraphPlaces
<1>3. i < j => ps[i][2] + 1 < ps[j][1]
  BY DEF Paragraphed
<1>4. CASE i = j
  BY <1>1, <1>2, <1>4
<1>5. CASE i # j
  <2>1. i < j
    BY <1>1, <1>5
  <2>2. ps[i][2] + 1 < ps[j][1]
    BY <1>3, <2>1
  <2>3. ps[i][1] <= ps[j][2]
    BY <1>2, <2>2
  <2>4. QED
    BY <1>1, <1>2, <2>3
<1>6. QED
  BY <1>4, <1>5

\* A paragraph that begins a chunk of its own.
LEMMA AnotherChunk ==
  ASSUME NEW lines, Len(lines) \in Nat, NEW ps, Paragraphed(lines, ps),
         NEW k \in 1 .. Len(ps), NEW q, Chunked(lines, ps, q, k - 1),
         \A a \in 1 .. Len(q) : q[a][2] < ps[k][1],
         Len(q) > 0 => Chars(lines, q[Len(q)][1], ps[k][2]) > NoteChars
  PROVE  Chunked(lines, ps, Append(q, ps[k]), k)
<1> DEFINE R == (1 .. Len(lines)) \X (1 .. Len(lines))
           t == Append(q, ps[k])
           m == Len(q)
<1>1. ps[k] \in R
  BY ParagraphPlaces
<1>2. /\ q \in Seq(R)
      /\ \A a \in 1 .. Len(q) : IsChunk(lines, ps, q[a])
      /\ \A a, b \in 1 .. Len(q) : a < b => q[a][2] < q[b][1]
      /\ \A i \in 1 .. k - 1 : \E a \in 1 .. Len(q) : q[a][1] <= ps[i][1] /\ ps[i][2] <= q[a][2]
  BY DEF Chunked
<1> HIDE DEF R
<1>3. /\ t \in Seq(R) /\ Len(t) = m + 1 /\ m \in Nat
      /\ t[m + 1] = ps[k]
      /\ \A a \in 1 .. m : t[a] = q[a]
  BY <1>1, <1>2
<1> HIDE DEF t, m
<1>4. 1 .. Len(t) = (1 .. m) \cup {m + 1} /\ m + 1 \notin 1 .. m
  BY <1>3
<1>5. IsChunk(lines, ps, ps[k])
  <2>1. k <= k
    OBVIOUS
  <2>2. QED
    BY <2>1 DEF IsChunk
<1>6. \A a \in 1 .. Len(t) : IsChunk(lines, ps, t[a])
  <2>1. \A a \in 1 .. m : IsChunk(lines, ps, t[a])
    BY <1>2, <1>3 DEF m
  <2>2. IsChunk(lines, ps, t[m + 1])
    BY <1>3, <1>5
  <2>3. QED
    BY <1>4, <2>1, <2>2
<1>7. ASSUME NEW a \in 1 .. Len(t), NEW b \in 1 .. Len(t), a < b
      PROVE  t[a][2] < t[b][1]
  <2>1. a \in 1 .. m
    BY <1>3, <1>7
  <2>2. t[a] = q[a]
    BY <1>3, <2>1
  <2>3. CASE b = m + 1
    BY <1>3, <2>1, <2>2, <2>3 DEF m
  <2>4. CASE b \in 1 .. m
    <3>1. t[b] = q[b]
      BY <1>3, <2>4
    <3>2. q[a][2] < q[b][1]
      BY <1>2, <1>7, <2>1, <2>4 DEF m
    <3>3. QED
      BY <2>2, <3>1, <3>2
  <2>5. QED
    BY <1>4, <2>3, <2>4
<1>8. ASSUME NEW i \in 1 .. k
      PROVE  \E a \in 1 .. Len(t) : t[a][1] <= ps[i][1] /\ ps[i][2] <= t[a][2]
  <2>1. CASE i = k
    <3>1. ps[k][1] <= ps[k][1] /\ ps[k][2] <= ps[k][2]
      BY ParagraphPlaces
    <3>2. t[m + 1][1] <= ps[i][1] /\ ps[i][2] <= t[m + 1][2] /\ m + 1 \in 1 .. Len(t)
      BY <1>3, <1>4, <2>1, <3>1
    <3>3. QED
      BY <3>2
  <2>2. CASE i # k
    <3>1. i \in 1 .. k - 1
      BY <2>2
    <3>2. PICK a \in 1 .. m : q[a][1] <= ps[i][1] /\ ps[i][2] <= q[a][2]
      BY <1>2, <3>1 DEF m
    <3>3. t[a] = q[a] /\ a \in 1 .. Len(t)
      BY <1>3, <1>4
    <3>4. QED
      BY <3>2, <3>3
  <2>3. QED
    BY <2>1, <2>2
<1>9. ASSUME NEW a \in 2 .. Len(t) PROVE Overfills(lines, ps, t[a - 1], t[a])
  <2>1. a - 1 \in 1 .. m /\ (a = m + 1 \/ a \in 2 .. m)
    BY <1>3
  <2>2. t[a - 1] = q[a - 1]
    BY <1>3, <2>1
  <2>3. CASE a = m + 1
    <3>1. Len(q) > 0 /\ a - 1 = Len(q)
      BY <1>3, <2>1, <2>3 DEF m
    <3>2. Chars(lines, q[a - 1][1], ps[k][2]) > NoteChars
      BY <3>1
    <3>3. t[a] = ps[k] /\ ps[k][2] <= ps[k][2]
      <4>1. ps[k][2] \in 1 .. Len(lines)
        BY ParagraphPlaces
      <4>2. QED
        BY <1>3, <2>3, <4>1
    <3>4. QED
      BY <2>2, <3>2, <3>3 DEF Overfills
  <2>4. CASE a \in 2 .. m
    <3>1. t[a] = q[a] /\ a \in 2 .. Len(q)
      BY <1>3, <2>4 DEF m
    <3>2. Overfills(lines, ps, q[a - 1], q[a])
      BY <3>1 DEF Chunked
    <3>3. QED
      BY <2>2, <3>1, <3>2
  <2>5. QED
    BY <2>1, <2>3, <2>4
<1>10. QED
  BY <1>3, <1>6, <1>7, <1>8, <1>9 DEF Chunked, t, R

\* A paragraph that joins the chunk c.
LEMMA LongerChunk ==
  ASSUME NEW lines, Len(lines) \in Nat, NEW ps, Paragraphed(lines, ps),
         NEW k \in 2 .. Len(ps), NEW d, IsSeq(d), NEW c,
         Chunked(lines, ps, Append(d, c), k - 1),
         c[2] = ps[k - 1][2], Chars(lines, c[1], ps[k][2]) <= NoteChars
  PROVE  Chunked(lines, ps, Append(d, <<c[1], ps[k][2]>>), k)
<1> DEFINE N == 1 .. Len(lines)
           R == N \X N
           e == <<c[1], ps[k][2]>>
           q == Append(d, c)
           t == Append(d, e)
           m == Len(d)
<1>1. /\ q \in Seq(R)
      /\ \A a \in 1 .. Len(q) : IsChunk(lines, ps, q[a])
      /\ \A a, b \in 1 .. Len(q) : a < b => q[a][2] < q[b][1]
      /\ \A i \in 1 .. k - 1 : \E a \in 1 .. Len(q) : q[a][1] <= ps[i][1] /\ ps[i][2] <= q[a][2]
  BY DEF Chunked
<1>2. /\ IsSeq(q) /\ Len(q) = m + 1 /\ m \in Nat
      /\ q[m + 1] = c /\ \A a \in 1 .. m : q[a] = d[a]
  BY AppendIsSeq DEF IsSeq
<1>3. /\ IsSeq(t) /\ Len(t) = m + 1
      /\ t[m + 1] = e /\ \A a \in 1 .. m : t[a] = d[a]
  BY AppendIsSeq
<1> HIDE DEF q, t, m
<1>4. k \in 1 .. Len(ps) /\ k - 1 \in 1 .. Len(ps) /\ k - 1 \in 1 .. k - 1 /\ k - 1 < k
  OBVIOUS
<1>5. /\ ps[k][1] \in N /\ ps[k][2] \in N /\ ps[k][1] <= ps[k][2]
      /\ ps[k - 1][1] \in N /\ ps[k - 1][2] \in N
      /\ ps[k - 1][2] < ps[k][1]
  <2>1. ps[k - 1][2] + 1 < ps[k][1]
    BY <1>4 DEF Paragraphed
  <2>2. /\ ps[k][1] \in N /\ ps[k][2] \in N /\ ps[k][1] <= ps[k][2]
        /\ ps[k - 1][1] \in N /\ ps[k - 1][2] \in N
    BY <1>4, ParagraphPlaces
  <2>3. QED
    BY <2>1, <2>2
<1>6. 1 .. Len(q) = (1 .. m) \cup {m + 1} /\ 1 .. Len(t) = 1 .. Len(q) /\ m + 1 \in 1 .. Len(q)
  BY <1>2, <1>3
<1>7. c \in R /\ c[1] \in N
  <2>1. q[m + 1] \in R
    <3> HIDE DEF R
    <3>1. QED
      BY <1>1, <1>6
  <2>2. QED
    BY <1>2, <2>1
<1>8. c[1] <= ps[k][1]
  <2>1. c[1] <= c[2]
    BY <1>1, <1>2, <1>6, ChunkPlaces
  <2>2. QED
    BY <1>5, <1>7, <2>1
<1>9. e \in R /\ e[1] = c[1] /\ e[2] = ps[k][2]
  BY <1>5, <1>7
<1> HIDE DEF e
<1>10. t \in Seq(R)
  <2>1. \A a \in 1 .. m : t[a] = q[a]
    BY <1>2, <1>3
  <2> HIDE DEF R
  <2>2. \A a \in 1 .. Len(t) : t[a] \in R
    BY <1>1, <1>3, <1>6, <1>9, <2>1
  <2>3. t = [a \in 1 .. Len(t) |-> t[a]] /\ Len(t) \in Nat
    BY <1>3 DEF IsSeq
  <2>4. t \in [1 .. Len(t) -> R]
    BY <2>2, <2>3
  <2>5. QED
    BY <2>3, <2>4
<1>11. \A a \in 1 .. Len(t) : IsChunk(lines, ps, t[a])
  <2>1. \A a \in 1 .. m : IsChunk(lines, ps, t[a])
    BY <1>1, <1>2, <1>3, <1>6
  <2>2. IsChunk(lines, ps, e)
    <3>1. PICK i \in 1 .. Len(ps), j \in 1 .. Len(ps) :
            i <= j /\ c[1] = ps[i][1] /\ c[2] = ps[j][2]
      <4>1. IsChunk(lines, ps, c)
        BY <1>1, <1>2, <1>6
      <4>2. QED
        BY <4>1 DEF IsChunk
    <3>2. i <= k
      <4>1. SUFFICES ASSUME k < i PROVE FALSE
        BY <1>4
      <4>2. ps[k][2] + 1 < ps[i][1]
        BY <1>4, <4>1 DEF Paragraphed
      <4>3. ps[i][1] \in N
        BY ParagraphPlaces
      <4>4. QED
        BY <1>5, <1>8, <3>1, <4>2, <4>3
    <3>3. e[1] = ps[i][1] /\ e[2] = ps[k][2] /\ Chars(lines, e[1], e[2]) <= NoteChars
      BY <1>9, <3>1
    <3>4. QED
      BY <1>4, <3>2, <3>3 DEF IsChunk
  <2>3. QED
    BY <1>3, <1>6, <2>1, <2>2
<1>12. ASSUME NEW a \in 1 .. Len(t), NEW b \in 1 .. Len(t), a < b
       PROVE  t[a][2] < t[b][1]
  <2>1. a \in 1 .. m /\ a \in 1 .. Len(q) /\ b \in 1 .. Len(q)
    BY <1>2, <1>3, <1>12
  <2>2. q[a][2] < q[b][1]
    BY <1>1, <1>12, <2>1
  <2>3. t[a] = q[a]
    BY <1>2, <1>3, <2>1
  <2>4. t[b][1] = q[b][1]
    <3>1. CASE b = m + 1
      BY <1>2, <1>3, <1>9, <3>1
    <3>2. CASE b \in 1 .. m
      BY <1>2, <1>3, <3>2
    <3>3. QED
      BY <1>6, <2>1, <3>1, <3>2
  <2>5. QED
    BY <2>2, <2>3, <2>4
<1>13. ASSUME NEW i \in 1 .. k
       PROVE  \E a \in 1 .. Len(t) : t[a][1] <= ps[i][1] /\ ps[i][2] <= t[a][2]
  <2>1. CASE i = k
    <3>1. t[m + 1][1] <= ps[i][1] /\ ps[i][2] <= t[m + 1][2]
      BY <1>3, <1>5, <1>8, <1>9, <2>1
    <3>2. QED
      BY <1>6, <3>1
  <2>2. CASE i # k
    <3>1. i \in 1 .. k - 1
      BY <2>2
    <3>2. PICK a \in 1 .. Len(q) : q[a][1] <= ps[i][1] /\ ps[i][2] <= q[a][2]
      BY <1>1, <3>1
    <3>3. CASE a \in 1 .. m
      <4>1. t[a] = q[a] /\ a \in 1 .. Len(t)
        BY <1>2, <1>3, <1>6, <3>3
      <4>2. QED
        BY <3>2, <4>1
    <3>4. CASE a = m + 1
      <4>1. c[1] <= ps[i][1] /\ ps[i][2] <= ps[k - 1][2]
        BY <1>2, <3>2, <3>4
      <4>2. i \in 1 .. Len(ps)
        BY <1>4, <3>1
      <4>3. ps[i][2] \in N
        BY <4>2, ParagraphPlaces
      <4>4. ps[i][2] <= ps[k][2]
        <5> HIDE DEF N
        <5>1. /\ ps[i][2] \in Int /\ ps[k - 1][2] \in Int /\ ps[k][1] \in Int /\ ps[k][2] \in Int
              /\ ps[k - 1][2] < ps[k][1] /\ ps[k][1] <= ps[k][2]
          BY <1>5, <4>3 DEF N
        <5>2. QED
          BY <4>1, <5>1
      <4>5. t[m + 1][1] <= ps[i][1] /\ ps[i][2] <= t[m + 1][2]
        BY <1>3, <1>9, <4>1, <4>4
      <4>6. QED
        BY <1>6, <4>5
    <3>5. QED
      BY <1>6, <3>3, <3>4
  <2>3. QED
    BY <2>1, <2>2
<1>14. ASSUME NEW a \in 2 .. Len(t) PROVE Overfills(lines, ps, t[a - 1], t[a])
  <2>1. a - 1 \in 1 .. m /\ (a = m + 1 \/ a \in 1 .. m) /\ a \in 2 .. Len(q)
    BY <1>2, <1>3
  <2>2. t[a - 1] = q[a - 1]
    BY <1>2, <1>3, <2>1
  <2>3. PICK i \in 1 .. Len(ps) :
          /\ q[a][1] = ps[i][1] /\ ps[i][2] <= q[a][2]
          /\ Chars(lines, q[a - 1][1], ps[i][2]) > NoteChars
    <3>1. Overfills(lines, ps, q[a - 1], q[a])
      BY <2>1 DEF Chunked, q
    <3>2. QED
      BY <3>1 DEF Overfills
  <2>4. t[a][1] = q[a][1] /\ ps[i][2] <= t[a][2]
    <3>1. CASE a = m + 1
      <4>1. q[a] = c /\ t[a] = e
        BY <1>2, <1>3, <3>1
      <4>2. ps[i][2] \in N
        BY ParagraphPlaces
      <4>3. ps[i][2] <= ps[k - 1][2]
        BY <2>3, <4>1
      <4>4. ps[k - 1][2] < ps[k][1] /\ ps[k][1] <= ps[k][2]
        BY <1>5
      <4>5. ps[i][2] <= ps[k][2]
        <5> HIDE DEF N
        <5>1. ps[i][2] \in Int /\ ps[k - 1][2] \in Int /\ ps[k][1] \in Int /\ ps[k][2] \in Int
          BY <1>5, <4>2 DEF N
        <5>2. QED
          BY <4>3, <4>4, <5>1
      <4>6. QED
        BY <1>9, <4>1, <4>5
    <3>2. CASE a \in 1 .. m
      <4>1. q[a] = d[a] /\ t[a] = d[a]
        BY <1>2, <1>3, <3>2
      <4>2. QED
        BY <2>3, <4>1
    <3>3. QED
      BY <2>1, <3>1, <3>2
  <2>5. t[a][1] = ps[i][1] /\ Chars(lines, t[a - 1][1], ps[i][2]) > NoteChars
    BY <2>2, <2>3, <2>4
  <2>6. QED
    BY <2>4, <2>5 DEF Overfills
<1>15. QED
  BY <1>10, <1>11, <1>12, <1>13, <1>14 DEF Chunked, t, e

\* An accumulator with its chunk and size replaced is one.
LEMMA Replaced ==
  ASSUME NEW D, NEW C, NEW Z, NEW x \in [done : D, cur : C, size : Z], NEW c \in C, NEW z \in Z
  PROVE  [x EXCEPT !.cur = c, !.size = z] \in [done : D, cur : C, size : Z]
OBVIOUS

\* The paragraphs are gathered one after the other.
LEMMA GatherSteps ==
  ASSUME NEW W, NEW lines \in Seq(Seq(W)), NEW ps, Paragraphed(lines, ps)
  PROVE  \E r \in [0 .. Len(ps) -> Accs(lines)] :
           /\ r[0] = NoChunks
           /\ \A k \in 1 .. Len(ps) : r[k] = Gathered(lines, r[k - 1], ps[k])
           /\ LastGathered(lines, ps) = r[Len(ps)]
<1> DEFINE n == Len(ps)
           X == Accs(lines)
           h == [x \in X |-> [k \in 1 .. n |-> Gathered(lines, x, ps[k])]]
           Is(f) == f = [p \in SUBSET (DOMAIN ps) |->
                           IF p = {} THEN NoChunks ELSE Gathered(lines, f[p \ {Max(p)}], ps[Max(p)])]
           f == CHOOSE f : Is(f)
<1>1. LastGathered(lines, ps) = f[DOMAIN ps]
  BY Zenon DEF LastGathered, FoldLeft, MapThenFoldSet
<1>2. n \in Nat /\ DOMAIN ps = 1 .. n /\ NoChunks \in X /\ Len(lines) \in Nat
  <2>1. ps \in Seq((1 .. Len(lines)) \X (1 .. Len(lines)))
    BY DEF Paragraphed
  <2>2. NoChunks \in X
    <3>1. Len(lines) \in Nat
      OBVIOUS
    <3>2. <<0, 0>> \in Places(lines)
      BY <3>1 DEF Places
    <3>3. <<>> \in Seq(Places(lines))
      OBVIOUS
    <3>4. QED
      BY <3>2, <3>3 DEF NoChunks, Accs
  <2> HIDE DEF X
  <2>3. QED
    BY <2>1, <2>2
<1>3. ASSUME NEW x \in X, NEW k \in 1 .. n PROVE Gathered(lines, x, ps[k]) \in X
  <2> DEFINE size == Chars(lines, ps[k][1], ps[k][2])
             fresh == [done |-> Append(x.done, x.cur), cur |-> ps[k], size |-> size]
             cur == IF x.size = 0 THEN ps[k] ELSE <<x.cur[1], ps[k][2]>>
             more == x.size + size
             longer == [x EXCEPT !.cur = cur, !.size = more]
  <2>1. size \in Nat
    BY <1>2, ParagraphSize DEF n
  <2>2. ps[k] \in Places(lines) /\ ps[k][2] \in 0 .. Len(lines)
    <3>1. ps[k] \in (1 .. Len(lines)) \X (1 .. Len(lines)) /\ ps[k][2] \in 1 .. Len(lines)
      BY <1>2, ParagraphPlaces DEF n
    <3>2. QED
      BY <3>1 DEF Places
  <2>3. x.done \in Seq(Places(lines)) /\ x.cur \in Places(lines) /\ x.size \in Nat
    BY DEF X, Accs
  <2>4. cur \in Places(lines)
    <3>1. <<x.cur[1], ps[k][2]>> \in Places(lines)
      BY <2>2, <2>3 DEF Places
    <3>2. QED
      BY <2>2, <3>1
  <2> HIDE DEF size, cur, more
  <2>5. Append(x.done, x.cur) \in Seq(Places(lines)) /\ more \in Nat
    BY <2>1, <2>3 DEF more
  <2>6. fresh \in X /\ longer \in X
    <3>1. fresh \in X
      BY <2>1, <2>2, <2>5 DEF X, Accs
    <3>2. x \in [done : Seq(Places(lines)), cur : Places(lines), size : Nat]
      BY DEF X, Accs
    <3>3. longer \in [done : Seq(Places(lines)), cur : Places(lines), size : Nat]
      BY <2>4, <2>5, <3>2, Replaced
    <3>4. QED
      BY <3>1, <3>3 DEF X, Accs
  <2>7. [x EXCEPT !.cur = IF x.size = 0 THEN ps[k] ELSE <<@[1], ps[k][2]>>,
                  !.size = @ + size] = longer
    BY DEF cur, more
  <2>8. Gathered(lines, x, ps[k]) = IF x.size > 0 /\ x.size + size > NoteChars
                                    THEN fresh ELSE longer
    BY <2>7 DEF Gathered, size
  <2> HIDE DEF fresh, longer
  <2>9. QED
    BY <2>6, <2>8
<1> HIDE DEF n, X
<1>4. /\ h \in [X -> [1 .. n -> X]]
      /\ \A x \in X, k \in 1 .. n : h[x][k] = Gathered(lines, x, ps[k])
  BY <1>3
<1> HIDE DEF h
<1>5. Is(f)
  <2>1. PICK g : Folded(g, X, NoChunks, n, h)
    BY <1>2, <1>4, Folds
  <2>2. /\ g \in [SUBSET (1 .. n) -> X]
        /\ \A p \in SUBSET (1 .. n) :
             g[p] = IF p = {} THEN NoChunks ELSE h[g[p \ {Max(p)}]][Max(p)]
    BY <2>1 DEF Folded
  <2>3. ASSUME NEW p \in SUBSET (1 .. n)
        PROVE  g[p] = IF p = {} THEN NoChunks ELSE Gathered(lines, g[p \ {Max(p)}], ps[Max(p)])
    <3>1. CASE p = {}
      BY <2>2, <3>1
    <3>2. CASE p # {}
      <4>1. Max(p) \in 1 .. n /\ g[p \ {Max(p)}] \in X
        BY <1>2, <2>2, <3>2, Greatest
      <4>2. QED
        BY <1>4, <2>2, <3>2, <4>1
    <3>3. QED
      BY <3>1, <3>2
  <2>4. Is(g)
    BY <1>2, <2>2, <2>3
  <2> HIDE DEF Is
  <2>5. QED
    BY <2>4
<1>6. Iterates(f, X, NoChunks, n, h)
  <2>1. ASSUME NEW p \in SUBSET (1 .. n)
        PROVE  f[p] = IF p = {} THEN NoChunks ELSE Gathered(lines, f[p \ {Max(p)}], ps[Max(p)])
    BY <1>2, <1>5
  <2> HIDE DEF f
  <2>2. ASSUME NEW p \in SUBSET (1 .. n), p # {}, f[p \ {Max(p)}] \in X
        PROVE  f[p] = h[f[p \ {Max(p)}]][Max(p)]
    <3>1. Max(p) \in 1 .. n
      BY <1>2, <2>2, Greatest
    <3>2. QED
      BY <1>4, <2>1, <2>2, <3>1
  <2>3. QED
    BY <2>1, <2>2 DEF Iterates
<1> HIDE DEF f
<1>7. PICK r : Climbs(f, r, X, NoChunks, n, h)
  <2>1. NoChunks \in X /\ n \in Nat /\ h \in [X -> [1 .. n -> X]]
    BY <1>2, <1>4
  <2>2. QED
    BY <1>6, <2>1, FoldGoesUp
<1>8. ASSUME NEW k \in 1 .. n PROVE r[k] = Gathered(lines, r[k - 1], ps[k])
  <2>1. r[k - 1] \in X /\ r[k] = h[r[k - 1]][k]
    BY <1>2, <1>7 DEF Climbs, Unrolled
  <2>2. QED
    BY <1>4, <2>1
<1>9. r \in [0 .. n -> X] /\ r[0] = NoChunks
  BY <1>7 DEF Climbs, Unrolled
<1>10. LastGathered(lines, ps) = r[n]
  BY <1>1, <1>2, <1>7 DEF Climbs
<1> HIDE DEF f, h
<1>11. QED
  BY <1>8, <1>9, <1>10 DEF n, X

\* Gathering one more paragraph.
LEMMA GatherStep ==
  ASSUME NEW W, NEW lines \in Seq(Seq(W)), NEW ps, Paragraphed(lines, ps),
         NEW k \in 1 .. Len(ps), NEW acc, Gathering(lines, ps, k - 1, acc),
         Gathered(lines, acc, ps[k]) \in Accs(lines)
  PROVE  Gathering(lines, ps, k, Gathered(lines, acc, ps[k]))
<1> DEFINE N == 1 .. Len(lines)
           p == ps[k]
           size == Chars(lines, p[1], p[2])
           next == Gathered(lines, acc, p)
<1>1. acc \in Accs(lines) /\ acc.done \in Seq(Places(lines)) /\ acc.size \in Nat
  BY DEF Gathering, Accs
<1>2. size \in Nat /\ size > 0 /\ Len(lines) \in Nat
  BY ParagraphSize
<1>3. next = IF acc.size > 0 /\ acc.size + size > NoteChars
             THEN [done |-> Append(acc.done, acc.cur), cur |-> p, size |-> size]
             ELSE [acc EXCEPT !.cur = IF acc.size = 0 THEN p ELSE <<@[1], p[2]>>,
                              !.size = @ + size]
  BY DEF Gathered
<1>4. p[1] \in N /\ p[2] \in N /\ p[1] <= p[2]
  BY <1>2, ParagraphPlaces
<1>5. CASE k = 1
  <2>1. k - 1 = 0
    BY <1>5
  <2>2. acc.done = <<>> /\ acc.size = 0
    BY <2>1 DEF Gathering
  <2>3. next = [acc EXCEPT !.cur = p, !.size = @ + size]
    BY <1>3, <2>2
  <2>4. next.done = <<>> /\ next.cur = p /\ next.size = size
    BY <1>1, <1>2, <2>2, <2>3 DEF Accs
  <2>5. Chunked(lines, ps, <<>>, k - 1)
    <3>1. <<>> \in Seq(N \X N) /\ Len(<<>>) = 0 /\ 1 .. 0 = {} /\ 2 .. 0 = {}
      OBVIOUS
    <3>2. 1 .. k - 1 = {}
      BY <2>1
    <3>3. QED
      BY <3>1, <3>2 DEF Chunked
  <2>6. /\ \A a \in 1 .. Len(<<>>) : <<>>[a][2] < ps[k][1]
        /\ Len(<<>>) > 0 => Chars(lines, <<>>[Len(<<>>)][1], ps[k][2]) > NoteChars
    <3>1. Len(<<>>) = 0 /\ 1 .. Len(<<>>) = {} /\ ~ (Len(<<>>) > 0)
      OBVIOUS
    <3>2. QED
      BY <3>1, Zenon
  <2>7. Chunked(lines, ps, Append(<<>>, ps[k]), k)
    BY <1>2, <2>5, <2>6, AnotherChunk
  <2> HIDE DEF next
  <2>8. QED
    BY <1>2, <1>5, <2>4, <2>7 DEF Gathering, next
<1>6. CASE k # 1
  <2> DEFINE q == Append(acc.done, acc.cur)
             m == Len(acc.done)
  <2>1. k - 1 > 0 /\ k \in 2 .. Len(ps) /\ k > 1 /\ k - 1 \in 1 .. Len(ps)
    BY <1>6
  <2>2. /\ acc.size > 0
        /\ acc.size = Chars(lines, acc.cur[1], acc.cur[2])
        /\ acc.cur[2] = ps[k - 1][2]
        /\ Chunked(lines, ps, q, k - 1)
    BY <2>1 DEF Gathering
  <2>3. IsSeq(acc.done)
    BY <1>1, SeqIsSeq
  <2>4. /\ m \in Nat /\ Len(q) = m + 1 /\ q[m + 1] = acc.cur
    BY <2>3, AppendIsSeq DEF IsSeq
  <2> HIDE DEF q, m
  <2>5. /\ \A a \in 1 .. Len(q) : IsChunk(lines, ps, q[a])
        /\ \A a, b \in 1 .. Len(q) : a < b => q[a][2] < q[b][1]
    BY <2>2 DEF Chunked
  <2>6. \A a \in 1 .. Len(q) : q[a][1] \in N /\ q[a][2] \in N /\ q[a][1] <= q[a][2]
    BY <1>2, <2>5, ChunkPlaces
  <2>7. m + 1 \in 1 .. Len(q)
    BY <2>4
  <2>8. ps[k - 1][2] \in N /\ ps[k - 1][2] < p[1]
    <3>1. ps[k - 1][2] + 1 < ps[k][1]
      <4>1. k - 1 < k
        OBVIOUS
      <4>2. QED
        BY <2>1, <4>1 DEF Paragraphed
    <3>2. ps[k - 1][2] \in N
      BY <1>2, <2>1, ParagraphPlaces
    <3>3. QED
      BY <1>4, <3>1, <3>2
  <2>9. CASE acc.size + size > NoteChars
    <3>1. next = [done |-> q, cur |-> p, size |-> size]
      BY <1>3, <2>2, <2>9 DEF q
    <3>2. ASSUME NEW a \in 1 .. Len(q) PROVE q[a][2] < ps[k][1]
      <4>1. CASE a = m + 1
        BY <2>2, <2>4, <2>8, <4>1
      <4>2. CASE a # m + 1
        <5>1. a < m + 1
          BY <2>4, <4>2
        <5>2. q[a][2] < q[m + 1][1] /\ q[m + 1][1] <= q[m + 1][2]
              /\ q[a][2] \in N /\ q[m + 1][1] \in N
          BY <2>5, <2>6, <2>7, <5>1
        <5>3. q[m + 1][2] = ps[k - 1][2]
          BY <2>2, <2>4
        <5> DEFINE u == q[a][2]
                   v == q[m + 1][1]
                   w == q[m + 1][2]
        <5>4. u \in Int /\ v \in Int /\ w \in Int /\ u < v /\ v <= w
          <6>1. \A i \in N : i \in Int
            BY <1>2
          <6>2. u \in N /\ v \in N /\ w \in N
            BY <2>6, <2>7, Zenon
          <6>3. u < v /\ v <= w
            BY <5>2
          <6>4. QED
            BY <6>1, <6>2, <6>3
        <5>5. w < p[1] /\ p[1] \in Int
          BY <1>2, <1>4, <2>8, <5>3
        <5> HIDE DEF u, v, w
        <5>6. u < p[1]
          BY <5>4, <5>5
        <5>7. QED
          BY <5>6 DEF u
      <4>3. QED
        BY <4>1, <4>2
    <3>3. Chunked(lines, ps, Append(q, p), k)
      <4>1. acc.cur[1] \in N /\ acc.cur[1] <= ps[k - 1][2]
        BY <2>2, <2>4, <2>6, <2>7
      <4>2. Chars(lines, acc.cur[1], p[2]) = acc.size + size
        BY <2>1, <2>2, <4>1, ParagraphSize
      <4>3. Chars(lines, q[Len(q)][1], ps[k][2]) > NoteChars
        BY <2>4, <2>9, <4>2
      <4>4. QED
        BY <1>2, <2>2, <3>2, <4>3, AnotherChunk
    <3>4. next.done = q /\ next.cur = p /\ next.size = size
      BY <3>1
    <3> HIDE DEF next
    <3>5. QED
      BY <1>2, <1>6, <3>3, <3>4 DEF Gathering, next
  <2>10. CASE ~ (acc.size + size > NoteChars)
    <3> DEFINE e == <<acc.cur[1], p[2]>>
    <3>1. next = [acc EXCEPT !.cur = e, !.size = @ + size]
      <4>1. acc.size # 0
        BY <1>1, <2>2
      <4>2. next = [acc EXCEPT !.cur = IF acc.size = 0 THEN p ELSE <<@[1], p[2]>>,
                              !.size = @ + size]
        BY <1>3, <2>10
      <4>3. QED
        BY <4>1, <4>2
    <3>2. next.done = acc.done /\ next.cur = e /\ next.size = acc.size + size
      BY <1>1, <3>1 DEF Accs
    <3>3. acc.cur[1] \in N /\ acc.cur[1] <= ps[k - 1][2]
      BY <2>2, <2>4, <2>6, <2>7
    <3>4. Chars(lines, acc.cur[1], p[2]) = acc.size + size
      BY <2>1, <2>2, <3>3, ParagraphSize
    <3>5. Chars(lines, acc.cur[1], p[2]) <= NoteChars
      BY <1>1, <1>2, <2>10, <3>4, NoteCharsAssumption
    <3>6. Chunked(lines, ps, Append(acc.done, e), k)
      BY <1>2, <2>1, <2>2, <2>3, <3>5, LongerChunk DEF q
    <3>7. e[1] = acc.cur[1] /\ e[2] = p[2]
      OBVIOUS
    <3>8. acc.size + size > 0
      BY <1>1, <1>2
    <3> HIDE DEF next, e
    <3>9. QED
      BY <1>6, <3>2, <3>4, <3>6, <3>7, <3>8 DEF Gathering, next
  <2>11. QED
    BY <2>9, <2>10
<1>7. QED
  BY <1>5, <1>6

\* chunk_markdown: what the passages of a note come to.
LEMMA RangesOfNote ==
  ASSUME NEW W, NEW lines \in Seq(Seq(W))
  PROVE  Chunked(lines, Paragraphs(lines), ChunkRanges(lines), Len(Paragraphs(lines)))
<1> DEFINE ps == Paragraphs(lines)
           n == Len(ps)
           last == LastGathered(lines, ps)
<1>1. Paragraphed(lines, ps) /\ Len(lines) \in Nat
  BY ParagraphsOfNote
<1>2. ChunkRanges(lines) = IF last.size = 0 THEN <<>> ELSE Append(last.done, last.cur)
  BY Zenon DEF ChunkRanges, LastGathered, Gathered, NoChunks
<1> HIDE DEF ps, last
<1>3. n \in Nat
  BY <1>1, ParagraphPlaces
<1>4. PICK r \in [0 .. Len(ps) -> Accs(lines)] :
        /\ r[0] = NoChunks
        /\ \A k \in 1 .. Len(ps) : r[k] = Gathered(lines, r[k - 1], ps[k])
        /\ LastGathered(lines, ps) = r[Len(ps)]
  BY <1>1, GatherSteps
<1> DEFINE G == {k \in 0 .. n : Gathering(lines, ps, k, r[k])}
<1>5. 0 \in G
  <2>1. 0 \in 0 .. n /\ r[0] \in Accs(lines)
    BY <1>3, <1>4
  <2>2. r[0].done = <<>> /\ r[0].size = 0
    BY <1>4 DEF NoChunks
  <2>3. Gathering(lines, ps, 0, r[0])
    BY <2>1, <2>2 DEF Gathering
  <2>4. QED
    BY <2>1, <2>3
<1>6. ASSUME NEW k \in 1 .. n, k - 1 \in G PROVE k \in G
  <2>1. Gathering(lines, ps, k - 1, r[k - 1]) /\ k \in 0 .. n
    BY <1>6
  <2>2. r[k] = Gathered(lines, r[k - 1], ps[k]) /\ r[k] \in Accs(lines)
    BY <1>4, <2>1
  <2>3. Gathering(lines, ps, k, r[k])
    BY <1>1, <2>1, <2>2, GatherStep
  <2>4. QED
    BY <2>1, <2>3
<1> HIDE DEF G
<1>7. n \in G
  <2>1. \A k \in 0 .. n : k \in G
    BY <1>3, <1>5, <1>6, Upward
  <2>2. QED
    BY <1>3, <2>1
<1>8. Gathering(lines, ps, n, last)
  BY <1>4, <1>7 DEF G, last
<1>9. CASE n = 0
  <2>1. ChunkRanges(lines) = <<>>
    BY <1>2, <1>8, <1>9 DEF Gathering
  <2>2. <<>> \in Seq((1 .. Len(lines)) \X (1 .. Len(lines))) /\ Len(<<>>) = 0
        /\ 1 .. 0 = {} /\ 2 .. 0 = {}
    OBVIOUS
  <2>3. Chunked(lines, ps, <<>>, n)
    BY <1>9, <2>2 DEF Chunked
  <2>4. QED
    BY <2>1, <2>3 DEF ps
<1>10. CASE n # 0
  <2>1. n > 0
    BY <1>3, <1>10
  <2>2. last.size > 0 /\ Chunked(lines, ps, Append(last.done, last.cur), n)
    BY <1>8, <2>1 DEF Gathering
  <2>3. ChunkRanges(lines) = Append(last.done, last.cur)
    BY <1>2, <2>2
  <2>4. QED
    BY <2>2, <2>3 DEF ps
<1>11. QED
  BY <1>9, <1>10

\* search/chunker: what every note is cut into.
THEOREM NoteCovered ==
  ASSUME NEW W, NEW d \in Seq(Seq(W))
  PROVE  Covered(d)
<1> DEFINE n == Len(d)
           N == 1 .. n
           ps == Paragraphs(d)
           m == Len(ps)
           q == ChunkRanges(d)
           Holds(r, i) == r[1] <= i /\ i <= r[2]
<1>1. n \in Nat /\ DOMAIN d = N
  OBVIOUS
<1>2. Paragraphed(d, ps)
  BY ParagraphsOfNote
<1>3. Chunked(d, ps, q, m)
  BY RangesOfNote
<1> HIDE DEF ps, q
<1>4. /\ q \in Seq(N \X N)
      /\ \A a \in 1 .. Len(q) : IsChunk(d, ps, q[a])
      /\ \A a, b \in 1 .. Len(q) : a < b => q[a][2] < q[b][1]
      /\ \A i \in 1 .. m : \E a \in 1 .. Len(q) : q[a][1] <= ps[i][1] /\ ps[i][2] <= q[a][2]
  BY <1>3 DEF Chunked
<1> HIDE DEF N
<1>5. DOMAIN q = 1 .. Len(q) /\ Len(q) \in Nat
  BY <1>4
<1>6. \A a \in 1 .. Len(q) : q[a][1] \in N /\ q[a][2] \in N /\ q[a][1] <= q[a][2]
  BY <1>1, <1>2, <1>4, ChunkPlaces DEF N
<1>7. \A i \in 1 .. m : ps[i][1] \in N /\ ps[i][2] \in N /\ ps[i][1] <= ps[i][2]
  BY <1>1, <1>2, ParagraphPlaces DEF N
<1>8. \A i \in N : i \in Int
  BY <1>1 DEF N
<1>9. ASSUME NEW i \in DOMAIN d, d[i] # <<>>
      PROVE  Cardinality({k \in DOMAIN q : Holds(q[k], i)}) = 1
  <2>1. i \in N /\ i \in 1 .. Len(d)
    BY <1>1 DEF N
  <2>2. PICK l \in 1 .. m : ps[l][1] <= i /\ i <= ps[l][2]
    BY <1>2, <1>9, <2>1 DEF Paragraphed
  <2>3. PICK k \in 1 .. Len(q) : q[k][1] <= ps[l][1] /\ ps[l][2] <= q[k][2]
    BY <1>4
  <2>4. Holds(q[k], i)
    <3>1. q[k][1] \in Int /\ q[k][2] \in Int /\ ps[l][1] \in Int /\ ps[l][2] \in Int /\ i \in Int
      BY <1>6, <1>7, <1>8, <2>1
    <3>2. QED
      BY <2>2, <2>3, <3>1
  <2>5. ASSUME NEW j \in 1 .. Len(q), Holds(q[j], i), j # k PROVE FALSE
    <3>1. /\ q[k][1] \in Int /\ q[k][2] \in Int /\ i \in Int
          /\ q[j][1] \in Int /\ q[j][2] \in Int
      BY <1>6, <1>8, <2>1
    <3>2. j < k => q[j][2] < q[k][1]
      BY <1>4
    <3>3. k < j => q[k][2] < q[j][1]
      BY <1>4
    <3>4. ~ (q[j][2] < q[k][1]) /\ ~ (q[k][2] < q[j][1])
      <4>1. q[k][1] <= i /\ i <= q[k][2]
        BY <2>4
      <4>2. q[j][1] <= i /\ i <= q[j][2]
        BY <2>5
      <4>3. \A a, b, x \in Int : a <= x /\ x <= b => ~ (b < a)
        OBVIOUS
      <4>4. q[k][1] <= i /\ i <= q[j][2]
        BY <4>1, <4>2
      <4>5. q[j][1] <= i /\ i <= q[k][2]
        BY <4>1, <4>2
      <4>6. QED
        BY <3>1, <4>3, <4>4, <4>5, Zenon
    <3>5. j < k \/ k < j
      BY <2>5
    <3>6. QED
      BY <3>2, <3>3, <3>4, <3>5
  <2> HIDE DEF Holds
  <2>6. {j \in DOMAIN q : Holds(q[j], i)} = {k}
    BY <1>5, <2>4, <2>5
  <2>7. QED
    BY <2>6, FS_Singleton
<1>10. ASSUME NEW k \in DOMAIN q
       PROVE  /\ d[q[k][1]] # <<>> /\ d[q[k][2]] # <<>>
              /\ \/ Chars(d, q[k][1], q[k][2]) <= NoteChars
                 \/ \A i \in q[k][1] .. q[k][2] : d[i] # <<>>
  <2>1. IsChunk(d, ps, q[k])
    BY <1>4, <1>5
  <2>2. PICK i, j \in 1 .. Len(ps) :
          /\ i <= j /\ q[k][1] = ps[i][1] /\ q[k][2] = ps[j][2]
          /\ Chars(d, q[k][1], q[k][2]) <= NoteChars \/ i = j
    BY <2>1 DEF IsChunk
  <2>3. ASSUME NEW l \in 1 .. Len(ps), NEW x \in ps[l][1] .. ps[l][2] PROVE d[x] # <<>>
    BY <1>2 DEF Paragraphed, IsParagraph, Has
  <2>4. ASSUME NEW l \in 1 .. Len(ps)
        PROVE  ps[l][1] \in ps[l][1] .. ps[l][2] /\ ps[l][2] \in ps[l][1] .. ps[l][2]
    <3>1. ps[l][1] \in Int /\ ps[l][2] \in Int /\ ps[l][1] <= ps[l][2]
      BY <1>7, <1>8
    <3>2. QED
      BY <3>1
  <2>5. d[q[k][1]] # <<>> /\ d[q[k][2]] # <<>>
    BY <2>2, <2>3, <2>4
  <2>6. QED
    BY <2>2, <2>3, <2>5
<1>11. \A j, k \in DOMAIN q : j < k => q[j][2] < q[k][1]
  BY <1>4, <1>5
<1>12. ASSUME NEW k \in DOMAIN q, k > 1
       PROVE  \E last \in q[k][1] .. q[k][2] :
                /\ \A i \in q[k][1] .. last : d[i] # <<>>
                /\ Chars(d, q[k - 1][1], last) > NoteChars
  <2>1. k \in 2 .. Len(q) /\ k \in 1 .. Len(q)
    BY <1>5, <1>12
  <2>2. Overfills(d, ps, q[k - 1], q[k])
    BY <1>3, <2>1 DEF Chunked
  <2>3. PICK i \in 1 .. Len(ps) :
          /\ q[k][1] = ps[i][1] /\ ps[i][2] <= q[k][2]
          /\ Chars(d, q[k - 1][1], ps[i][2]) > NoteChars
    BY <2>2 DEF Overfills
  <2> DEFINE last == ps[i][2]
  <2>4. last \in q[k][1] .. q[k][2]
    <3>1. q[k][1] \in Int /\ q[k][2] \in Int /\ last \in Int /\ ps[i][1] <= last
      BY <1>6, <1>7, <1>8, <2>1
    <3> HIDE DEF last
    <3>2. q[k][1] <= last /\ last <= q[k][2]
      BY <2>3, <3>1 DEF last
    <3>3. QED
      BY <3>1, <3>2
  <2>5. \A x \in q[k][1] .. last : d[x] # <<>>
    BY <1>2, <2>3 DEF Paragraphed, IsParagraph, Has
  <2>6. QED
    BY <2>3, <2>4, <2>5
<1>13. QED
  BY <1>9, <1>10, <1>11, <1>12 DEF Covered, q

\* PassagesPartition: chunk_markdown puts every line that is not blank into one passage, and
\* begins a passage only when its first paragraph would burst the one before, for notes of any
\* length and every budget.
THEOREM NotesPartitioned == Spec => []PassagesPartition
<1>1. PassagesPartition
  <2>1. ASSUME NEW d \in Documents PROVE Covered(d)
    <3>1. d \in Seq(Seq(WordsOf(d)))
      BY DocumentsAssumption
    <3>2. QED
      BY <3>1, NoteCovered
  <2>2. QED
    BY <2>1 DEF PassagesPartition
<1>2. QED
  BY <1>1, PTL

\* A passage and the place it is known by.
IsPassage(n, lines, p) ==
  /\ p = [path |-> n, title |-> p.title, first |-> p.first, last |-> p.last, body |-> p.body]
  /\ p.path = n

\* The passages of a note are known by the lines they begin at.
LEMMA PassagesOfNote ==
  ASSUME NEW W, NEW lines \in Seq(Seq(W)), NEW n
  PROVE  /\ IsSeq(PassagesOf(n, lines))
         /\ \A p \in ToSet(PassagesOf(n, lines)) : IsPassage(n, lines, p)
         /\ \A i, j \in DOMAIN PassagesOf(n, lines) :
              PassagesOf(n, lines)[i].first = PassagesOf(n, lines)[j].first => i = j
<1> DEFINE q == ChunkRanges(lines)
           m == Len(q)
           N == 1 .. Len(lines)
           Body(i) == SelectSeq(SubSeq(lines, q[i][1], q[i][2]), LAMBDA l : l # <<>>)
           s == PassagesOf(n, lines)
           u == Title(n, lines)
           Made(i) == [path |-> n, title |-> u, first |-> q[i][1], last |-> q[i][2],
                       body |-> Body(i)]
<1>1. /\ q \in Seq(N \X N)
      /\ \A a \in 1 .. Len(q) : IsChunk(lines, Paragraphs(lines), q[a])
      /\ \A a, b \in 1 .. Len(q) : a < b => q[a][2] < q[b][1]
  BY RangesOfNote DEF Chunked
<1>2. \A a \in 1 .. m : q[a][1] \in Int /\ q[a][2] \in Int /\ q[a][1] <= q[a][2]
  <2>1. Paragraphed(lines, Paragraphs(lines)) /\ Len(lines) \in Nat
    BY ParagraphsOfNote
  <2>2. \A a \in 1 .. m : q[a][1] \in N /\ q[a][2] \in N /\ q[a][1] <= q[a][2]
    BY <1>1, <2>1, ChunkPlaces
  <2>3. \A i \in N : i \in Int
    OBVIOUS
  <2>4. QED
    BY <2>2, <2>3
<1>3. s = [i \in DOMAIN q |-> Made(i)]
  BY Zenon DEF PassagesOf, Passage
<1> HIDE DEF N, q, s, Body, u
<1>4. m \in Nat /\ DOMAIN q = 1 .. m
  BY <1>1
<1>5. s = [i \in 1 .. m |-> Made(i)]
  BY <1>3, <1>4
<1> HIDE DEF m
<1>6. DOMAIN s = 1 .. m /\ Len(s) = m
      /\ \A i \in 1 .. m : s[i] = Made(i)
  BY <1>4, <1>5
<1>7. IsSeq(s)
  <2>1. s = [i \in 1 .. m |-> s[i]]
    BY <1>5, <1>6
  <2>2. QED
    BY <1>4, <1>6, <2>1 DEF IsSeq
<1>8. ASSUME NEW p \in ToSet(s) PROVE IsPassage(n, lines, p)
  <2>1. PICK i \in 1 .. m : p = s[i]
    BY <1>6 DEF ToSet
  <2>2. p = Made(i)
    BY <1>6, <2>1
  <2>3. QED
    BY <2>2 DEF IsPassage
<1>9. ASSUME NEW i \in DOMAIN s, NEW j \in DOMAIN s, s[i].first = s[j].first PROVE i = j
  <2>1. i \in 1 .. m /\ j \in 1 .. m /\ q[i][1] = q[j][1]
    <3>1. s[i].first = q[i][1] /\ s[j].first = q[j][1]
      BY <1>6
    <3>2. QED
      BY <1>6, <1>9, <3>1
  <2>2. /\ i < j => q[i][2] < q[j][1]
        /\ j < i => q[j][2] < q[i][1]
    BY <1>1, <2>1 DEF m
  <2>3. ~ (q[i][2] < q[j][1]) /\ ~ (q[j][2] < q[i][1])
    BY <1>2, <2>1
  <2>4. ~ (i < j) /\ ~ (j < i) /\ i \in Int /\ j \in Int
    BY <1>4, <2>1, <2>2, <2>3
  <2>5. QED
    BY <2>4
<1>10. QED
  BY <1>7, <1>8, <1>9 DEF s

-----------------------------------------------------------------------------
(* Searching the passages of all notes *)

\* SetToSeq enumerates a finite set, each element once.
LEMMA Enumerated ==
  ASSUME NEW T, IsFiniteSet(T)
  PROVE  /\ Cardinality(T) \in Nat
         /\ SetToSeq(T) \in [1 .. Cardinality(T) -> T]
         /\ \A i, j \in 1 .. Cardinality(T) : SetToSeq(T)[i] = SetToSeq(T)[j] => i = j
         /\ \A x \in T : \E i \in 1 .. Cardinality(T) : SetToSeq(T)[i] = x
<1> DEFINE n == Cardinality(T)
           D == 1 .. n
           s == SetToSeq(T)
<1>1. n \in Nat /\ ExistsBijection(D, T)
  BY FS_CardinalityType
<1>2. s = CHOOSE f \in [D -> T] : IsInjective(f)
  BY DEF SetToSeq
<1> HIDE DEF s, D
<1>3. PICK g \in Bijection(D, T) : TRUE
  BY <1>1 DEF ExistsBijection
<1>4. g \in [D -> T] /\ IsInjective(g)
  BY <1>3 DEF Bijection, Injection, IsInjective
<1>5. s \in [D -> T] /\ IsInjective(s)
  BY <1>2, <1>4
<1>6. \A i, j \in D : s[i] = s[j] => i = j
  BY <1>5 DEF IsInjective
<1>7. IsFiniteSet(D) /\ Cardinality(D) = n
  <2>1. IsFiniteSet(1 .. n) /\ Cardinality(1 .. n) = n
    BY <1>1, FS_Interval
  <2>2. QED
    BY <2>1 DEF D
<1>8. s \in Injection(D, T)
  BY <1>5, <1>6 DEF Injection, IsInjective
<1>9. s \in Surjection(D, T)
  BY <1>7, <1>8, FS_Injection DEF n
<1>10. \A x \in T : \E i \in D : s[i] = x
  BY <1>9 DEF Surjection
<1>11. QED
  BY <1>1, <1>5, <1>6, <1>10 DEF s, D

\* A place is known by one passage.
KeysOnce(s) == \A a, b \in 1 .. Len(s) : KeyOf(s[a]) = KeyOf(s[b]) => a = b

\* The passages of some notes one note after the other.
LEMMA NoteAfterNote ==
  ASSUME NEW T, IsFiniteSet(T), NEW P,
         \A n \in T : IsSeq(P[n]),
         \A n \in T : \A p \in ToSet(P[n]) : p.path = n,
         \A n \in T : \A a, b \in 1 .. Len(P[n]) : P[n][a].first = P[n][b].first => a = b,
         NEW t, IsSeq(t), Len(t) = Cardinality(T),
         \A i \in 1 .. Len(t) : t[i] = P[SetToSeq(T)[i]]
  PROVE  /\ IsSeq(FlattenSeq(t)) /\ KeysOnce(FlattenSeq(t))
         /\ ToSet(FlattenSeq(t)) = UNION {ToSet(P[n]) : n \in T}
<1> DEFINE m == Cardinality(T)
           e == SetToSeq(T)
           s == FlattenSeq(t)
           S == UNION {ToSet(P[n]) : n \in T}
           K == [p \in S |-> KeyOf(p)]
<1>1. /\ m \in Nat
      /\ e \in [1 .. m -> T]
      /\ \A i, j \in 1 .. m : e[i] = e[j] => i = j
      /\ \A x \in T : \E i \in 1 .. m : e[i] = x
  BY Enumerated
<1> HIDE DEF m, e
<1>2. \A i \in 1 .. m : e[i] \in T /\ t[i] = P[e[i]]
  BY <1>1 DEF m, e
<1>3. \A n \in T : /\ P[n] \in Seq(ToSet(P[n])) /\ DOMAIN P[n] = 1 .. Len(P[n])
                   /\ \A a \in 1 .. Len(P[n]) : P[n][a] \in ToSet(P[n])
  <2>1. SUFFICES ASSUME NEW n \in T
                 PROVE  /\ P[n] \in Seq(ToSet(P[n])) /\ DOMAIN P[n] = 1 .. Len(P[n])
                        /\ \A a \in 1 .. Len(P[n]) : P[n][a] \in ToSet(P[n])
    OBVIOUS
  <2>2. IsSeq(P[n])
    OBVIOUS
  <2>3. P[n] \in Seq(ToSet(P[n])) /\ DOMAIN P[n] = 1 .. Len(P[n])
    BY <2>2, ElementsOfSeq
  <2>4. QED
    BY <2>3 DEF ToSet
<1>4. \A n \in T : P[n] \in Seq(S)
  <2>1. SUFFICES ASSUME NEW n \in T PROVE P[n] \in Seq(S)
    OBVIOUS
  <2>2. ToSet(P[n]) \subseteq S
    OBVIOUS
  <2>3. P[n] \in Seq(ToSet(P[n]))
    BY <1>3
  <2> HIDE DEF S
  <2> DEFINE V == ToSet(P[n])
  <2> HIDE DEF V
  <2>4. P[n] \in Seq(V) /\ V \subseteq S
    BY <2>2, <2>3 DEF V
  <2>5. QED
    BY <2>4
<1> HIDE DEF S
<1>5. t \in Seq(Seq(S)) /\ Len(t) = m
  <2>1. t = [i \in 1 .. m |-> t[i]]
    BY DEF IsSeq, m
  <2>2. \A i \in 1 .. m : t[i] \in Seq(S)
    BY <1>2, <1>4
  <2>3. t \in [1 .. m -> Seq(S)]
    BY <2>1, <2>2
  <2>4. QED
    BY <1>1, <2>3
<1>6. s = FlattenSeq(t)
  OBVIOUS
<1> HIDE DEF s
<1>7. s \in Seq(S) /\ ToSet(s) = UNION {ToSet(t[i]) : i \in 1 .. Len(t)}
  <2>1. /\ FlattenSeq(t) \in Seq(S)
        /\ ToSet(FlattenSeq(t)) = UNION {ToSet(t[i]) : i \in 1 .. Len(t)}
    BY <1>5, Flattened
  <2>2. QED
    BY <1>6, <2>1, Zenon
<1>8. ToSet(s) = S
  <2>1. UNION {ToSet(t[i]) : i \in 1 .. m} \subseteq UNION {ToSet(P[n]) : n \in T}
    BY <1>2
  <2>2. ASSUME NEW n \in T PROVE ToSet(P[n]) \subseteq UNION {ToSet(t[i]) : i \in 1 .. m}
    <3>1. PICK i \in 1 .. m : e[i] = n
      BY <1>1
    <3>2. ToSet(t[i]) = ToSet(P[n])
      BY <1>2, <3>1
    <3>3. QED
      BY <3>2
  <2>3. ToSet(s) = UNION {ToSet(t[i]) : i \in 1 .. m}
    BY <1>5, <1>7
  <2>4. UNION {ToSet(P[n]) : n \in T} \subseteq UNION {ToSet(t[i]) : i \in 1 .. m}
    <3> DEFINE U == UNION {ToSet(t[i]) : i \in 1 .. m}
    <3> HIDE DEF U
    <3>1. \A n \in T : ToSet(P[n]) \subseteq U
      BY <2>2 DEF U
    <3>2. UNION {ToSet(P[n]) : n \in T} \subseteq U
      BY <3>1
    <3>3. QED
      BY <3>2 DEF U
  <2>5. QED
    BY <2>1, <2>3, <2>4, Zenon DEF S
<1>9. \A n \in T : \A p \in ToSet(P[n]) : p \in S /\ K[p] = <<n, p.first>>
  BY DEF S, KeyOf
<1> HIDE DEF K
<1>10. \A i \in 1 .. Len(t) : Once(K, t[i])
  <2>1. SUFFICES ASSUME NEW i \in 1 .. m PROVE Once(K, t[i])
    BY <1>5
  <2> DEFINE n == e[i]
  <2>2. n \in T /\ t[i] = P[n]
    BY <1>2
  <2> HIDE DEF n
  <2>3. ASSUME NEW a \in 1 .. Len(P[n]), NEW b \in 1 .. Len(P[n]), K[P[n][a]] = K[P[n][b]]
        PROVE  a = b
    <3>1. P[n][a] \in ToSet(P[n]) /\ P[n][b] \in ToSet(P[n])
      BY <1>3, <2>2
    <3>2. K[P[n][a]] = <<n, P[n][a].first>> /\ K[P[n][b]] = <<n, P[n][b].first>>
      BY <1>9, <2>2, <3>1
    <3>3. P[n][a].first = P[n][b].first
      <4>1. <<n, P[n][a].first>> = <<n, P[n][b].first>>
        BY <2>3, <3>2, Zenon
      <4>2. QED
        BY <4>1
    <3>4. QED
      BY <2>2, <3>3
  <2>4. QED
    BY <2>2, <2>3 DEF Once
<1>11. \A i, j \in 1 .. Len(t) : i # j =>
         \A x \in ToSet(t[i]), y \in ToSet(t[j]) : K[x] # K[y]
  <2>1. SUFFICES ASSUME NEW i \in 1 .. m, NEW j \in 1 .. m, i # j,
                        NEW x \in ToSet(t[i]), NEW y \in ToSet(t[j])
                 PROVE  K[x] # K[y]
    BY <1>5
  <2>2. e[i] \in T /\ e[j] \in T /\ e[i] # e[j]
    BY <1>1, <1>2, <2>1
  <2>3. x \in ToSet(P[e[i]]) /\ y \in ToSet(P[e[j]])
    BY <1>2
  <2>4. K[x] = <<e[i], x.first>> /\ K[y] = <<e[j], y.first>>
    BY <1>9, <2>2, <2>3
  <2>5. QED
    BY <2>2, <2>4
<1>12. Once(K, s)
  BY <1>5, <1>6, <1>10, <1>11, FlattenedOnce
<1>13. IsSeq(s)
  BY <1>7, SeqIsSeq
<1>14. ASSUME NEW a \in 1 .. Len(s), NEW b \in 1 .. Len(s), KeyOf(s[a]) = KeyOf(s[b])
       PROVE  a = b
  <2>1. s[a] \in S /\ s[b] \in S
    BY <1>7
  <2>2. K[s[a]] = KeyOf(s[a]) /\ K[s[b]] = KeyOf(s[b])
    BY <2>1 DEF K
  <2>3. QED
    BY <1>12, <1>14, <2>2 DEF Once
<1>15. QED
  BY <1>8, <1>13, <1>14 DEF S, s, KeysOnce

\* best are the best passages by their scores, at most limit, without a gap.
Ranked(passages, score, limit, best) ==
  \E m \in 0 .. limit : \E at \in [1 .. m -> 1 .. Len(passages)] :
    /\ best = [i \in 1 .. m |-> passages[at[i]]]
    /\ \A i \in 1 .. m : score[at[i]] > 0
    /\ \A i, j \in 1 .. m : at[i] = at[j] => i = j
    /\ m = limit \/ \A k \in 1 .. Len(passages) : score[k] > 0 => \E i \in 1 .. m : at[i] = k

\* Best returns positions of a positive score, each once and none left out before the limit.
LEMMA BestAreRanked ==
  ASSUME NEW passages, IsSeq(passages), NEW limit \in Nat,
         NEW score \in [1 .. Len(passages) -> Nat]
  PROVE  Ranked(passages, score, limit, Best(passages, score, limit))
<1> DEFINE n == Len(passages)
           D == 1 .. n
           found == {i \in DOMAIN passages : score[i] > 0}
           Ahead(i, j) == score[i] > score[j] \/ (score[i] = score[j] /\ i < j)
           less == {p \in found \X found : Ahead(p[1], p[2])}
           ranked == Ordered(found, less)
           c == Cardinality(found)
           m == IF Len(ranked) < limit THEN Len(ranked) ELSE limit
           top == SubSeq(ranked, 1, m)
<1>1. n \in Nat /\ DOMAIN passages = D
  BY ElementsOfSeq DEF IsSeq
<1>2. Best(passages, score, limit) = [i \in DOMAIN top |-> passages[top[i]]]
  BY Zenon DEF Best
<1>3. found \in SUBSET D
  BY <1>1
<1>4. IsFiniteSet(found)
  <2>1. IsFiniteSet(D)
    BY <1>1, FS_Interval
  <2> HIDE DEF found
  <2>2. QED
    BY <1>3, <2>1, FS_Subset
<1>5. \A i \in found : i \in D /\ i \in Int /\ score[i] \in Int /\ score[i] > 0
  <2>1. \A i \in D : i \in Int /\ score[i] \in Int
    BY <1>1
  <2>2. QED
    BY <1>3, <2>1
<1>6. \A k \in D : score[k] > 0 => k \in found
  BY <1>1
<1> HIDE DEF found, D
<1>7. TotalOrder(less, found)
  <2>1. \A x, y \in found : <<x, y>> \in less <=> Ahead(x, y)
    OBVIOUS
  <2> HIDE DEF less
  <2>2. \A x, y \in found : x # y => <<x, y>> \in less \/ <<y, x>> \in less
    BY <1>5, <2>1
  <2>3. \A x \in found : <<x, x>> \notin less
    BY <1>5, <2>1
  <2>4. \A x, y, z \in found : <<x, y>> \in less /\ <<y, z>> \in less => <<x, z>> \in less
    BY <1>5, <2>1
  <2>5. QED
    BY <2>2, <2>3, <2>4 DEF TotalOrder
<1>8. /\ c \in Nat
      /\ ranked \in [1 .. c -> found]
      /\ ToSet(ranked) = found
      /\ \A i, j \in 1 .. c : i < j => <<ranked[i], ranked[j]>> \in less
  BY <1>4, <1>7, OrderedSet
<1>9. \A x \in found : <<x, x>> \notin less
  BY <1>7 DEF TotalOrder
<1> HIDE DEF less, ranked, c
<1>10. \A i, j \in 1 .. c : ranked[i] = ranked[j] => i = j
  <2>1. SUFFICES ASSUME NEW i \in 1 .. c, NEW j \in 1 .. c, ranked[i] = ranked[j], i # j
                 PROVE  FALSE
    OBVIOUS
  <2>2. i < j \/ j < i
    BY <1>8, <2>1
  <2>3. ranked[i] \in found /\ <<ranked[i], ranked[i]>> \in less
    BY <1>8, <2>1, <2>2
  <2>4. QED
    BY <1>9, <2>3
<1>11. Len(ranked) = c /\ ranked \in Seq(found) /\ DOMAIN ranked = 1 .. c
  BY <1>8
<1>12. m \in 0 .. limit /\ m \in 0 .. c /\ (m = limit \/ m = c)
  BY <1>8, <1>11
<1> HIDE DEF m
<1>13. /\ Len(top) = m /\ top \in Seq(found)
       /\ \A i \in 1 .. m : top[i] = ranked[i] /\ i \in 1 .. c
  BY <1>8, <1>11, <1>12
<1> HIDE DEF top
<1>14. top \in [1 .. m -> found] /\ DOMAIN top = 1 .. m
  BY <1>12, <1>13
<1>15. top \in [1 .. m -> 1 .. Len(passages)]
  <2>1. \A i \in found : i \in 1 .. Len(passages)
    BY <1>5 DEF D
  <2>2. QED
    BY <1>14, <2>1
<1>16. \A i \in 1 .. m : score[top[i]] > 0
  BY <1>5, <1>14
<1>17. \A i, j \in 1 .. m : top[i] = top[j] => i = j
  BY <1>10, <1>13
<1>18. m = limit \/ \A k \in 1 .. Len(passages) : score[k] > 0 => \E i \in 1 .. m : top[i] = k
  <2>1. SUFFICES ASSUME m = c, NEW k \in 1 .. Len(passages), score[k] > 0
                 PROVE  \E i \in 1 .. m : top[i] = k
    BY <1>12
  <2>2. k \in ToSet(ranked)
    BY <1>6, <1>8, <2>1 DEF D
  <2>3. PICK i \in 1 .. c : ranked[i] = k
    BY <1>11, <2>2 DEF ToSet
  <2>4. QED
    BY <1>13, <2>1, <2>3
<1>19. Best(passages, score, limit) = [i \in 1 .. m |-> passages[top[i]]]
  BY <1>2, <1>14
<1>20. QED
  BY <1>12, <1>15, <1>16, <1>17, <1>18, <1>19 DEF Ranked

\* The passages of a note of the vault.
LEMMA NotePassages ==
  ASSUME NEW n \in Notes, NEW d \in NoteTexts
  PROVE  /\ IsSeq(PassagesOf(n, d))
         /\ DOMAIN PassagesOf(n, d) = 1 .. Len(PassagesOf(n, d))
         /\ \A p \in ToSet(PassagesOf(n, d)) : IsPassage(n, d, p) /\ p.path = n
         /\ \A a, b \in 1 .. Len(PassagesOf(n, d)) :
              PassagesOf(n, d)[a].first = PassagesOf(n, d)[b].first => a = b
<1>1. d \in Seq(Seq(WordsOf(d)))
  BY VaultAssumption
<1>2. /\ IsSeq(PassagesOf(n, d))
      /\ \A p \in ToSet(PassagesOf(n, d)) : IsPassage(n, d, p)
      /\ \A i, j \in DOMAIN PassagesOf(n, d) :
           PassagesOf(n, d)[i].first = PassagesOf(n, d)[j].first => i = j
  BY <1>1, PassagesOfNote
<1>3. DOMAIN PassagesOf(n, d) = 1 .. Len(PassagesOf(n, d))
  BY <1>2, ElementsOfSeq
<1>4. QED
  BY <1>2, <1>3 DEF IsPassage

\* The index holds the passages of all notes, and knows a place by one.
LEMMA RowsHold ==
  ASSUME NEW lines \in [Notes -> NoteTexts]
  PROVE  /\ IsSeq(RowsOf(lines)) /\ KeysOnce(RowsOf(lines))
         /\ ToSet(RowsOf(lines)) = UNION {ToSet(PassagesOf(n, lines[n])) : n \in Notes}
<1> DEFINE P == [n \in Notes |-> PassagesOf(n, lines[n])]
           m == Cardinality(Notes)
           e == SetToSeq(Notes)
           s == RowsOf(lines)
<1>1. IsFiniteSet(Notes)
  BY VaultAssumption
<1>2. e \in [1 .. m -> Notes]
  BY <1>1, Enumerated
<1> DEFINE t == [i \in 1 .. m |-> PassagesOf(e[i], lines[e[i]])]
<1>3. s = FlattenSeq(t)
  BY DEF RowsOf
<1>4. IsSeq(t) /\ Len(t) = Cardinality(Notes)
  <2>1. m \in Nat
    BY <1>1, Enumerated
  <2> HIDE DEF m, e
  <2>2. Len(t) = m /\ \A i \in 1 .. m : t[i] = PassagesOf(e[i], lines[e[i]])
    BY <2>1
  <2>3. t = [i \in 1 .. m |-> t[i]]
    BY <2>2
  <2> HIDE DEF t
  <2>4. QED
    BY <2>1, <2>2, <2>3 DEF IsSeq, m
<1>5. \A i \in 1 .. Len(t) : t[i] = P[SetToSeq(Notes)[i]]
  <2> HIDE DEF m, e
  <2>1. \A i \in 1 .. m : t[i] = PassagesOf(e[i], lines[e[i]]) /\ e[i] \in Notes
    BY <1>2
  <2>2. \A i \in 1 .. m : PassagesOf(e[i], lines[e[i]]) = P[e[i]]
    BY <2>1
  <2> HIDE DEF t, P
  <2>3. QED
    BY <1>4, <2>1, <2>2 DEF m, e
<1> HIDE DEF t
<1>6. \A n \in Notes : P[n] = PassagesOf(n, lines[n]) /\ lines[n] \in NoteTexts
  OBVIOUS
<1> HIDE DEF P, s
<1>7. /\ \A n \in Notes : IsSeq(P[n])
      /\ \A n \in Notes : \A p \in ToSet(P[n]) : p.path = n
      /\ \A n \in Notes : \A a, b \in 1 .. Len(P[n]) : P[n][a].first = P[n][b].first => a = b
  BY <1>6, NotePassages
<1>8. /\ IsSeq(s) /\ KeysOnce(s)
      /\ ToSet(s) = UNION {ToSet(P[n]) : n \in Notes}
  BY <1>1, <1>3, <1>4, <1>5, <1>7, NoteAfterNote
<1>9. UNION {ToSet(P[n]) : n \in Notes} = UNION {ToSet(PassagesOf(n, lines[n])) : n \in Notes}
  BY <1>6
<1>10. QED
  BY <1>8, <1>9 DEF s

VectorsType ==
  \A n \in Notes : vectors[n] # NoVectors =>
    vectors[n].lines \in NoteTexts /\ vectors[n].model \in Embedders

\* p is a stored passage of n with the model of its vector.
IsEmbedded(n, p) ==
  /\ vectors[n] # NoVectors
  /\ p.model = vectors[n].model /\ p.path = n
  /\ Plain(p) \in ToSet(PassagesOf(n, vectors[n].lines))
  /\ KeyOf(Plain(p)) = KeyOf(p) /\ Plain(p).body = p.body

\* So do the stored vectors.
LEMMA EmbeddedHold ==
  ASSUME VectorsType
  PROVE  /\ IsSeq(Embedded) /\ KeysOnce(Embedded)
         /\ \A p \in ToSet(Embedded) : \E n \in Notes : IsEmbedded(n, p)
<1> DEFINE T == {n \in Notes : vectors[n] # NoVectors}
           S(n) == PassagesOf(n, vectors[n].lines)
           All(n) == LET passages == S(n)
                     IN  [i \in DOMAIN passages |-> WithModel(passages[i], vectors[n].model)]
           P == [n \in T |-> All(n)]
           m == Cardinality(T)
           e == SetToSeq(T)
           s == Embedded
<1>1. IsFiniteSet(T)
  <2>1. IsFiniteSet(Notes) /\ T \in SUBSET Notes
    BY VaultAssumption
  <2> HIDE DEF T
  <2>2. QED
    BY <2>1, FS_Subset
<1>2. \A n \in T : n \in Notes /\ vectors[n] # NoVectors /\ vectors[n].lines \in NoteTexts
  BY DEF VectorsType
<1> DEFINE t == [i \in 1 .. m |-> All(e[i])]
<1>3. s = FlattenSeq(t)
  BY Zenon DEF Embedded
<1> HIDE DEF T, s
<1>4. e \in [1 .. m -> T] /\ m \in Nat
  BY <1>1, Enumerated
<1>5. IsSeq(t) /\ Len(t) = Cardinality(T)
  <2> HIDE DEF m, e, All
  <2>1. Len(t) = m /\ \A i \in 1 .. m : t[i] = All(e[i])
    BY <1>4
  <2>2. t = [i \in 1 .. m |-> t[i]]
    BY <2>1
  <2> HIDE DEF t
  <2>3. QED
    BY <1>4, <2>1, <2>2 DEF IsSeq, m
<1>6. \A i \in 1 .. Len(t) : t[i] = P[SetToSeq(T)[i]]
  <2> HIDE DEF m, e, All
  <2>1. \A i \in 1 .. m : t[i] = All(e[i]) /\ e[i] \in T
    BY <1>4
  <2>2. \A i \in 1 .. m : All(e[i]) = P[e[i]]
    BY <2>1
  <2> HIDE DEF t, P
  <2>3. QED
    BY <1>5, <2>1, <2>2 DEF m, e
<1> HIDE DEF t
<1>7. ASSUME NEW n \in T
      PROVE  /\ IsSeq(S(n)) /\ DOMAIN S(n) = 1 .. Len(S(n)) /\ IsSeq(P[n]) /\ Len(P[n]) = Len(S(n))
             /\ \A i \in 1 .. Len(S(n)) : P[n][i] = WithModel(S(n)[i], vectors[n].model)
  <2> DEFINE q == S(n)
  <2>1. IsSeq(q) /\ DOMAIN q = 1 .. Len(q)
    BY <1>2, NotePassages
  <2>2. P[n] = [i \in DOMAIN q |-> WithModel(q[i], vectors[n].model)]
    OBVIOUS
  <2> HIDE DEF q, P
  <2>3. P[n] = [i \in 1 .. Len(q) |-> WithModel(q[i], vectors[n].model)] /\ Len(q) \in Nat
    BY <2>1, <2>2 DEF IsSeq
  <2>4. Len(P[n]) = Len(q)
    BY <2>3
  <2>5. \A i \in 1 .. Len(q) : P[n][i] = WithModel(q[i], vectors[n].model)
    BY <2>3
  <2>6. P[n] = [i \in 1 .. Len(q) |-> P[n][i]]
    BY <2>3, <2>5
  <2>7. IsSeq(P[n])
    BY <2>3, <2>4, <2>6 DEF IsSeq
  <2>8. QED
    BY <2>1, <2>4, <2>5, <2>7 DEF q
<1> HIDE DEF P
<1>8. ASSUME NEW n \in T, NEW p \in ToSet(P[n])
      PROVE  IsEmbedded(n, p)
  <2>1. PICK i \in 1 .. Len(S(n)) : p = WithModel(S(n)[i], vectors[n].model)
    <3>1. DOMAIN P[n] = 1 .. Len(P[n])
      BY <1>7, ElementsOfSeq
    <3>2. QED
      BY <1>7, <3>1 DEF ToSet
  <2> DEFINE q == S(n)[i]
  <2>2. q \in ToSet(S(n))
    BY <1>7 DEF ToSet
  <2>3. IsPassage(n, vectors[n].lines, q)
    BY <1>2, <2>2, NotePassages
  <2>4. p = WithModel(q, vectors[n].model)
    BY <2>1
  <2> HIDE DEF q
  <2>5. q = [path |-> n, title |-> q.title, first |-> q.first, last |-> q.last,
              body |-> q.body] /\ q.path = n
    BY <2>3 DEF IsPassage
  <2>6. /\ p.path = q.path /\ p.title = q.title /\ p.first = q.first /\ p.last = q.last /\ p.body = q.body
        /\ p.model = vectors[n].model
    BY <2>4 DEF WithModel
  <2>7. Plain(p) = q
    BY <2>5, <2>6 DEF Plain
  <2>8. KeyOf(Plain(p)) = KeyOf(p) /\ Plain(p).body = p.body
    BY <2>6, <2>7 DEF KeyOf
  <2>9. QED
    BY <1>2, <2>2, <2>5, <2>6, <2>7, <2>8 DEF IsEmbedded
<1>9. /\ \A n \in T : IsSeq(P[n])
      /\ \A n \in T : \A p \in ToSet(P[n]) : p.path = n
  BY <1>7, <1>8 DEF IsEmbedded
<1>10. \A n \in T : \A a, b \in 1 .. Len(P[n]) : P[n][a].first = P[n][b].first => a = b
  <2>1. SUFFICES ASSUME NEW n \in T, NEW a \in 1 .. Len(P[n]), NEW b \in 1 .. Len(P[n]),
                        P[n][a].first = P[n][b].first
                 PROVE  a = b
    OBVIOUS
  <2>2. a \in 1 .. Len(S(n)) /\ b \in 1 .. Len(S(n))
    BY <1>7
  <2>3. /\ P[n][a] = WithModel(S(n)[a], vectors[n].model)
        /\ P[n][b] = WithModel(S(n)[b], vectors[n].model)
    BY <1>7, <2>2
  <2>4. \A q : WithModel(q, vectors[n].model).first = q.first
    BY DEF WithModel
  <2>5. S(n)[a].first = S(n)[b].first
    <3>1. P[n][a].first = S(n)[a].first /\ P[n][b].first = S(n)[b].first
      BY <2>3, <2>4, Zenon
    <3>2. QED
      BY <2>1, <3>1
  <2>6. \A i, j \in 1 .. Len(S(n)) : S(n)[i].first = S(n)[j].first => i = j
    BY <1>2, NotePassages, Zenon
  <2>7. QED
    BY <2>2, <2>5, <2>6, Zenon
<1>11. /\ IsSeq(s) /\ KeysOnce(s)
       /\ ToSet(s) = UNION {ToSet(P[n]) : n \in T}
  BY <1>1, <1>3, <1>5, <1>6, <1>9, <1>10, NoteAfterNote
<1>12. \A p \in ToSet(s) : \E n \in Notes : IsEmbedded(n, p)
  BY <1>2, <1>8, <1>11
<1>13. QED
  BY <1>11, <1>12 DEF s

\* best are of the good passages, as many as there are up to the limit.
Found(good, limit, best) ==
  /\ IsSeq(best) /\ Len(best) \in 0 .. limit /\ KeysOnce(best)
  /\ ToSet(best) \subseteq good
  /\ Len(best) = limit \/ good \subseteq ToSet(best)

\* What is ranked is found, if the places of the passages are distinct.
LEMMA RankedAreFound ==
  ASSUME NEW passages, IsSeq(passages), KeysOnce(passages), NEW limit \in Nat,
         NEW score, NEW best, Ranked(passages, score, limit, best)
  PROVE  Found({passages[i] : i \in {k \in 1 .. Len(passages) : score[k] > 0}}, limit, best)
<1> DEFINE D == 1 .. Len(passages)
           good == {passages[i] : i \in {k \in D : score[k] > 0}}
<1> DEFINE Is(m, at) ==
             /\ best = [i \in 1 .. m |-> passages[at[i]]]
             /\ \A i \in 1 .. m : score[at[i]] > 0
             /\ \A i, j \in 1 .. m : at[i] = at[j] => i = j
             /\ m = limit \/ \A k \in 1 .. Len(passages) : score[k] > 0 => \E i \in 1 .. m : at[i] = k
<1>a. \E m \in 0 .. limit : \E at \in [1 .. m -> 1 .. Len(passages)] : Is(m, at)
  BY Zenon DEF Ranked
<1> HIDE DEF Is
<1>b. PICK m \in 0 .. limit : \E at \in [1 .. m -> 1 .. Len(passages)] : Is(m, at)
  BY <1>a
<1>c. PICK at \in [1 .. m -> 1 .. Len(passages)] : Is(m, at)
  BY <1>b
<1>1. /\ best = [i \in 1 .. m |-> passages[at[i]]]
      /\ \A i \in 1 .. m : score[at[i]] > 0
      /\ \A i, j \in 1 .. m : at[i] = at[j] => i = j
      /\ m = limit \/ \A k \in 1 .. Len(passages) : score[k] > 0 => \E i \in 1 .. m : at[i] = k
  BY <1>c DEF Is
<1>2. m \in Nat
  OBVIOUS
<1>3. Len(best) = m /\ DOMAIN best = 1 .. m /\ \A i \in 1 .. m : best[i] = passages[at[i]]
  BY <1>1, <1>2
<1>4. IsSeq(best)
  <2>1. best = [i \in 1 .. m |-> best[i]]
    BY <1>1, <1>3
  <2>2. QED
    BY <1>2, <1>3, <2>1 DEF IsSeq
<1>5. KeysOnce(best)
  <2>1. SUFFICES ASSUME NEW a \in 1 .. m, NEW b \in 1 .. m, KeyOf(best[a]) = KeyOf(best[b])
                 PROVE  a = b
    BY <1>3 DEF KeysOnce
  <2>2. KeyOf(passages[at[a]]) = KeyOf(passages[at[b]])
    BY <1>3, <2>1
  <2>3. at[a] = at[b]
    BY <2>2 DEF KeysOnce
  <2>4. QED
    BY <1>1, <2>3
<1>6. ToSet(best) \subseteq good
  <2>1. ASSUME NEW i \in 1 .. m PROVE best[i] \in good
    <3>1. at[i] \in D /\ score[at[i]] > 0 /\ best[i] = passages[at[i]]
      BY <1>1, <1>3
    <3>2. QED
      BY <3>1
  <2>2. QED
    BY <1>3, <2>1 DEF ToSet
<1>7. m = limit \/ good \subseteq ToSet(best)
  <2>1. SUFFICES ASSUME m # limit, NEW k \in D, score[k] > 0 PROVE passages[k] \in ToSet(best)
    OBVIOUS
  <2>2. PICK i \in 1 .. m : at[i] = k
    BY <1>1, <2>1
  <2>3. QED
    BY <1>3, <2>2 DEF ToSet
<1>8. QED
  BY <1>3, <1>4, <1>5, <1>6, <1>7 DEF Found

\* A sequence has finitely many elements.
LEMMA FiniteSeq ==
  ASSUME NEW s, IsSeq(s)
  PROVE  IsFiniteSet(ToSet(s))
<1>1. Len(s) \in Nat /\ DOMAIN s = 1 .. Len(s) /\ s = [i \in 1 .. Len(s) |-> s[i]]
  BY DEF IsSeq
<1>2. \A x \in ToSet(s) : \E i \in 1 .. Len(s) : s[i] = x
  BY <1>1 DEF ToSet
<1>3. s \in [1 .. Len(s) -> ToSet(s)]
  BY <1>1 DEF ToSet
<1>4. s \in Surjection(1 .. Len(s), ToSet(s))
  BY <1>2, <1>3 DEF Surjection
<1>5. IsFiniteSet(1 .. Len(s))
  BY <1>1, FS_Interval
<1>6. QED
  BY <1>4, <1>5, FS_Surjection

\* A term of the question finds a word of the passage or of its title.
HitBy(question, p) == \E t \in FtsTokens(question) : Finds(t, p)

\* The lexical hits are passages found by a term of the question, and all of them below the
\* limit.
LEMMA LexicalHits ==
  ASSUME NEW lines \in [Notes -> NoteTexts], NEW question \in Questions, NEW limit \in Nat
  PROVE  Found({p \in ToSet(RowsOf(lines)) : HitBy(question, p)}, limit,
               LexicalSearch(RowsOf(lines), question, limit))
<1> DEFINE s == RowsOf(lines)
           F == FtsTokens(question)
           Hits(p) == Cardinality({t \in F : Finds(t, p)})
           score == [i \in DOMAIN s |-> Hits(s[i])]
           best == LexicalSearch(s, question, limit)
           good == {s[i] : i \in {k \in 1 .. Len(s) : score[k] > 0}}
<1>1. IsSeq(s) /\ KeysOnce(s)
  BY RowsHold
<1>2. best = Best(s, score, limit)
  BY Zenon DEF LexicalSearch
<1> HIDE DEF s, best
<1>3. DOMAIN s = 1 .. Len(s)
  BY <1>1, ElementsOfSeq
<1>4. IsFiniteSet(F)
  <2>1. question \in Seq(ToSet(question))
    BY QuestionAssumption
  <2>2. IsSeq(question)
    BY <2>1, SeqIsSeq
  <2>3. IsFiniteSet(ToSet(question)) /\ F \in SUBSET ToSet(question)
    BY <2>2, FiniteSeq DEF FtsTokens
  <2> HIDE DEF F
  <2>4. QED
    BY <2>3, FS_Subset
<1>5. \A p : Hits(p) \in Nat /\ (Hits(p) > 0 <=> HitBy(question, p))
  <2>1. SUFFICES ASSUME NEW p PROVE Hits(p) \in Nat /\ (Hits(p) > 0 <=> HitBy(question, p))
    OBVIOUS
  <2> DEFINE A == {t \in F : Finds(t, p)}
  <2>2. IsFiniteSet(A)
    <3>1. A \in SUBSET F
      OBVIOUS
    <3> HIDE DEF A, F
    <3>2. QED
      BY <1>4, <3>1, FS_Subset
  <2>3. A # {} <=> HitBy(question, p)
    BY DEF HitBy
  <2> HIDE DEF A
  <2>4. Cardinality(A) \in Nat /\ (Cardinality(A) = 0 <=> A = {})
    BY <2>2, FS_CardinalityType, FS_EmptySet
  <2>5. Cardinality(A) > 0 <=> A # {}
    BY <2>4
  <2>6. QED
    BY <2>3, <2>4, <2>5 DEF A
<1> HIDE DEF F, Hits
<1>6. score \in [1 .. Len(s) -> Nat] /\ \A i \in 1 .. Len(s) : score[i] = Hits(s[i])
  BY <1>3, <1>5
<1> HIDE DEF score
<1>7. Found(good, limit, best)
  <2>1. Ranked(s, score, limit, best)
    BY <1>1, <1>2, <1>6, BestAreRanked
  <2>2. QED
    BY <1>1, <2>1, RankedAreFound
<1>8. good = {p \in ToSet(s) : HitBy(question, p)}
  <2>1. ToSet(s) = {s[i] : i \in 1 .. Len(s)}
    BY <1>1, ElementsOfSeq
  <2>2. \A k \in 1 .. Len(s) : score[k] > 0 <=> HitBy(question, s[k])
    BY <1>5, <1>6
  <2>3. QED
    BY <2>1, <2>2
<1>9. QED
  BY <1>7, <1>8 DEF s, best

\* The passage is a stored one whose vector is of the question's length and like it.
Alike(question, p, e, f) ==
  /\ Dimension(f) = Dimension(e)
  /\ Related(VectorOf(e, <<question>>), VectorOf(f, p.body)) > 0

IsNear(question, p) ==
  /\ p.path \in Notes
  /\ vectors[p.path] # NoVectors
  /\ Alike(question, p, config.embedding, vectors[p.path].model)
  /\ p \in ToSet(PassagesOf(p.path, vectors[p.path].lines))

Dense(near) == [i \in DOMAIN near |-> Plain(near[i])]

\* The dense hits are passages whose vectors are like that of the question.
LEMMA DenseHits ==
  ASSUME VectorsType, config.embedding \in Embedders, NEW question \in Questions, NEW limit \in Nat,
         NEW vector \in QueryVectors(question), vector # NoVectors
  PROVE  /\ IsSeq(Dense(VectorSearch(Embedded, vector, limit)))
         /\ \A p \in ToSet(Dense(VectorSearch(Embedded, vector, limit))) : IsNear(question, p)
<1> DEFINE s == Embedded
           Score(p) == Cosine(vector, [model |-> p.model, text |-> p.body])
           score == [i \in DOMAIN s |-> Cosine(vector, [model |-> s[i].model, text |-> s[i].body])]
           near == VectorSearch(s, vector, limit)
           dense == Dense(near)
           good == {s[i] : i \in {k \in 1 .. Len(s) : score[k] > 0}}
<1>1. IsSeq(s) /\ KeysOnce(s) /\ \A p \in ToSet(s) : \E n \in Notes : IsEmbedded(n, p)
  BY EmbeddedHold
<1>2. near = Best(s, score, limit)
  BY Zenon DEF VectorSearch
<1>3. vector = [model |-> config.embedding, text |-> <<question>>]
  BY DEF QueryVectors, Embedding
<1>4. vector.model = config.embedding /\ vector.text = <<question>>
  BY <1>3
<1> HIDE DEF s, near
<1>5. DOMAIN s = 1 .. Len(s) /\ ToSet(s) = {s[i] : i \in 1 .. Len(s)}
  BY <1>1, ElementsOfSeq
<1>6. ASSUME NEW p \in ToSet(s)
      PROVE  Score(p) \in Nat /\ (Score(p) > 0 => IsNear(question, Plain(p)))
  <2>1. PICK n \in Notes : IsEmbedded(n, p)
    BY <1>1
  <2> DEFINE q == Plain(p)
  <2>2. /\ vectors[n] # NoVectors
        /\ p.model = vectors[n].model
        /\ q \in ToSet(PassagesOf(n, vectors[n].lines))
        /\ q.body = p.body
    BY <2>1 DEF IsEmbedded
  <2> HIDE DEF q
  <2> DEFINE e == config.embedding
             f == vectors[n].model
             like == Related(VectorOf(e, <<question>>), VectorOf(f, q.body))
  <2>3. vectors[n].lines \in NoteTexts /\ f \in Embedders
    BY <2>2 DEF VectorsType
  <2>4. q.path = n
    BY <2>2, <2>3, NotePassages
  <2>5. like \in Nat
    BY <2>2, <2>3, RelatedAssumption
  <2>6. Score(p) = IF Dimension(e) # Dimension(f) THEN 0 ELSE like
    <3>1. vector = VectorOf(e, <<question>>) /\ vector.model = e
      BY <1>3, <1>4 DEF VectorOf
    <3>2. [model |-> p.model, text |-> p.body] = VectorOf(f, q.body)
      BY <2>2 DEF VectorOf
    <3>3. \A v : VectorOf(f, v).model = f
      BY DEF VectorOf
    <3> HIDE DEF e, f
    <3>4. QED
      BY <3>1, <3>2, <3>3, Zenon DEF Cosine
  <2>7. Score(p) \in Nat
    BY <2>5, <2>6
  <2>8. Score(p) > 0 => Alike(question, q, e, f)
    BY <2>6 DEF Alike
  <2> HIDE DEF Score
  <2>9. QED
    BY <2>2, <2>4, <2>7, <2>8 DEF IsNear, q
<1>7. \A i \in 1 .. Len(s) : score[i] = Score(s[i]) /\ s[i] \in ToSet(s)
  BY <1>5
<1>8. score = [i \in 1 .. Len(s) |-> score[i]]
  BY <1>5
<1> HIDE DEF Score, score
<1>9. score \in [1 .. Len(s) -> Nat]
  BY <1>6, <1>7, <1>8
<1>10. Found(good, limit, near)
  <2>1. Ranked(s, score, limit, near)
    BY <1>1, <1>2, <1>9, BestAreRanked
  <2>2. QED
    BY <1>1, <2>1, RankedAreFound
<1>11. IsSeq(near) /\ ToSet(near) \subseteq good
  BY <1>10 DEF Found
<1>12. DOMAIN near = 1 .. Len(near) /\ Len(near) \in Nat
  BY <1>11, ElementsOfSeq DEF IsSeq
<1>13. \A p \in good : IsNear(question, Plain(p))
  BY <1>6, <1>7
<1>14. dense = [i \in 1 .. Len(near) |-> Plain(near[i])]
  BY <1>12 DEF Dense
<1> HIDE DEF dense
<1>15. /\ Len(dense) = Len(near) /\ DOMAIN dense = 1 .. Len(near)
       /\ \A i \in 1 .. Len(near) : dense[i] = Plain(near[i])
  BY <1>12, <1>14
<1>16. IsSeq(dense)
  <2>1. dense = [i \in 1 .. Len(dense) |-> dense[i]]
    BY <1>14, <1>15
  <2>2. QED
    BY <1>12, <1>15, <2>1 DEF IsSeq
<1>17. ASSUME NEW p \in ToSet(dense) PROVE IsNear(question, p)
  <2>1. PICK i \in 1 .. Len(near) : p = Plain(near[i])
    BY <1>15 DEF ToSet
  <2>2. near[i] \in ToSet(near)
    BY <1>12 DEF ToSet
  <2>3. QED
    BY <1>11, <1>13, <2>1, <2>2
<1>18. QED
  BY <1>16, <1>17 DEF dense, near, s

\* fuse_rrf: a key once, with the passage of the lexical hits if they have it.
LEMMA FusedHold ==
  ASSUME NEW lexical, IsSeq(lexical), KeysOnce(lexical), NEW dense, IsSeq(dense),
         NEW limit \in Nat, NEW c \in FuseRrf(lexical, dense, limit)
  PROVE  /\ IsSeq(c) /\ KeysOnce(c)
         /\ \A p \in ToSet(c) :
              \/ p \in ToSet(lexical)
              \/ p \in ToSet(dense) /\ \A q \in ToSet(lexical) : KeyOf(q) # KeyOf(p)
         /\ Len(lexical) = limit => Len(c) = limit
<1> DEFINE both == ToSet(lexical) \cup ToSet(dense)
           keys == {KeyOf(p) : p \in both}
           n == Cardinality(keys)
           Entry(key) == IF Rank(lexical, key) # {}
                         THEN lexical[CHOOSE i \in Rank(lexical, key) : TRUE]
                         ELSE dense[CHOOSE i \in Rank(dense, key) : TRUE]
           Cut(s) == SubSeq(s, 1, IF Len(s) < limit THEN Len(s) ELSE limit)
<1>1. PICK s \in SetToSeqs(keys) : c = [i \in DOMAIN Cut(s) |-> Entry(s[i])]
  BY Zenon DEF FuseRrf
<1>2. /\ DOMAIN lexical = 1 .. Len(lexical) /\ Len(lexical) \in Nat
      /\ DOMAIN dense = 1 .. Len(dense) /\ Len(dense) \in Nat
  BY ElementsOfSeq DEF IsSeq
<1>3. IsFiniteSet(both)
  <2>1. IsFiniteSet(ToSet(lexical)) /\ IsFiniteSet(ToSet(dense))
    BY FiniteSeq
  <2>2. QED
    BY <2>1, FS_Union
<1>4. IsFiniteSet(keys)
  <2> DEFINE g == [p \in both |-> KeyOf(p)]
  <2> HIDE DEF both
  <2>1. g \in [both -> keys] /\ \A k \in keys : \E p \in both : g[p] = k
    OBVIOUS
  <2> HIDE DEF g, keys
  <2>2. g \in Surjection(both, keys)
    BY <2>1 DEF Surjection
  <2>3. QED
    BY <1>3, <2>2, FS_Surjection
<1>5. n \in Nat
  BY <1>4, FS_CardinalityType
<1>6. Len(lexical) <= n
  <2> DEFINE D == 1 .. Len(lexical)
             g == [i \in D |-> KeyOf(lexical[i])]
  <2>1. \A i \in D : lexical[i] \in both
    BY <1>2 DEF ToSet
  <2> HIDE DEF both
  <2>2. g \in [D -> keys]
    BY <2>1
  <2>3. \A i, j \in D : g[i] = g[j] => i = j
    BY DEF KeysOnce
  <2>4. IsFiniteSet(D) /\ Cardinality(D) = Len(lexical)
    <3>1. Len(lexical) \in Int /\ 1 \in Int /\ Len(lexical) >= 0
      BY <1>2
    <3>2. /\ IsFiniteSet(1 .. Len(lexical))
          /\ Cardinality(1 .. Len(lexical)) =
               IF 1 > Len(lexical) THEN 0 ELSE Len(lexical) - 1 + 1
      BY <3>1, FS_Interval
    <3>3. QED
      BY <3>1, <3>2
  <2> HIDE DEF g, D, keys
  <2>5. g \in Injection(D, keys)
    BY <2>2, <2>3 DEF Injection, IsInjective
  <2>6. Cardinality(D) <= Cardinality(keys)
    BY <1>4, <2>5, FS_Injection
  <2>7. QED
    BY <2>4, <2>6
<1>7. s \in [1 .. n -> keys] /\ \A i, j \in 1 .. n : i # j => s[i] # s[j]
  <2> HIDE DEF keys
  <2>1. QED
    BY DEF SetToSeqs
<1>8. ASSUME NEW key \in keys
      PROVE  /\ KeyOf(Entry(key)) = key
             /\ \/ Entry(key) \in ToSet(lexical)
                \/ /\ Entry(key) \in ToSet(dense)
                   /\ \A q \in ToSet(lexical) : KeyOf(q) # key
  <2>1. CASE Rank(lexical, key) # {}
    <3> DEFINE i == CHOOSE i \in Rank(lexical, key) : TRUE
    <3>1. i \in Rank(lexical, key)
      BY <2>1
    <3>2. Entry(key) = lexical[i]
      BY <2>1
    <3> HIDE DEF i, Entry
    <3>3. i \in DOMAIN lexical /\ KeyOf(lexical[i]) = key
      BY <3>1 DEF Rank
    <3>4. QED
      BY <3>2, <3>3 DEF ToSet
  <2>2. CASE Rank(lexical, key) = {}
    <3>1. \A q \in ToSet(lexical) : KeyOf(q) # key
      BY <2>2 DEF Rank, ToSet
    <3>2. PICK p \in both : KeyOf(p) = key
      OBVIOUS
    <3>3. p \in ToSet(dense)
      BY <3>1, <3>2
    <3>4. Rank(dense, key) # {}
      BY <3>2, <3>3 DEF Rank, ToSet
    <3> DEFINE i == CHOOSE i \in Rank(dense, key) : TRUE
    <3>5. i \in Rank(dense, key)
      BY <3>4
    <3>6. Entry(key) = dense[i]
      BY <2>2
    <3> HIDE DEF i, Entry
    <3>7. i \in DOMAIN dense /\ KeyOf(dense[i]) = key
      BY <3>5 DEF Rank
    <3>8. QED
      BY <3>1, <3>6, <3>7 DEF ToSet
  <2>3. QED
    BY <2>1, <2>2
<1> HIDE DEF both, keys, Entry, n
<1> DEFINE m == IF n < limit THEN n ELSE limit
<1>9. m \in Nat /\ m <= n /\ (Len(lexical) = limit => m = limit)
  <2>1. m \in Nat /\ m <= n
    BY <1>5
  <2>2. ASSUME Len(lexical) = limit PROVE m = limit
    <3>1. limit <= n
      BY <1>6, <2>2
    <3>2. ~ (n < limit)
      BY <1>5, <3>1
    <3>3. QED
      BY <3>2
  <2>3. QED
    BY <2>1, <2>2
<1>10. Len(s) = n /\ s \in Seq(keys)
  BY <1>5, <1>7
<1>11. DOMAIN Cut(s) = 1 .. m
  <2>1. Cut(s) = SubSeq(s, 1, m)
    BY <1>10
  <2> HIDE DEF m
  <2>2. Len(SubSeq(s, 1, m)) = m /\ SubSeq(s, 1, m) \in Seq(keys)
    BY <1>9, <1>10
  <2>3. QED
    BY <2>1, <2>2
<1>12. c = [i \in 1 .. m |-> Entry(s[i])]
  BY <1>1, <1>11
<1> HIDE DEF m, Cut
<1>13. /\ Len(c) = m /\ DOMAIN c = 1 .. m
       /\ \A i \in 1 .. m : c[i] = Entry(s[i]) /\ i \in 1 .. n /\ s[i] \in keys
  BY <1>5, <1>7, <1>9, <1>12
<1>14. IsSeq(c)
  <2>1. c = [i \in 1 .. m |-> c[i]]
    BY <1>12, <1>13
  <2>2. QED
    BY <1>9, <1>13, <2>1 DEF IsSeq
<1>15. KeysOnce(c)
  <2>1. SUFFICES ASSUME NEW a \in 1 .. m, NEW b \in 1 .. m, KeyOf(c[a]) = KeyOf(c[b])
                 PROVE  a = b
    BY <1>13 DEF KeysOnce
  <2>2. KeyOf(c[a]) = s[a] /\ KeyOf(c[b]) = s[b]
    BY <1>8, <1>13
  <2>3. s[a] = s[b] /\ a \in 1 .. n /\ b \in 1 .. n
    BY <1>13, <2>1, <2>2
  <2>4. QED
    BY <1>7, <2>3
<1>16. ASSUME NEW p \in ToSet(c)
       PROVE  \/ p \in ToSet(lexical)
              \/ p \in ToSet(dense) /\ \A q \in ToSet(lexical) : KeyOf(q) # KeyOf(p)
  <2>1. PICK i \in 1 .. m : p = c[i]
    BY <1>13 DEF ToSet
  <2>2. p = Entry(s[i]) /\ s[i] \in keys
    BY <1>13, <2>1
  <2>3. QED
    BY <1>8, <2>2
<1>17. QED
  BY <1>9, <1>13, <1>14, <1>15, <1>16

\* c cites the best passages for the question by the index as it is.
Cites(question, limit, c) ==
  /\ KeysOnce(c)
  /\ DOMAIN c = 1 .. Len(c)
  /\ \A p \in ToSet(c) :
       \/ /\ HitBy(question, p) /\ p.path \in Notes
          /\ p \in ToSet(PassagesOf(p.path, rows[p.path]))
       \/ /\ IsNear(question, p)
          /\ \A q \in ToSet(PassagesOf(p.path, rows[p.path])) :
               q # p /\ KeyOf(q) = KeyOf(p) /\ HitBy(question, q) => Len(c) = limit

\* retrieve_hybrid: what is cited, whichever of the rankings there are.
LEMMA Retrieved ==
  ASSUME rows \in [Notes -> NoteTexts], VectorsType, config.embedding \in Embedders, NEW question \in Questions,
         NEW limit \in Nat, NEW vector \in QueryVectors(question),
         NEW c \in RetrieveHybrid(question, vector, limit)
  PROVE  Cites(question, limit, c)
<1> DEFINE all == RowsOf(rows)
           lexical == LexicalSearch(all, question, limit)
           good == {p \in ToSet(all) : HitBy(question, p)}
           near == IF vector = NoVectors THEN <<>> ELSE VectorSearch(Embedded, vector, limit)
           dense == Dense(near)
<1>1. c \in IF dense = <<>> THEN {lexical} ELSE FuseRrf(lexical, dense, limit)
  BY Zenon DEF RetrieveHybrid, Dense
<1>2. ToSet(all) = UNION {ToSet(PassagesOf(n, rows[n])) : n \in Notes}
  BY RowsHold
<1>3. Found(good, limit, lexical)
  BY LexicalHits
<1>4. \A n \in Notes : \A p \in ToSet(PassagesOf(n, rows[n])) : p.path = n
  BY NotePassages
<1>5. IsSeq(dense) /\ \A p \in ToSet(dense) : IsNear(question, p)
  <2>1. CASE vector = NoVectors
    <3>1. near = <<>>
      BY <2>1
    <3> HIDE DEF near
    <3>2. dense = <<>>
      BY <3>1 DEF Dense
    <3> HIDE DEF dense
    <3>3. dense = <<>> /\ Len(dense) = 0 /\ DOMAIN dense = {}
      BY <3>2
    <3>4. dense = [i \in 1 .. Len(dense) |-> dense[i]]
      BY <3>3
    <3>5. QED
      BY <3>3, <3>4 DEF IsSeq, ToSet
  <2>2. CASE vector # NoVectors
    <3>1. near = VectorSearch(Embedded, vector, limit)
      BY <2>2
    <3> HIDE DEF near
    <3>2. QED
      BY <2>2, <3>1, DenseHits
  <2>3. QED
    BY <2>1, <2>2
<1> HIDE DEF dense, near, lexical, all
<1>6. IsSeq(lexical) /\ KeysOnce(lexical)
  BY <1>3 DEF Found
<1>7. \A p \in ToSet(lexical) :
        HitBy(question, p) /\ p.path \in Notes /\ p \in ToSet(PassagesOf(p.path, rows[p.path]))
  <2>1. SUFFICES ASSUME NEW p \in ToSet(lexical)
                 PROVE  /\ HitBy(question, p) /\ p.path \in Notes
                        /\ p \in ToSet(PassagesOf(p.path, rows[p.path]))
    OBVIOUS
  <2>2. p \in ToSet(all) /\ HitBy(question, p)
    BY <1>3 DEF Found
  <2>3. PICK n \in Notes : p \in ToSet(PassagesOf(n, rows[n]))
    BY <1>2, <2>2
  <2>4. p.path = n
    BY <1>4, <2>3
  <2>5. QED
    BY <2>2, <2>3, <2>4
<1>8. /\ IsSeq(c) /\ KeysOnce(c)
      /\ \A p \in ToSet(c) :
           \/ p \in ToSet(lexical)
           \/ p \in ToSet(dense) /\ \A q \in ToSet(lexical) : KeyOf(q) # KeyOf(p)
      /\ Len(lexical) = limit => Len(c) = limit
  <2>1. CASE dense = <<>>
    <3>1. c = lexical
      BY <1>1, <2>1
    <3>2. QED
      BY <1>6, <3>1
  <2>2. CASE dense # <<>>
    <3>1. c \in FuseRrf(lexical, dense, limit)
      BY <1>1, <2>2
    <3>2. QED
      BY <1>5, <1>6, <3>1, FusedHold
  <2>3. QED
    BY <2>1, <2>2
<1>9. DOMAIN c = 1 .. Len(c)
  BY <1>8, ElementsOfSeq
<1>10. ASSUME NEW p \in ToSet(dense), \A q \in ToSet(lexical) : KeyOf(q) # KeyOf(p),
              NEW q \in ToSet(PassagesOf(p.path, rows[p.path])),
              KeyOf(q) = KeyOf(p), HitBy(question, q)
       PROVE  Len(c) = limit
  <2>1. p.path \in Notes
    BY <1>5 DEF IsNear
  <2>2. q \in ToSet(all)
    BY <1>2, <2>1
  <2>3. q \in good
    BY <1>10, <2>2
  <2>4. q \notin ToSet(lexical)
    BY <1>10
  <2> HIDE DEF good
  <2>5. Len(lexical) = limit
    BY <1>3, <2>3, <2>4 DEF Found
  <2>6. QED
    BY <1>8, <2>5
<1>11. ASSUME NEW p \in ToSet(c)
       PROVE  \/ /\ HitBy(question, p) /\ p.path \in Notes
                 /\ p \in ToSet(PassagesOf(p.path, rows[p.path]))
              \/ /\ IsNear(question, p)
                 /\ \A q \in ToSet(PassagesOf(p.path, rows[p.path])) :
                      q # p /\ KeyOf(q) = KeyOf(p) /\ HitBy(question, q) => Len(c) = limit
  <2>1. CASE p \in ToSet(lexical)
    BY <1>7, <2>1
  <2>2. CASE p \in ToSet(dense) /\ \A q \in ToSet(lexical) : KeyOf(q) # KeyOf(p)
    BY <1>5, <1>10, <2>2
  <2>3. QED
    BY <1>8, <2>1, <2>2
<1>12. QED
  BY <1>8, <1>9, <1>11 DEF Cites

-----------------------------------------------------------------------------
(* The requests *)

\* The citations of a, by the index it was answered from.
CitedNow(a) ==
  (\A n \in Notes : a.index.vectors[n] # NoVectors =>
                      a.index.vectors[n].lines = a.index.rows[n])
  => \A p \in ToSet(a.citations) :
       \E s \in a.seen : s[1] = p.path /\ p \in ToSet(PassagesOf(p.path, s[2]))

CitedAptly(a) ==
  /\ KeysOnce(a.citations)
  /\ DOMAIN a.citations = 1 .. Len(a.citations)
  /\ \A p \in ToSet(a.citations) :
       \/ HitBy(a.question, p) /\ p \in ToSet(PassagesOf(p.path, a.index.rows[p.path]))
       \/ /\ a.index.vectors[p.path] # NoVectors
          /\ Alike(a.question, p, a.index.model, a.index.vectors[p.path].model)
          /\ \A q \in ToSet(PassagesOf(p.path, a.index.rows[p.path])) :
               q # p /\ KeyOf(q) = KeyOf(p) /\ HitBy(a.question, q) =>
                 Len(a.citations) = (IF a.kind = "ask" THEN TopK ELSE SearchLimit)

\* A request that waits for its passages has seen what was indexed for it.
Waiting(a) ==
  /\ {"at", "kind", "question", "seen"} \subseteq DOMAIN a
  /\ a.kind \in {"ask", "search"} /\ a.question \in Questions
  /\ \A n \in Notes : <<n, disk[n]>> \in a.seen
  /\ ~faulty => \A n \in Notes : <<n, rows[n]>> \in a.seen

\* A request that has its passages.
Citing(a) ==
  /\ {"at", "kind", "question", "seen", "index", "citations", "text"} \subseteq DOMAIN a
  /\ ~faulty => CitedNow(a)
  /\ CitedAptly(a)

AskOk(a) == /\ a.at = "retrieve" => Waiting(a)
            /\ a.at \in {"answer", "done"} => Citing(a)

IndexType == /\ disk \in [Notes -> NoteTexts]
             /\ rows \in [Notes -> NoteTexts]
             /\ DOMAIN vectors = Notes /\ VectorsType
             /\ config.embedding \in Embedders

AskInv == /\ IndexType
          /\ DOMAIN asked = Askers
          /\ \A c \in Askers : AskOk(asked[c])

\* A request goes on with its passages, or ends with them.
LEMMA Continued ==
  ASSUME NEW a, NEW passages
  PROVE  LET b == Continue(a, passages)
         IN  /\ {"at", "kind", "question", "seen", "index", "citations", "text"} \subseteq DOMAIN b
             /\ b.at \in {"answer", "done"}
             /\ b.kind = a.kind /\ b.question = a.question /\ b.seen = a.seen
             /\ b.index = [rows |-> rows, vectors |-> vectors, model |-> config.embedding]
             /\ b.citations = passages
<1> DEFINE I == [rows |-> rows, vectors |-> vectors, model |-> config.embedding]
           Goes(b) == /\ {"at", "kind", "question", "seen", "index", "citations", "text"} \subseteq DOMAIN b
                      /\ b.at \in {"answer", "done"}
                      /\ b.kind = a.kind /\ b.question = a.question /\ b.seen = a.seen
                      /\ b.index = I
                      /\ b.citations = passages
<1> HIDE DEF I
<1>1. \A cited, text : Answered(a, cited, text) =
        [at |-> "done", kind |-> a.kind, question |-> a.question, seen |-> a.seen,
         index |-> I, citations |-> cited, files |-> UniquePaths(cited), text |-> text]
  BY DEF Answered, I
<1>2. \A text : Goes(Answered(a, passages, text))
  BY <1>1
<1>3. \A text : Goes([Answered(a, passages, text) EXCEPT !.at = "answer"])
  <2>1. SUFFICES ASSUME NEW text PROVE Goes([Answered(a, passages, text) EXCEPT !.at = "answer"])
    OBVIOUS
  <2> DEFINE d == Answered(a, passages, text)
             b == [d EXCEPT !.at = "answer"]
  <2>2. Goes(d)
    BY <1>2
  <2> HIDE DEF d
  <2>3. DOMAIN b = DOMAIN d /\ b.at = "answer"
    BY <2>2
  <2>4. b.kind = d.kind /\ b.question = d.question /\ b.seen = d.seen
        /\ b.index = d.index /\ b.citations = d.citations
    BY <2>2
  <2>5. QED
    BY <2>2, <2>3, <2>4 DEF d
<1> HIDE DEF Goes
<1>4. Goes(Continue(a, passages))
  BY <1>2, <1>3 DEF Continue
<1>5. QED
  BY <1>4 DEF Goes, I

\* A request may be judged by its value.
LEMMA ThusOk ==
  ASSUME NEW c, NEW b, asked'[c] = b, AskOk(b)'
  PROVE  AskOk(asked[c])'
BY DEF AskOk, Waiting, Citing, CitedNow, CitedAptly

\* A request is as it was while the notes and the index are.
LEMMA StillOk ==
  ASSUME NEW b, AskOk(b), UNCHANGED <<disk, rows, faulty>>
  PROVE  AskOk(b)'
BY DEF AskOk, Waiting, Citing, CitedNow, CitedAptly

\* One lemma for each step of a request, of the user and of the index.
LEMMA RetrievedOk ==
  ASSUME AskInv, NEW c \in Askers, Retrieve(c)
  PROVE  AskInv'
<1> DEFINE a == asked[c]
           limit == IF a.kind = "search" THEN SearchLimit ELSE TopK
           I == [rows |-> rows, vectors |-> vectors, model |-> config.embedding]
<1>1. /\ IndexType /\ DOMAIN asked = Askers
      /\ a.at = "retrieve" /\ Waiting(a)
      /\ UNCHANGED <<disk, rows, vectors, config, faulty>>
  BY DEF AskInv, AskOk, Retrieve, llmVars
<1>2. /\ limit \in Nat
      /\ limit = IF a.kind = "ask" THEN TopK ELSE SearchLimit
  BY <1>1, QuestionAssumption DEF Waiting
<1>3. IndexType'
  BY <1>1 DEF IndexType, VectorsType
<1> HIDE DEF I
<1>4. ASSUME NEW cited, Cites(a.question, limit, cited)
      PROVE  AskOk(Continue(a, cited))
  <2> DEFINE b == Continue(a, cited)
  <2>1. /\ {"at", "kind", "question", "seen", "index", "citations", "text"} \subseteq DOMAIN b
        /\ b.at \in {"answer", "done"}
        /\ b.kind = a.kind /\ b.question = a.question /\ b.seen = a.seen
        /\ b.index = I /\ b.citations = cited
    BY Continued DEF I
  <2>2. I.rows = rows /\ I.vectors = vectors /\ I.model = config.embedding
    BY DEF I
  <2> HIDE DEF b
  <2>3. ASSUME ~faulty PROVE CitedNow(b)
    <3>1. SUFFICES ASSUME \A n \in Notes : vectors[n] # NoVectors => vectors[n].lines = rows[n],
                          NEW p \in ToSet(cited)
                   PROVE  \E s \in a.seen : s[1] = p.path /\ p \in ToSet(PassagesOf(p.path, s[2]))
      BY <2>1, <2>2 DEF CitedNow
    <3> DEFINE s == <<p.path, rows[p.path]>>
    <3>2. p.path \in Notes /\ p \in ToSet(PassagesOf(p.path, rows[p.path]))
      BY <1>4, <3>1 DEF Cites, IsNear
    <3>3. s \in a.seen
      BY <1>1, <2>3, <3>2 DEF Waiting
    <3>4. s[1] = p.path /\ s[2] = rows[p.path]
      OBVIOUS
    <3> HIDE DEF s
    <3>5. QED
      BY <3>2, <3>3, <3>4
  <2>4. CitedAptly(b)
    <3>1. KeysOnce(cited) /\ DOMAIN cited = 1 .. Len(cited)
      BY <1>4 DEF Cites
    <3>2. ASSUME NEW p \in ToSet(cited)
          PROVE  \/ HitBy(a.question, p) /\ p \in ToSet(PassagesOf(p.path, rows[p.path]))
                 \/ /\ vectors[p.path] # NoVectors
                    /\ Alike(a.question, p, config.embedding, vectors[p.path].model)
                    /\ \A q \in ToSet(PassagesOf(p.path, rows[p.path])) :
                         q # p /\ KeyOf(q) = KeyOf(p) /\ HitBy(a.question, q) => Len(cited) = limit
      BY <1>4 DEF Cites, IsNear
    <3> HIDE DEF limit
    <3>3. QED
      BY <1>2, <2>1, <2>2, <3>1, <3>2 DEF CitedAptly
  <2>5. QED
    BY <2>1, <2>3, <2>4 DEF AskOk, Citing, b
<1>5. PICK b : asked' = [asked EXCEPT ![c] = b] /\ AskOk(b)
  <2>1. CASE \E vector \in QueryVectors(a.question) :
               \E cited \in RetrieveHybrid(a.question, vector, limit) :
                 asked' = [asked EXCEPT ![c] = Continue(a, cited)]
    <3>1. PICK vector \in QueryVectors(a.question) :
                 \E cited \in RetrieveHybrid(a.question, vector, limit) :
                   asked' = [asked EXCEPT ![c] = Continue(a, cited)]
      BY <2>1
    <3>2. PICK cited \in RetrieveHybrid(a.question, vector, limit) :
                 asked' = [asked EXCEPT ![c] = Continue(a, cited)]
      BY <3>1
    <3>3. a.question \in Questions
      BY <1>1 DEF Waiting
    <3> HIDE DEF limit, a
    <3>4. Cites(a.question, limit, cited)
      BY <1>1, <1>2, <3>3, Retrieved DEF IndexType
    <3>5. QED
      BY <1>4, <3>2, <3>4
  <2>2. CASE asked' = [asked EXCEPT ![c] = IF a.kind = "search" THEN [at |-> "failed"]
                                           ELSE Continue(a, <<>>)]
    <3>1. AskOk([at |-> "failed"])
      BY DEF AskOk
    <3>2. Cites(a.question, limit, <<>>)
      <4> HIDE DEF limit, a
      <4>1. ToSet(<<>>) = {} /\ Len(<<>>) = 0 /\ DOMAIN <<>> = 1 .. 0
        BY DEF ToSet
      <4>2. QED
        BY <4>1 DEF Cites, KeysOnce
    <3>3. AskOk(Continue(a, <<>>))
      BY <1>4, <3>2
    <3>4. QED
      BY <2>2, <3>1, <3>3
  <2>3. QED
    BY <2>1, <2>2 DEF Retrieve
<1>6. ASSUME NEW d \in Askers PROVE AskOk(asked[d])'
  <2>1. asked'[d] = IF d = c THEN b ELSE asked[d]
    BY <1>1, <1>5
  <2>2. AskOk(asked'[d])
    BY <1>5, <2>1 DEF AskInv
  <2>3. PICK x : x = asked'[d]
    OBVIOUS
  <2>4. AskOk(x)
    BY <2>2, <2>3
  <2>5. AskOk(x)'
    BY <1>1, <2>4, StillOk
  <2>6. QED
    BY <2>3, <2>5, ThusOk
<1>7. DOMAIN asked' = Askers
  BY <1>1, <1>5
<1>8. QED
  BY <1>3, <1>6, <1>7 DEF AskInv

LEMMA ReceivedOk ==
  ASSUME AskInv, NEW c \in Askers, ReceiveAnswer(c)
  PROVE  AskInv'
<1> DEFINE a == asked[c]
<1>1. /\ IndexType /\ DOMAIN asked = Askers /\ AskOk(a)
      /\ a.at = "answer"
      /\ UNCHANGED <<disk, rows, vectors, config, faulty>>
  BY DEF AskInv, ReceiveAnswer
<1>2. IndexType'
  BY <1>1 DEF IndexType, VectorsType
<1>3. Citing(a)
  BY <1>1 DEF AskOk
<1>4. PICK text : asked' = [asked EXCEPT ![c].at = "done", ![c].text = text]
  BY DEF ReceiveAnswer
<1> DEFINE b == [[a EXCEPT !.at = "done"] EXCEPT !.text = text]
<1>5. \A d \in Askers : asked'[d] = IF d = c THEN b ELSE asked[d]
  BY <1>1, <1>4
<1>6. /\ DOMAIN b = DOMAIN a /\ b.at = "done" /\ b.kind = a.kind
      /\ b.question = a.question /\ b.seen = a.seen
      /\ b.index = a.index /\ b.citations = a.citations
  BY <1>3 DEF Citing
<1> HIDE DEF a, b
<1>7. AskOk(b)
  BY <1>3, <1>6 DEF AskOk, Citing, CitedNow, CitedAptly
<1>8. ASSUME NEW d \in Askers PROVE AskOk(asked[d])'
  <2>1. AskOk(asked'[d])
    BY <1>5, <1>7 DEF AskInv
  <2>2. PICK x : x = asked'[d]
    OBVIOUS
  <2>3. AskOk(x)'
    BY <1>1, <2>1, <2>2, StillOk
  <2>4. QED
    BY <2>2, <2>3, ThusOk
<1>9. DOMAIN asked' = Askers
  BY <1>1, <1>4
<1>10. QED
  BY <1>2, <1>8, <1>9 DEF AskInv

LEMMA AskedOk ==
  ASSUME AskInv, NEW c \in Askers, NEW kind \in {"ask", "search"}, NEW q \in Questions,
         AskVault(c, kind, q)
  PROVE  AskInv'
<1> DEFINE b == [at |-> "retrieve", kind |-> kind, question |-> q,
                 seen |-> {<<n, disk[n]>> : n \in Notes}]
<1>1. /\ IndexType /\ DOMAIN asked = Askers
      /\ rows' = disk \/ (faulty /\ rows' = rows)
      /\ asked' = [asked EXCEPT ![c] = b]
      /\ UNCHANGED <<disk, vectors, config, faulty>>
  <2>1. IndexType /\ DOMAIN asked = Askers
    BY DEF AskInv
  <2>2. rows' = disk \/ (faulty /\ UNCHANGED rows)
    BY DEF AskVault
  <2>3. asked' = [asked EXCEPT ![c] = b]
    BY DEF AskVault
  <2>4. UNCHANGED <<disk, vectors, config, faulty>>
    BY DEF AskVault, llmVars
  <2> HIDE DEF b
  <2>5. QED
    BY <2>1, <2>2, <2>3, <2>4
<1>2. IndexType'
  BY <1>1 DEF IndexType, VectorsType
<1>3. /\ {"at", "kind", "question", "seen"} \subseteq DOMAIN b
      /\ b.at = "retrieve" /\ b.kind = kind /\ b.question = q
      /\ b.seen = {<<n, disk[n]>> : n \in Notes}
  OBVIOUS
<1> HIDE DEF b
<1>4. \A n \in Notes : <<n, disk[n]>> \in b.seen
  BY <1>3
<1>5. \A d \in Askers : asked'[d] = IF d = c THEN b ELSE asked[d]
  BY <1>1
<1>6. PICK x : x = b
  OBVIOUS
<1>7. Waiting(x)'
  BY <1>1, <1>3, <1>4, <1>6 DEF Waiting
<1>8. AskOk(x)'
  BY <1>3, <1>6, <1>7 DEF AskOk
<1>9. ASSUME NEW d \in Askers PROVE AskOk(asked[d])'
  <2>1. CASE d = c
    BY <1>5, <1>6, <1>8, <2>1, ThusOk
  <2>2. CASE d # c
    <3>1. PICK y : y = asked[d]
      OBVIOUS
    <3>2. AskOk(y)
      BY <3>1 DEF AskInv
    <3>3. ASSUME y.at = "retrieve" PROVE Waiting(y)'
      <4>1. Waiting(y)
        BY <3>2, <3>3 DEF AskOk
      <4>2. QED
        BY <1>1, <4>1 DEF Waiting
    <3>4. AskOk(y)'
      BY <1>1, <3>2, <3>3 DEF AskOk, Citing
    <3>5. QED
      BY <1>5, <2>2, <3>1, <3>4, ThusOk
  <2>3. QED
    BY <2>1, <2>2
<1>10. DOMAIN asked' = Askers
  BY <1>1
<1>11. QED
  BY <1>2, <1>9, <1>10 DEF AskInv

LEMMA EditedOk ==
  ASSUME AskInv, NEW n \in Notes, Edit(n)
  PROVE  AskInv'
<1>1. PICK lines \in Contents :
        /\ disk' = [disk EXCEPT ![n] = lines]
        /\ asked' = [c \in Askers |-> IF asked[c].at = "retrieve"
                       THEN [asked[c] EXCEPT !.seen = @ \cup {<<n, lines>>}]
                       ELSE asked[c]]
  BY DEF Edit
<1>2. IndexType /\ DOMAIN asked = Askers /\ UNCHANGED <<rows, vectors, config, faulty>>
  BY DEF AskInv, Edit, llmVars
<1>3. lines \in NoteTexts
  BY DEF NoteTexts
<1>4. IndexType'
  BY <1>1, <1>2, <1>3 DEF IndexType, VectorsType
<1>5. ASSUME NEW d \in Askers PROVE AskOk(asked[d])'
  <2>1. PICK a : a = asked[d]
    OBVIOUS
  <2>2. AskOk(a)
    BY <2>1 DEF AskInv
  <2>3. CASE a.at = "retrieve"
    <3>1. Waiting(a)
      BY <2>2, <2>3 DEF AskOk
    <3> DEFINE b == [a EXCEPT !.seen = @ \cup {<<n, lines>>}]
    <3>2. asked'[d] = b
      BY <1>1, <2>1, <2>3
    <3>3. /\ DOMAIN b = DOMAIN a /\ b.at = "retrieve" /\ b.kind = a.kind
          /\ b.question = a.question /\ b.seen = a.seen \cup {<<n, lines>>}
      BY <2>3, <3>1 DEF Waiting
    <3> HIDE DEF b
    <3>4. \A m \in Notes : <<m, disk'[m]>> \in b.seen
      <4>1. SUFFICES ASSUME NEW m \in Notes PROVE <<m, disk'[m]>> \in b.seen
        OBVIOUS
      <4>2. disk'[m] = IF m = n THEN lines ELSE disk[m]
        BY <1>1, <1>2 DEF IndexType
      <4>3. <<m, disk[m]>> \in a.seen
        BY <3>1 DEF Waiting
      <4>4. QED
        BY <3>3, <4>2, <4>3
    <3>5. Waiting(b)'
      BY <1>2, <3>1, <3>3, <3>4 DEF Waiting
    <3>6. AskOk(b)'
      BY <3>3, <3>5 DEF AskOk
    <3>7. QED
      BY <3>2, <3>6, ThusOk
  <2>4. CASE a.at # "retrieve"
    <3>1. asked'[d] = a
      BY <1>1, <2>1, <2>4
    <3>2. AskOk(a)'
      BY <1>2, <2>2, <2>4 DEF AskOk, Citing
    <3>3. QED
      BY <3>1, <3>2, ThusOk
  <2>5. QED
    BY <2>3, <2>4
<1>6. DOMAIN asked' = Askers
  BY <1>1
<1>7. QED
  BY <1>4, <1>5, <1>6 DEF AskInv

LEMMA EmbeddedOk ==
  ASSUME AskInv, NEW n \in Notes, Embed(n)
  PROVE  AskInv'
<1>1. PICK v \in Embedding(disk[n]) \ {LlmError} :
        vectors' = [vectors EXCEPT ![n] = [lines |-> v.text, model |-> v.model]]
  BY DEF Embed
<1>2. IndexType /\ DOMAIN asked = Askers /\ UNCHANGED <<disk, rows, asked, config, faulty>>
  BY DEF AskInv, Embed, llmVars
<1>3. v.text = disk[n] /\ v.model = config.embedding
  BY DEF Embedding
<1>4. IndexType'
  BY <1>1, <1>2, <1>3 DEF IndexType, VectorsType
<1>5. QED
  BY <1>2, <1>4 DEF AskInv, AskOk, Waiting, Citing

\* Whatever the environment, the engine embeds with one of the models.
LEMMA EmbedsWithOne == \A env \in Envs : FromEnv(env).embedding \in Embedders
BY DEF FromEnv, Embedders

LEMMA LostOk ==
  ASSUME AskInv, AsksLost, faulty' = faulty, disk' = disk, config'.embedding \in Embedders
  PROVE  AskInv'
BY DEF AskInv, AsksLost, AskOk, NoAsk, IndexType, VectorsType

\* The invariant holds at first, and every step keeps it.
LEMMA AskInvInit == Init => AskInv
BY VaultAssumption, EmbedsWithOne
DEF Init, LlmInit, AnsweringInit, AskInv, AskOk, IndexType, VectorsType, NoAsk, NoteTexts

LEMMA AskInvStep == AskInv /\ [Next]_vars => AskInv'
<1> SUFFICES ASSUME AskInv, [Next]_vars
             PROVE  AskInv'
  OBVIOUS
<1>1. ASSUME UNCHANGED <<disk, rows, vectors, asked, config, faulty>>
      PROVE  AskInv'
  BY <1>1 DEF AskInv, AskOk, Waiting, Citing, IndexType, VectorsType
<1>2. CASE BeginAnalysis
  BY <1>1, <1>2 DEF BeginAnalysis, Analyze, answeringVars, llmVars
<1>3. CASE BeginRequest
  <2>1. Slot(FreeAskers) \in Askers
    BY <1>3 DEF BeginRequest, Slot, FreeAskers
  <2>2. QED
    BY <1>3, <2>1, AskedOk DEF BeginRequest
<1>4. CASE EditNote
  BY <1>4, EditedOk DEF EditNote
<1>5. CASE EmbedNote
  BY <1>5, EmbeddedOk DEF EmbedNote
<1>6. CASE RestartEngine
  BY <1>6, LostOk, EmbedsWithOne DEF RestartEngine, Restart, AsksLost
<1>7. ASSUME NEW c \in Runs, Analyzing(c)
      PROVE  AskInv'
  BY <1>1, <1>7 DEF Analyzing, AnalysisStep, Generate, GenerateFails, Repair, Extracted,
         Synthesized, Lookup, answeringVars
<1>8. ASSUME NEW c \in Askers, Asking(c)
      PROVE  AskInv'
  <2>1. CASE AskModel(c)
    BY <1>1, <2>1 DEF AskModel, Lookup, answeringVars
  <2>2. QED
    BY <1>8, <2>1, RetrievedOk, ReceivedOk DEF Asking, AskStep
<1>9. ASSUME NEW c \in Callers, Respond(c)
      PROVE  AskInv'
  BY <1>1, <1>9 DEF Respond, Infer, answeringVars
<1>10. CASE UNCHANGED vars
  BY <1>1, <1>10 DEF vars, llmVars, answeringVars
<1>11. QED
  BY <1>2, <1>3, <1>4, <1>5, <1>6, <1>7, <1>8, <1>9, <1>10 DEF Next, TaskStep, RuntimeStep

LEMMA AskInvHolds == Spec => []AskInv
BY AskInvInit, AskInvStep, PTL DEF Spec

\* CitationsAreCurrent: while a question is being answered the user edits notes, other
\* requests index them and restarts forget requests; what is cited was on the disk since
\* it was asked, provided that the databases work and the vectors are of the indexed lines.
THEOREM CitationsCurrent == Spec => []CitationsAreCurrent
<1>1. AskInv => CitationsAreCurrent
  <2>1. SUFFICES ASSUME AskInv, NEW c \in Askers, asked[c].at = "done", ~faulty
                 PROVE  CitedNow(asked[c])
    BY DEF CitationsAreCurrent, CitedNow, Finished
  <2>2. QED
    BY <2>1 DEF AskInv, AskOk, Citing
<1>2. QED
  BY <1>1, AskInvHolds, PTL

\* CitationsAreRelevant: retrieve_hybrid and fuse_rrf cite a place once, for a term of the
\* question that begins a word of its title or body or for a vector of the question's length
\* that is like it, and by its indexed text where both rankings know it.
THEOREM CitationsRelevant == Spec => []CitationsAreRelevant
<1>1. AskInv => CitationsAreRelevant
  <2>1. SUFFICES ASSUME AskInv, NEW c \in Askers, asked[c].at = "done"
                 PROVE  CitedAptly(asked[c])
    BY Zenon DEF CitationsAreRelevant, CitedAptly, Finished, KeysOnce, HitBy, Alike
  <2>2. QED
    BY <2>1 DEF AskInv, AskOk, Citing
<1>2. QED
  BY <1>1, AskInvHolds, PTL
==============================================================================
