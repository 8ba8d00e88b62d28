------------------------------ MODULE FoldProofs ------------------------------
(***************************************************************************)
(* What the operators return that a transcript is prepared with and the    *)
(* minutes of a meeting are made with, for sequences of any length.  There *)
(* is no induction principle to cite; instead a set of naturals has a      *)
(* least element, so a set that holds 0 and goes on from k - 1 to k holds  *)
(* every k.  FlattenSeq and FoldLeft are recursive functions: these facts  *)
(* say that functions with their equations exist, and what every such      *)
(* function comes to step by step.                                         *)
(***************************************************************************)
EXTENDS Synthesis, Passages, FiniteSetTheorems, WellFoundedInduction, TLAPS

-----------------------------------------------------------------------------
(* Sequences of whatever elements *)

IsSeq(f) == Len(f) \in Nat /\ f = [i \in 1 .. Len(f) |-> f[i]]

LEMMA AppendIsSeq ==
  ASSUME NEW f, IsSeq(f), NEW x
  PROVE  /\ IsSeq(Append(f, x))
         /\ Len(Append(f, x)) = Len(f) + 1
         /\ \A i \in 1 .. Len(f) : Append(f, x)[i] = f[i]
         /\ Append(f, x)[Len(f) + 1] = x
<1> DEFINE S == {f[i] : i \in 1 .. Len(f)} \cup {x}
<1>1. f \in [1 .. Len(f) -> S] /\ Len(f) \in Nat
  BY DEF IsSeq
<1>2. f \in Seq(S) /\ x \in S
  BY <1>1
<1> HIDE DEF S
<1>3. /\ Append(f, x) \in Seq(S)
      /\ Len(Append(f, x)) = Len(f) + 1
      /\ \A i \in 1 .. Len(f) : Append(f, x)[i] = f[i]
      /\ Append(f, x)[Len(f) + 1] = x
  BY <1>2
<1>4. IsSeq(Append(f, x))
  <2>1. ASSUME NEW s \in Seq(S) PROVE IsSeq(s)
    <3>1. s \in [1 .. Len(s) -> S] /\ Len(s) \in Nat
      OBVIOUS
    <3>2. QED
      BY <3>1 DEF IsSeq
  <2>2. QED
    BY <1>3, <2>1
<1>5. QED
  BY <1>3, <1>4

LEMMA EmptyIsSeq == IsSeq(<<>>) /\ Len(<<>>) = 0
BY DEF IsSeq

-----------------------------------------------------------------------------
(* Induction over an initial segment of the naturals *)

LEMMA Least ==
  ASSUME NEW T \in SUBSET Nat, T # {}
  PROVE  \E x \in T : \A y \in T : x <= y
<1>1. \E R : IsWellFoundedOn(R, Nat) /\ (\A x, y \in Nat : <<y, x>> \in R <=> y < x)
  <2>1. \A x, y \in Nat : <<y, x>> \in OpToRel(<, Nat) <=> y < x
    BY DEF OpToRel
  <2>2. QED
    BY <2>1, NatLessThanWellFounded, Zenon
<1>2. PICK R : IsWellFoundedOn(R, Nat) /\ (\A x, y \in Nat : <<y, x>> \in R <=> y < x)
  BY <1>1
<1>3. PICK x \in T : \A y \in T : ~ (<<y, x>> \in R)
  BY <1>2, WFMin
<1>4. \A y \in T : y \in Nat /\ x \in Nat /\ ~ (y < x)
  BY <1>2, <1>3
<1>5. QED
  BY <1>4

LEMMA Greatest ==
  ASSUME NEW n \in Nat, NEW s \in SUBSET (1 .. n), s # {}
  PROVE  Max(s) \in s /\ (\A y \in s : y <= Max(s))
<1> DEFINE T == {k \in Nat : \A y \in s : y <= k}
<1>1. n \in T
  OBVIOUS
<1>2. PICK k \in T : \A j \in T : k <= j
  BY <1>1, Least
<1>3. k \in s
  <2>1. PICK y \in s : TRUE
    OBVIOUS
  <2>2. k - 1 \notin T /\ k > 0
    BY <1>2, <2>1
  <2>3. PICK z \in s : ~ (z <= k - 1)
    BY <2>2
  <2>4. z = k
    BY <1>2, <2>3
  <2>5. QED
    BY <2>4
<1>4. \A y \in s : k >= y
  BY <1>2
<1>5. Max(s) \in s /\ (\A y \in s : Max(s) >= y)
  BY <1>3, <1>4 DEF Max
<1>6. QED
  BY <1>5

\* Induction up to n, with a set for the predicate.
LEMMA Upward ==
  ASSUME NEW n \in Nat, NEW G, 0 \in G, \A k \in 1 .. n : k - 1 \in G => k \in G
  PROVE  \A k \in 0 .. n : k \in G
<1> DEFINE T == (0 .. n) \ G
<1>1. SUFFICES ASSUME T # {} PROVE FALSE
  BY <1>1
<1>2. T \in SUBSET Nat
  OBVIOUS
<1> HIDE DEF T
<1>3. PICK k \in T : \A j \in T : k <= j
  BY <1>1, <1>2, Least
<1>4. k \in 1 .. n /\ k - 1 \notin T /\ k - 1 \in 0 .. n
  BY <1>3 DEF T
<1>5. QED
  BY <1>3, <1>4 DEF T

\* From a base, step by step: what a recursive function on 0 .. n comes to.
Unrolled(r, X, base, n, h) ==
  /\ r \in [0 .. n -> X]
  /\ r[0] = base
  /\ \A k \in 1 .. n : r[k] = h[r[k - 1]][k]

LEMMA Unrolls ==
  ASSUME NEW X, NEW base \in X, NEW n \in Nat, NEW h \in [X -> [1 .. n -> X]]
  PROVE  \E r : Unrolled(r, X, base, n, h)
<1> DEFINE Good(m, r) == r[0] = base /\ \A k \in 1 .. m : r[k] = h[r[k - 1]][k]
           G == {m \in 0 .. n : \E r \in [0 .. m -> X] : Good(m, r)}
<1>1. 0 \in G
  <2>1. /\ [i \in 0 .. 0 |-> base] \in [0 .. 0 -> X]
        /\ Good(0, [i \in 0 .. 0 |-> base])
    OBVIOUS
  <2> HIDE DEF Good
  <2>2. QED
    BY <2>1
<1>2. ASSUME NEW m \in 1 .. n, m - 1 \in G PROVE m \in G
  <2>1. PICK r \in [0 .. m - 1 -> X] : Good(m - 1, r)
    BY <1>2
  <2> DEFINE q == [i \in 0 .. m |-> IF i = m THEN h[r[m - 1]][m] ELSE r[i]]
  <2>2. r[m - 1] \in X /\ h[r[m - 1]][m] \in X
    OBVIOUS
  <2>3. q \in [0 .. m -> X]
    BY <2>2
  <2>4. q[0] = base
    BY <2>1
  <2>5. ASSUME NEW k \in 1 .. m PROVE q[k] = h[q[k - 1]][k]
    <3>1. CASE k = m
      <4>1. q[k] = h[r[m - 1]][m] /\ q[k - 1] = r[m - 1]
        BY <3>1
      <4>2. QED
        BY <3>1, <4>1
    <3>2. CASE k # m
      <4>1. q[k] = r[k] /\ q[k - 1] = r[k - 1] /\ k \in 1 .. m - 1
        BY <3>2
      <4>2. QED
        BY <2>1, <4>1
    <3>3. QED
      BY <3>1, <3>2
  <2> HIDE DEF q
  <2>6. Good(m, q)
    BY <2>4, <2>5
  <2> HIDE DEF Good
  <2>7. QED
    BY <2>3, <2>6
<1>3. n \in G
  <2> HIDE DEF G
  <2>1. \A m \in 1 .. n : m - 1 \in G => m \in G
    BY <1>2
  <2>2. \A m \in 0 .. n : m \in G
    BY <1>1, <2>1, Upward
  <2>3. QED
    BY <2>2
<1>4. QED
  BY <1>3 DEF Unrolled

-----------------------------------------------------------------------------
(* FlattenSeq *)

LEMMA Joined ==
  ASSUME NEW S, NEW s \in Seq(S), NEW t \in Seq(S)
  PROVE  s \o t \in Seq(S) /\ ToSet(s \o t) = ToSet(s) \cup ToSet(t)
<1>1. s \o t \in Seq(S) /\ Len(s \o t) = Len(s) + Len(t) /\ Len(s) \in Nat /\ Len(t) \in Nat
  OBVIOUS
<1>2. /\ \A i \in 1 .. Len(s) : (s \o t)[i] = s[i]
      /\ \A i \in 1 .. Len(t) : (s \o t)[Len(s) + i] = t[i]
  OBVIOUS
<1>3. \A i \in 1 .. Len(s) + Len(t) : i \in 1 .. Len(s) \/ i - Len(s) \in 1 .. Len(t)
  BY <1>1
<1>4. ToSet(s \o t) \subseteq ToSet(s) \cup ToSet(t)
  <2>1. ASSUME NEW i \in 1 .. Len(s) + Len(t)
        PROVE  (s \o t)[i] \in ToSet(s) \cup ToSet(t)
    <3>1. CASE i \in 1 .. Len(s)
      BY <1>2, <3>1 DEF ToSet
    <3>2. CASE i - Len(s) \in 1 .. Len(t)
      <4>1. (s \o t)[i] = t[i - Len(s)]
        BY <1>1, <1>2, <3>2
      <4>2. QED
        BY <3>2, <4>1 DEF ToSet
    <3>3. QED
      BY <1>3, <3>1, <3>2
  <2>2. QED
    BY <1>1, <2>1 DEF ToSet
<1>5. ToSet(s) \cup ToSet(t) \subseteq ToSet(s \o t)
  <2>1. ASSUME NEW i \in 1 .. Len(s) PROVE s[i] \in ToSet(s \o t)
    BY <1>1, <1>2 DEF ToSet
  <2>2. ASSUME NEW i \in 1 .. Len(t) PROVE t[i] \in ToSet(s \o t)
    <3>1. Len(s) + i \in DOMAIN (s \o t)
      BY <1>1
    <3>2. QED
      BY <1>2, <3>1 DEF ToSet
  <2>3. DOMAIN s = 1 .. Len(s) /\ DOMAIN t = 1 .. Len(t)
    OBVIOUS
  <2>4. QED
    BY <2>1, <2>2, <2>3 DEF ToSet
<1>6. QED
  BY <1>1, <1>4, <1>5

\* FlattenSeq joins the parts one after the other.
LEMMA FlattenSteps ==
  ASSUME NEW S, NEW s \in Seq(Seq(S))
  PROVE  \E r \in [0 .. Len(s) -> Seq(S)] :
           /\ r[0] = <<>>
           /\ \A k \in 1 .. Len(s) : r[k] = r[k - 1] \o s[k]
           /\ FlattenSeq(s) = r[Len(s)]
<1> DEFINE n == Len(s)
           X == Seq(S)
           h == [x \in X |-> [k \in 1 .. n |-> x \o s[k]]]
           Is(f) == f = [i \in 1 .. n |-> IF i = 1 THEN s[i] ELSE f[i - 1] \o s[i]]
           f == CHOOSE f : Is(f)
<1>1. n \in Nat /\ (\A i \in 1 .. n : s[i] \in X) /\ <<>> \in X
  OBVIOUS
<1>2. FlattenSeq(s) = IF n = 0 THEN s ELSE f[n]
  BY DEF FlattenSeq
<1>3. n = 0 => s = <<>>
  OBVIOUS
<1>4. h \in [X -> [1 .. n -> X]]
  BY <1>1
<1>5. \A x \in X, k \in 1 .. n : h[x][k] = x \o s[k]
  OBVIOUS
<1> HIDE DEF h, n
<1>6. PICK r : Unrolled(r, X, <<>>, n, h)
  BY <1>1, <1>4, Unrolls
<1>7. /\ r \in [0 .. n -> X]
      /\ r[0] = <<>> /\ \A k \in 1 .. n : r[k] = h[r[k - 1]][k]
  BY <1>6 DEF Unrolled
<1> HIDE DEF X
<1>8. ASSUME NEW k \in 1 .. n PROVE r[k] = r[k - 1] \o s[k]
  <2>1. r[k - 1] \in X
    BY <1>1, <1>7
  <2>2. QED
    BY <1>5, <1>7, <2>1
<1>9. \E g : Is(g)
  <2> DEFINE g == [i \in 1 .. n |-> r[i]]
  <2>1. ASSUME NEW k \in 1 .. n
        PROVE  g[k] = IF k = 1 THEN s[k] ELSE g[k - 1] \o s[k]
    <3>1. CASE k = 1
      <4>1. r[k] = r[k - 1] \o s[k]
        BY <1>8, <3>1, Zenon
      <4>2. k - 1 = 0
        BY <3>1
      <4>3. <<>> \o s[k] = s[k]
        BY <1>1 DEF X
      <4>4. QED
        BY <1>7, <3>1, <4>1, <4>2, <4>3
    <3>2. CASE k # 1
      <4>1. k - 1 \in 1 .. n
        BY <1>1, <3>2
      <4>2. QED
        BY <1>8, <3>2, <4>1
    <3>3. QED
      BY <3>1, <3>2
  <2>2. Is(g)
    BY <2>1
  <2>3. QED
    BY <2>2
<1>10. Is(f)
  BY <1>9
<1> HIDE DEF f
<1>11. \A k \in 1 .. n : f[k] = IF k = 1 THEN s[k] ELSE f[k - 1] \o s[k]
  BY <1>10
<1> DEFINE G == {0} \cup {k \in 1 .. n : f[k] = r[k]}
<1>12. ASSUME NEW k \in 1 .. n, k - 1 \in G PROVE k \in G
  <2>1. CASE k = 1
    <3>1. r[k] = r[k - 1] \o s[k]
      BY <1>8, <2>1, Zenon
    <3>2. k - 1 = 0
      BY <2>1
    <3>3. <<>> \o s[k] = s[k]
      BY <1>1 DEF X
    <3>4. f[k] = s[k]
      BY <1>11, <2>1
    <3>5. QED
      BY <1>7, <3>1, <3>2, <3>3, <3>4
  <2>2. CASE k # 1
    <3>1. f[k] = f[k - 1] \o s[k]
      BY <1>11, <2>2
    <3>2. f[k - 1] = r[k - 1]
      BY <1>12, <2>2
    <3>3. QED
      BY <1>8, <3>1, <3>2
  <2>3. QED
    BY <2>1, <2>2
<1> HIDE DEF G
<1>13. n \in G
  <2>1. 0 \in G
    BY DEF G
  <2>2. \A k \in 0 .. n : k \in G
    BY <1>1, <1>12, <2>1, Upward
  <2>3. QED
    BY <1>1, <2>2
<1>14. FlattenSeq(s) = r[n]
  <2>1. CASE n = 0
    BY <1>2, <1>3, <1>7, <2>1
  <2>2. CASE n # 0
    BY <1>2, <1>13, <2>2 DEF G
  <2>3. QED
    BY <2>1, <2>2
<1>15. QED
  BY <1>7, <1>8, <1>14 DEF X, n

\* A flattened sequence holds what its parts hold.
LEMMA Flattened ==
  ASSUME NEW S, NEW s \in Seq(Seq(S))
  PROVE  /\ FlattenSeq(s) \in Seq(S)
         /\ ToSet(FlattenSeq(s)) = UNION {ToSet(s[i]) : i \in 1 .. Len(s)}
<1> DEFINE n == Len(s)
           Sum(k) == UNION {ToSet(s[i]) : i \in 1 .. k}
<1>1. n \in Nat /\ \A i \in 1 .. n : s[i] \in Seq(S)
  OBVIOUS
<1>2. PICK r \in [0 .. Len(s) -> Seq(S)] :
        /\ r[0] = <<>>
        /\ \A k \in 1 .. Len(s) : r[k] = r[k - 1] \o s[k]
        /\ FlattenSeq(s) = r[Len(s)]
  BY FlattenSteps
<1> DEFINE G == {k \in 0 .. n : ToSet(r[k]) = Sum(k)}
<1>3. 0 \in G
  <2>1. 0 \in 0 .. n /\ Sum(0) = {}
    BY <1>1
  <2>2. ToSet(<<>>) = {}
    BY DEF ToSet
  <2>3. QED
    BY <1>2, <2>1, <2>2
<1>4. ASSUME NEW k \in 1 .. n, k - 1 \in G PROVE k \in G
  <2>1. r[k - 1] \in Seq(S) /\ ToSet(r[k - 1]) = Sum(k - 1) /\ s[k] \in Seq(S)
    BY <1>1, <1>4
  <2>2. ToSet(r[k]) = ToSet(r[k - 1]) \cup ToSet(s[k])
    <3>1. r[k] = r[k - 1] \o s[k]
      BY <1>2
    <3>2. ToSet(r[k - 1] \o s[k]) = ToSet(r[k - 1]) \cup ToSet(s[k])
      BY <2>1, Joined
    <3>3. QED
      BY <3>1, <3>2
  <2>3. Sum(k) = Sum(k - 1) \cup ToSet(s[k])
    <3>1. 1 .. k = (1 .. k - 1) \cup {k}
      BY <1>1
    <3>2. QED
      BY <3>1
  <2> HIDE DEF Sum
  <2>4. ToSet(r[k]) = Sum(k)
    BY <2>1, <2>2, <2>3
  <2>5. k \in 0 .. n
    BY <1>1
  <2>6. QED
    BY <2>4, <2>5
<1> HIDE DEF G
<1>5. n \in G
  <2> HIDE DEF n
  <2>1. \A k \in 0 .. n : k \in G
    BY <1>1, <1>3, <1>4, Upward
  <2>2. QED
    BY <1>1, <2>1
<1>6. QED
  BY <1>1, <1>2, <1>5 DEF G

\* Under K no two positions look the same.
Once(K, f) == \A a, b \in 1 .. Len(f) : K[f[a]] = K[f[b]] => a = b

LEMMA JoinedOnce ==
  ASSUME NEW S, NEW s \in Seq(S), NEW t \in Seq(S), NEW K, Once(K, s), Once(K, t),
         \A x \in ToSet(s), y \in ToSet(t) : K[x] # K[y]
  PROVE  Once(K, s \o t)
<1> DEFINE m == Len(s)
           f == s \o t
<1>1. Len(f) = m + Len(t) /\ m \in Nat /\ Len(t) \in Nat
      /\ DOMAIN s = 1 .. m /\ DOMAIN t = 1 .. Len(t)
  OBVIOUS
<1>2. /\ \A i \in 1 .. m : f[i] = s[i]
      /\ \A i \in 1 .. Len(t) : f[m + i] = t[i]
  OBVIOUS
<1> HIDE DEF f, m
<1>3. ASSUME NEW i \in 1 .. Len(f)
      PROVE  \/ i \in 1 .. m /\ f[i] = s[i] /\ f[i] \in ToSet(s)
             \/ i - m \in 1 .. Len(t) /\ f[i] = t[i - m] /\ f[i] \in ToSet(t)
  <2>1. CASE i \in 1 .. m
    <3>1. f[i] = s[i]
      BY <1>2, <2>1
    <3>2. QED
      BY <1>1, <2>1, <3>1 DEF ToSet
  <2>2. CASE i \notin 1 .. m
    <3>1. i - m \in 1 .. Len(t) /\ m + (i - m) = i
      BY <1>1, <2>2
    <3>2. f[i] = t[i - m]
      BY <1>2, <3>1
    <3>3. QED
      BY <1>1, <3>1, <3>2 DEF ToSet
  <2>3. QED
    BY <2>1, <2>2
<1>4. ASSUME NEW a \in 1 .. Len(f), NEW b \in 1 .. Len(f), K[f[a]] = K[f[b]]
      PROVE  a = b
  <2>1. CASE a \in 1 .. m /\ f[a] = s[a] /\ b \in 1 .. m /\ f[b] = s[b]
    BY <1>4, <2>1 DEF Once, m
  <2>2. CASE /\ a - m \in 1 .. Len(t) /\ f[a] = t[a - m]
             /\ b - m \in 1 .. Len(t) /\ f[b] = t[b - m]
    <3>1. a - m = b - m
      BY <1>4, <2>2 DEF Once
    <3>2. QED
      BY <1>1, <3>1
  <2>3. ~ (f[a] \in ToSet(s) /\ f[b] \in ToSet(t)) /\ ~ (f[a] \in ToSet(t) /\ f[b] \in ToSet(s))
    BY <1>4
  <2>4. QED
    BY <1>3, <2>1, <2>2, <2>3
<1>5. QED
  BY <1>4 DEF Once, f

LEMMA FlattenedOnce ==
  ASSUME NEW S, NEW s \in Seq(Seq(S)), NEW K,
         \A i \in 1 .. Len(s) : Once(K, s[i]),
         \A i, j \in 1 .. Len(s) : i # j => \A x \in ToSet(s[i]), y \in ToSet(s[j]) : K[x] # K[y]
  PROVE  Once(K, FlattenSeq(s))
<1> DEFINE n == Len(s)
           Sum(k) == UNION {ToSet(s[i]) : i \in 1 .. k}
<1>1. n \in Nat /\ \A i \in 1 .. n : s[i] \in Seq(S)
  OBVIOUS
<1>2. PICK r \in [0 .. Len(s) -> Seq(S)] :
        /\ r[0] = <<>>
        /\ \A k \in 1 .. Len(s) : r[k] = r[k - 1] \o s[k]
        /\ FlattenSeq(s) = r[Len(s)]
  BY FlattenSteps
<1> DEFINE G == {k \in 0 .. n : ToSet(r[k]) \subseteq Sum(k) /\ Once(K, r[k])}
<1>3. 0 \in G
  <2>1. 0 \in 0 .. n /\ Len(<<>>) = 0 /\ 1 .. 0 = {}
    BY <1>1
  <2>2. ToSet(<<>>) = {}
    BY DEF ToSet
  <2>3. Once(K, <<>>)
    BY <2>1 DEF Once
  <2>4. QED
    BY <1>2, <2>1, <2>2, <2>3
<1>4. ASSUME NEW k \in 1 .. n, k - 1 \in G PROVE k \in G
  <2>1. r[k - 1] \in Seq(S) /\ ToSet(r[k - 1]) \subseteq Sum(k - 1) /\ Once(K, r[k - 1])
        /\ s[k] \in Seq(S)
    BY <1>1, <1>4
  <2>2. ToSet(r[k]) = ToSet(r[k - 1]) \cup ToSet(s[k])
    <3>1. r[k] = r[k - 1] \o s[k]
      BY <1>2
    <3>2. ToSet(r[k - 1] \o s[k]) = ToSet(r[k - 1]) \cup ToSet(s[k])
      BY <2>1, Joined
    <3>3. QED
      BY <3>1, <3>2
  <2>3. Sum(k - 1) \cup ToSet(s[k]) \subseteq Sum(k)
    <3>1. (1 .. k - 1) \cup {k} \subseteq 1 .. k
      BY <1>1
    <3>2. QED
      BY <3>1
  <2>4. \A x \in ToSet(r[k - 1]), y \in ToSet(s[k]) : K[x] # K[y]
    <3>1. ASSUME NEW x \in Sum(k - 1), NEW y \in ToSet(s[k]) PROVE K[x] # K[y]
      <4>1. PICK i \in 1 .. k - 1 : x \in ToSet(s[i])
        OBVIOUS
      <4>2. i \in 1 .. n /\ i # k
        BY <1>1
      <4>3. QED
        BY <4>1, <4>2
    <3>2. QED
      BY <2>1, <3>1
  <2>5. Once(K, r[k - 1] \o s[k])
    <3>1. Once(K, s[k])
      OBVIOUS
    <3>2. QED
      BY <2>1, <2>4, <3>1, JoinedOnce
  <2>6. Once(K, r[k])
    <3>1. r[k] = r[k - 1] \o s[k]
      BY <1>2
    <3>2. QED
      BY <2>5, <3>1
  <2> HIDE DEF Sum
  <2>7. ToSet(r[k]) \subseteq Sum(k)
    BY <2>1, <2>2, <2>3
  <2>8. k \in 0 .. n
    BY <1>1
  <2>9. QED
    BY <2>6, <2>7, <2>8
<1> HIDE DEF G
<1>5. n \in G
  <2> HIDE DEF n
  <2>1. \A k \in 0 .. n : k \in G
    BY <1>1, <1>3, <1>4, Upward
  <2>2. QED
    BY <1>1, <2>1
<1>6. QED
  BY <1>2, <1>5 DEF G

-----------------------------------------------------------------------------
(* FoldLeft *)

\* What FoldLeft iterates over, as a function of the sets of positions.
Folded(f, X, base, n, h) ==
  /\ f \in [SUBSET (1 .. n) -> X]
  /\ \A s \in SUBSET (1 .. n) :
       f[s] = IF s = {} THEN base ELSE h[f[s \ {Max(s)}]][Max(s)]

LEMMA Folds ==
  ASSUME NEW X, NEW base \in X, NEW n \in Nat, NEW h \in [X -> [1 .. n -> X]]
  PROVE  \E f : Folded(f, X, base, n, h)
<1> DEFINE D == SUBSET (1 .. n)
           Y == [D -> X]
           first == [s \in D |-> base]
           More(g, k) == [s \in D |-> IF k \in s THEN h[g[s \ {k}]][k] ELSE g[s]]
           more == [g \in Y |-> [k \in 1 .. n |-> More(g, k)]]
<1>1. first \in Y
  OBVIOUS
<1>2. more \in [Y -> [1 .. n -> Y]]
  <2>1. ASSUME NEW g \in Y, NEW k \in 1 .. n PROVE More(g, k) \in Y
    <3>1. ASSUME NEW s \in D PROVE (IF k \in s THEN h[g[s \ {k}]][k] ELSE g[s]) \in X
      <4>1. s \ {k} \in D
        OBVIOUS
      <4>2. g[s \ {k}] \in X /\ g[s] \in X
        BY <4>1
      <4>3. QED
        BY <4>2
    <3>2. QED
      BY <3>1
  <2> HIDE DEF Y, More
  <2>2. QED
    BY <2>1
<1> HIDE DEF Y, first, more
<1>3. PICK r : Unrolled(r, Y, first, n, more)
  BY <1>1, <1>2, Unrolls
<1>4. /\ \A k \in 0 .. n : r[k] \in Y
      /\ r[0] = first
      /\ \A k \in 1 .. n : r[k] = More(r[k - 1], k)
  <2>1. /\ \A k \in 0 .. n : r[k] \in Y
        /\ r[0] = first
        /\ \A k \in 1 .. n : r[k] = more[r[k - 1]][k]
    BY <1>3 DEF Unrolled
  <2> HIDE DEF More
  <2>2. ASSUME NEW k \in 1 .. n PROVE r[k] = More(r[k - 1], k)
    <3>1. r[k - 1] \in Y
      BY <2>1
    <3>2. QED
      BY <2>1, <3>1 DEF more
  <2>3. QED
    BY <2>1, <2>2
<1>5. ASSUME NEW k \in 1 .. n, NEW s \in D
      PROVE  r[k][s] = IF k \in s THEN h[r[k - 1][s \ {k}]][k] ELSE r[k - 1][s]
  <2> DEFINE g == r[k - 1]
  <2>1. r[k] = More(g, k)
    BY <1>4
  <2> HIDE DEF g
  <2>2. r[k][s] = IF k \in s THEN h[g[s \ {k}]][k] ELSE g[s]
    BY <2>1
  <2>3. QED
    BY <2>2 DEF g
<1> HIDE DEF More
<1> DEFINE G == {j \in 0 .. n : \A k \in 0 .. j : \A s \in SUBSET (1 .. k) : r[j][s] = r[k][s]}
<1>6. n \in G
  <2>1. 0 \in G
    OBVIOUS
  <2>2. ASSUME NEW j \in 1 .. n, j - 1 \in G PROVE j \in G
    <3>1. ASSUME NEW k \in 0 .. j, NEW s \in SUBSET (1 .. k) PROVE r[j][s] = r[k][s]
      <4>1. CASE k = j
        BY <4>1
      <4>2. CASE k # j
        <5>1. k \in 0 .. j - 1 /\ s \in D /\ j \notin s
          BY <4>2
        <5>2. r[j][s] = r[j - 1][s]
          BY <1>5, <5>1
        <5>3. QED
          BY <2>2, <5>1, <5>2
      <4>3. QED
        BY <4>1, <4>2
    <3>2. QED
      BY <3>1
  <2> HIDE DEF G
  <2>3. \A j \in 0 .. n : j \in G
    BY <2>1, <2>2, Upward
  <2>4. QED
    BY <2>3
<1>7. ASSUME NEW s \in D
      PROVE  r[n][s] = IF s = {} THEN base ELSE h[r[n][s \ {Max(s)}]][Max(s)]
  <2>1. CASE s = {}
    <3>1. r[n][s] = r[0][s]
      BY <1>6, <2>1
    <3>2. QED
      BY <1>4, <2>1, <3>1 DEF first
  <2>2. CASE s # {}
    <3> DEFINE m == Max(s)
    <3>1. m \in s /\ (\A y \in s : y <= m)
      BY <2>2, Greatest
    <3> HIDE DEF m
    <3>2. m \in 1 .. n /\ s \in SUBSET (1 .. m) /\ s \ {m} \in SUBSET (1 .. m - 1)
      BY <3>1
    <3>3. r[n][s] = r[m][s] /\ r[n][s \ {m}] = r[m - 1][s \ {m}]
      BY <1>6, <3>2
    <3>4. r[m][s] = h[r[m - 1][s \ {m}]][m]
      BY <1>5, <3>1, <3>2
    <3>5. QED
      BY <2>2, <3>3, <3>4 DEF m
  <2>3. QED
    BY <2>1, <2>2
<1>8. r[n] \in [SUBSET (1 .. n) -> X]
  <2>1. r[n] \in Y
    BY <1>4
  <2>2. QED
    BY <2>1 DEF Y
<1>9. QED
  BY <1>7, <1>8 DEF Folded

Iterates(f, X, base, n, h) ==
  /\ f[{}] = base
  /\ \A s \in SUBSET (1 .. n) : s # {} /\ f[s \ {Max(s)}] \in X =>
       f[s] = h[f[s \ {Max(s)}]][Max(s)]

\* r is what f comes to, position by position.
Climbs(f, r, X, base, n, h) == Unrolled(r, X, base, n, h) /\ f[1 .. n] = r[n]

\* Whatever satisfies the equations of a fold goes through the positions in order.
LEMMA FoldGoesUp ==
  ASSUME NEW X, NEW base \in X, NEW n \in Nat, NEW h \in [X -> [1 .. n -> X]],
         NEW f, Iterates(f, X, base, n, h)
  PROVE  \E r : Climbs(f, r, X, base, n, h)
<1> DEFINE r == [k \in 0 .. n |-> f[1 .. k]]
           G == {k \in 0 .. n : f[1 .. k] \in X}
<1>1. ASSUME NEW k \in 1 .. n, f[1 .. (k - 1)] \in X
      PROVE  f[1 .. k] = h[f[1 .. (k - 1)]][k]
  <2>1. 1 .. k \in SUBSET (1 .. n) /\ k \in 1 .. k
    OBVIOUS
  <2>2. Max(1 .. k) \in 1 .. k /\ \A y \in 1 .. k : y <= Max(1 .. k)
    BY <2>1, Greatest
  <2>3. Max(1 .. k) = k
    BY <2>2
  <2>4. (1 .. k) \ {k} = 1 .. (k - 1)
    OBVIOUS
  <2>5. QED
    BY <1>1, <2>1, <2>3, <2>4 DEF Iterates
<1>2. 1 .. 0 = {}
  OBVIOUS
<1>3. \A k \in 0 .. n : k \in G
  <2>1. 0 \in G
    BY <1>2 DEF Iterates
  <2>2. ASSUME NEW k \in 1 .. n, k - 1 \in G PROVE k \in G
    <3>1. f[1 .. (k - 1)] \in X
      BY <2>2
    <3>2. f[1 .. k] = h[f[1 .. (k - 1)]][k]
      BY <1>1, <3>1
    <3>3. h[f[1 .. (k - 1)]][k] \in X
      BY <3>1
    <3>4. k \in 0 .. n /\ f[1 .. k] \in X
      BY <3>2, <3>3
    <3>5. QED
      BY <3>4
  <2> HIDE DEF G
  <2>3. QED
    BY <2>1, <2>2, Upward
<1>4. r \in [0 .. n -> X]
  BY <1>3
<1>5. r[0] = base
  BY <1>2 DEF Iterates
<1>6. ASSUME NEW k \in 1 .. n PROVE r[k] = h[r[k - 1]][k]
  <2>1. k - 1 \in 0 .. n /\ k \in 0 .. n
    OBVIOUS
  <2>2. f[1 .. (k - 1)] \in X
    BY <1>3, <2>1
  <2>3. QED
    BY <1>1, <2>1, <2>2
<1>7. r[n] = f[1 .. n]
  OBVIOUS
<1> HIDE DEF r
<1>8. QED
  BY <1>4, <1>5, <1>6, <1>7 DEF Unrolled, Climbs

-----------------------------------------------------------------------------
(* The folds of the analysis, step by step *)

\* attach: evidence is added once per quote and chunk.
AddOnce(known, e) == IF \E k \in ToSet(known) : k.quote = e.quote /\ k.chunk = e.chunk
                     THEN known ELSE Append(known, e)

\* speaker_ids: a speaker is listed once.
AddSpeaker(seen, seg) == IF seg.speaker = NoSpeaker \/ Contains(seen, seg.speaker)
                         THEN seen ELSE Append(seen, seg.speaker)

\* reconcile: the speakers join the participants that the model gave.
AddPerson(known, id) == IF Contains(known, id) THEN known ELSE Append(known, id)
People(known, ids) ==
  LET Join(all, id) == IF Contains(all, id) THEN all ELSE Append(all, id)
  IN  FoldLeft(Join, known, ids)

LEMMA AttachSteps ==
  ASSUME NEW S, NEW s \in Seq(S), NEW t, s # <<>>
  PROVE  Attach(t, s) \in Seq(S)
<1> DEFINE n == Len(s)
           X == Seq(S)
           h == [x \in X |-> [k \in 1 .. n |-> AddOnce(x, s[k])]]
           Is(f) == f = [p \in SUBSET (DOMAIN s) |->
                           IF p = {} THEN <<>> ELSE AddOnce(f[p \ {Max(p)}], s[Max(p)])]
           f == CHOOSE f : Is(f)
<1>1. Attach(t, s) = f[DOMAIN s]
  BY Zenon DEF AddOnce, Attach, FoldLeft, MapThenFoldSet
<1>2. n \in Nat /\ DOMAIN s = 1 .. n /\ <<>> \in X
  OBVIOUS
<1>3. ASSUME NEW x \in X, NEW k \in 1 .. n PROVE AddOnce(x, s[k]) \in X
  <2>1. s[k] \in S /\ Append(x, s[k]) \in X
    OBVIOUS
  <2>2. QED
    BY <2>1 DEF AddOnce
<1> HIDE DEF n, X
<1>4. /\ h \in [X -> [1 .. n -> X]]
      /\ \A x \in X, k \in 1 .. n : h[x][k] = AddOnce(x, s[k])
  BY <1>3
<1> HIDE DEF h
<1>5. Is(f)
  <2>1. PICK g : Folded(g, X, <<>>, n, h)
    BY <1>2, <1>4, Folds
  <2>2. /\ g \in [SUBSET (1 .. n) -> X]
        /\ \A p \in SUBSET (1 .. n) :
             g[p] = IF p = {} THEN <<>> ELSE h[g[p \ {Max(p)}]][Max(p)]
    BY <2>1 DEF Folded
  <2>3. ASSUME NEW p \in SUBSET (1 .. n)
        PROVE  g[p] = IF p = {} THEN <<>> ELSE AddOnce(g[p \ {Max(p)}], s[Max(p)])
    <3>1. CASE p = {}
      BY <2>2, <3>1
    <3>2. CASE p # {}
      <4>1. Max(p) \in 1 .. n /\ g[p \ {Max(p)}] \in X
        BY <1>2, <2>2, <3>2, Greatest
      <4>2. QED
        BY <1>4, <2>2, <3>2, <4>1
    <3>3. QED
      BY <3>1, <3>2
  <2>4. Is(g)
    BY <1>2, <2>2, <2>3
  <2> HIDE DEF Is
  <2>5. QED
    BY <2>4
<1>6. Iterates(f, X, <<>>, n, h)
  <2>1. ASSUME NEW p \in SUBSET (1 .. n)
        PROVE  f[p] = IF p = {} THEN <<>> ELSE AddOnce(f[p \ {Max(p)}], s[Max(p)])
    BY <1>2, <1>5
  <2> HIDE DEF f
  <2>2. ASSUME NEW p \in SUBSET (1 .. n), p # {}, f[p \ {Max(p)}] \in X
        PROVE  f[p] = h[f[p \ {Max(p)}]][Max(p)]
    <3>1. Max(p) \in 1 .. n
      BY <1>2, <2>2, Greatest
    <3>2. QED
      BY <1>4, <2>1, <2>2, <3>1
  <2>3. QED
    BY <2>1, <2>2 DEF Iterates
<1> HIDE DEF f
<1>7. PICK r : Climbs(f, r, X, <<>>, n, h)
  <2>1. <<>> \in X /\ n \in Nat /\ h \in [X -> [1 .. n -> X]]
    BY <1>2, <1>4
  <2>2. QED
    BY <1>6, <2>1, FoldGoesUp
<1>8. r[n] \in X
  BY <1>2, <1>7 DEF Climbs, Unrolled
<1>9. QED
  BY <1>1, <1>2, <1>7, <1>8 DEF X, Climbs

LEMMA SpeakerSteps ==
  ASSUME NEW S, NEW s \in Seq(S)
  PROVE  \E r \in [0 .. Len(s) -> Seq({seg.speaker : seg \in S})] :
           /\ \A k \in 1 .. Len(s) : r[k] = AddSpeaker(r[k - 1], s[k])
           /\ SpeakerIds(s) = r[Len(s)]
<1> DEFINE n == Len(s)
           X == Seq({seg.speaker : seg \in S})
           h == [x \in X |-> [k \in 1 .. n |-> AddSpeaker(x, s[k])]]
           Is(f) == f = [p \in SUBSET (DOMAIN s) |->
                           IF p = {} THEN <<>> ELSE AddSpeaker(f[p \ {Max(p)}], s[Max(p)])]
           f == CHOOSE f : Is(f)
<1>1. SpeakerIds(s) = f[DOMAIN s]
  BY Zenon DEF AddSpeaker, SpeakerIds, FoldLeft, MapThenFoldSet
<1>2. n \in Nat /\ DOMAIN s = 1 .. n /\ <<>> \in X
  OBVIOUS
<1>3. ASSUME NEW x \in X, NEW k \in 1 .. n PROVE AddSpeaker(x, s[k]) \in X
  <2>1. s[k].speaker \in {seg.speaker : seg \in S}
    OBVIOUS
  <2>2. Append(x, s[k].speaker) \in X
    BY <2>1
  <2>3. QED
    BY <2>2 DEF AddSpeaker
<1> HIDE DEF n, X
<1>4. /\ h \in [X -> [1 .. n -> X]]
      /\ \A x \in X, k \in 1 .. n : h[x][k] = AddSpeaker(x, s[k])
  BY <1>3
<1> HIDE DEF h
<1>5. Is(f)
  <2>1. PICK g : Folded(g, X, <<>>, n, h)
    BY <1>2, <1>4, Folds
  <2>2. /\ g \in [SUBSET (1 .. n) -> X]
        /\ \A p \in SUBSET (1 .. n) :
             g[p] = IF p = {} THEN <<>> ELSE h[g[p \ {Max(p)}]][Max(p)]
    BY <2>1 DEF Folded
  <2>3. ASSUME NEW p \in SUBSET (1 .. n)
        PROVE  g[p] = IF p = {} THEN <<>> ELSE AddSpeaker(g[p \ {Max(p)}], s[Max(p)])
    <3>1. CASE p = {}
      BY <2>2, <3>1
    <3>2. CASE p # {}
      <4>1. Max(p) \in 1 .. n /\ g[p \ {Max(p)}] \in X
        BY <1>2, <2>2, <3>2, Greatest
      <4>2. QED
        BY <1>4, <2>2, <3>2, <4>1
    <3>3. QED
      BY <3>1, <3>2
  <2>4. Is(g)
    BY <1>2, <2>2, <2>3
  <2> HIDE DEF Is
  <2>5. QED
    BY <2>4
<1>6. Iterates(f, X, <<>>, n, h)
  <2>1. ASSUME NEW p \in SUBSET (1 .. n)
        PROVE  f[p] = IF p = {} THEN <<>> ELSE AddSpeaker(f[p \ {Max(p)}], s[Max(p)])
    BY <1>2, <1>5
  <2> HIDE DEF f
  <2>2. ASSUME NEW p \in SUBSET (1 .. n), p # {}, f[p \ {Max(p)}] \in X
        PROVE  f[p] = h[f[p \ {Max(p)}]][Max(p)]
    <3>1. Max(p) \in 1 .. n
      BY <1>2, <2>2, Greatest
    <3>2. QED
      BY <1>4, <2>1, <2>2, <3>1
  <2>3. QED
    BY <2>1, <2>2 DEF Iterates
<1> HIDE DEF f
<1>7. PICK r : Climbs(f, r, X, <<>>, n, h)
  <2>1. <<>> \in X /\ n \in Nat /\ h \in [X -> [1 .. n -> X]]
    BY <1>2, <1>4
  <2>2. QED
    BY <1>6, <2>1, FoldGoesUp
<1>8. ASSUME NEW k \in 1 .. n PROVE r[k] = AddSpeaker(r[k - 1], s[k])
  <2>1. r[k - 1] \in X /\ r[k] = h[r[k - 1]][k]
    BY <1>2, <1>7 DEF Climbs, Unrolled
  <2>2. QED
    BY <1>4, <2>1
<1>9. r \in [0 .. n -> X] /\ r[0] = <<>>
  BY <1>7 DEF Climbs, Unrolled
<1>10. QED
  BY <1>1, <1>2, <1>7, <1>8, <1>9 DEF n, X, Climbs

LEMMA PeopleSteps ==
  ASSUME NEW S, NEW s \in Seq(S), NEW known \in Seq(S)
  PROVE  \E r \in [0 .. Len(s) -> Seq(S)] :
           /\ \A k \in 1 .. Len(s) : r[k] = AddPerson(r[k - 1], s[k])
           /\ People(known, s) = r[Len(s)]
<1> DEFINE n == Len(s)
           X == Seq(S)
           h == [x \in X |-> [k \in 1 .. n |-> AddPerson(x, s[k])]]
           Is(f) == f = [p \in SUBSET (DOMAIN s) |->
                           IF p = {} THEN known ELSE AddPerson(f[p \ {Max(p)}], s[Max(p)])]
           f == CHOOSE f : Is(f)
<1>1. People(known, s) = f[DOMAIN s]
  BY Zenon DEF AddPerson, People, FoldLeft, MapThenFoldSet
<1>2. n \in Nat /\ DOMAIN s = 1 .. n /\ known \in X
  OBVIOUS
<1>3. ASSUME NEW x \in X, NEW k \in 1 .. n PROVE AddPerson(x, s[k]) \in X
  <2>1. s[k] \in S /\ Append(x, s[k]) \in X
    OBVIOUS
  <2>2. QED
    BY <2>1 DEF AddPerson
<1> HIDE DEF n, X
<1>4. /\ h \in [X -> [1 .. n -> X]]
      /\ \A x \in X, k \in 1 .. n : h[x][k] = AddPerson(x, s[k])
  BY <1>3
<1> HIDE DEF h
<1>5. Is(f)
  <2>1. PICK g : Folded(g, X, known, n, h)
    BY <1>2, <1>4, Folds
  <2>2. /\ g \in [SUBSET (1 .. n) -> X]
        /\ \A p \in SUBSET (1 .. n) :
             g[p] = IF p = {} THEN known ELSE h[g[p \ {Max(p)}]][Max(p)]
    BY <2>1 DEF Folded
  <2>3. ASSUME NEW p \in SUBSET (1 .. n)
        PROVE  g[p] = IF p = {} THEN known ELSE AddPerson(g[p \ {Max(p)}], s[Max(p)])
    <3>1. CASE p = {}
      BY <2>2, <3>1
    <3>2. CASE p # {}
      <4>1. Max(p) \in 1 .. n /\ g[p \ {Max(p)}] \in X
        BY <1>2, <2>2, <3>2, Greatest
      <4>2. QED
        BY <1>4, <2>2, <3>2, <4>1
    <3>3. QED
      BY <3>1, <3>2
  <2>4. Is(g)
    BY <1>2, <2>2, <2>3
  <2> HIDE DEF Is
  <2>5. QED
    BY <2>4
<1>6. Iterates(f, X, known, n, h)
  <2>1. ASSUME NEW p \in SUBSET (1 .. n)
        PROVE  f[p] = IF p = {} THEN known ELSE AddPerson(f[p \ {Max(p)}], s[Max(p)])
    BY <1>2, <1>5
  <2> HIDE DEF f
  <2>2. ASSUME NEW p \in SUBSET (1 .. n), p # {}, f[p \ {Max(p)}] \in X
        PROVE  f[p] = h[f[p \ {Max(p)}]][Max(p)]
    <3>1. Max(p) \in 1 .. n
      BY <1>2, <2>2, Greatest
    <3>2. QED
      BY <1>4, <2>1, <2>2, <3>1
  <2>3. QED
    BY <2>1, <2>2 DEF Iterates
<1> HIDE DEF f
<1>7. PICK r : Climbs(f, r, X, known, n, h)
  <2>1. known \in X /\ n \in Nat /\ h \in [X -> [1 .. n -> X]]
    BY <1>2, <1>4
  <2>2. QED
    BY <1>6, <2>1, FoldGoesUp
<1>8. ASSUME NEW k \in 1 .. n PROVE r[k] = AddPerson(r[k - 1], s[k])
  <2>1. r[k - 1] \in X /\ r[k] = h[r[k - 1]][k]
    BY <1>2, <1>7 DEF Climbs, Unrolled
  <2>2. QED
    BY <1>4, <2>1
<1>9. r \in [0 .. n -> X] /\ r[0] = known
  BY <1>7 DEF Climbs, Unrolled
<1>10. QED
  BY <1>1, <1>2, <1>7, <1>8, <1>9 DEF n, X, Climbs

\* normalize: a segment is put in its place among those before it.
LEMMA InsertedSeq ==
  ASSUME NEW S, NEW sorted \in Seq(S), NEW seg \in S
  PROVE  InsertByStart(sorted, seg) \in Seq(S)
<1> DEFINE before == {i \in DOMAIN sorted : sorted[i].start <= seg.start}
           c == Cardinality(before)
<1>1. c \in 0 .. Len(sorted)
  <2>1. IsFiniteSet(1 .. Len(sorted)) /\ Cardinality(1 .. Len(sorted)) = Len(sorted)
    <3>1. Len(sorted) \in Nat /\ 0 \in Int /\ 1 \in Int
      OBVIOUS
    <3>2. QED
      BY <3>1, FS_Interval
  <2>2. before \subseteq 1 .. Len(sorted)
    OBVIOUS
  <2> HIDE DEF before
  <2>3. IsFiniteSet(before) /\ Cardinality(before) <= Len(sorted)
    BY <2>1, <2>2, FS_Subset
  <2>4. Cardinality(before) \in Nat
    BY <2>3, FS_CardinalityType
  <2>5. QED
    BY <2>3, <2>4
<1>2. InsertByStart(sorted, seg) = SubSeq(sorted, 1, c) \o <<seg>> \o SubSeq(sorted, c + 1, Len(sorted))
  <2>1. InsertByStart(sorted, seg) = InsertAt(sorted, c + 1, seg)
    BY DEF InsertByStart
  <2> HIDE DEF c
  <2>2. (c + 1) - 1 = c
    BY <1>1
  <2>3. QED
    BY <2>1, <2>2 DEF InsertAt
<1> HIDE DEF c
<1>3. /\ SubSeq(sorted, 1, c) \in Seq(S)
      /\ <<seg>> \in Seq(S)
      /\ SubSeq(sorted, c + 1, Len(sorted)) \in Seq(S)
  BY <1>1
<1>4. QED
  BY <1>2, <1>3

Sorted(segs) == FoldLeft(InsertByStart, <<>>, segs)

\* Sorting inserts one segment after the other.
LEMMA InsertSteps ==
  ASSUME NEW S, NEW s \in Seq(S)
  PROVE  \E r \in [0 .. Len(s) -> Seq(S)] :
           /\ r[0] = <<>>
           /\ \A k \in 1 .. Len(s) : r[k] = InsertByStart(r[k - 1], s[k])
           /\ Sorted(s) = r[Len(s)]
<1> DEFINE n == Len(s)
           X == Seq(S)
           h == [x \in X |-> [k \in 1 .. n |-> InsertByStart(x, s[k])]]
           Is(f) == f = [p \in SUBSET (DOMAIN s) |->
                           IF p = {} THEN <<>> ELSE InsertByStart(f[p \ {Max(p)}], s[Max(p)])]
           f == CHOOSE f : Is(f)
<1>1. Sorted(s) = f[DOMAIN s]
  BY Zenon DEF Sorted, FoldLeft, MapThenFoldSet
<1>2. n \in Nat /\ DOMAIN s = 1 .. n /\ <<>> \in X
  OBVIOUS
<1>3. ASSUME NEW x \in X, NEW k \in 1 .. n PROVE InsertByStart(x, s[k]) \in X
  BY InsertedSeq
<1> HIDE DEF n, X
<1>4. /\ h \in [X -> [1 .. n -> X]]
      /\ \A x \in X, k \in 1 .. n : h[x][k] = InsertByStart(x, s[k])
  BY <1>3
<1> HIDE DEF h
<1>5. Is(f)
  <2>1. PICK g : Folded(g, X, <<>>, n, h)
    BY <1>2, <1>4, Folds
  <2>2. /\ g \in [SUBSET (1 .. n) -> X]
        /\ \A p \in SUBSET (1 .. n) :
             g[p] = IF p = {} THEN <<>> ELSE h[g[p \ {Max(p)}]][Max(p)]
    BY <2>1 DEF Folded
  <2>3. ASSUME NEW p \in SUBSET (1 .. n)
        PROVE  g[p] = IF p = {} THEN <<>> ELSE InsertByStart(g[p \ {Max(p)}], s[Max(p)])
    <3>1. CASE p = {}
      BY <2>2, <3>1
    <3>2. CASE p # {}
      <4>1. Max(p) \in 1 .. n /\ g[p \ {Max(p)}] \in X
        BY <1>2, <2>2, <3>2, Greatest
      <4>2. QED
        BY <1>4, <2>2, <3>2, <4>1
    <3>3. QED
      BY <3>1, <3>2
  <2>4. Is(g)
    BY <1>2, <2>2, <2>3
  <2> HIDE DEF Is
  <2>5. QED
    BY <2>4
<1>6. Iterates(f, X, <<>>, n, h)
  <2>1. ASSUME NEW p \in SUBSET (1 .. n)
        PROVE  f[p] = IF p = {} THEN <<>> ELSE InsertByStart(f[p \ {Max(p)}], s[Max(p)])
    BY <1>2, <1>5
  <2> HIDE DEF f
  <2>2. ASSUME NEW p \in SUBSET (1 .. n), p # {}, f[p \ {Max(p)}] \in X
        PROVE  f[p] = h[f[p \ {Max(p)}]][Max(p)]
    <3>1. Max(p) \in 1 .. n
      BY <1>2, <2>2, Greatest
    <3>2. QED
      BY <1>4, <2>1, <2>2, <3>1
  <2>3. QED
    BY <2>1, <2>2 DEF Iterates
<1> HIDE DEF f
<1>7. PICK r : Climbs(f, r, X, <<>>, n, h)
  <2>1. <<>> \in X /\ n \in Nat /\ h \in [X -> [1 .. n -> X]]
    BY <1>2, <1>4
  <2>2. QED
    BY <1>6, <2>1, FoldGoesUp
<1>8. r \in [0 .. n -> X] /\ r[0] = <<>> /\ \A k \in 1 .. n : r[k] = h[r[k - 1]][k]
  BY <1>7 DEF Climbs, Unrolled
<1>9. ASSUME NEW k \in 1 .. n PROVE r[k] = InsertByStart(r[k - 1], s[k])
  <2>1. k - 1 \in 0 .. n
    BY <1>2
  <2>2. r[k - 1] \in X
    BY <1>8, <2>1
  <2>3. QED
    BY <1>4, <1>8, <2>2
<1>10. Sorted(s) = r[n]
  BY <1>1, <1>2, <1>7 DEF Climbs
<1>11. QED
  BY <1>8, <1>9, <1>10 DEF X, n

\* chunk_segments: a segment starts a new range when the budget is spent.
Grown(segs, acc, i) ==
  IF i # acc.from /\ acc.len + SegLen(segs[i]) > (IF MaxChars < 1 THEN 1 ELSE MaxChars)
  THEN [done |-> Append(acc.done, <<acc.from, i - 1>>),
        from |-> i, len |-> SegLen(segs[i])]
  ELSE [acc EXCEPT !.len = @ + SegLen(segs[i])]

LastGrown(segs) ==
  LET Grow(acc, i) == Grown(segs, acc, i)
  IN  FoldLeftDomain(Grow, [done |-> <<>>, from |-> 1, len |-> 0], segs)

\* chunk_segments, segment by segment.
LEMMA GrowthSteps ==
  ASSUME NEW segs, segs # <<>>, IsSeq(segs), \A i \in 1 .. Len(segs) : SegLen(segs[i]) \in Nat
  PROVE  \E r \in [0 .. Len(segs) -> [done : Seq((1 .. Len(segs)) \X (0 .. Len(segs))),
                                       from : 1 .. Len(segs), len : Nat]] :
           /\ r[0] = [done |-> <<>>, from |-> 1, len |-> 0]
           /\ \A k \in 1 .. Len(segs) : r[k] = Grown(segs, r[k - 1], k)
           /\ LastGrown(segs) = r[Len(segs)]
<1> DEFINE n == Len(segs)
           X == [done : Seq((1 .. n) \X (0 .. n)), from : 1 .. n, len : Nat]
           s == [i \in DOMAIN segs |-> i]
           base == [done |-> <<>>, from |-> 1, len |-> 0]
           h == [x \in X |-> [k \in 1 .. n |-> Grown(segs, x, s[k])]]
           Is(f) == f = [p \in SUBSET (DOMAIN s) |->
                           IF p = {} THEN base ELSE Grown(segs, f[p \ {Max(p)}], s[Max(p)])]
           f == CHOOSE f : Is(f)
<1>1. LastGrown(segs) = f[DOMAIN s]
  BY Zenon DEF LastGrown, FoldLeftDomain, FoldLeft, MapThenFoldSet
<1>2. n \in Nat /\ DOMAIN s = 1 .. n /\ base \in X
  <2>1. n \in Nat \ {0} /\ DOMAIN segs = 1 .. n
    BY DEF IsSeq
  <2> HIDE DEF n
  <2>2. QED
    BY <2>1
<1>3. ASSUME NEW x \in X, NEW k \in 1 .. n PROVE Grown(segs, x, s[k]) \in X
  <2> DEFINE len == SegLen(segs[k])
             ends == <<x.from, k - 1>>
             fresh == [done |-> Append(x.done, ends), from |-> k, len |-> len]
             longer == [x EXCEPT !.len = @ + len]
  <2>1. s[k] = k /\ len \in Nat
    BY <1>2
  <2>2. ends \in (1 .. n) \X (0 .. n)
    OBVIOUS
  <2>3. Append(x.done, ends) \in Seq((1 .. n) \X (0 .. n))
    BY <2>2
  <2> HIDE DEF len, ends
  <2>4. fresh \in X /\ longer \in X
    <3>1. x.len + len \in Nat /\ x.from \in 1 .. n /\ k \in 1 .. n
      BY <2>1
    <3>2. longer = [x EXCEPT !.len = x.len + len]
      OBVIOUS
    <3>3. longer \in X
      BY <3>1, <3>2
    <3>4. fresh \in X
      BY <2>1, <2>3, <3>1
    <3>5. QED
      BY <3>3, <3>4
  <2>5. Grown(segs, x, k) \in {fresh, longer}
    BY DEF Grown, len, ends
  <2> HIDE DEF fresh, longer
  <2>6. QED
    BY <2>1, <2>4, <2>5
<1> HIDE DEF n, X, s, base
<1>4. /\ h \in [X -> [1 .. n -> X]]
      /\ \A x \in X, k \in 1 .. n : h[x][k] = Grown(segs, x, s[k])
  BY <1>3
<1> HIDE DEF h
<1>5. Is(f)
  <2>1. PICK g : Folded(g, X, base, n, h)
    BY <1>2, <1>4, Folds
  <2>2. /\ g \in [SUBSET (1 .. n) -> X]
        /\ \A p \in SUBSET (1 .. n) :
             g[p] = IF p = {} THEN base ELSE h[g[p \ {Max(p)}]][Max(p)]
    BY <2>1 DEF Folded
  <2>3. ASSUME NEW p \in SUBSET (1 .. n)
        PROVE  g[p] = IF p = {} THEN base ELSE Grown(segs, g[p \ {Max(p)}], s[Max(p)])
    <3>1. CASE p = {}
      BY <2>2, <3>1
    <3>2. CASE p # {}
      <4>1. Max(p) \in 1 .. n /\ g[p \ {Max(p)}] \in X
        BY <1>2, <2>2, <3>2, Greatest
      <4>2. QED
        BY <1>4, <2>2, <3>2, <4>1
    <3>3. QED
      BY <3>1, <3>2
  <2>4. Is(g)
    BY <1>2, <2>2, <2>3
  <2> HIDE DEF Is
  <2>5. QED
    BY <2>4
<1>6. Iterates(f, X, base, n, h)
  <2>1. ASSUME NEW p \in SUBSET (1 .. n)
        PROVE  f[p] = IF p = {} THEN base ELSE Grown(segs, f[p \ {Max(p)}], s[Max(p)])
    BY <1>2, <1>5
  <2> HIDE DEF f
  <2>2. ASSUME NEW p \in SUBSET (1 .. n), p # {}, f[p \ {Max(p)}] \in X
        PROVE  f[p] = h[f[p \ {Max(p)}]][Max(p)]
    <3>1. Max(p) \in 1 .. n
      BY <1>2, <2>2, Greatest
    <3>2. QED
      BY <1>4, <2>1, <2>2, <3>1
  <2>3. QED
    BY <2>1, <2>2 DEF Iterates
<1> HIDE DEF f
<1>7. PICK r : Climbs(f, r, X, base, n, h)
  <2>1. base \in X /\ n \in Nat /\ h \in [X -> [1 .. n -> X]]
    BY <1>2, <1>4
  <2>2. QED
    BY <1>6, <2>1, FoldGoesUp
<1>8. r \in [0 .. n -> X] /\ r[0] = base /\ \A k \in 1 .. n : r[k] = h[r[k - 1]][k]
  BY <1>7 DEF Climbs, Unrolled
<1>9. ASSUME NEW k \in 1 .. n PROVE r[k] = Grown(segs, r[k - 1], k)
  <2>1. k - 1 \in 0 .. n /\ s[k] = k
    BY <1>2 DEF s
  <2>2. r[k - 1] \in X
    BY <1>8, <2>1
  <2>3. QED
    BY <1>4, <1>8, <2>1, <2>2
<1>10. LastGrown(segs) = r[n]
  BY <1>1, <1>2, <1>7 DEF Climbs
<1>11. QED
  BY <1>8, <1>9, <1>10 DEF X, n, base

-----------------------------------------------------------------------------
(* Sequences, their elements and the elements that are in a set *)

LEMMA ElementsOfSeq ==
  ASSUME NEW f, IsSeq(f)
  PROVE  /\ f \in Seq(ToSet(f))
         /\ DOMAIN f = 1 .. Len(f)
         /\ ToSet(f) = {f[i] : i \in 1 .. Len(f)}
         /\ f = <<>> <=> ToSet(f) = {}
<1>1. DOMAIN f = 1 .. Len(f) /\ Len(f) \in Nat
  BY DEF IsSeq
<1>2. ToSet(f) = {f[i] : i \in 1 .. Len(f)}
  BY <1>1 DEF ToSet
<1>3. f \in [1 .. Len(f) -> ToSet(f)]
  BY <1>2 DEF IsSeq
<1>4. f \in Seq(ToSet(f))
  BY <1>1, <1>3
<1>5. f = <<>> <=> ToSet(f) = {}
  <2>1. ASSUME f = <<>> PROVE ToSet(f) = {}
    BY <1>2, <2>1
  <2>2. ASSUME ToSet(f) = {} PROVE f = <<>>
    <3>1. ASSUME Len(f) # 0 PROVE FALSE
      <4>1. 1 \in 1 .. Len(f)
        BY <1>1, <3>1
      <4>2. QED
        BY <1>2, <2>2, <4>1
    <3>2. QED
      BY <1>4, <3>1
  <2>3. QED
    BY <2>1, <2>2
<1>6. QED
  BY <1>1, <1>2, <1>4, <1>5

LEMMA SeqIsSeq ==
  ASSUME NEW S, NEW f \in Seq(S)
  PROVE  IsSeq(f) /\ ToSet(f) \subseteq S
<1>1. f \in [1 .. Len(f) -> S] /\ Len(f) \in Nat
  OBVIOUS
<1>2. QED
  BY <1>1 DEF IsSeq, ToSet

LEMMA AppendElements ==
  ASSUME NEW S, NEW f \in Seq(S), NEW x \in S
  PROVE  ToSet(Append(f, x)) = ToSet(f) \cup {x}
<1>1. f \o <<x>> = Append(f, x) /\ <<x>> \in Seq(S)
  OBVIOUS
<1>2. ToSet(<<x>>) = {x}
  BY DEF ToSet
<1>3. ToSet(f \o <<x>>) = ToSet(f) \cup ToSet(<<x>>)
  BY <1>1, Joined
<1>4. QED
  BY <1>1, <1>2, <1>3

LEMMA AmongElements ==
  ASSUME NEW s, IsSeq(s), NEW set
  PROVE  IsSeq(Among(s, set)) /\ ToSet(Among(s, set)) = ToSet(s) \cap set
<1> DEFINE S == ToSet(s) \cap set
           parts == [i \in DOMAIN s |-> IF s[i] \in set THEN <<s[i]>> ELSE <<>>]
<1>1. DOMAIN s = 1 .. Len(s) /\ Len(s) \in Nat /\ ToSet(s) = {s[i] : i \in 1 .. Len(s)}
  BY ElementsOfSeq DEF IsSeq
<1>2. ASSUME NEW i \in 1 .. Len(s)
      PROVE  parts[i] \in Seq(S) /\ ToSet(parts[i]) = {s[i]} \cap set
  <2>1. CASE s[i] \in set
    <3>1. parts[i] = <<s[i]>> /\ s[i] \in S
      BY <1>1, <2>1
    <3>2. ToSet(<<s[i]>>) = {s[i]}
      BY DEF ToSet
    <3> HIDE DEF S, parts
    <3>3. <<s[i]>> \in Seq(S)
      BY <3>1
    <3>4. QED
      BY <2>1, <3>1, <3>2, <3>3
  <2>2. CASE s[i] \notin set
    BY <1>1, <2>2 DEF ToSet
  <2>3. QED
    BY <2>1, <2>2
<1> HIDE DEF S
<1>3. parts \in Seq(Seq(S)) /\ Len(parts) = Len(s)
  <2>1. parts \in [1 .. Len(s) -> Seq(S)]
    BY <1>1, <1>2
  <2> HIDE DEF parts
  <2>2. QED
    BY <1>1, <2>1
<1>4. Among(s, set) = FlattenSeq(parts)
  BY DEF Among
<1> HIDE DEF parts
<1>5. /\ FlattenSeq(parts) \in Seq(S)
      /\ ToSet(FlattenSeq(parts)) = UNION {ToSet(parts[i]) : i \in 1 .. Len(parts)}
  BY <1>3, Flattened
<1>6. UNION {ToSet(parts[i]) : i \in 1 .. Len(parts)} = ToSet(s) \cap set
  <2>1. \A i \in 1 .. Len(parts) : ToSet(parts[i]) = {s[i]} \cap set
    BY <1>2, <1>3
  <2>2. \A x : x \in ToSet(s) \cap set <=> \E i \in 1 .. Len(parts) : x = s[i] /\ x \in set
    BY <1>1, <1>3
  <2>3. \A x : x \in ToSet(s) \cap set <=> \E i \in 1 .. Len(parts) : x \in ToSet(parts[i])
    BY <2>1, <2>2
  <2>4. QED
    BY <2>3
<1>7. QED
  BY <1>4, <1>5, <1>6, SeqIsSeq

-----------------------------------------------------------------------------
(* Preparation *)

\* What every transcript is.
LEMMA TranscriptSegments ==
  ASSUME NEW t, IsTranscript(t)
  PROVE  /\ IsSeq(t)
         /\ \A seg \in ToSet(t) :
              /\ seg = [speaker |-> seg.speaker, start |-> seg.start, end |-> seg.end,
                        text |-> seg.text]
              /\ IsSeq(seg.text) /\ seg.start \in Int /\ seg.end \in Int
<1>1. IsSeq(t)
  BY SeqIsSeq DEF IsTranscript
<1>2. ASSUME NEW seg \in ToSet(t) PROVE IsSeq(seg.text)
  <2>1. seg.text \in Seq(ToSet(seg.text))
    BY DEF IsTranscript
  <2>2. QED
    BY <2>1, SeqIsSeq
<1>3. QED
  BY <1>1, <1>2 DEF IsTranscript

LEMMA NormalizedSegments ==
  ASSUME NEW t, IsTranscript(t)
  PROVE  /\ IsSeq(Normalize(t))
         /\ \A seg \in ToSet(Normalize(t)) : SegLen(seg) \in Nat
<1> DEFINE worded == Among(t, {seg \in ToSet(t) : CollapseWhitespace(seg.text) # <<>>})
           clean == [i \in DOMAIN worded |-> Cleaned(worded[i])]
           C == {Cleaned(seg) : seg \in ToSet(t)}
<1>1. Normalize(t) = Sorted(clean)
  BY DEF Normalize, Sorted
<1>2. IsSeq(worded) /\ ToSet(worded) \subseteq ToSet(t)
  BY AmongElements, TranscriptSegments
<1> HIDE DEF worded
<1>3. clean \in Seq(C)
  <2>1. /\ DOMAIN worded = 1 .. Len(worded) /\ Len(worded) \in Nat
        /\ ToSet(worded) = {worded[i] : i \in 1 .. Len(worded)}
    BY <1>2, ElementsOfSeq DEF IsSeq
  <2>2. clean \in [1 .. Len(worded) -> C]
    BY <1>2, <2>1
  <2> HIDE DEF clean, C
  <2>3. QED
    BY <2>1, <2>2
<1>4. ASSUME NEW seg \in ToSet(t) PROVE SegLen(Cleaned(seg)) \in Nat
  <2>1. /\ seg = [speaker |-> seg.speaker, start |-> seg.start, end |-> seg.end, text |-> seg.text]
        /\ IsSeq(seg.text)
    BY TranscriptSegments
  <2>2. Cleaned(seg).text = CollapseWhitespace(seg.text)
    BY <2>1 DEF Cleaned
  <2>3. Len(CollapseWhitespace(seg.text)) \in Nat
    BY <2>1, AmongElements DEF CollapseWhitespace, IsSeq
  <2>4. QED
    BY <2>2, <2>3 DEF SegLen
<1> HIDE DEF clean
<1>5. Sorted(clean) \in Seq(C)
  BY <1>3, InsertSteps
<1>6. IsSeq(Sorted(clean)) /\ ToSet(Sorted(clean)) \subseteq C
  BY <1>5, SeqIsSeq
<1>7. QED
  BY <1>1, <1>4, <1>6

\* The chunks hold segments of the transcript.
LEMMA ChunksHoldSegments ==
  ASSUME NEW segs, IsSeq(segs), \A seg \in ToSet(segs) : SegLen(seg) \in Nat
  PROVE  /\ IsSeq(ChunkSegments(segs))
         /\ \A i \in 1 .. Len(ChunkSegments(segs)) :
              ToSet(ChunkSegments(segs)[i].segments) \subseteq ToSet(segs)
<1>1. CASE segs = <<>>
  <2>1. ChunkSegments(segs) = <<>>
    BY <1>1 DEF ChunkSegments
  <2>2. QED
    BY <2>1, EmptyIsSeq
<1>2. CASE segs # <<>>
  <2> DEFINE n == Len(segs)
             P == (1 .. n) \X (0 .. n)
             ranges == Ranges(segs)
             chunks == ChunkSegments(segs)
  <2>1. /\ n \in Nat /\ segs \in Seq(ToSet(segs))
        /\ ToSet(segs) = {segs[i] : i \in 1 .. n}
    BY ElementsOfSeq DEF IsSeq
  <2>2. LastGrown(segs).done \in Seq(P) /\ LastGrown(segs).from \in 1 .. n
    <3>1. \A i \in 1 .. n : SegLen(segs[i]) \in Nat
      BY <2>1
    <3>2. QED
      <4> DEFINE X == [done : Seq(P), from : 1 .. n, len : Nat]
      <4>1. \E r \in [0 .. n -> X] : LastGrown(segs) = r[n]
        <5> HIDE DEF P
        <5>1. \E r \in [0 .. n -> [done : Seq((1 .. n) \X (0 .. n)), from : 1 .. n, len : Nat]] :
                LastGrown(segs) = r[n]
          BY <1>2, <3>1, GrowthSteps, Zenon
        <5>2. QED
          BY <5>1 DEF P
      <4>2. n \in 0 .. n
        BY <2>1
      <4> HIDE DEF P, n
      <4>3. LastGrown(segs) \in X
        BY <4>1, <4>2
      <4>4. QED
        BY <4>3
  <2>3. ranges = Append(LastGrown(segs).done, <<LastGrown(segs).from, n>>)
    BY DEF Ranges, LastGrown, Grown
  <2>4. ranges \in Seq(P)
    <3>1. <<LastGrown(segs).from, n>> \in P
      BY <2>1, <2>2
    <3> HIDE DEF P, ranges
    <3>2. QED
      BY <2>2, <2>3, <3>1
  <2>5. DOMAIN ranges = 1 .. Len(ranges) /\ Len(ranges) \in Nat
    BY <2>4
  <2>6. /\ chunks = [i \in DOMAIN ranges |-> chunks[i]]
        /\ \A i \in DOMAIN ranges :
             chunks[i].segments = SubSeq(segs, ranges[i][1], ranges[i][2])
    <3> HIDE DEF ranges
    <3>1. QED
      BY <1>2 DEF ChunkSegments, ranges
  <2>7. ASSUME NEW i \in DOMAIN ranges
        PROVE  ToSet(chunks[i].segments) \subseteq ToSet(segs)
    <3>1. ranges[i] \in P
      BY <2>4, <2>5
    <3>2. ranges[i][1] \in 1 .. n /\ ranges[i][2] \in 0 .. n
      BY <3>1
    <3>3. SubSeq(segs, ranges[i][1], ranges[i][2]) \in Seq(ToSet(segs))
      <4> DEFINE from == ranges[i][1]
                 to == ranges[i][2]
      <4>1. from \in 1 .. n /\ to \in 0 .. n
        BY <3>2
      <4> HIDE DEF from, to, ranges
      <4>2. SubSeq(segs, from, to) \in Seq(ToSet(segs))
        BY <2>1, <4>1
      <4>3. QED
        BY <4>2 DEF from, to
    <3>4. QED
      BY <2>6, <3>3, SeqIsSeq
  <2> HIDE DEF ranges, chunks
  <2>8. Len(chunks) = Len(ranges) /\ IsSeq(chunks)
    <3> DEFINE S == {chunks[i] : i \in DOMAIN ranges}
    <3>1. chunks \in [1 .. Len(ranges) -> S]
      BY <2>5, <2>6
    <3> HIDE DEF S
    <3>2. chunks \in Seq(S) /\ Len(chunks) = Len(ranges)
      BY <2>5, <3>1
    <3>3. QED
      BY <3>2, SeqIsSeq
  <2>9. QED
    BY <2>5, <2>7, <2>8 DEF chunks
<1>3. QED
  BY <1>1, <1>2

-----------------------------------------------------------------------------
(* What Ordered returns *)

TotalOrder(less, S) ==
  /\ \A x, y \in S : x # y => <<x, y>> \in less \/ <<y, x>> \in less
  /\ \A x \in S : <<x, x>> \notin less
  /\ \A x, y, z \in S : <<x, y>> \in less /\ <<y, z>> \in less => <<x, z>> \in less

\* The elements of a finite set in a total order, each once.
LEMMA OrderedSet ==
  ASSUME NEW S, IsFiniteSet(S), NEW less, TotalOrder(less, S)
  PROVE  /\ Cardinality(S) \in Nat
         /\ Ordered(S, less) \in [1 .. Cardinality(S) -> S]
         /\ ToSet(Ordered(S, less)) = S
         /\ \A i, j \in 1 .. Cardinality(S) :
              i < j => <<Ordered(S, less)[i], Ordered(S, less)[j]>> \in less
<1> DEFINE n == Cardinality(S)
           s == Ordered(S, less)
           Ahead(x) == {y \in S : <<y, x>> \in less}
           rank == [x \in S |-> Cardinality(Ahead(x)) + 1]
<1>1. n \in Nat
  BY FS_CardinalityType
<1>2. ASSUME NEW x \in S
      PROVE  IsFiniteSet(Ahead(x)) /\ Cardinality(Ahead(x)) \in 0 .. n - 1
  <2>1. Ahead(x) \in SUBSET S /\ Ahead(x) # S
    BY DEF TotalOrder
  <2> HIDE DEF Ahead
  <2>2. IsFiniteSet(Ahead(x)) /\ Cardinality(Ahead(x)) <= n /\ Cardinality(Ahead(x)) # n
    BY <2>1, FS_Subset
  <2>3. Cardinality(Ahead(x)) \in Nat
    BY <2>2, FS_CardinalityType
  <2>4. QED
    BY <1>1, <2>2, <2>3
<1>3. ASSUME NEW x \in S, NEW y \in S, <<x, y>> \in less
      PROVE  rank[x] < rank[y]
  <2>1. Ahead(x) \in SUBSET Ahead(y) /\ Ahead(x) # Ahead(y)
    BY <1>3 DEF TotalOrder
  <2> HIDE DEF Ahead
  <2>2. /\ Cardinality(Ahead(x)) <= Cardinality(Ahead(y))
        /\ Cardinality(Ahead(x)) # Cardinality(Ahead(y))
    BY <1>2, <2>1, FS_Subset
  <2>3. Cardinality(Ahead(x)) \in Int /\ Cardinality(Ahead(y)) \in Int
    BY <1>1, <1>2
  <2>4. QED
    BY <2>2, <2>3
<1>4. rank \in [S -> 1 .. n]
  <2> HIDE DEF Ahead
  <2>1. \A x \in S : Cardinality(Ahead(x)) + 1 \in 1 .. n
    BY <1>1, <1>2
  <2>2. QED
    BY <2>1
<1>5. \A k \in 1 .. n : s[k] = CHOOSE x \in S : rank[x] = k
  <2>1. \A k \in 1 .. n : s[k] = CHOOSE x \in S : Cardinality(Ahead(x)) = k - 1
    BY DEF Ordered
  <2> HIDE DEF Ahead, s
  <2>2. ASSUME NEW k \in 1 .. n
        PROVE  \A x \in S : rank[x] = k <=> Cardinality(Ahead(x)) = k - 1
    BY <1>1, <1>2
  <2>3. ASSUME NEW k \in 1 .. n
        PROVE  (CHOOSE x \in S : rank[x] = k) = CHOOSE x \in S : Cardinality(Ahead(x)) = k - 1
    BY <2>2
  <2>4. QED
    BY <2>1, <2>3
<1>6. s = [k \in 1 .. n |-> s[k]]
  <2> DEFINE F(k) == CHOOSE x \in S : Cardinality(Ahead(x)) = k - 1
  <2>1. s = [k \in 1 .. n |-> F(k)]
    BY DEF Ordered
  <2> HIDE DEF s, F
  <2>2. QED
    BY <2>1
<1> HIDE DEF s, rank
<1>7. ASSUME NEW x \in S, NEW y \in S, rank[x] = rank[y] PROVE x = y
  <2>1. rank[x] \in 1 .. n /\ rank[y] \in 1 .. n
    BY <1>4
  <2>2. ~ (rank[x] < rank[y]) /\ ~ (rank[y] < rank[x])
    BY <1>1, <1>7, <2>1
  <2>3. <<x, y>> \notin less /\ <<y, x>> \notin less
    BY <1>3, <2>2
  <2>4. QED
    BY <2>3 DEF TotalOrder
<1>8. \A k \in 1 .. n : \E x \in S : rank[x] = k
  <2>1. rank \in Injection(S, 1 .. n)
    BY <1>4, <1>7 DEF Injection, IsInjective
  <2>2. IsFiniteSet(1 .. n) /\ Cardinality(1 .. n) = n
    BY <1>1, FS_Interval
  <2>3. rank \in Surjection(S, 1 .. n)
    BY <2>1, <2>2, FS_Injection
  <2>4. QED
    BY <2>3 DEF Surjection
<1>9. \A k \in 1 .. n : s[k] \in S /\ rank[s[k]] = k
  BY <1>5, <1>8
<1>10. s \in [1 .. n -> S]
  BY <1>6, <1>9
<1>11. ToSet(s) = S
  <2>1. ASSUME NEW x \in S PROVE \E k \in 1 .. n : s[k] = x
    <3>1. rank[x] \in 1 .. n
      BY <1>4
    <3>2. s[rank[x]] = x
      BY <1>7, <1>9, <3>1
    <3>3. QED
      BY <3>1, <3>2
  <2>2. QED
    BY <1>9, <1>10, <2>1 DEF ToSet
<1>12. ASSUME NEW i \in 1 .. n, NEW j \in 1 .. n, i < j
       PROVE  <<s[i], s[j]>> \in less
  <2>1. s[i] \in S /\ s[j] \in S /\ rank[s[i]] = i /\ rank[s[j]] = j
    BY <1>9
  <2>2. s[i] # s[j] /\ ~ (rank[s[j]] < rank[s[i]])
    BY <1>1, <1>12, <2>1
  <2>3. QED
    BY <1>3, <2>1, <2>2 DEF TotalOrder
<1>13. QED
  BY <1>1, <1>10, <1>11, <1>12 DEF s

\* e is the elements of S, one after the other.
Lists(e, m, S, less) ==
  /\ IsFiniteSet(S) /\ TotalOrder(less, S)
  /\ m \in Nat /\ e \in [1 .. m -> S]
  /\ \A x \in S : \E i \in 1 .. m : e[i] = x
  /\ \A i, j \in 1 .. m : i < j => <<e[i], e[j]>> \in less

\* There is no other order.
LEMMA OrderedOnce ==
  ASSUME NEW S, NEW less, NEW m, NEW e, Lists(e, m, S, less)
  PROVE  Cardinality(S) = m /\ Ordered(S, less) = e
<1>0. /\ IsFiniteSet(S) /\ TotalOrder(less, S)
      /\ m \in Nat /\ e \in [1 .. m -> S]
      /\ \A x \in S : \E i \in 1 .. m : e[i] = x
      /\ \A i, j \in 1 .. m : i < j => <<e[i], e[j]>> \in less
  BY DEF Lists
<1> USE <1>0
<1> DEFINE Before(x) == {y \in S : <<y, x>> \in less}
<1>1. /\ \A x, y \in S : x # y => <<x, y>> \in less \/ <<y, x>> \in less
      /\ \A x \in S : <<x, x>> \notin less
      /\ \A x, y, z \in S : <<x, y>> \in less /\ <<y, z>> \in less => <<x, z>> \in less
  BY DEF TotalOrder
<1>2. \A i, j \in 1 .. m : e[i] \in S /\ (e[i] = e[j] => i = j)
  <2>1. SUFFICES ASSUME NEW i \in 1 .. m, NEW j \in 1 .. m, e[i] = e[j], i # j PROVE FALSE
    OBVIOUS
  <2>2. i < j \/ j < i
    BY <2>1
  <2>3. <<e[i], e[i]>> \in less
    BY <2>1, <2>2
  <2>4. QED
    BY <1>1, <2>3
<1>3. ASSUME NEW i \in 1 .. m, NEW j \in 1 .. m
      PROVE  <<e[i], e[j]>> \in less <=> i < j
  <2>1. ASSUME <<e[i], e[j]>> \in less, ~ (i < j) PROVE FALSE
    <3>1. i = j \/ j < i
      BY <2>1
    <3>2. <<e[i], e[i]>> \in less
      <4>1. CASE i = j
        BY <2>1, <4>1
      <4>2. CASE j < i
        BY <1>1, <1>2, <2>1, <4>2
      <4>3. QED
        BY <3>1, <4>1, <4>2
    <3>3. QED
      BY <1>1, <1>2, <3>2
  <2>2. QED
    BY <2>1
<1>4. ASSUME NEW k \in 0 .. m, NEW T, T = {e[i] : i \in 1 .. k} PROVE Cardinality(T) = k
  <2> DEFINE g == [i \in 1 .. k |-> e[i]]
  <2>1. \A i \in 1 .. k : i \in 1 .. m
    OBVIOUS
  <2>2. g \in [1 .. k -> T] /\ \A x \in T : \E i \in 1 .. k : g[i] = x
    BY <1>4
  <2>3. \A i, j \in 1 .. k : g[i] = g[j] => i = j
    BY <1>2, <2>1
  <2> HIDE DEF g
  <2>4. g \in Bijection(1 .. k, T)
    BY <2>2, <2>3 DEF Bijection, Injection, Surjection, IsInjective
  <2>5. ExistsBijection(1 .. k, T) /\ k \in Nat
    BY <2>4 DEF ExistsBijection
  <2>6. QED
    BY <2>5, FS_CountingElements
<1>5. Cardinality(S) = m
  <2>1. S = {e[i] : i \in 1 .. m}
    BY <1>2
  <2>2. QED
    BY <1>4, <2>1
<1>6. ASSUME NEW k \in 1 .. m PROVE Cardinality(Before(e[k])) = k - 1
  <2>1. ASSUME NEW x \in S PROVE x \in Before(e[k]) <=> x \in {e[i] : i \in 1 .. k - 1}
    <3>1. PICK i \in 1 .. m : e[i] = x
      OBVIOUS
    <3>2. x \in Before(e[k]) <=> i < k
      BY <1>3, <3>1
    <3>3. i < k <=> i \in 1 .. k - 1
      OBVIOUS
    <3>4. ASSUME NEW j \in 1 .. k - 1, e[j] = x PROVE i = j
      BY <1>2, <3>1, <3>4
    <3>5. QED
      BY <3>1, <3>2, <3>3, <3>4
  <2>2. \A i \in 1 .. k - 1 : e[i] \in S
    BY <1>2
  <2>3. Before(e[k]) = {e[i] : i \in 1 .. k - 1}
    BY <2>1, <2>2
  <2>4. k - 1 \in 0 .. m
    OBVIOUS
  <2>5. QED
    BY <1>4, <2>3, <2>4
<1>7. ASSUME NEW k \in 1 .. m
      PROVE  (CHOOSE x \in S : Cardinality(Before(x)) = k - 1) = e[k]
  <2>1. \A x \in S : Cardinality(Before(x)) = k - 1 => x = e[k]
    <3>1. SUFFICES ASSUME NEW x \in S, Cardinality(Before(x)) = k - 1 PROVE x = e[k]
      OBVIOUS
    <3>2. PICK i \in 1 .. m : e[i] = x
      OBVIOUS
    <3>3. i - 1 = k - 1
      BY <1>6, <3>1, <3>2
    <3>4. i = k
      BY <3>3
    <3>5. QED
      BY <3>2, <3>4
  <2>2. e[k] \in S /\ Cardinality(Before(e[k])) = k - 1
    BY <1>6
  <2> HIDE DEF Before
  <2>3. QED
    BY <2>1, <2>2
<1>8. Ordered(S, less) = [k \in 1 .. m |-> CHOOSE x \in S : Cardinality(Before(x)) = k - 1]
  BY <1>5 DEF Ordered
<1> HIDE DEF Before
<1>9. [k \in 1 .. m |-> CHOOSE x \in S : Cardinality(Before(x)) = k - 1] = [k \in 1 .. m |-> e[k]]
  BY <1>7
<1>10. QED
  BY <1>5, <1>8, <1>9

\* An initial segment of the numbers is counted by its last.
LEMMA InitialSegment ==
  ASSUME NEW n \in Nat, NEW T \in SUBSET (1 .. n),
         \A i \in T : \A j \in 1 .. n : j < i => j \in T
  PROVE  /\ Cardinality(T) \in 0 .. n
         /\ T = 1 .. Cardinality(T)
<1>1. CASE T = {}
  <2>1. Cardinality(T) = 0
    BY <1>1, FS_EmptySet
  <2>2. QED
    BY <1>1, <2>1
<1>2. CASE T # {}
  <2> DEFINE x == Max(T)
  <2>1. x \in T /\ \A y \in T : y <= x
    BY <1>2, Greatest
  <2> HIDE DEF x
  <2>2. x \in 1 .. n
    BY <2>1
  <2>3. T = 1 .. x
    <3>1. ASSUME NEW j \in 1 .. x PROVE j \in T
      <4>1. j \in 1 .. n /\ (j < x \/ j = x)
        BY <2>2
      <4>2. QED
        BY <2>1, <4>1
    <3>2. ASSUME NEW j \in T PROVE j \in 1 .. x
      <4>1. j \in 1 .. n /\ j <= x
        BY <2>1
      <4>2. QED
        BY <2>2, <4>1
    <3>3. QED
      BY <3>1, <3>2
  <2>4. Cardinality(1 .. x) = x
    <3>1. x \in Int /\ 1 \in Int /\ x >= 1
      BY <2>2
    <3>2. Cardinality(1 .. x) = IF 1 > x THEN 0 ELSE x - 1 + 1
      BY <3>1, FS_Interval
    <3>3. QED
      BY <3>1, <3>2
  <2>5. QED
    BY <2>2, <2>3, <2>4
<1>3. QED
  BY <1>1, <1>2

\* kept is what a sequence has in the set, in its order: at holds the places.
KeptAt(at, kept, s, set) ==
  /\ at \in [1 .. Len(kept) -> 1 .. Len(s)]
  /\ \A i \in 1 .. Len(kept) : kept[i] = s[at[i]] /\ s[at[i]] \in set
  /\ \A i, j \in 1 .. Len(kept) : i < j => at[i] < at[j]
  /\ \A k \in 1 .. Len(s) : s[k] \in set => \E i \in 1 .. Len(kept) : at[i] = k

LEMMA AmongPlaces ==
  ASSUME NEW s, IsSeq(s), NEW set
  PROVE  \E at : KeptAt(at, Among(s, set), s, set)
<1> DEFINE n == Len(s)
           S == ToSet(s)
           parts == [i \in DOMAIN s |-> IF s[i] \in set THEN <<s[i]>> ELSE <<>>]
<1>1. n \in Nat /\ DOMAIN s = 1 .. n /\ \A i \in 1 .. n : s[i] \in S
  BY ElementsOfSeq DEF IsSeq, ToSet
<1> HIDE DEF S
<1>2. parts \in Seq(Seq(S)) /\ Len(parts) = n
  <2>1. parts \in [1 .. n -> Seq(S)]
    BY <1>1
  <2> HIDE DEF parts
  <2>2. QED
    BY <1>1, <2>1
<1>3. \A k \in 1 .. n : parts[k] = IF s[k] \in set THEN <<s[k]>> ELSE <<>>
  BY <1>1
<1>4. Among(s, set) = FlattenSeq(parts)
  BY DEF Among
<1> HIDE DEF parts
<1>5. PICK r \in [0 .. n -> Seq(S)] :
        /\ r[0] = <<>>
        /\ \A k \in 1 .. n : r[k] = r[k - 1] \o parts[k]
        /\ Among(s, set) = r[n]
  <2> HIDE DEF n
  <2>1. \E r \in [0 .. Len(parts) -> Seq(S)] :
          /\ r[0] = <<>>
          /\ \A k \in 1 .. Len(parts) : r[k] = r[k - 1] \o parts[k]
          /\ FlattenSeq(parts) = r[Len(parts)]
    BY <1>2, FlattenSteps
  <2>2. QED
    BY <1>2, <1>4, <2>1
<1> HIDE DEF n
<1> DEFINE Places(k, at) ==
             /\ \A i \in 1 .. Len(r[k]) : r[k][i] = s[at[i]] /\ s[at[i]] \in set
             /\ \A i, j \in 1 .. Len(r[k]) : i < j => at[i] < at[j]
             /\ \A l \in 1 .. k : s[l] \in set => \E i \in 1 .. Len(r[k]) : at[i] = l
           G == {k \in 0 .. n : \E at \in [1 .. Len(r[k]) -> 1 .. k] : Places(k, at)}
<1>6. 0 \in G
  <2>1. Len(r[0]) = 0
    BY <1>5
  <2> DEFINE at == [i \in 1 .. Len(r[0]) |-> i]
  <2>2. at \in [1 .. Len(r[0]) -> 1 .. 0] /\ Places(0, at)
    BY <2>1
  <2>3. 0 \in 0 .. n
    BY <1>1
  <2> HIDE DEF at, Places
  <2>4. QED
    BY <2>2, <2>3
<1>7. ASSUME NEW k \in 1 .. n, k - 1 \in G PROVE k \in G
  <2> DEFINE q == r[k - 1]
             c == Len(q)
  <2>1. PICK old \in [1 .. c -> 1 .. k - 1] : Places(k - 1, old)
    BY <1>7
  <2>2. /\ q \in Seq(S) /\ c \in Nat /\ n \in Nat /\ k \in 1 .. n
        /\ r[k] = q \o parts[k]
    <3>1. n \in Nat /\ k \in 1 .. n /\ k - 1 \in 0 .. n
      BY <1>1
    <3>2. q \in Seq(S)
      BY <1>5, <3>1
    <3> HIDE DEF q
    <3>3. c \in Nat
      BY <3>2
    <3>4. r[k] = q \o parts[k]
      BY <1>5, <3>1 DEF q
    <3>5. QED
      BY <3>1, <3>2, <3>3, <3>4
  <2>3. /\ \A i \in 1 .. c : q[i] = s[old[i]] /\ s[old[i]] \in set /\ old[i] \in 1 .. k - 1
        /\ \A i, j \in 1 .. c : i < j => old[i] < old[j]
        /\ \A l \in 1 .. k - 1 : s[l] \in set => \E i \in 1 .. c : old[i] = l
    BY <2>1
  <2> HIDE DEF q, c
  <2>4. CASE s[k] \notin set
    <3>1. r[k] = q
      <4>1. parts[k] = <<>>
        BY <1>3, <2>2, <2>4
      <4>2. q \o <<>> = q
        BY <2>2
      <4>3. QED
        BY <2>2, <4>1, <4>2
    <3>2. old \in [1 .. c -> 1 .. k]
      BY <2>2
    <3>3. \A l \in 1 .. k : l \in 1 .. k - 1 \/ l = k
      BY <2>2
    <3>4. Len(r[k]) = c
      BY <3>1 DEF c
    <3>5. Places(k, old)
      BY <2>3, <2>4, <3>1, <3>3, <3>4
    <3>6. k \in 0 .. n
      BY <2>2
    <3> HIDE DEF Places
    <3>7. QED
      BY <3>2, <3>4, <3>5, <3>6
  <2>5. CASE s[k] \in set
    <3> DEFINE at == [i \in 1 .. c + 1 |-> IF i = c + 1 THEN k ELSE old[i]]
    <3>1. r[k] = q \o <<s[k]>> /\ s[k] \in S
      BY <1>1, <1>3, <2>2, <2>5
    <3>2. /\ Len(r[k]) = c + 1
          /\ \A i \in 1 .. c : r[k][i] = q[i]
          /\ r[k][c + 1] = s[k]
      BY <2>2, <3>1 DEF c
    <3>3. \A i \in 1 .. c + 1 : i = c + 1 \/ i \in 1 .. c
      BY <2>2
    <3>4. \A i \in 1 .. c : at[i] = old[i] /\ at[i] \in 1 .. k - 1
      BY <2>2, <2>3
    <3>5. at[c + 1] = k
      BY <2>2
    <3>6. at \in [1 .. c + 1 -> 1 .. k]
      <4>1. \A i \in 1 .. c + 1 : at[i] \in 1 .. k
        BY <2>2, <3>3, <3>4, <3>5
      <4>2. QED
        BY <4>1
    <3> HIDE DEF at
    <3>7. \A i, j \in 1 .. c + 1 : i < j => at[i] < at[j]
      <4>1. SUFFICES ASSUME NEW i \in 1 .. c + 1, NEW j \in 1 .. c + 1, i < j
                     PROVE  at[i] < at[j]
        OBVIOUS
      <4>2. i \in 1 .. c
        BY <2>2, <4>1
      <4>3. CASE j = c + 1
        <5>1. at[i] \in 1 .. k - 1 /\ at[j] = k
          BY <3>4, <3>5, <4>2, <4>3
        <5>2. QED
          BY <5>1
      <4>4. CASE j \in 1 .. c
        BY <2>3, <3>4, <4>1, <4>2, <4>4
      <4>5. QED
        BY <3>3, <4>3, <4>4
    <3>8. ASSUME NEW l \in 1 .. k, s[l] \in set PROVE \E i \in 1 .. c + 1 : at[i] = l
      <4>1. CASE l = k
        <5>1. c + 1 \in 1 .. c + 1
          BY <2>2
        <5>2. QED
          BY <3>5, <4>1, <5>1
      <4>2. CASE l # k
        <5>1. l \in 1 .. k - 1
          BY <4>2
        <5>2. PICK i \in 1 .. c : old[i] = l
          BY <2>3, <3>8, <5>1
        <5>3. i \in 1 .. c + 1
          BY <2>2
        <5>4. QED
          BY <3>4, <5>2, <5>3
      <4>3. QED
        BY <4>1, <4>2
    <3>9. \A i \in 1 .. c + 1 : r[k][i] = s[at[i]] /\ s[at[i]] \in set
      BY <2>3, <2>5, <3>2, <3>3, <3>4, <3>5
    <3>10. Places(k, at)
      BY <3>2, <3>7, <3>8, <3>9
    <3> HIDE DEF Places
    <3>11. k \in 0 .. n
      BY <2>2
    <3>12. QED
      BY <3>2, <3>6, <3>10, <3>11
  <2>6. QED
    BY <2>4, <2>5
<1> HIDE DEF G
<1>8. n \in G
  <2>1. \A k \in 0 .. n : k \in G
    BY <1>1, <1>6, <1>7, Upward
  <2>2. QED
    BY <1>1, <2>1
<1>9. PICK at \in [1 .. Len(r[n]) -> 1 .. n] : Places(n, at)
  BY <1>8 DEF G
<1>10. KeptAt(at, r[n], s, set)
  BY <1>9 DEF KeptAt, n
<1>11. QED
  BY <1>5, <1>10

-----------------------------------------------------------------------------
(* Stable insertion *)

\* Of the a-th and the b-th segment the a-th is to come first.
Sooner(clean, a, b) ==
  \/ clean[a].start < clean[b].start
  \/ clean[a].start = clean[b].start /\ a < b

\* q holds the first k segments of clean in their order: pos are their places.
SortedPlaces(clean, k, q, pos) ==
  /\ pos \in [1 .. k -> 1 .. k]
  /\ Len(q) = k
  /\ \A j \in 1 .. k : q[j] = clean[pos[j]]
  /\ \A i \in 1 .. k : \E j \in 1 .. k : pos[j] = i
  /\ \A i, j \in 1 .. k : i < j => Sooner(clean, pos[i], pos[j])

\* normalize: what a segment is put after.
LEMMA InsertedAt ==
  ASSUME NEW S, NEW q \in Seq(S), NEW x, x \in S, NEW c \in 0 .. Len(q),
         {i \in DOMAIN q : q[i].start <= x.start} = 1 .. c
  PROVE  /\ InsertByStart(q, x) \in Seq(S)
         /\ Len(InsertByStart(q, x)) = Len(q) + 1
         /\ \A j \in 1 .. c : InsertByStart(q, x)[j] = q[j]
         /\ InsertByStart(q, x)[c + 1] = x
         /\ \A j \in c + 2 .. Len(q) + 1 : InsertByStart(q, x)[j] = q[j - 1]
<1> DEFINE n == Len(q)
           u == SubSeq(q, 1, c)
           v == SubSeq(q, c + 1, n)
<1>1. n \in Nat /\ c \in Nat /\ c <= n
  OBVIOUS
<1>2. Cardinality(1 .. c) = c
  <2>1. 1 \in Int /\ c \in Int /\ c >= 0
    BY <1>1
  <2>2. Cardinality(1 .. c) = IF 1 > c THEN 0 ELSE c - 1 + 1
    BY <2>1, FS_Interval
  <2>3. QED
    BY <1>1, <2>2
<1>3. InsertByStart(q, x) = InsertAt(q, c + 1, x)
  BY <1>2 DEF InsertByStart
<1>4. (c + 1) - 1 = c
  BY <1>1
<1>5. InsertByStart(q, x) = u \o <<x>> \o v
  BY <1>3, <1>4 DEF InsertAt
<1>6. /\ u \in Seq(S) /\ Len(u) = c
      /\ \A j \in 1 .. c : u[j] = q[j]
  BY <1>1
<1>7. /\ v \in Seq(S) /\ Len(v) = n - c
      /\ \A j \in 1 .. n - c : v[j] = q[c + j]
  BY <1>1
<1> HIDE DEF u, v, n
<1> DEFINE w == u \o <<x>>
<1>8. /\ w \in Seq(S) /\ Len(w) = c + 1
      /\ \A j \in 1 .. c : w[j] = q[j]
      /\ w[c + 1] = x
  BY <1>1, <1>6
<1> HIDE DEF w
<1>9. /\ w \o v \in Seq(S) /\ Len(w \o v) = n + 1
      /\ \A j \in 1 .. c + 1 : (w \o v)[j] = w[j]
      /\ \A j \in 1 .. n - c : (w \o v)[c + 1 + j] = v[j]
  <2>1. w \in Seq(S) /\ v \in Seq(S)
    BY <1>7, <1>8
  <2>2. /\ w \o v \in Seq(S) /\ Len(w \o v) = Len(w) + Len(v)
        /\ \A j \in 1 .. Len(w) : (w \o v)[j] = w[j]
        /\ \A j \in 1 .. Len(v) : (w \o v)[Len(w) + j] = v[j]
    BY <2>1
  <2>3. (c + 1) + (n - c) = n + 1
    BY <1>1
  <2>4. QED
    BY <1>7, <1>8, <2>2, <2>3
<1>10. ASSUME NEW j \in c + 2 .. n + 1 PROVE (w \o v)[j] = q[j - 1]
  <2> DEFINE i == j - (c + 1)
  <2>1. i \in 1 .. n - c /\ c + 1 + i = j /\ c + i = j - 1
    BY <1>1
  <2> HIDE DEF i
  <2>2. QED
    BY <1>7, <1>9, <2>1
<1>11. \A j \in 1 .. c : j \in 1 .. c + 1
  BY <1>1
<1>12. c + 1 \in 1 .. c + 1
  BY <1>1
<1>13. InsertByStart(q, x) = w \o v
  BY <1>5 DEF w
<1>14. QED
  BY <1>8, <1>9, <1>10, <1>11, <1>12, <1>13 DEF n

\* normalize: one segment more is put in its place.
LEMMA InsertedPlaces ==
  ASSUME NEW S, NEW clean \in Seq(S), \A i \in 1 .. Len(clean) : clean[i].start \in Int,
         NEW k \in 1 .. Len(clean), NEW q \in Seq(S), NEW old, SortedPlaces(clean, k - 1, q, old)
  PROVE  \E pos : SortedPlaces(clean, k, InsertByStart(q, clean[k]), pos)
<1> DEFINE x == clean[k]
           before == {i \in DOMAIN q : q[i].start <= x.start}
           c == Cardinality(before)
           u == InsertByStart(q, x)
           pos == [j \in 1 .. k |-> IF j <= c THEN old[j]
                                    ELSE IF j = c + 1 THEN k ELSE old[j - 1]]
<1>1. k \in Nat /\ k - 1 \in Nat /\ k - 1 < k /\ Len(clean) \in Nat /\ k <= Len(clean)
  OBVIOUS
<1>2. /\ Len(q) = k - 1 /\ DOMAIN q = 1 .. k - 1
      /\ \A j \in 1 .. k - 1 : q[j] = clean[old[j]] /\ old[j] \in 1 .. k - 1
      /\ \A i \in 1 .. k - 1 : \E j \in 1 .. k - 1 : old[j] = i
      /\ \A i, j \in 1 .. k - 1 : i < j => Sooner(clean, old[i], old[j])
  <2>1. /\ old \in [1 .. k - 1 -> 1 .. k - 1] /\ Len(q) = k - 1
        /\ \A j \in 1 .. k - 1 : q[j] = clean[old[j]]
        /\ \A i \in 1 .. k - 1 : \E j \in 1 .. k - 1 : old[j] = i
        /\ \A i, j \in 1 .. k - 1 : i < j => Sooner(clean, old[i], old[j])
    BY Zenon DEF SortedPlaces
  <2>2. DOMAIN q = 1 .. k - 1
    BY <2>1
  <2>3. \A j \in 1 .. k - 1 : old[j] \in 1 .. k - 1
    BY <2>1
  <2>4. QED
    BY <2>1, <2>2, <2>3
<1>3. \A i \in 1 .. k - 1 : i \in 1 .. Len(clean)
  BY <1>1
<1>4. x \in S /\ x.start \in Int
  OBVIOUS
<1>5. \A j \in 1 .. k - 1 : q[j].start \in Int
  BY <1>2, <1>3
<1>6. ASSUME NEW i \in before, NEW j \in 1 .. k - 1, j < i PROVE j \in before
  <2>1. i \in 1 .. k - 1 /\ q[i].start <= x.start
    BY <1>2
  <2>2. q[j].start <= q[i].start
    <3>1. Sooner(clean, old[j], old[i])
      BY <1>2, <1>6, <2>1
    <3>2. q[j].start < q[i].start \/ q[j].start = q[i].start
      BY <1>2, <2>1, <3>1 DEF Sooner
    <3>3. QED
      BY <1>5, <2>1, <3>2
  <2>3. q[j].start <= x.start
    BY <1>4, <1>5, <2>1, <2>2
  <2>4. QED
    BY <1>2, <2>3
<1>7. before \in SUBSET (1 .. k - 1)
  BY <1>2
<1> HIDE DEF before
<1>8. c \in 0 .. k - 1 /\ before = 1 .. c
  <2>1. \A i \in before : \A j \in 1 .. k - 1 : j < i => j \in before
    BY <1>6
  <2>2. QED
    BY <1>1, <1>7, <2>1, InitialSegment
<1> HIDE DEF c, x
<1>9. /\ u \in Seq(S)
      /\ Len(u) = k
      /\ \A j \in 1 .. c : u[j] = q[j]
      /\ u[c + 1] = x
      /\ \A j \in c + 2 .. k : u[j] = q[j - 1]
  <2>1. c \in 0 .. Len(q)
    BY <1>2, <1>8
  <2>2. {i \in DOMAIN q : q[i].start <= x.start} = 1 .. c
    BY <1>8 DEF before
  <2>3. Len(q) + 1 = k
    BY <1>1, <1>2
  <2>4. QED
    BY <1>4, <2>1, <2>2, <2>3, InsertedAt
<1> HIDE DEF u
<1>10. /\ \A j \in 1 .. c : j \in 1 .. k - 1 /\ pos[j] = old[j]
       /\ pos[c + 1] = k
       /\ \A j \in c + 2 .. k : j - 1 \in 1 .. k - 1 /\ pos[j] = old[j - 1]
       /\ c + 1 \in 1 .. k
  BY <1>1, <1>8
<1>11. \A j \in 1 .. k : j \in 1 .. c \/ j = c + 1 \/ j \in c + 2 .. k
  BY <1>1, <1>8
<1>12. pos \in [1 .. k -> 1 .. k]
  <2>1. ASSUME NEW j \in 1 .. k PROVE pos[j] \in 1 .. k
    <3>1. \A i \in 1 .. k - 1 : i \in 1 .. k
      BY <1>1
    <3>2. k \in 1 .. k
      BY <1>1
    <3> HIDE DEF pos
    <3>3. QED
      BY <1>2, <1>10, <1>11, <3>1, <3>2
  <2>2. QED
    BY <2>1
<1> HIDE DEF pos
<1>13. \A j \in 1 .. k : u[j] = clean[pos[j]]
  <2>1. u[c + 1] = clean[pos[c + 1]]
    BY <1>9, <1>10 DEF x
  <2>2. \A j \in 1 .. c : u[j] = clean[pos[j]]
    BY <1>2, <1>9, <1>10
  <2>3. ASSUME NEW j \in c + 2 .. k PROVE u[j] = clean[pos[j]]
    <3>1. u[j] = q[j - 1] /\ j - 1 \in 1 .. k - 1 /\ pos[j] = old[j - 1]
      BY <1>9, <1>10
    <3>2. QED
      BY <1>2, <3>1
  <2>4. QED
    BY <1>11, <2>1, <2>2, <2>3
<1>14. ASSUME NEW i \in 1 .. k PROVE \E j \in 1 .. k : pos[j] = i
  <2>1. CASE i = k
    BY <1>10, <2>1
  <2>2. CASE i # k
    <3>1. i \in 1 .. k - 1
      BY <1>1, <2>2
    <3>2. PICK j \in 1 .. k - 1 : old[j] = i
      BY <1>2, <3>1
    <3>3. CASE j <= c
      <4>1. j \in 1 .. c /\ j \in 1 .. k
        BY <1>1, <1>8, <3>3
      <4>2. QED
        BY <1>10, <3>2, <4>1
    <3>4. CASE ~ (j <= c)
      <4>1. j + 1 \in c + 2 .. k /\ j + 1 \in 1 .. k /\ (j + 1) - 1 = j
        BY <1>1, <1>8, <3>4
      <4>2. pos[j + 1] = old[j]
        BY <1>10, <4>1
      <4>3. QED
        BY <3>2, <4>1, <4>2
    <3>5. QED
      BY <3>3, <3>4
  <2>3. QED
    BY <2>1, <2>2
<1>15. ASSUME NEW i \in 1 .. k, NEW j \in 1 .. k, i < j
       PROVE  Sooner(clean, pos[i], pos[j])
  <2>1. CASE i = c + 1
    <3>1. j \in c + 2 .. k
      BY <1>1, <1>8, <1>15, <2>1
    <3>2. j - 1 \in 1 .. k - 1 /\ j - 1 \notin 1 .. c
      BY <1>1, <1>8, <3>1
    <3>3. ~ (q[j - 1].start <= x.start)
      BY <1>2, <1>8, <3>2 DEF before
    <3>4. x.start < q[j - 1].start
      BY <1>4, <1>5, <3>2, <3>3
    <3>5. clean[pos[j]].start = q[j - 1].start /\ clean[pos[i]].start = x.start
      <4>1. pos[j] = old[j - 1] /\ pos[i] = k
        BY <1>10, <2>1, <3>1
      <4>2. q[j - 1] = clean[old[j - 1]]
        BY <1>2, <3>2
      <4>3. QED
        BY <4>1, <4>2 DEF x
    <3>6. QED
      BY <3>4, <3>5 DEF Sooner
  <2>2. CASE j = c + 1
    <3>1. i \in 1 .. c
      BY <1>1, <1>8, <1>15, <2>2
    <3>2. i \in 1 .. k - 1 /\ i \in before
      BY <1>8, <1>10, <3>1
    <3>3. q[i].start <= x.start
      BY <3>2 DEF before
    <3>4. clean[pos[i]].start = q[i].start /\ clean[pos[j]].start = x.start
      BY <1>2, <1>10, <2>2, <3>1 DEF x
    <3>5. pos[i] \in 1 .. k - 1 /\ pos[j] = k
      BY <1>2, <1>10, <2>2, <3>1
    <3>6. pos[i] < pos[j]
      BY <1>1, <3>5
    <3>7. q[i].start < x.start \/ q[i].start = x.start
      BY <1>4, <1>5, <3>2, <3>3
    <3>8. QED
      BY <3>4, <3>6, <3>7 DEF Sooner
  <2>3. CASE i # c + 1 /\ j # c + 1
    <3> DEFINE a == IF i <= c THEN i ELSE i - 1
               b == IF j <= c THEN j ELSE j - 1
    <3>1. a \in 1 .. k - 1 /\ pos[i] = old[a]
      BY <1>1, <1>8, <1>10, <1>11, <2>3
    <3>2. b \in 1 .. k - 1 /\ pos[j] = old[b]
      BY <1>1, <1>8, <1>10, <1>11, <2>3
    <3>3. a < b
      BY <1>1, <1>8, <1>15, <2>3
    <3> HIDE DEF a, b
    <3>4. QED
      BY <1>2, <3>1, <3>2, <3>3
  <2>4. QED
    BY <2>1, <2>2, <2>3
<1>16. SortedPlaces(clean, k, u, pos)
  BY <1>9, <1>12, <1>13, <1>14, <1>15 DEF SortedPlaces
<1>17. QED
  BY <1>16 DEF u, x

\* normalize: sorting puts every segment in its place.
LEMMA SortedIsStable ==
  ASSUME NEW S, NEW clean \in Seq(S), \A i \in 1 .. Len(clean) : clean[i].start \in Int
  PROVE  \E pos : SortedPlaces(clean, Len(clean), Sorted(clean), pos)
<1> DEFINE n == Len(clean)
<1>1. n \in Nat /\ \A k \in 1 .. n : k - 1 \in 0 .. n
  OBVIOUS
<1>2. PICK r \in [0 .. n -> Seq(S)] :
        /\ r[0] = <<>>
        /\ \A k \in 1 .. n : r[k] = InsertByStart(r[k - 1], clean[k])
        /\ Sorted(clean) = r[n]
  BY InsertSteps
<1> DEFINE G == {k \in 0 .. n : \E pos : SortedPlaces(clean, k, r[k], pos)}
<1>3. 0 \in G
  <2>1. Len(r[0]) = 0
    BY <1>2
  <2>2. [j \in 1 .. 0 |-> j] \in [1 .. 0 -> 1 .. 0]
    OBVIOUS
  <2>3. SortedPlaces(clean, 0, r[0], [j \in 1 .. 0 |-> j])
    BY <2>1, <2>2 DEF SortedPlaces
  <2>4. 0 \in 0 .. n
    BY <1>1
  <2>5. QED
    BY <2>3, <2>4
<1>4. ASSUME NEW k \in 1 .. n, k - 1 \in G PROVE k \in G
  <2>1. PICK old : SortedPlaces(clean, k - 1, r[k - 1], old)
    BY <1>4
  <2>2. r[k - 1] \in Seq(S) /\ r[k] = InsertByStart(r[k - 1], clean[k])
    BY <1>1, <1>2
  <2>3. \E pos : SortedPlaces(clean, k, InsertByStart(r[k - 1], clean[k]), pos)
    BY <2>1, <2>2, InsertedPlaces
  <2>4. k \in 0 .. n
    BY <1>1
  <2>5. QED
    BY <2>2, <2>3, <2>4
<1> HIDE DEF G
<1>5. \A k \in 0 .. n : k \in G
  BY <1>1, <1>3, <1>4, Upward
<1>6. n \in G
  BY <1>1, <1>5
<1>7. QED
  BY <1>2, <1>6 DEF G

-----------------------------------------------------------------------------
(* What normalize returns *)

\* preprocess: a cleaned segment has words and a time of its own.
LEMMA CleanedSegment ==
  ASSUME NEW t, IsTranscript(t), NEW i \in 1 .. Len(t)
  PROVE  /\ Cleaned(t[i]).text = CollapseWhitespace(t[i].text)
         /\ SegLen(Cleaned(t[i])) \in Nat
         /\ Cleaned(t[i]).start \in Nat
         /\ Cleaned(t[i]).end \in Nat
         /\ Cleaned(t[i]).start <= Cleaned(t[i]).end
<1> DEFINE seg == t[i]
           start == IF seg.start < 0 THEN 0 ELSE seg.start
<1>1. t[i] \in ToSet(t)
  BY ElementsOfSeq, TranscriptSegments
<1>2. /\ seg = [speaker |-> seg.speaker, start |-> seg.start, end |-> seg.end, text |-> seg.text]
      /\ IsSeq(seg.text) /\ seg.start \in Int /\ seg.end \in Int
  BY <1>1, TranscriptSegments
<1> HIDE DEF seg
<1>3. start \in Nat
  BY <1>2
<1> HIDE DEF start
<1>4. /\ Cleaned(seg).text = CollapseWhitespace(seg.text)
      /\ Cleaned(seg).start = start
      /\ Cleaned(seg).end = IF seg.end < start THEN start ELSE seg.end
  BY <1>2 DEF Cleaned, start
<1>5. Cleaned(seg).end \in Nat /\ start <= Cleaned(seg).end
  BY <1>2, <1>3, <1>4
<1>6. Len(CollapseWhitespace(seg.text)) \in Nat
  BY <1>2, AmongElements DEF CollapseWhitespace, IsSeq
<1>7. QED
  BY <1>3, <1>4, <1>5, <1>6 DEF SegLen, seg

\* The segments of a recording that have words.
WithWords(t) == {i \in DOMAIN t : ToSet(t[i].text) \ {Gap} # {}}

\* The pairs of them that are in order.
Precedes(t) ==
  {p \in WithWords(t) \X WithWords(t) :
     \/ Cleaned(t[p[1]]).start < Cleaned(t[p[2]]).start
     \/ Cleaned(t[p[1]]).start = Cleaned(t[p[2]]).start /\ p[1] < p[2]}

LEMMA PrecedesIsTotal ==
  ASSUME NEW t, IsTranscript(t)
  PROVE  IsFiniteSet(WithWords(t)) /\ TotalOrder(Precedes(t), WithWords(t))
<1> DEFINE n == Len(t)
           S == WithWords(t)
           f == [i \in 1 .. n |-> Cleaned(t[i]).start]
<1>1. n \in Nat /\ DOMAIN t = 1 .. n
  BY ElementsOfSeq, TranscriptSegments DEF IsSeq
<1>2. S \subseteq 1 .. n
  BY <1>1 DEF WithWords
<1>3. IsFiniteSet(S)
  <2>1. IsFiniteSet(1 .. n)
    <3>1. 1 \in Int /\ n \in Int
      BY <1>1
    <3>2. QED
      BY <3>1, FS_Interval
  <2>2. QED
    BY <1>2, <2>1, FS_Subset
<1>4. \A i \in S : f[i] \in Int /\ f[i] = Cleaned(t[i]).start /\ i \in Int
  BY <1>1, <1>2, CleanedSegment
<1>5. \A p : p \in Precedes(t) <=>
              /\ p \in S \X S
              /\ \/ Cleaned(t[p[1]]).start < Cleaned(t[p[2]]).start
                 \/ Cleaned(t[p[1]]).start = Cleaned(t[p[2]]).start /\ p[1] < p[2]
  BY DEF Precedes
<1> HIDE DEF S, f, n
<1>6. \A i, j \in S : <<i, j>> \in Precedes(t) <=> (f[i] < f[j] \/ (f[i] = f[j] /\ i < j))
  BY <1>4, <1>5
<1>7. TotalOrder(Precedes(t), S)
  <2>1. \A x, y \in S : x # y => <<x, y>> \in Precedes(t) \/ <<y, x>> \in Precedes(t)
    BY <1>4, <1>6
  <2>2. \A x \in S : <<x, x>> \notin Precedes(t)
    BY <1>4, <1>6
  <2>3. ASSUME NEW x \in S, NEW y \in S, NEW z \in S,
               <<x, y>> \in Precedes(t), <<y, z>> \in Precedes(t)
        PROVE  <<x, z>> \in Precedes(t)
    BY <1>4, <1>6, <2>3
  <2>4. QED
    BY <2>1, <2>2, <2>3 DEF TotalOrder
<1>8. QED
  BY <1>3, <1>7 DEF S

\* normalize: a segment is kept if it has words.
LEMMA KeptAreSpoken ==
  ASSUME NEW t, IsTranscript(t), NEW i \in 1 .. Len(t)
  PROVE  t[i] \in {seg \in ToSet(t) : CollapseWhitespace(seg.text) # <<>>} <=> i \in WithWords(t)
<1> DEFINE text == t[i].text
           words == CollapseWhitespace(text)
<1>1. t[i] \in ToSet(t) /\ i \in DOMAIN t
  BY ElementsOfSeq, TranscriptSegments
<1>2. IsSeq(text)
  BY <1>1, TranscriptSegments
<1>3. IsSeq(words) /\ ToSet(words) = ToSet(text) \cap (ToSet(text) \ {Gap})
  BY <1>2, AmongElements DEF CollapseWhitespace
<1>4. words = <<>> <=> ToSet(words) = {}
  BY <1>3, ElementsOfSeq
<1>5. words = <<>> <=> ToSet(text) \ {Gap} = {}
  BY <1>3, <1>4
<1> HIDE DEF words
<1>6. QED
  BY <1>1, <1>5 DEF WithWords, words

\* normalize: the segments with words, cleaned, in the order of their starts and
\* for equal starts in that of the recording.
LEMMA NormalizedOrder ==
  ASSUME NEW t, IsTranscript(t)
  PROVE  LET order == Ordered(WithWords(t), Precedes(t))
         IN  /\ order \in [1 .. Len(order) -> 1 .. Len(t)]
             /\ order \in [1 .. Len(order) -> WithWords(t)]
             /\ Len(order) \in Nat
             /\ Normalize(t) = [k \in DOMAIN order |-> Cleaned(t[order[k]])]
<1> DEFINE n == Len(t)
           set == {seg \in ToSet(t) : CollapseWhitespace(seg.text) # <<>>}
           worded == Among(t, set)
           m == Len(worded)
           clean == [i \in DOMAIN worded |-> Cleaned(worded[i])]
           C == {Cleaned(t[i]) : i \in 1 .. n}
           S == WithWords(t)
<1>1. n \in Nat /\ DOMAIN t = 1 .. n /\ IsSeq(t)
  BY ElementsOfSeq, TranscriptSegments DEF IsSeq
<1>2. Normalize(t) = Sorted(clean)
  BY DEF Normalize, Sorted
<1>3. \A i \in 1 .. n : t[i] \in set <=> i \in S
  BY KeptAreSpoken
<1> HIDE DEF set, S
<1>4. m \in Nat /\ DOMAIN worded = 1 .. m
  BY <1>1, AmongElements, ElementsOfSeq DEF IsSeq
<1>5. PICK at \in [1 .. m -> 1 .. n] :
        /\ \A i \in 1 .. m : worded[i] = t[at[i]] /\ t[at[i]] \in set
        /\ \A i, j \in 1 .. m : i < j => at[i] < at[j]
        /\ \A k \in 1 .. n : t[k] \in set => \E i \in 1 .. m : at[i] = k
  <2>1. PICK at : KeptAt(at, worded, t, set)
    BY <1>1, AmongPlaces
  <2>2. QED
    BY <2>1, Zenon DEF KeptAt
<1> HIDE DEF worded, m, n
<1>6. /\ clean \in Seq(C) /\ Len(clean) = m
      /\ \A i \in 1 .. m : clean[i] = Cleaned(t[at[i]])
  <2>1. \A i \in 1 .. m : clean[i] = Cleaned(t[at[i]])
    BY <1>4, <1>5
  <2>2. clean \in [1 .. m -> C]
    BY <1>4, <1>5, <2>1
  <2> HIDE DEF clean, C
  <2>3. clean \in Seq(C) /\ Len(clean) = m
    BY <1>4, <2>2
  <2>4. QED
    BY <2>1, <2>3
<1> HIDE DEF clean, C
<1>7. \A i \in 1 .. m : clean[i].start \in Int
  <2>1. \A i \in 1 .. n : Cleaned(t[i]).start \in Int
    BY CleanedSegment DEF n
  <2>2. QED
    BY <1>5, <1>6, <2>1
<1>8. PICK pos : SortedPlaces(clean, m, Sorted(clean), pos)
  BY <1>6, <1>7, SortedIsStable
<1>9. /\ pos \in [1 .. m -> 1 .. m]
      /\ Len(Sorted(clean)) = m
      /\ \A j \in 1 .. m : Sorted(clean)[j] = clean[pos[j]]
      /\ \A i \in 1 .. m : \E j \in 1 .. m : pos[j] = i
      /\ \A i, j \in 1 .. m : i < j => Sooner(clean, pos[i], pos[j])
  BY <1>8, Zenon DEF SortedPlaces
<1> DEFINE e == [j \in 1 .. m |-> at[pos[j]]]
<1>10. \A j \in 1 .. m : pos[j] \in 1 .. m /\ e[j] = at[pos[j]] /\ e[j] \in 1 .. n /\ e[j] \in S
  <2>1. \A i \in 1 .. m : at[i] \in 1 .. n /\ at[i] \in S
    BY <1>3, <1>5
  <2>2. QED
    BY <1>9, <2>1
<1>11. e \in [1 .. m -> S] /\ e \in [1 .. m -> 1 .. n]
  BY <1>10
<1>12. ASSUME NEW x \in S PROVE \E j \in 1 .. m : e[j] = x
  <2>1. x \in 1 .. n
    BY <1>1 DEF S, WithWords
  <2>2. PICK i \in 1 .. m : at[i] = x
    BY <1>3, <1>5, <2>1
  <2>3. PICK j \in 1 .. m : pos[j] = i
    BY <1>9
  <2>4. QED
    BY <1>10, <2>2, <2>3
<1> HIDE DEF e
<1>13. ASSUME NEW i \in 1 .. m, NEW j \in 1 .. m, i < j
       PROVE  <<e[i], e[j]>> \in Precedes(t)
  <2> DEFINE a == e[i]
             b == e[j]
  <2>1. Sooner(clean, pos[i], pos[j])
    BY <1>9, <1>13
  <2>2. /\ clean[pos[i]].start = Cleaned(t[a]).start
        /\ clean[pos[j]].start = Cleaned(t[b]).start
    BY <1>6, <1>10
  <2>3. pos[i] < pos[j] => a < b
    BY <1>5, <1>10
  <2>4. a \in S /\ b \in S
    BY <1>10
  <2> HIDE DEF a, b
  <2>5. \/ Cleaned(t[a]).start < Cleaned(t[b]).start
        \/ Cleaned(t[a]).start = Cleaned(t[b]).start /\ a < b
    BY <2>1, <2>2, <2>3 DEF Sooner
  <2>6. <<a, b>> \in Precedes(t)
    BY <2>4, <2>5 DEF Precedes, S
  <2>7. QED
    BY <2>6 DEF a, b
<1>14. Ordered(S, Precedes(t)) = e
  <2>1. IsFiniteSet(S) /\ TotalOrder(Precedes(t), S)
    BY PrecedesIsTotal DEF S
  <2>2. \A x \in S : \E j \in 1 .. m : e[j] = x
    BY <1>12
  <2>3. \A i, j \in 1 .. m : i < j => <<e[i], e[j]>> \in Precedes(t)
    BY <1>13
  <2> HIDE DEF S
  <2>4. Lists(e, m, S, Precedes(t))
    BY <1>4, <1>11, <2>1, <2>2, <2>3 DEF Lists
  <2>5. QED
    BY <2>4, OrderedOnce
<1>15. Len(e) = m /\ DOMAIN e = 1 .. m
  BY <1>4, <1>11
<1>16. Sorted(clean) = [k \in 1 .. m |-> Cleaned(t[e[k]])]
  <2>1. \A k \in 1 .. m : Sorted(clean)[k] = Cleaned(t[e[k]])
    BY <1>6, <1>9, <1>10
  <2>2. Sorted(clean) \in Seq(C)
    BY <1>6, InsertSteps
  <2>3. Sorted(clean) = [k \in 1 .. m |-> Sorted(clean)[k]]
    BY <1>9, <2>2
  <2>4. [k \in 1 .. m |-> Sorted(clean)[k]] = [k \in 1 .. m |-> Cleaned(t[e[k]])]
    BY <2>1
  <2>5. QED
    BY <2>3, <2>4
<1>17. QED
  BY <1>2, <1>4, <1>11, <1>14, <1>15, <1>16 DEF S, n

-----------------------------------------------------------------------------
(* The chunks of a transcript *)

SegLens(segs) == FoldLeft(LAMBDA n, s : n + SegLen(s), 0, segs)

\* w counts the characters from the start of the transcript.
Weighs(w, segs) ==
  /\ w \in [0 .. Len(segs) -> Nat]
  /\ w[0] = 0
  /\ \A k \in 1 .. Len(segs) : w[k] = w[k - 1] + SegLen(segs[k])

\* Segments with words.
Worded(segs) == \A k \in 1 .. Len(segs) : SegLen(segs[k]) \in Nat /\ SegLen(segs[k]) >= 2

\* The characters of a transcript, counted segment by segment.
LEMMA WeighSteps ==
  ASSUME NEW S, NEW s \in Seq(S), Worded(s)
  PROVE  \E r : Weighs(r, s) /\ SegLens(s) = r[Len(s)]
<1> DEFINE n == Len(s)
           X == Nat
           h == [x \in X |-> [k \in 1 .. n |-> x + SegLen(s[k])]]
           Is(f) == f = [p \in SUBSET (DOMAIN s) |->
                           IF p = {} THEN 0 ELSE f[p \ {Max(p)}] + SegLen(s[Max(p)])]
           f == CHOOSE f : Is(f)
<1>1. SegLens(s) = f[DOMAIN s]
  BY Zenon DEF SegLens, FoldLeft, MapThenFoldSet
<1>2. n \in Nat /\ DOMAIN s = 1 .. n /\ 0 \in X
  OBVIOUS
<1>3. ASSUME NEW x \in X, NEW k \in 1 .. n PROVE x + SegLen(s[k]) \in X
  <2>1. SegLen(s[k]) \in Nat
    BY DEF Worded
  <2>2. QED
    BY <2>1
<1> HIDE DEF n, X
<1>4. /\ h \in [X -> [1 .. n -> X]]
      /\ \A x \in X, k \in 1 .. n : h[x][k] = x + SegLen(s[k])
  BY <1>3
<1> HIDE DEF h
<1>5. Is(f)
  <2>1. PICK g : Folded(g, X, 0, n, h)
    BY <1>2, <1>4, Folds
  <2>2. /\ g \in [SUBSET (1 .. n) -> X]
        /\ \A p \in SUBSET (1 .. n) :
             g[p] = IF p = {} THEN 0 ELSE h[g[p \ {Max(p)}]][Max(p)]
    BY <2>1 DEF Folded
  <2>3. ASSUME NEW p \in SUBSET (1 .. n)
        PROVE  g[p] = IF p = {} THEN 0 ELSE g[p \ {Max(p)}] + SegLen(s[Max(p)])
    <3>1. CASE p = {}
      BY <2>2, <3>1
    <3>2. CASE p # {}
      <4>1. Max(p) \in 1 .. n /\ g[p \ {Max(p)}] \in X
        BY <1>2, <2>2, <3>2, Greatest
      <4>2. QED
        BY <1>4, <2>2, <3>2, <4>1
    <3>3. QED
      BY <3>1, <3>2
  <2>4. Is(g)
    BY <1>2, <2>2, <2>3
  <2> HIDE DEF Is
  <2>5. QED
    BY <2>4
<1>6. Iterates(f, X, 0, n, h)
  <2>1. ASSUME NEW p \in SUBSET (1 .. n)
        PROVE  f[p] = IF p = {} THEN 0 ELSE f[p \ {Max(p)}] + SegLen(s[Max(p)])
    BY <1>2, <1>5
  <2> HIDE DEF f
  <2>2. ASSUME NEW p \in SUBSET (1 .. n), p # {}, f[p \ {Max(p)}] \in X
        PROVE  f[p] = h[f[p \ {Max(p)}]][Max(p)]
    <3>1. Max(p) \in 1 .. n
      BY <1>2, <2>2, Greatest
    <3>2. QED
      BY <1>4, <2>1, <2>2, <3>1
  <2>3. QED
    BY <2>1, <2>2 DEF Iterates
<1> HIDE DEF f
<1>7. PICK r : Climbs(f, r, X, 0, n, h)
  <2>1. 0 \in X /\ n \in Nat /\ h \in [X -> [1 .. n -> X]]
    BY <1>2, <1>4
  <2>2. QED
    BY <1>6, <2>1, FoldGoesUp
<1>8. ASSUME NEW k \in 1 .. n PROVE r[k] = r[k - 1] + SegLen(s[k])
  <2>1. r[k - 1] \in X /\ r[k] = h[r[k - 1]][k]
    BY <1>2, <1>7 DEF Climbs, Unrolled
  <2>2. QED
    BY <1>4, <2>1
<1>9. r \in [0 .. n -> X] /\ r[0] = 0
  BY <1>7 DEF Climbs, Unrolled
<1>10. QED
  BY <1>1, <1>2, <1>7, <1>8, <1>9 DEF n, X, Climbs, Weighs

\* The characters of some segments are those before the end less those before the start.
LEMMA WeighedBetween ==
  ASSUME NEW S, NEW segs \in Seq(S), Worded(segs), NEW r, Weighs(r, segs),
         NEW from \in 1 .. Len(segs) + 1, NEW to \in from - 1 .. Len(segs)
  PROVE  SegLens(SubSeq(segs, from, to)) = r[to] - r[from - 1]
<1> DEFINE s == SubSeq(segs, from, to)
           n == to - from + 1
<1>1. s \in Seq(S)
  OBVIOUS
<1>2. n \in Nat /\ Len(s) = n /\ Len(segs) \in Nat
  OBVIOUS
<1>3. \A k \in 1 .. n : s[k] = segs[from - 1 + k]
  OBVIOUS
<1>4. Worded(s)
  <2>1. \A k \in 1 .. n : from - 1 + k \in 1 .. Len(segs)
    BY <1>2
  <2> HIDE DEF s, n
  <2>2. QED
    BY <1>2, <1>3, <2>1 DEF Worded
<1> HIDE DEF s
<1>5. PICK q : Weighs(q, s) /\ SegLens(s) = q[Len(s)]
  BY <1>1, <1>4, WeighSteps
<1>6. q \in [0 .. n -> Nat] /\ q[0] = 0 /\ SegLens(s) = q[n]
      /\ \A k \in 1 .. n : q[k] = q[k - 1] + SegLen(s[k])
  BY <1>2, <1>5 DEF Weighs
<1>7. r \in [0 .. Len(segs) -> Nat]
      /\ \A k \in 1 .. Len(segs) : r[k] = r[k - 1] + SegLen(segs[k])
  BY DEF Weighs
<1> DEFINE G == {k \in 0 .. n : q[k] = r[from - 1 + k] - r[from - 1]}
<1>8. 0 \in G
  <2>1. from - 1 + 0 = from - 1 /\ r[from - 1] \in Nat
    <3>1. from - 1 \in 0 .. Len(segs) /\ from - 1 + 0 = from - 1
      BY <1>2
    <3>2. QED
      BY <1>7, <3>1
  <2>2. q[0] = r[from - 1 + 0] - r[from - 1]
    BY <1>6, <2>1
  <2>3. 0 \in 0 .. n
    BY <1>2
  <2>4. QED
    BY <2>2, <2>3
<1>9. ASSUME NEW k \in 1 .. n, k - 1 \in G PROVE k \in G
  <2>1. from - 1 + k \in 1 .. Len(segs) /\ from - 1 \in 0 .. Len(segs)
        /\ from - 1 + (k - 1) \in 0 .. Len(segs)
        /\ from - 1 + (k - 1) = (from - 1 + k) - 1
    BY <1>2
  <2>2. q[k - 1] = r[(from - 1 + k) - 1] - r[from - 1]
    BY <1>9, <2>1
  <2>3. q[k] = q[k - 1] + SegLen(segs[from - 1 + k])
    BY <1>3, <1>6
  <2>4. r[from - 1 + k] = r[(from - 1 + k) - 1] + SegLen(segs[from - 1 + k])
    BY <1>7, <2>1
  <2>5. SegLen(segs[from - 1 + k]) \in Nat
    BY <2>1 DEF Worded
  <2>6. r[(from - 1 + k) - 1] \in Nat /\ r[from - 1] \in Nat
    BY <1>7, <2>1
  <2> DEFINE before == r[(from - 1 + k) - 1]
             base == r[from - 1]
             size == SegLen(segs[from - 1 + k])
  <2>7. q[k] = r[from - 1 + k] - r[from - 1]
    <3>1. q[k] = q[k - 1] + size /\ q[k - 1] = before - base /\ r[from - 1 + k] = before + size
      BY <2>2, <2>3, <2>4, Zenon
    <3>2. before \in Nat /\ base \in Nat /\ size \in Nat
      BY <2>5, <2>6
    <3>3. r[from - 1] = base
      OBVIOUS
    <3> HIDE DEF before, base, size
    <3>4. (before - base) + size = (before + size) - base
      BY <3>2
    <3>5. QED
      BY <3>1, <3>3, <3>4, Zenon
  <2>8. QED
    BY <2>7
<1> HIDE DEF G, n
<1>10. \A k \in 0 .. n : k \in G
  BY <1>2, <1>8, <1>9, Upward
<1>11. n \in G
  BY <1>2, <1>10
<1>12. SegLens(s) = r[from - 1 + n] - r[from - 1]
  BY <1>6, <1>11 DEF G
<1>13. from - 1 + n = to
  BY DEF n
<1>14. QED
  BY <1>12, <1>13 DEF s

\* The range holds no more than the budget, or one segment.
Fits(w, range) == w[range[2]] - w[range[1] - 1] <= MaxChars \/ range[1] = range[2]

\* A range and the segment that follows it.
Bursts(w, range) == w[range[2] + 1] - w[range[1] - 1] > MaxChars

\* q cuts the first k segments into ranges one after the other, as long as they may be.
Tiled(w, q, k) ==
  /\ q \in Seq(Nat \X Nat)
  /\ Len(q) >= 1
  /\ q[Len(q)][2] = k
  /\ \A i \in 1 .. Len(q) :
       /\ 1 <= q[i][1] /\ q[i][1] <= q[i][2] /\ q[i][2] <= k
       /\ q[i][1] = IF i = 1 THEN 1 ELSE q[i - 1][2] + 1
       /\ Fits(w, q[i])
       /\ i < Len(q) => Bursts(w, q[i])

\* The first segment is the first range.
LEMMA FirstRange ==
  ASSUME NEW w
  PROVE  Tiled(w, << <<1, 1>> >>, 1)
<1> DEFINE q == << <<1, 1>> >>
<1>1. <<1, 1>> \in Nat \X Nat /\ <<1, 1>>[1] = 1 /\ <<1, 1>>[2] = 1
  OBVIOUS
<1>2. q \in Seq(Nat \X Nat) /\ Len(q) = 1 /\ q[1] = <<1, 1>>
  BY <1>1
<1> HIDE DEF q
<1>3. \A i \in 1 .. Len(q) : i = 1 /\ q[i] = <<1, 1>>
  BY <1>2
<1>4. \A i \in 1 .. Len(q) :
        /\ 1 <= q[i][1] /\ q[i][1] <= q[i][2] /\ q[i][2] <= 1
        /\ q[i][1] = IF i = 1 THEN 1 ELSE q[i - 1][2] + 1
        /\ Fits(w, q[i])
        /\ i < Len(q) => Bursts(w, q[i])
  <2>1. Fits(w, <<1, 1>>)
    BY <1>1 DEF Fits
  <2>2. SUFFICES ASSUME NEW i \in 1 .. Len(q)
                 PROVE  /\ 1 <= q[i][1] /\ q[i][1] <= q[i][2] /\ q[i][2] <= 1
                        /\ q[i][1] = IF i = 1 THEN 1 ELSE q[i - 1][2] + 1
                        /\ Fits(w, q[i])
                        /\ i < Len(q) => Bursts(w, q[i])
    OBVIOUS
  <2>3. i = 1 /\ q[i] = <<1, 1>> /\ q[i][1] = 1 /\ q[i][2] = 1 /\ ~ (i < Len(q))
    BY <1>1, <1>2, <1>3
  <2>4. Fits(w, q[i])
    BY <2>1, <2>3
  <2>5. QED
    BY <2>3, <2>4
<1>5. q[Len(q)][2] = 1 /\ Len(q) >= 1
  BY <1>1, <1>2
<1>6. Tiled(w, q, 1)
  BY <1>2, <1>4, <1>5 DEF Tiled
<1>7. QED
  BY <1>6 DEF q

\* The segment that does not fit begins a range.
LEMMA AnotherRange ==
  ASSUME NEW w, NEW q, NEW k \in Nat, Tiled(w, q, k), Bursts(w, q[Len(q)])
  PROVE  Tiled(w, Append(q, <<k + 1, k + 1>>), k + 1)
<1> DEFINE m == Len(q)
           e == <<k + 1, k + 1>>
           u == Append(q, e)
<1>1. /\ q \in Seq(Nat \X Nat) /\ m \in Nat /\ m >= 1 /\ q[m][2] = k
      /\ \A i \in 1 .. m : q[i] \in Nat \X Nat /\ q[i][1] \in Nat /\ q[i][2] \in Nat
  BY DEF Tiled
<1>2. \A i \in 1 .. m :
        /\ 1 <= q[i][1] /\ q[i][1] <= q[i][2] /\ q[i][2] <= k
        /\ q[i][1] = IF i = 1 THEN 1 ELSE q[i - 1][2] + 1
        /\ Fits(w, q[i])
        /\ i < m => Bursts(w, q[i])
  BY Zenon DEF Tiled
<1>3. e \in Nat \X Nat /\ e[1] = k + 1 /\ e[2] = k + 1
  OBVIOUS
<1>4. Bursts(w, q[m])
  OBVIOUS
<1> HIDE DEF e, m
<1>5. /\ u \in Seq(Nat \X Nat) /\ Len(u) = m + 1
      /\ \A i \in 1 .. m : u[i] = q[i]
      /\ u[m + 1] = e
  BY <1>1, <1>3 DEF m
<1> HIDE DEF u
<1>6. ASSUME NEW i \in 1 .. m + 1
      PROVE  /\ 1 <= u[i][1] /\ u[i][1] <= u[i][2] /\ u[i][2] <= k + 1
             /\ u[i][1] = IF i = 1 THEN 1 ELSE u[i - 1][2] + 1
             /\ Fits(w, u[i])
             /\ i < m + 1 => Bursts(w, u[i])
  <2>1. CASE i = m + 1
    <3>1. u[i] = e /\ u[i - 1] = q[m] /\ i # 1 /\ ~ (i < m + 1)
      BY <1>1, <1>5, <2>1
    <3>2. Fits(w, e)
      BY <1>3 DEF Fits
    <3>3. u[i][1] = u[i - 1][2] + 1
      BY <1>1, <1>3, <3>1
    <3>4. 1 <= e[1] /\ e[1] <= e[2] /\ e[2] <= k + 1
      BY <1>3
    <3>5. QED
      BY <3>1, <3>2, <3>3, <3>4
  <2>2. CASE i \in 1 .. m
    <3>1. u[i] = q[i] /\ (i # 1 => u[i - 1] = q[i - 1])
      <4>1. i # 1 => i - 1 \in 1 .. m
        BY <1>1, <2>2
      <4>2. QED
        BY <1>5, <2>2, <4>1
    <3>2. Bursts(w, q[i])
      <4>1. i = m \/ i < m
        BY <1>1, <2>2
      <4>2. QED
        BY <1>2, <1>4, <2>2, <4>1
    <3>3. q[i][2] <= k + 1
      <4>1. q[i][2] \in Nat /\ q[i][2] <= k
        BY <1>1, <1>2, <2>2
      <4>2. QED
        BY <4>1
    <3>4. u[i][1] = IF i = 1 THEN 1 ELSE u[i - 1][2] + 1
      BY <1>2, <2>2, <3>1
    <3>5. QED
      BY <1>2, <2>2, <3>1, <3>2, <3>3, <3>4
  <2>3. QED
    BY <1>1, <2>1, <2>2
<1>7. Len(u) >= 1 /\ u[Len(u)][2] = k + 1
  BY <1>1, <1>3, <1>5
<1>8. Tiled(w, u, k + 1)
  BY <1>5, <1>6, <1>7 DEF Tiled
<1>9. QED
  BY <1>8 DEF u, e

\* The segment that fits makes the last range longer.
LEMMA LongerRange ==
  ASSUME NEW w, NEW done \in Seq(Nat \X Nat), NEW from \in Nat, NEW k \in Nat,
         Tiled(w, Append(done, <<from, k>>), k), Fits(w, <<from, k + 1>>)
  PROVE  Tiled(w, Append(done, <<from, k + 1>>), k + 1)
<1> DEFINE m == Len(done)
           d == <<from, k>>
           e == <<from, k + 1>>
           q == Append(done, d)
           u == Append(done, e)
<1>1. m \in Nat
  OBVIOUS
<1>2. /\ d \in Nat \X Nat /\ d[1] = from /\ d[2] = k
      /\ e \in Nat \X Nat /\ e[1] = from /\ e[2] = k + 1
  OBVIOUS
<1>3. Fits(w, e)
  OBVIOUS
<1> HIDE DEF d, e, m
<1>4. /\ q \in Seq(Nat \X Nat) /\ Len(q) = m + 1
      /\ \A i \in 1 .. m : q[i] = done[i]
      /\ q[m + 1] = d
  BY <1>1, <1>2 DEF m
<1>5. /\ u \in Seq(Nat \X Nat) /\ Len(u) = m + 1
      /\ \A i \in 1 .. m : u[i] = done[i]
      /\ u[m + 1] = e
  BY <1>1, <1>2 DEF m
<1>6. Tiled(w, q, k)
  BY DEF d
<1> HIDE DEF q, u
<1>7. \A i \in 1 .. m + 1 :
        /\ 1 <= q[i][1] /\ q[i][1] <= q[i][2] /\ q[i][2] <= k
        /\ q[i][1] = IF i = 1 THEN 1 ELSE q[i - 1][2] + 1
        /\ Fits(w, q[i])
        /\ i < m + 1 => Bursts(w, q[i])
  BY <1>4, <1>6 DEF Tiled
<1>8. \A i \in 1 .. m : u[i] = q[i]
  BY <1>4, <1>5
<1>9. m + 1 \in 1 .. m + 1
  BY <1>1
<1>10. ASSUME NEW i \in 1 .. m + 1
       PROVE  /\ 1 <= u[i][1] /\ u[i][1] <= u[i][2] /\ u[i][2] <= k + 1
              /\ u[i][1] = IF i = 1 THEN 1 ELSE u[i - 1][2] + 1
              /\ Fits(w, u[i])
              /\ i < m + 1 => Bursts(w, u[i])
  <2>1. i # 1 => i - 1 \in 1 .. m /\ u[i - 1] = q[i - 1]
    BY <1>1, <1>8
  <2>2. CASE i = m + 1
    <3>1. u[i] = e /\ q[i] = d /\ ~ (i < m + 1)
      BY <1>1, <1>4, <1>5, <2>2
    <3>2. 1 <= from /\ from <= k
      BY <1>2, <1>7, <3>1
    <3>3. 1 <= e[1] /\ e[1] <= e[2] /\ e[2] <= k + 1
      BY <1>2, <3>2
    <3>4. q[i][1] = u[i][1]
      BY <1>2, <3>1
    <3>5. u[i][1] = IF i = 1 THEN 1 ELSE u[i - 1][2] + 1
      BY <1>7, <2>1, <3>4
    <3>6. QED
      BY <1>3, <3>1, <3>3, <3>5
  <2>3. CASE i \in 1 .. m
    <3>1. u[i] = q[i] /\ i < m + 1
      BY <1>1, <1>8, <2>3
    <3>2. q[i][2] <= k + 1
      <4>1. q[i][2] <= k /\ q[i] \in Nat \X Nat
        BY <1>4, <1>7
      <4>2. q[i][2] \in Nat
        BY <4>1
      <4>3. QED
        BY <4>1, <4>2
    <3>3. u[i][1] = IF i = 1 THEN 1 ELSE u[i - 1][2] + 1
      BY <1>7, <2>1, <3>1
    <3>4. QED
      BY <1>7, <3>1, <3>2, <3>3
  <2>4. QED
    BY <1>1, <2>2, <2>3
<1>11. Len(u) >= 1 /\ u[Len(u)][2] = k + 1
  BY <1>1, <1>2, <1>5
<1>12. Tiled(w, u, k + 1)
  BY <1>5, <1>10, <1>11 DEF Tiled
<1>13. QED
  BY <1>12 DEF u, e

\* chunk_segments: the ranges cut the transcript.
LEMMA RangesTile ==
  ASSUME NEW S, NEW segs \in Seq(S), segs # <<>>, Worded(segs), NEW w, Weighs(w, segs)
  PROVE  Tiled(w, Ranges(segs), Len(segs))
<1> DEFINE n == Len(segs)
           X == [done : Seq((1 .. n) \X (0 .. n)), from : 1 .. n, len : Nat]
           budget == IF MaxChars < 1 THEN 1 ELSE MaxChars
           base == [done |-> <<>>, from |-> 1, len |-> 0]
<1>1. n \in Nat /\ n >= 1 /\ IsSeq(segs)
  BY SeqIsSeq
<1>2. \A k \in 1 .. n : SegLen(segs[k]) \in Nat /\ SegLen(segs[k]) >= 2
  BY DEF Worded
<1>3. /\ w \in [0 .. n -> Nat] /\ w[0] = 0
      /\ \A k \in 1 .. n : w[k] = w[k - 1] + SegLen(segs[k])
  BY DEF Weighs
<1>4. PICK r \in [0 .. n -> X] :
        /\ r[0] = base
        /\ \A k \in 1 .. n : r[k] = Grown(segs, r[k - 1], k)
        /\ LastGrown(segs) = r[n]
  BY <1>1, <1>2, GrowthSteps
<1>5. budget \in Nat /\ budget >= MaxChars /\ MaxChars \in Nat /\ (budget >= 2 => budget = MaxChars)
  BY MaxCharsAssumption
<1>6. \A acc, i : Grown(segs, acc, i) =
        IF i # acc.from /\ acc.len + SegLen(segs[i]) > budget
        THEN [done |-> Append(acc.done, <<acc.from, i - 1>>), from |-> i, len |-> SegLen(segs[i])]
        ELSE [acc EXCEPT !.len = @ + SegLen(segs[i])]
  BY DEF Grown
<1>7. \A k \in 1 .. n : k - 1 \in 0 .. n /\ k \in 0 .. n
  BY <1>1
<1> DEFINE Good(k) == /\ r[k].from <= k
                      /\ r[k].len = w[k] - w[r[k].from - 1]
                      /\ r[k].done \in Seq(Nat \X Nat)
                      /\ Tiled(w, Append(r[k].done, <<r[k].from, k>>), k)
           G == {0} \cup {k \in 1 .. n : Good(k)}
<1> HIDE DEF n, budget
<1>8. 1 \in G
  <2>1. 1 \in 1 .. n /\ 1 - 1 = 0
    BY <1>1
  <2>2. r[1] = Grown(segs, base, 1)
    BY <1>4, <2>1
  <2>3. Grown(segs, base, 1) = [base EXCEPT !.len = @ + SegLen(segs[1])]
    BY <1>6
  <2>4. SegLen(segs[1]) \in Nat
    BY <1>2, <2>1
  <2>5. r[1].done = <<>> /\ r[1].from = 1 /\ r[1].len = SegLen(segs[1])
    BY <2>2, <2>3, <2>4
  <2>6. w[1] = SegLen(segs[1]) /\ w[0] = 0
    BY <1>3, <2>1, <2>4
  <2>7. r[1].len = w[1] - w[r[1].from - 1]
    BY <2>1, <2>4, <2>5, <2>6
  <2>8. Append(<<>>, <<1, 1>>) = << <<1, 1>> >>
    OBVIOUS
  <2>9. Tiled(w, Append(r[1].done, <<r[1].from, 1>>), 1)
    BY <2>5, <2>8, FirstRange
  <2>10. r[1].done \in Seq(Nat \X Nat) /\ r[1].from <= 1
    BY <2>5
  <2>11. Good(1)
    BY <2>7, <2>9, <2>10
  <2> HIDE DEF Good
  <2>12. QED
    BY <2>1, <2>11
<1>9. ASSUME NEW k \in 1 .. n, k - 1 \in G PROVE k \in G
  <2>1. CASE k = 1
    BY <1>8, <2>1
  <2>2. CASE k # 1
    <3> DEFINE j == k - 1
               acc == r[j]
               done == acc.done
               from == acc.from
               size == SegLen(segs[k])
               u == Append(done, <<from, j>>)
    <3>1. k \in Nat /\ j \in 1 .. n /\ j \in Nat /\ j \in 0 .. n /\ k = j + 1 /\ from - 1 \in 0 .. n
      <4>1. k \in Nat /\ j \in 1 .. n /\ j \in Nat /\ j \in 0 .. n /\ k = j + 1
        BY <1>1, <2>2
      <4>2. from \in 1 .. n
        BY <1>4, <4>1
      <4> HIDE DEF from, j
      <4>3. from - 1 \in 0 .. n
        BY <1>1, <4>2
      <4>4. QED
        BY <4>1, <4>3
    <3>2. Good(j)
      BY <1>9, <3>1
    <3>3. /\ acc = [done |-> done, from |-> from, len |-> acc.len]
          /\ from \in 1 .. n /\ acc.len \in Nat
      BY <1>4, <3>1
    <3>4. /\ from <= j /\ acc.len = w[j] - w[from - 1]
          /\ done \in Seq(Nat \X Nat) /\ Tiled(w, u, j)
      BY <3>2
    <3>5. r[k] = Grown(segs, acc, k)
      BY <1>4
    <3>6. size \in Nat /\ size >= 2
      BY <1>2
    <3>7. w[k] = w[j] + size
      BY <1>3
    <3>8. w[j] \in Nat /\ w[from - 1] \in Nat /\ w[k] \in Nat
      BY <1>3, <1>7, <3>1
    <3>9. from \in Nat /\ from # k
      <4>1. from \in 1 .. n /\ from <= j /\ j < k /\ j \in Nat
        BY <3>1, <3>3, <3>4
      <4> HIDE DEF from, j
      <4>2. QED
        BY <1>1, <4>1
    <3> HIDE DEF acc, done, from, Good
    <3>10. k # acc.from
      BY <3>9 DEF from
    <3>11. acc.len + size = w[k] - w[from - 1]
      <4> DEFINE a == w[j]
                 b == w[from - 1]
      <4>1. acc.len = a - b /\ w[k] = a + size /\ a \in Nat /\ b \in Nat
        BY <3>4, <3>7, <3>8
      <4>2. w[k] - w[from - 1] = (a + size) - b
        BY <4>1
      <4> HIDE DEF a, b
      <4>3. (a - b) + size = (a + size) - b
        BY <3>6, <4>1
      <4>4. QED
        BY <4>1, <4>2, <4>3, Zenon
    <3> HIDE DEF u, j, size
    <3>12. u \in Seq(Nat \X Nat) /\ Len(u) >= 1 /\ u[Len(u)] = <<from, j>>
      BY <3>1, <3>4, <3>9 DEF u
    <3>13. CASE acc.len + size > budget
      <4>1. r[k] = [done |-> u, from |-> k, len |-> size]
        <5>1. k - 1 = j
          BY DEF j
        <5>2. Append(acc.done, <<acc.from, k - 1>>) = u
          BY <5>1 DEF u, done, from
        <5>3. QED
          BY <1>6, <3>5, <3>10, <3>13, <5>2 DEF size
      <4>2. r[k].done = u /\ r[k].from = k /\ r[k].len = size
        BY <4>1
      <4>3. Bursts(w, u[Len(u)])
        <5>1. u[Len(u)][1] = from /\ u[Len(u)][2] = j
          BY <3>12
        <5>2. w[k] - w[from - 1] > MaxChars
          <6>1. acc.len + size > MaxChars
            BY <1>5, <3>3, <3>6, <3>13
          <6>2. QED
            BY <3>11, <6>1
        <5>3. w[u[Len(u)][2] + 1] - w[u[Len(u)][1] - 1] = w[k] - w[from - 1]
          BY <3>1, <5>1
        <5>4. QED
          BY <5>2, <5>3 DEF Bursts
      <4>4. Tiled(w, Append(u, <<j + 1, j + 1>>), j + 1)
        BY <3>1, <3>4, <4>3, AnotherRange
      <4>5. Tiled(w, Append(u, <<k, k>>), k)
        BY <3>1, <4>4
      <4>6. size = w[k] - w[k - 1]
        <5>1. k - 1 = j
          BY DEF j
        <5>2. w[k] - w[j] = size
          BY <3>6, <3>7, <3>8
        <5>3. QED
          BY <5>1, <5>2
      <4>7. Good(k)
        BY <3>1, <3>12, <4>2, <4>5, <4>6 DEF Good
      <4>8. QED
        BY <4>7
    <3>14. CASE ~ (acc.len + size > budget)
      <4>1. r[k] = [acc EXCEPT !.len = @ + size]
        BY <1>6, <3>5, <3>14 DEF size
      <4>2. r[k].done = done /\ r[k].from = from /\ r[k].len = acc.len + size
        BY <3>3, <4>1
      <4>3. acc.len + size <= MaxChars
        BY <1>5, <3>3, <3>6, <3>14
      <4>4. Fits(w, <<from, j + 1>>)
        <5>1. w[k] - w[from - 1] <= MaxChars
          BY <3>11, <4>3
        <5>2. <<from, j + 1>>[1] = from /\ <<from, j + 1>>[2] = k
          BY <3>1
        <5>3. w[<<from, j + 1>>[2]] - w[<<from, j + 1>>[1] - 1] = w[k] - w[from - 1]
          BY <5>2
        <5>4. QED
          BY <5>1, <5>3 DEF Fits
      <4>5. Tiled(w, Append(done, <<from, j + 1>>), j + 1)
        <5>1. Tiled(w, Append(done, <<from, j>>), j)
          BY <3>4 DEF u
        <5>2. QED
          BY <3>1, <3>4, <3>9, <4>4, <5>1, LongerRange
      <4>6. Tiled(w, Append(done, <<from, k>>), k)
        BY <3>1, <4>5
      <4>7. from <= k
        BY <3>1, <3>4, <3>9
      <4>8. Good(k)
        BY <3>4, <3>11, <4>2, <4>6, <4>7 DEF Good
      <4>9. QED
        BY <4>8
    <3>15. QED
      BY <3>13, <3>14
  <2>3. QED
    BY <2>1, <2>2
<1> HIDE DEF G, Good
<1>10. Good(n)
  <2>1. 0 \in G
    BY DEF G
  <2>2. \A k \in 0 .. n : k \in G
    BY <1>1, <1>9, <2>1, Upward
  <2>3. n \in G /\ n # 0
    BY <1>1, <2>2
  <2>4. QED
    BY <2>3 DEF G
<1>11. Ranges(segs) = Append(LastGrown(segs).done, <<LastGrown(segs).from, n>>)
  BY DEF Ranges, LastGrown, Grown, n
<1>12. QED
  BY <1>4, <1>10, <1>11 DEF Good, n

\* Two slices that meet are one.
LEMMA SlicesMeet ==
  ASSUME NEW S, NEW segs \in Seq(S), NEW b \in 0 .. Len(segs), NEW c \in b .. Len(segs)
  PROVE  SubSeq(segs, 1, b) \o SubSeq(segs, b + 1, c) = SubSeq(segs, 1, c)
<1> DEFINE u == SubSeq(segs, 1, b)
           v == SubSeq(segs, b + 1, c)
           s == SubSeq(segs, 1, c)
<1>1. b \in Nat /\ c \in Nat /\ b <= c /\ c <= Len(segs) /\ Len(segs) \in Nat
  OBVIOUS
<1>2. u \in Seq(S) /\ Len(u) = b /\ \A i \in 1 .. b : u[i] = segs[i]
  BY <1>1
<1>3. v \in Seq(S) /\ Len(v) = c - b /\ \A i \in 1 .. c - b : v[i] = segs[b + i]
  BY <1>1
<1>4. s \in Seq(S) /\ Len(s) = c /\ \A i \in 1 .. c : s[i] = segs[i]
  BY <1>1
<1> HIDE DEF u, v, s
<1>5. /\ u \o v \in Seq(S) /\ Len(u \o v) = Len(u) + Len(v)
      /\ \A i \in 1 .. Len(u) : (u \o v)[i] = u[i]
      /\ \A i \in 1 .. Len(v) : (u \o v)[Len(u) + i] = v[i]
  <2>1. u \in Seq(S) /\ v \in Seq(S)
    BY <1>2, <1>3
  <2>2. QED
    BY <2>1
<1>6. Len(u \o v) = c
  BY <1>1, <1>2, <1>3, <1>5
<1>7. ASSUME NEW i \in 1 .. c PROVE (u \o v)[i] = s[i]
  <2>1. CASE i <= b
    <3>1. i \in 1 .. b
      BY <1>1, <2>1
    <3>2. QED
      BY <1>2, <1>4, <1>5, <3>1
  <2>2. CASE ~ (i <= b)
    <3> DEFINE k == i - b
    <3>1. k \in 1 .. c - b /\ b + k = i
      BY <1>1, <2>2
    <3> HIDE DEF k
    <3>2. (u \o v)[b + k] = segs[b + k]
      BY <1>2, <1>3, <1>5, <3>1
    <3>3. QED
      BY <1>4, <3>1, <3>2
  <2>3. QED
    BY <2>1, <2>2
<1>8. u \o v = s
  <2> DEFINE x == u \o v
  <2>1. x \in Seq(S) /\ Len(x) = c /\ s \in Seq(S) /\ Len(s) = c /\ \A i \in 1 .. c : x[i] = s[i]
    BY <1>4, <1>5, <1>6, <1>7
  <2> HIDE DEF x
  <2>2. x = s
    BY <2>1
  <2>3. QED
    BY <2>2 DEF x
<1>9. QED
  BY <1>8 DEF u, v, s

\* Slices along the ranges are the whole.
LEMMA SlicesJoin ==
  ASSUME NEW S, NEW segs \in Seq(S), NEW w, NEW q, Tiled(w, q, Len(segs)),
         NEW s \in Seq(Seq(S)), Len(s) = Len(q),
         \A i \in 1 .. Len(q) : s[i] = SubSeq(segs, q[i][1], q[i][2])
  PROVE  FlattenSeq(s) = segs
<1> DEFINE n == Len(segs)
           m == Len(q)
<1>1. n \in Nat /\ m \in Nat /\ m >= 1
  BY DEF Tiled
<1>2. /\ q[m][2] = n
      /\ \A i \in 1 .. m :
           /\ q[i][1] \in Nat /\ q[i][2] \in Nat
           /\ 1 <= q[i][1] /\ q[i][1] <= q[i][2] /\ q[i][2] <= n
           /\ q[i][1] = IF i = 1 THEN 1 ELSE q[i - 1][2] + 1
  <2>1. \A i \in 1 .. m : q[i] \in Nat \X Nat
    BY DEF Tiled
  <2>2. \A i \in 1 .. m : q[i][1] \in Nat /\ q[i][2] \in Nat
    BY <2>1
  <2>3. QED
    BY <2>2 DEF Tiled
<1> HIDE DEF m, n
<1>3. PICK r \in [0 .. m -> Seq(S)] :
        /\ r[0] = <<>>
        /\ \A k \in 1 .. m : r[k] = r[k - 1] \o s[k]
        /\ FlattenSeq(s) = r[m]
  <2>1. Len(s) = m
    BY DEF m
  <2>2. QED
    BY <2>1, FlattenSteps
<1> DEFINE G == {0} \cup {k \in 1 .. m : r[k] = SubSeq(segs, 1, q[k][2])}
<1>4. ASSUME NEW k \in 1 .. m, k - 1 \in G PROVE k \in G
  <2> DEFINE b == IF k = 1 THEN 0 ELSE q[k - 1][2]
             c == q[k][2]
  <2>1. /\ b \in 0 .. n /\ c \in b .. n /\ q[k][1] = b + 1
    <3>1. CASE k = 1
      BY <1>1, <1>2, <3>1
    <3>2. CASE k # 1
      <4>1. k - 1 \in 1 .. m
        BY <1>1, <3>2
      <4>2. q[k - 1][2] \in Nat /\ q[k - 1][2] <= n
        BY <1>2, <4>1
      <4>3. q[k][1] = q[k - 1][2] + 1 /\ q[k][1] <= q[k][2] /\ q[k][2] <= n /\ q[k][2] \in Nat
        BY <1>2, <3>2
      <4> DEFINE before == q[k - 1][2]
      <4>4. b = before /\ before \in Nat /\ before <= n /\ q[k][1] = before + 1
        BY <3>2, <4>2, <4>3
      <4>5. c \in Nat /\ before + 1 <= c /\ c <= n
        BY <4>3, <4>4
      <4> HIDE DEF before, b, c
      <4>6. QED
        BY <1>1, <4>4, <4>5
    <3>3. QED
      BY <3>1, <3>2
  <2>2. r[k - 1] = SubSeq(segs, 1, b)
    <3>1. CASE k = 1
      <4>1. SubSeq(segs, 1, 0) = <<>>
        OBVIOUS
      <4>2. k - 1 = 0 /\ b = 0
        BY <3>1
      <4>3. QED
        BY <1>3, <4>1, <4>2
    <3>2. CASE k # 1
      <4>1. k - 1 # 0 /\ b = q[k - 1][2]
        BY <3>2
      <4>2. QED
        BY <1>4, <4>1
    <3>3. QED
      BY <3>1, <3>2
  <2> HIDE DEF b, c
  <2>3. s[k] = SubSeq(segs, b + 1, c)
    BY <2>1 DEF c, m
  <2>4. r[k] = SubSeq(segs, 1, b) \o SubSeq(segs, b + 1, c)
    BY <1>3, <2>2, <2>3
  <2>5. SubSeq(segs, 1, b) \o SubSeq(segs, b + 1, c) = SubSeq(segs, 1, c)
    BY <2>1, SlicesMeet DEF n
  <2>6. QED
    BY <2>4, <2>5 DEF c
<1> HIDE DEF G
<1>5. m \in G /\ m # 0
  <2>1. 0 \in G
    BY DEF G
  <2>2. \A k \in 0 .. m : k \in G
    BY <1>1, <1>4, <2>1, Upward
  <2>3. QED
    BY <1>1, <2>2
<1>6. r[m] = SubSeq(segs, 1, n)
  BY <1>2, <1>5 DEF G
<1>7. SubSeq(segs, 1, n) = segs
  BY DEF n
<1>8. QED
  BY <1>3, <1>6, <1>7

\* normalize: what is kept has words and a time of its own.
LEMMA NormalizedWords ==
  ASSUME NEW t, IsTranscript(t)
  PROVE  /\ Normalize(t) \in Seq(ToSet(Normalize(t)))
         /\ Worded(Normalize(t))
         /\ \A k \in 1 .. Len(Normalize(t)) :
              0 <= Normalize(t)[k].start /\ Normalize(t)[k].start <= Normalize(t)[k].end
<1> DEFINE order == Ordered(WithWords(t), Precedes(t))
           m == Len(order)
           S == WithWords(t)
           segs == Normalize(t)
<1>1. /\ order \in [1 .. m -> 1 .. Len(t)] /\ order \in [1 .. m -> S] /\ m \in Nat
      /\ segs = [k \in DOMAIN order |-> Cleaned(t[order[k]])]
  BY NormalizedOrder
<1> HIDE DEF order, m, segs
<1>2. /\ segs = [k \in 1 .. m |-> Cleaned(t[order[k]])]
      /\ DOMAIN segs = 1 .. m /\ Len(segs) = m
      /\ \A k \in 1 .. m : segs[k] = Cleaned(t[order[k]])
  BY <1>1
<1>3. segs \in Seq(ToSet(segs))
  <2>1. segs = [k \in 1 .. m |-> segs[k]]
    BY <1>2
  <2>2. segs \in [1 .. m -> ToSet(segs)]
    BY <1>2, <2>1 DEF ToSet
  <2>3. QED
    BY <1>1, <2>2
<1>4. ASSUME NEW k \in 1 .. m
      PROVE  /\ SegLen(segs[k]) \in Nat /\ SegLen(segs[k]) >= 2
             /\ 0 <= segs[k].start /\ segs[k].start <= segs[k].end
  <2> DEFINE i == order[k]
             text == t[i].text
             words == CollapseWhitespace(text)
  <2>1. i \in 1 .. Len(t) /\ i \in WithWords(t)
    BY <1>1
  <2>2. segs[k] = Cleaned(t[i])
    BY <1>2
  <2> HIDE DEF i
  <2>3. /\ Cleaned(t[i]).text = words
        /\ SegLen(Cleaned(t[i])) \in Nat
        /\ Cleaned(t[i]).start \in Nat
        /\ Cleaned(t[i]).start <= Cleaned(t[i]).end
    BY <2>1, CleanedSegment
  <2>4. t[i] \in ToSet(t)
    BY <2>1, ElementsOfSeq, TranscriptSegments
  <2>5. IsSeq(text)
    BY <2>4, TranscriptSegments
  <2>6. IsSeq(words) /\ ToSet(words) = ToSet(text) \cap (ToSet(text) \ {Gap})
    BY <2>5, AmongElements DEF CollapseWhitespace
  <2>7. ToSet(words) # {}
    BY <2>1, <2>6 DEF WithWords
  <2> HIDE DEF words
  <2>8. Len(words) \in Nat /\ Len(words) # 0
    <3>1. /\ Len(words) \in Nat /\ DOMAIN words = 1 .. Len(words)
          /\ ToSet(words) = {words[j] : j \in 1 .. Len(words)}
      BY <2>6, ElementsOfSeq DEF IsSeq
    <3>2. QED
      BY <2>7, <3>1
  <2>9. SegLen(Cleaned(t[i])) = 2 * Len(words)
    BY <2>3 DEF SegLen
  <2>10. 2 * Len(words) >= 2
    BY <2>8
  <2>11. 0 <= Cleaned(t[i]).start
    BY <2>3
  <2>12. QED
    BY <2>2, <2>3, <2>9, <2>10, <2>11
<1>5. Worded(segs)
  BY <1>2, <1>4 DEF Worded
<1>6. QED
  BY <1>2, <1>3, <1>4, <1>5 DEF segs

\* What a chunk may be: it has segments, no more than the budget has room for, and
\* with the first segment of the next chunk it would have too many.
ChunkFits(chunks, i) ==
  LET segs == chunks[i].segments
      size == SegLens(segs)
  IN  /\ segs # <<>>
      /\ size <= MaxChars \/ Len(segs) = 1
      /\ i < Len(chunks) => size + SegLen(chunks[i + 1].segments[1]) > MaxChars

\* chunk_segments: the chunks are slices of the transcript, as long as they may be.
LEMMA ChunksOfSegments ==
  ASSUME NEW S, NEW segs \in Seq(S), Worded(segs)
  PROVE  LET chunks == ChunkSegments(segs)
         IN  /\ FlattenSeq([i \in DOMAIN chunks |-> chunks[i].segments]) = segs
             /\ \A i \in DOMAIN chunks : ChunkFits(chunks, i)
<1> DEFINE chunks == ChunkSegments(segs)
           slices == [i \in DOMAIN chunks |-> chunks[i].segments]
<1>1. CASE segs = <<>>
  <2>1. chunks = <<>>
    BY <1>1 DEF ChunkSegments
  <2> HIDE DEF chunks
  <2>2. DOMAIN chunks = {} /\ slices = <<>>
    BY <2>1
  <2>3. slices \in Seq(Seq(S)) /\ Len(slices) = 0
    BY <2>2
  <2> HIDE DEF slices
  <2>4. FlattenSeq(slices) = <<>>
    <3>1. PICK r \in [0 .. Len(slices) -> Seq(S)] :
            r[0] = <<>> /\ FlattenSeq(slices) = r[Len(slices)]
      BY <2>3, FlattenSteps
    <3>2. QED
      BY <2>3, <3>1
  <2>5. QED
    BY <1>1, <2>2, <2>4 DEF chunks, slices
<1>2. CASE segs # <<>>
  <2> DEFINE q == Ranges(segs)
             m == Len(q)
             n == Len(segs)
  <2>1. PICK w : Weighs(w, segs)
    BY WeighSteps
  <2>2. Tiled(w, q, n)
    BY <1>2, <2>1, RangesTile
  <2>3. /\ q \in Seq(Nat \X Nat) /\ m \in Nat /\ n \in Nat /\ DOMAIN q = 1 .. m
    BY <2>2 DEF Tiled
  <2>4. /\ chunks = [i \in DOMAIN q |-> chunks[i]]
        /\ \A i \in DOMAIN q : chunks[i].segments = SubSeq(segs, q[i][1], q[i][2])
    <3> HIDE DEF q
    <3>1. QED
      BY <1>2 DEF ChunkSegments, q
  <2> HIDE DEF q, m, n, chunks
  <2>5. /\ DOMAIN chunks = 1 .. m /\ Len(chunks) = m
        /\ \A i \in 1 .. m : chunks[i].segments = SubSeq(segs, q[i][1], q[i][2])
    BY <2>3, <2>4
  <2>6. \A i \in 1 .. m :
          /\ q[i][1] \in Nat /\ q[i][2] \in Nat
          /\ 1 <= q[i][1] /\ q[i][1] <= q[i][2] /\ q[i][2] <= n
          /\ q[i][1] = IF i = 1 THEN 1 ELSE q[i - 1][2] + 1
          /\ Fits(w, q[i])
          /\ i < m => Bursts(w, q[i])
    <3>1. \A i \in 1 .. m : q[i] \in Nat \X Nat
      BY <2>3
    <3>2. \A i \in 1 .. m : q[i][1] \in Nat /\ q[i][2] \in Nat
      BY <3>1
    <3>3. QED
      BY <2>2, <3>2 DEF Tiled, m
  <2>7. w \in [0 .. n -> Nat] /\ \A k \in 1 .. n : w[k] = w[k - 1] + SegLen(segs[k])
    BY <2>1 DEF Weighs, n
  <2>8. ASSUME NEW i \in 1 .. m
        PROVE  /\ SubSeq(segs, q[i][1], q[i][2]) \in Seq(S)
               /\ Len(SubSeq(segs, q[i][1], q[i][2])) = q[i][2] - q[i][1] + 1
               /\ SubSeq(segs, q[i][1], q[i][2])[1] = segs[q[i][1]]
               /\ SegLens(SubSeq(segs, q[i][1], q[i][2])) = w[q[i][2]] - w[q[i][1] - 1]
    <3> DEFINE a == q[i][1]
               b == q[i][2]
    <3>1. a \in Nat /\ b \in Nat /\ 1 <= a /\ a <= b /\ b <= n
      BY <2>6
    <3> HIDE DEF a, b
    <3>2. a \in 1 .. Len(segs) + 1 /\ b \in a - 1 .. Len(segs)
      BY <2>3, <3>1 DEF n
    <3>3. SegLens(SubSeq(segs, a, b)) = w[b] - w[a - 1]
      BY <2>1, <3>2, WeighedBetween
    <3>4. /\ SubSeq(segs, a, b) \in Seq(S)
          /\ Len(SubSeq(segs, a, b)) = b - a + 1
      BY <3>1 DEF n
    <3>5. SubSeq(segs, a, b)[1] = segs[a]
      BY <3>1 DEF n
    <3>6. QED
      BY <3>3, <3>4, <3>5 DEF a, b
  <2>9. FlattenSeq(slices) = segs
    <3>1. \A i \in 1 .. m : slices[i] = SubSeq(segs, q[i][1], q[i][2])
      BY <2>5
    <3>2. slices \in [1 .. m -> Seq(S)]
      BY <2>5, <2>8
    <3> HIDE DEF slices
    <3>3. slices \in Seq(Seq(S)) /\ Len(slices) = m
      BY <2>3, <3>2
    <3>4. QED
      BY <2>2, <3>1, <3>3, SlicesJoin DEF m, n
  <2>10. ASSUME NEW i \in 1 .. m PROVE ChunkFits(chunks, i)
    <3> DEFINE a == q[i][1]
               b == q[i][2]
               slice == chunks[i].segments
               size == SegLens(slice)
    <3>1. /\ a \in Nat /\ b \in Nat /\ 1 <= a /\ a <= b /\ b <= n
          /\ Fits(w, q[i]) /\ (i < m => Bursts(w, q[i]))
      BY <2>6
    <3>2. slice \in Seq(S) /\ Len(slice) = b - a + 1 /\ size = w[b] - w[a - 1]
      BY <2>5, <2>8
    <3>3. size <= MaxChars \/ a = b
      BY <3>1, <3>2 DEF Fits
    <3>4. i < m => w[b + 1] - w[a - 1] > MaxChars
      BY <3>1 DEF Bursts
    <3>5. ASSUME i < m
          PROVE  size + SegLen(chunks[i + 1].segments[1]) = w[b + 1] - w[a - 1]
      <4>1. i + 1 \in 1 .. m /\ i + 1 # 1 /\ (i + 1) - 1 = i
        BY <2>3, <3>5
      <4>2. q[i + 1][1] = b + 1 /\ b + 1 <= n
        <5>1. q[i + 1][1] = q[i][2] + 1
          BY <2>6, <4>1
        <5>2. /\ q[i + 1][1] \in Nat /\ q[i + 1][2] \in Nat
              /\ q[i + 1][1] <= q[i + 1][2] /\ q[i + 1][2] <= n
          BY <2>6, <4>1
        <5>3. q[i + 1][1] <= n
          BY <2>3, <5>2
        <5>4. QED
          BY <5>1, <5>3
      <4>3. chunks[i + 1].segments[1] = segs[b + 1]
        BY <2>5, <2>8, <4>1, <4>2
      <4> DEFINE before == w[a - 1]
                 till == w[b]
                 next == SegLen(segs[b + 1])
      <4> HIDE DEF a, b, slice, size
      <4>4. b + 1 \in 1 .. n /\ (b + 1) - 1 = b /\ b \in 0 .. n /\ a - 1 \in 0 .. n
        BY <2>3, <3>1, <4>2
      <4>5. w[b + 1] = till + next /\ till \in Nat /\ before \in Nat
        BY <2>7, <4>4
      <4>6. next \in Nat
        BY <4>4 DEF Worded, n
      <4>7. size = till - before /\ w[a - 1] = before
        BY <3>2
      <4>8. SegLen(chunks[i + 1].segments[1]) = next
        BY <4>3
      <4> HIDE DEF before, till, next
      <4>9. (till - before) + next = (till + next) - before
        BY <4>5, <4>6
      <4>10. QED
        BY <4>5, <4>7, <4>8, <4>9, Zenon
    <3>6. slice # <<>> /\ (a = b => Len(slice) = 1)
      <4> HIDE DEF a, b, slice
      <4>1. b - a + 1 >= 1 /\ (a = b => b - a + 1 = 1)
        BY <3>1
      <4>2. QED
        BY <3>2, <4>1
    <3> HIDE DEF a, b, slice, size
    <3>7. i < m => size + SegLen(chunks[i + 1].segments[1]) > MaxChars
      BY <3>4, <3>5
    <3>8. size <= MaxChars \/ Len(slice) = 1
      BY <3>3, <3>6
    <3>9. QED
      BY <2>5, <3>6, <3>7, <3>8 DEF ChunkFits, slice, size
  <2>11. QED
    BY <2>5, <2>9, <2>10 DEF chunks, slices
<1>3. QED
  BY <1>1, <1>2

-----------------------------------------------------------------------------
(* Participants *)

\* speaker_ids: whoever speaks is listed.
LEMMA SpeakersListed ==
  ASSUME NEW segs, IsSeq(segs)
  PROVE  /\ IsSeq(SpeakerIds(segs))
         /\ \A seg \in ToSet(segs) : seg.speaker \in {NoSpeaker} \cup ToSet(SpeakerIds(segs))
<1> DEFINE n == Len(segs)
           P == {seg.speaker : seg \in ToSet(segs)}
<1>1. /\ n \in Nat /\ segs \in Seq(ToSet(segs))
      /\ ToSet(segs) = {segs[i] : i \in 1 .. n}
  BY ElementsOfSeq DEF IsSeq
<1>2. PICK r \in [0 .. n -> Seq(P)] :
         /\ \A k \in 1 .. n : r[k] = AddSpeaker(r[k - 1], segs[k])
         /\ SpeakerIds(segs) = r[n]
  BY <1>1, SpeakerSteps
<1>3. ASSUME NEW x \in Seq(P), NEW seg \in ToSet(segs)
      PROVE  /\ ToSet(x) \subseteq ToSet(AddSpeaker(x, seg))
             /\ seg.speaker \in {NoSpeaker} \cup ToSet(AddSpeaker(x, seg))
  <2>1. CASE seg.speaker = NoSpeaker \/ Contains(x, seg.speaker)
    <3>1. AddSpeaker(x, seg) = x
      BY <2>1 DEF AddSpeaker
    <3>2. Contains(x, seg.speaker) => seg.speaker \in ToSet(x)
      BY DEF Contains, ToSet
    <3>3. QED
      BY <2>1, <3>1, <3>2
  <2>2. CASE ~ (seg.speaker = NoSpeaker \/ Contains(x, seg.speaker))
    <3>1. AddSpeaker(x, seg) = Append(x, seg.speaker) /\ seg.speaker \in P
      BY <2>2 DEF AddSpeaker
    <3>2. ToSet(Append(x, seg.speaker)) = ToSet(x) \cup {seg.speaker}
      BY <3>1, AppendElements
    <3>3. QED
      BY <3>1, <3>2
  <2>3. QED
    BY <2>1, <2>2
<1> HIDE DEF P
<1>4. r[n] \in Seq(P) /\ SpeakerIds(segs) = r[n]
  <2>1. n \in 0 .. n
    BY <1>1
  <2> HIDE DEF n
  <2>2. r[n] \in Seq(P)
    BY <2>1
  <2>3. QED
    BY <1>2, <2>2
<1> DEFINE G == {j \in 0 .. n : \A k \in 1 .. j : segs[k].speaker \in {NoSpeaker} \cup ToSet(r[j])}
<1>5. n \in G
  <2>1. 0 \in G
    BY <1>1
  <2>2. ASSUME NEW j \in 1 .. n, j - 1 \in G PROVE j \in G
    <3>1. /\ ToSet(r[j - 1]) \subseteq ToSet(r[j])
          /\ segs[j].speaker \in {NoSpeaker} \cup ToSet(r[j])
      <4>1. j - 1 \in 0 .. n /\ segs[j] \in ToSet(segs)
        BY <1>1
      <4>2. r[j - 1] \in Seq(P) /\ r[j] = AddSpeaker(r[j - 1], segs[j])
        BY <1>2, <4>1
      <4>3. QED
        BY <1>3, <4>1, <4>2
    <3>2. \A k \in 1 .. j : k = j \/ k \in 1 .. j - 1
      BY <1>1
    <3>3. \A k \in 1 .. j - 1 : segs[k].speaker \in {NoSpeaker} \cup ToSet(r[j - 1])
      BY <2>2
    <3>4. \A k \in 1 .. j : segs[k].speaker \in {NoSpeaker} \cup ToSet(r[j])
      BY <3>1, <3>2, <3>3
    <3>5. QED
      BY <1>1, <3>4
  <2> HIDE DEF G, n
  <2>3. \A j \in 0 .. n : j \in G
    BY <1>1, <2>1, <2>2, Upward
  <2>4. QED
    BY <1>1, <2>3
<1>6. IsSeq(SpeakerIds(segs))
  BY <1>4, SeqIsSeq
<1>7. ASSUME NEW seg \in ToSet(segs)
      PROVE  seg.speaker \in {NoSpeaker} \cup ToSet(SpeakerIds(segs))
  <2>1. PICK k \in 1 .. n : seg = segs[k]
    BY <1>1
  <2>2. segs[k].speaker \in {NoSpeaker} \cup ToSet(r[n])
    BY <1>5
  <2>3. QED
    BY <1>4, <2>1, <2>2
<1>8. QED
  BY <1>6, <1>7

\* reconcile: whoever is listed is a participant.
LEMMA SpeakersJoin ==
  ASSUME NEW known, IsSeq(known), NEW ids, IsSeq(ids)
  PROVE  ToSet(ids) \subseteq ToSet(People(known, ids))
<1> DEFINE n == Len(ids)
           S == ToSet(known) \cup ToSet(ids)
<1>1. /\ n \in Nat /\ ids \in Seq(S) /\ known \in Seq(S)
      /\ ToSet(ids) = {ids[i] : i \in 1 .. n}
  <2>1. /\ n \in Nat /\ ids \in Seq(ToSet(ids)) /\ known \in Seq(ToSet(known))
        /\ ToSet(ids) = {ids[i] : i \in 1 .. n}
    BY ElementsOfSeq DEF IsSeq
  <2>2. QED
    BY <2>1
<1> HIDE DEF S
<1>2. PICK r \in [0 .. n -> Seq(S)] :
         /\ \A k \in 1 .. n : r[k] = AddPerson(r[k - 1], ids[k])
         /\ People(known, ids) = r[n]
  BY <1>1, PeopleSteps
<1>3. ASSUME NEW x \in Seq(S), NEW id \in S
      PROVE  ToSet(x) \cup {id} \subseteq ToSet(AddPerson(x, id))
  <2>1. CASE Contains(x, id)
    BY <2>1 DEF AddPerson, Contains, ToSet
  <2>2. CASE ~ Contains(x, id)
    BY <2>2, AppendElements DEF AddPerson
  <2>3. QED
    BY <2>1, <2>2
<1> DEFINE G == {j \in 0 .. n : \A k \in 1 .. j : ids[k] \in ToSet(r[j])}
<1>4. n \in G
  <2>1. 0 \in G
    BY <1>1
  <2>2. ASSUME NEW j \in 1 .. n, j - 1 \in G PROVE j \in G
    <3>1. ToSet(r[j - 1]) \cup {ids[j]} \subseteq ToSet(r[j])
      <4>1. r[j - 1] \in Seq(S) /\ ids[j] \in S /\ r[j] = AddPerson(r[j - 1], ids[j])
        BY <1>1, <1>2
      <4>2. QED
        BY <1>3, <4>1
    <3>2. \A k \in 1 .. j : k = j \/ k \in 1 .. j - 1
      BY <1>1
    <3>3. \A k \in 1 .. j - 1 : ids[k] \in ToSet(r[j - 1])
      BY <2>2
    <3>4. \A k \in 1 .. j : ids[k] \in ToSet(r[j])
      BY <3>1, <3>2, <3>3
    <3>5. QED
      BY <1>1, <3>4
  <2> HIDE DEF G, n
  <2>3. \A j \in 0 .. n : j \in G
    BY <1>1, <2>1, <2>2, Upward
  <2>4. QED
    BY <1>1, <2>3
<1>5. QED
  BY <1>1, <1>2, <1>4

-----------------------------------------------------------------------------
(* Findings and their evidence *)

\* What serde makes of an answer that parses: items with evidence.
IsEvidence(e) ==
  e = [quote |-> e.quote, speaker |-> e.speaker, start |-> e.start, end |-> e.end,
       chunk |-> e.chunk]

IsItems(items) ==
  /\ IsSeq(items)
  /\ \A i \in DOMAIN items : /\ items[i] = [items[i] EXCEPT !.evidence = items[i].evidence]
                             /\ {"text", "evidence"} \subseteq DOMAIN items[i]
                             /\ IsSeq(items[i].evidence)
                             /\ \A e \in ToSet(items[i].evidence) : IsEvidence(e)

\* Every item has evidence.
HasEvidence(items) ==
  /\ IsSeq(items)
  /\ \A item \in ToSet(items) : IsSeq(item.evidence) /\ item.evidence # <<>>

EvidenceIn(items) == UNION {ToSet(item.evidence) : item \in ToSet(items)}

LEMMA GroundedHasEvidence ==
  ASSUME NEW evidence, IsSeq(evidence), NEW text, NEW chunk
  PROVE  IsSeq(Ground(evidence, text, chunk)) /\ Ground(evidence, text, chunk) # <<>>
<1> DEFINE Fill(g) == [g EXCEPT !.chunk = IF @ = NoChunk THEN chunk.id ELSE @,
                                !.start = IF @ = NoTime THEN chunk.start ELSE @,
                                !.end = IF @ = NoTime THEN chunk.end ELSE @]
<1>1. CASE \E g \in ToSet(evidence) : g.quote # <<>>
  <2> DEFINE filled == [i \in DOMAIN evidence |-> Fill(evidence[i])]
             S == {Fill(evidence[i]) : i \in DOMAIN evidence}
  <2>1. Ground(evidence, text, chunk) = filled
    BY <1>1 DEF Ground
  <2>2. DOMAIN evidence = 1 .. Len(evidence) /\ Len(evidence) \in Nat /\ evidence # <<>>
    BY <1>1, ElementsOfSeq DEF IsSeq
  <2>3. Len(evidence) # 0
    BY <2>2, ElementsOfSeq
  <2> HIDE DEF Fill
  <2>4. filled \in [1 .. Len(evidence) -> S]
    BY <2>2
  <2> HIDE DEF filled, S
  <2>5. filled \in Seq(S) /\ Len(filled) = Len(evidence)
    BY <2>2, <2>4
  <2>6. filled # <<>>
    BY <2>3, <2>5
  <2>7. QED
    BY <2>1, <2>5, <2>6, SeqIsSeq
<1>2. CASE ~ \E g \in ToSet(evidence) : g.quote # <<>>
  <2>1. \E x : Ground(evidence, text, chunk) = <<x>>
    BY <1>2 DEF Ground
  <2>2. PICK x : Ground(evidence, text, chunk) = <<x>>
    BY <2>1
  <2>3. <<x>> \in Seq({x}) /\ <<x>> # <<>>
    OBVIOUS
  <2>4. QED
    BY <2>2, <2>3, SeqIsSeq
<1>3. QED
  BY <1>1, <1>2

LEMMA StampedHasEvidence ==
  ASSUME NEW f, IsItems(f.claims), IsItems(f.actions), NEW chunk
  PROVE  /\ HasEvidence(StampProvenance(f, chunk).claims)
         /\ HasEvidence(StampProvenance(f, chunk).actions)
<1> DEFINE Stamp(items) == [i \in DOMAIN items |->
             [items[i] EXCEPT !.evidence = Ground(@, items[i].text, chunk)]]
<1>1. ASSUME NEW items, IsItems(items) PROVE HasEvidence(Stamp(items))
  <2>1. DOMAIN items = 1 .. Len(items) /\ Len(items) \in Nat
    BY <1>1, ElementsOfSeq DEF IsItems, IsSeq
  <2>2. ASSUME NEW i \in DOMAIN items
        PROVE  Stamp(items)[i].evidence = Ground(items[i].evidence, items[i].text, chunk)
    BY <1>1 DEF IsItems
  <2>3. \A item \in ToSet(Stamp(items)) : IsSeq(item.evidence) /\ item.evidence # <<>>
    <3>1. ASSUME NEW i \in DOMAIN items
          PROVE  IsSeq(Stamp(items)[i].evidence) /\ Stamp(items)[i].evidence # <<>>
      <4>1. IsSeq(items[i].evidence)
        BY <1>1 DEF IsItems
      <4>2. QED
        BY <2>2, <4>1, GroundedHasEvidence
    <3> DEFINE st == Stamp(items)
    <3>2. DOMAIN st = DOMAIN items
      OBVIOUS
    <3> HIDE DEF st
    <3>3. QED
      BY <3>1, <3>2 DEF ToSet, st
  <2>4. IsSeq(Stamp(items))
    <3> DEFINE st == Stamp(items)
               S == {st[i] : i \in DOMAIN items}
    <3>1. st \in [1 .. Len(items) -> S]
      BY <2>1
    <3> HIDE DEF st, S
    <3>2. st \in Seq(S)
      BY <2>1, <3>1
    <3>3. IsSeq(st)
      BY <3>2, SeqIsSeq
    <3>4. QED
      BY <3>3 DEF st
  <2>5. QED
    BY <2>3, <2>4 DEF HasEvidence
<1>2. /\ StampProvenance(f, chunk).claims = Stamp(f.claims)
      /\ StampProvenance(f, chunk).actions = Stamp(f.actions)
  BY DEF StampProvenance
<1> HIDE DEF Stamp
<1>3. QED
  BY <1>1, <1>2

\* Sequences of items one behind the other.
LEMMA FlatHasEvidence ==
  ASSUME NEW n \in Nat, NEW parts, parts = [i \in 1 .. n |-> parts[i]],
         \A i \in 1 .. n : HasEvidence(parts[i])
  PROVE  /\ HasEvidence(FlattenSeq(parts))
         /\ EvidenceIn(FlattenSeq(parts)) = UNION {EvidenceIn(parts[i]) : i \in 1 .. n}
<1> DEFINE S == UNION {ToSet(parts[i]) : i \in 1 .. n}
<1>1. \A i \in 1 .. n : parts[i] \in Seq(ToSet(parts[i])) /\ ToSet(parts[i]) \subseteq S
  BY ElementsOfSeq DEF HasEvidence
<1>2. \A i \in 1 .. n : parts[i] \in Seq(S)
  BY <1>1
<1> HIDE DEF S
<1>3. parts \in Seq(Seq(S)) /\ Len(parts) = n
  <2>1. parts \in [1 .. n -> Seq(S)]
    BY <1>2
  <2>2. QED
    BY <2>1
<1>4. /\ FlattenSeq(parts) \in Seq(S)
      /\ ToSet(FlattenSeq(parts)) = UNION {ToSet(parts[i]) : i \in 1 .. n}
  BY <1>3, Flattened
<1>5. IsSeq(FlattenSeq(parts))
  BY <1>4, SeqIsSeq
<1>6. \A item \in ToSet(FlattenSeq(parts)) : \E i \in 1 .. n : item \in ToSet(parts[i])
  BY <1>4
<1>7. HasEvidence(FlattenSeq(parts))
  BY <1>5, <1>6 DEF HasEvidence
<1>8. \A e : e \in EvidenceIn(FlattenSeq(parts)) <=>
               \E i \in 1 .. n : e \in EvidenceIn(parts[i])
  <2> TAKE e
  <2>1. e \in EvidenceIn(FlattenSeq(parts)) <=>
          \E item \in ToSet(FlattenSeq(parts)) : e \in ToSet(item.evidence)
    BY DEF EvidenceIn
  <2>2. (\E i \in 1 .. n : e \in EvidenceIn(parts[i])) <=>
          \E i \in 1 .. n : \E item \in ToSet(parts[i]) : e \in ToSet(item.evidence)
    BY DEF EvidenceIn
  <2>3. \A item : item \in ToSet(FlattenSeq(parts)) <=>
                    \E i \in 1 .. n : item \in ToSet(parts[i])
    BY <1>4
  <2>4. QED
    BY <2>1, <2>2, <2>3, Zenon
<1>9. QED
  BY <1>7, <1>8

\* from_chunks: all the findings of a run, with all their evidence.
LEMMA MergedEvidence ==
  ASSUME NEW fs, IsSeq(fs),
         \A i \in 1 .. Len(fs) : HasEvidence(fs[i].claims) /\ HasEvidence(fs[i].actions)
  PROVE  LET merged == FromChunks(fs)
         IN  /\ HasEvidence(merged.claims) /\ HasEvidence(merged.actions)
             /\ AllEvidence(merged) = EvidenceIn(merged.claims) \cup EvidenceIn(merged.actions)
             /\ \A e \in AllEvidence(merged) :
                  \E i \in 1 .. Len(fs) : e \in AllEvidence(fs[i])
<1> DEFINE n == Len(fs)
           claims == [i \in 1 .. n |-> fs[i].claims]
           actions == [i \in 1 .. n |-> fs[i].actions]
           merged == FromChunks(fs)
<1>1. n \in Nat /\ DOMAIN fs = 1 .. n
  BY ElementsOfSeq DEF IsSeq
<1>2. merged.claims = FlattenSeq(claims) /\ merged.actions = FlattenSeq(actions)
  BY <1>1 DEF FromChunks
<1>3. ASSUME NEW f PROVE AllEvidence(f) = EvidenceIn(f.claims) \cup EvidenceIn(f.actions)
  BY DEF AllEvidence, EvidenceIn
<1> HIDE DEF merged
<1>4. /\ HasEvidence(FlattenSeq(claims))
      /\ EvidenceIn(FlattenSeq(claims)) = UNION {EvidenceIn(claims[i]) : i \in 1 .. n}
  <2>1. claims = [i \in 1 .. n |-> claims[i]] /\ \A i \in 1 .. n : HasEvidence(claims[i])
    OBVIOUS
  <2> HIDE DEF claims
  <2>2. QED
    BY <1>1, <2>1, FlatHasEvidence
<1>5. /\ HasEvidence(FlattenSeq(actions))
      /\ EvidenceIn(FlattenSeq(actions)) = UNION {EvidenceIn(actions[i]) : i \in 1 .. n}
  <2>1. actions = [i \in 1 .. n |-> actions[i]] /\ \A i \in 1 .. n : HasEvidence(actions[i])
    OBVIOUS
  <2> HIDE DEF actions
  <2>2. QED
    BY <1>1, <2>1, FlatHasEvidence
<1>6. \A i \in 1 .. n : claims[i] = fs[i].claims /\ actions[i] = fs[i].actions
  OBVIOUS
<1> HIDE DEF claims, actions
<1>7. ASSUME NEW e \in AllEvidence(merged) PROVE \E i \in 1 .. n : e \in AllEvidence(fs[i])
  <2>1. e \in EvidenceIn(merged.claims) \cup EvidenceIn(merged.actions)
    BY <1>3
  <2>2. PICK i \in 1 .. n : e \in EvidenceIn(fs[i].claims) \cup EvidenceIn(fs[i].actions)
    BY <1>2, <1>4, <1>5, <1>6, <2>1
  <2>3. QED
    BY <1>3, <2>2
<1>8. QED
  BY <1>2, <1>3, <1>4, <1>5, <1>7 DEF merged

-----------------------------------------------------------------------------
(* What reconcile makes of the consolidated answer *)

\* ai/ir.rs: a consolidated answer that parses has the fields of MeetingIR.
IsIr(ir) ==
  /\ IsItems(ir.claims) /\ IsItems(ir.actions)
  /\ \A i \in DOMAIN ir.actions : "owner" \in DOMAIN ir.actions[i]
  /\ IsSeq(ir.participants)

\* attach_evidence: what similar findings support has their evidence only.
LEMMA AttachedEvidence ==
  ASSUME NEW target, NEW item, NEW sources, HasEvidence(sources),
         SimilarTo(item, sources) # <<>>
  PROVE  ToSet(Attach(target, MatchedEvidence(item, sources))) \subseteq EvidenceIn(sources)
<1> DEFINE found == SimilarTo(item, sources)
           n == Len(found)
           S == EvidenceIn(sources)
           parts == [i \in DOMAIN found |-> found[i].evidence]
<1>1. IsSeq(found) /\ ToSet(found) \subseteq ToSet(sources)
  BY AmongElements DEF HasEvidence, SimilarTo
<1>2. MatchedEvidence(item, sources) = FlattenSeq(parts)
  BY DEF MatchedEvidence
<1>3. found # <<>>
  OBVIOUS
<1> HIDE DEF found
<1>4. /\ DOMAIN found = 1 .. n /\ n \in Nat /\ ToSet(found) # {}
      /\ ToSet(found) = {found[i] : i \in 1 .. n}
  BY <1>1, <1>3, ElementsOfSeq DEF IsSeq
<1>5. ASSUME NEW i \in 1 .. n
      PROVE  parts[i] \in Seq(S) /\ ToSet(parts[i]) # {}
  <2>1. parts[i] = found[i].evidence /\ found[i] \in ToSet(sources)
    BY <1>1, <1>4
  <2>2. IsSeq(found[i].evidence) /\ found[i].evidence # <<>>
    BY <2>1 DEF HasEvidence
  <2>3. ToSet(found[i].evidence) \subseteq S
    BY <2>1 DEF EvidenceIn
  <2> HIDE DEF S, parts
  <2>4. found[i].evidence \in Seq(S) /\ ToSet(found[i].evidence) # {}
    BY <2>2, <2>3, ElementsOfSeq
  <2>5. QED
    BY <2>1, <2>4
<1> HIDE DEF S
<1>6. parts \in Seq(Seq(S)) /\ Len(parts) = n
  <2>1. parts \in [1 .. n -> Seq(S)]
    BY <1>4, <1>5
  <2> HIDE DEF parts, n
  <2>2. QED
    BY <1>4, <2>1
<1> HIDE DEF parts
<1>7. /\ FlattenSeq(parts) \in Seq(S)
      /\ ToSet(FlattenSeq(parts)) = UNION {ToSet(parts[i]) : i \in 1 .. n}
  BY <1>6, Flattened
<1>8. FlattenSeq(parts) # <<>>
  <2>1. 1 \in 1 .. n
    BY <1>4
  <2>2. ToSet(FlattenSeq(parts)) # {}
    BY <1>5, <1>7, <2>1
  <2>3. ToSet(<<>>) = {}
    BY DEF ToSet
  <2>4. QED
    BY <2>2, <2>3
<1>9. Attach(target, FlattenSeq(parts)) \in Seq(S)
  BY <1>7, <1>8, AttachSteps
<1>10. QED
  BY <1>2, <1>9, SeqIsSeq DEF S

\* resolve_owner: nobody, or an owner whose name occurs in the transcript or whom a
\* similar finding states.
LEMMA OwnerIsKnown ==
  ASSUME NEW item, NEW sources, IsSeq(sources), NEW segs
  PROVE  LET owner == ResolveOwner(item, SimilarTo(item, sources), segs)
         IN  \/ owner = NoOwner
             \/ Occurs(owner, segs)
             \/ \E f \in ToSet(sources) : f.owner = owner /\ Similar(item.text, f.text)
<1> DEFINE like == {s \in ToSet(sources) : Similar(item.text, s.text)}
<1>1. ToSet(SimilarTo(item, sources)) \subseteq like
  BY AmongElements DEF SimilarTo
<1>2. ASSUME NEW owner, NEW found, ToSet(found) \subseteq like
      PROVE  LET kept1 == GuardField(owner, found, segs)
             IN  \/ kept1 = NoOwner
                 \/ Occurs(kept1, segs)
                 \/ \E f \in like : f.owner = kept1
  <2> HIDE DEF like
  <2>1. QED
    BY <1>2 DEF GuardField
<1>3. ASSUME NEW found PROVE \E owner : ResolveOwner(item, found, segs) = GuardField(owner, found, segs)
  BY DEF ResolveOwner
<1>4. PICK owner : ResolveOwner(item, SimilarTo(item, sources), segs)
                     = GuardField(owner, SimilarTo(item, sources), segs)
  BY <1>3
<1>5. QED
  BY <1>1, <1>2, <1>4

\* reconcile: the items keep their texts, in their order.
LEMMA ReconciledItems ==
  ASSUME NEW ir, IsIr(ir), NEW merged, NEW segs
  PROVE  LET made == Reconcile(ir, merged, segs)
         IN  /\ \A item \in ToSet(made.claims) : \E c :
                  /\ item.text = c.text
                  /\ item.evidence = Attach(c.evidence, MatchedEvidence(c, merged.claims))
             /\ \A item \in ToSet(made.actions) : \E a :
                  /\ item.text = a.text
                  /\ item.evidence = Attach(a.evidence, MatchedEvidence(a, merged.actions))
                  /\ item.owner = ResolveOwner(a, SimilarTo(a, merged.actions), segs)
             /\ made.participants = People(ir.participants, SpeakerIds(segs))
<1> DEFINE Claim(c) == [c EXCEPT !.evidence = Attach(@, MatchedEvidence(c, merged.claims))]
           Action(a) == [a EXCEPT !.evidence = Attach(@, MatchedEvidence(a, merged.actions)),
                                  !.owner = ResolveOwner(a, SimilarTo(a, merged.actions), segs)]
           made == Reconcile(ir, merged, segs)
<1>1. /\ made.claims = [i \in DOMAIN ir.claims |-> Claim(ir.claims[i])]
      /\ made.actions = [i \in DOMAIN ir.actions |-> Action(ir.actions[i])]
  BY DEF Reconcile
<1>2. made.participants = People(ir.participants, SpeakerIds(segs))
  BY Zenon DEF Reconcile, People
<1> HIDE DEF made
<1>3. ASSUME NEW item \in ToSet(made.claims)
      PROVE  \E c : /\ item.text = c.text
                    /\ item.evidence = Attach(c.evidence, MatchedEvidence(c, merged.claims))
  <2> HIDE DEF Claim
  <2>1. \E i \in DOMAIN made.claims : item = made.claims[i]
    BY <1>3 DEF ToSet
  <2>2. PICK i \in DOMAIN ir.claims : item = Claim(ir.claims[i])
    BY <1>1, <2>1
  <2>3. {"text", "evidence"} \subseteq DOMAIN ir.claims[i]
    BY DEF IsIr, IsItems
  <2>4. /\ item.text = ir.claims[i].text
        /\ item.evidence = Attach(ir.claims[i].evidence,
                                  MatchedEvidence(ir.claims[i], merged.claims))
    BY <2>2, <2>3 DEF Claim
  <2>5. QED
    BY <2>4
<1>4. ASSUME NEW item \in ToSet(made.actions)
      PROVE  \E a : /\ item.text = a.text
                    /\ item.evidence = Attach(a.evidence, MatchedEvidence(a, merged.actions))
                    /\ item.owner = ResolveOwner(a, SimilarTo(a, merged.actions), segs)
  <2> HIDE DEF Action
  <2>1. \E i \in DOMAIN made.actions : item = made.actions[i]
    BY <1>4 DEF ToSet
  <2>2. PICK i \in DOMAIN ir.actions : item = Action(ir.actions[i])
    BY <1>1, <2>1
  <2>3. {"text", "evidence", "owner"} \subseteq DOMAIN ir.actions[i]
    BY DEF IsIr, IsItems
  <2>4. /\ item.text = ir.actions[i].text
        /\ item.evidence = Attach(ir.actions[i].evidence,
                                  MatchedEvidence(ir.actions[i], merged.actions))
        /\ item.owner = ResolveOwner(ir.actions[i],
                                     SimilarTo(ir.actions[i], merged.actions), segs)
    BY <2>2, <2>3 DEF Action
  <2>5. QED
    BY <2>4
<1>5. QED
  BY <1>2, <1>3, <1>4 DEF made

LEMMA SimilarByText ==
  ASSUME NEW item, NEW other, item.text = other.text, NEW sources
  PROVE  SimilarTo(item, sources) = SimilarTo(other, sources)
BY DEF SimilarTo
=============================================================================
