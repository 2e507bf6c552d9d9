----------------------------- MODULE DataLemmas -----------------------------
(***************************************************************************)
(* What several proof modules need of numbers and sequences.  The library's*)
(* induction theorems take an operator, which the provers at hand cannot   *)
(* instantiate; here induction is over a set, from the fact that a         *)
(* nonempty set of naturals has a least element.                           *)
(***************************************************************************)
EXTENDS Integers, Sequences, SequencesExt, WellFoundedInduction, TLAPS

\* A set that holds 0 and the successors of its naturals holds every natural.
LEMMA NatSetInduction ==
    ASSUME NEW S, 0 \in S, \A n \in Nat : n \in S => n + 1 \in S
    PROVE  \A n \in Nat : n \in S
<1> DEFINE T == {n \in Nat : n \notin S}
<1> SUFFICES ASSUME T # {} PROVE FALSE
  OBVIOUS
<1>1. IsWellFoundedOn(OpToRel(<, Nat), Nat)
  BY NatLessThanWellFounded
<1>2. T \subseteq Nat
  OBVIOUS
<1>3. PICK x \in T : \A y \in T : ~ (<<y, x>> \in OpToRel(<, Nat))
  <2> HIDE DEF T
  <2> QED BY <1>1, <1>2, WFMin
<1>4. \A y \in T : ~ (y < x)
  BY <1>3 DEF OpToRel
<1>5. x \in Nat /\ x # 0 /\ x - 1 \in Nat /\ x - 1 < x
  OBVIOUS
<1>6. x - 1 \in S
  BY <1>4, <1>5
<1> QED BY <1>5, <1>6

\* The same up to a bound.
LEMMA RangeInduction ==
    ASSUME NEW L \in Nat, NEW S, 0 \in S, \A n \in 1 .. L : n - 1 \in S => n \in S
    PROVE  0 .. L \subseteq S
<1> DEFINE T == {n \in Nat : n <= L => n \in S}
<1>1. 0 \in T
  OBVIOUS
<1>2. ASSUME NEW n \in Nat, n \in T PROVE n + 1 \in T
  <2>1. CASE n + 1 <= L
    BY <1>2, <2>1
  <2>2. CASE ~(n + 1 <= L)
    BY <2>2
  <2> QED BY <2>1, <2>2
<1>3. \A n \in Nat : n \in T
  <2> HIDE DEF T
  <2> QED BY <1>1, <1>2, NatSetInduction
<1> QED BY <1>3

\* f begins with z, and f[n] comes of f[n - 1] by h[n].
Recurs(f, L, S, z, h) ==
    /\ f \in [0 .. L -> S]
    /\ f[0] = z
    /\ \A n \in 1 .. L : f[n] = h[n][f[n - 1]]

\* There is such a function.
LEMMA RecursionExists ==
    ASSUME NEW L \in Nat, NEW S, NEW z \in S, NEW h \in [1 .. L -> [S -> S]]
    PROVE  \E f : Recurs(f, L, S, z, h)
<1> DEFINE Upto(m, f) == f[0] = z /\ \A n \in 1 .. m : f[n] = h[n][f[n - 1]]
           T == {m \in Nat : \E f \in [0 .. L -> S] : Upto(m, f)}
<1>1. 0 \in T
  <2>1. [n \in 0 .. L |-> z] \in [0 .. L -> S] /\ Upto(0, [n \in 0 .. L |-> z])
    OBVIOUS
  <2> QED BY <2>1
<1>2. ASSUME NEW m \in 1 .. L, m - 1 \in T PROVE m \in T
  <2>1. PICK f \in [0 .. L -> S] : Upto(m - 1, f)
    BY <1>2
  <2> DEFINE g == [f EXCEPT ![m] = h[m][f[m - 1]]]
  <2>2. m - 1 \in 0 .. L /\ m \in 0 .. L /\ h[m] \in [S -> S]
    OBVIOUS
  <2>3. h[m][f[m - 1]] \in S
    BY <2>2
  <2>4. g \in [0 .. L -> S] /\ g[m] = h[m][f[m - 1]] /\ \A n \in 0 .. L : n # m => g[n] = f[n]
    BY <2>2, <2>3
  <2>5. ASSUME NEW n \in 1 .. m PROVE g[n] = h[n][g[n - 1]]
    <3>1. n - 1 \in 0 .. L /\ n - 1 # m /\ g[n - 1] = f[n - 1]
      BY <2>4
    <3>2. CASE n = m
      BY <2>4, <3>1, <3>2
    <3>3. CASE n # m
      <4>1. n \in 1 .. m - 1 /\ n \in 0 .. L
        BY <3>3
      <4> QED BY <2>1, <2>4, <3>1, <3>3, <4>1
    <3> QED BY <3>2, <3>3
  <2>6. Upto(m, g)
    <3>1. g[0] = z
      BY <2>1, <2>4
    <3> HIDE DEF g
    <3> QED BY <2>5, <3>1
  <2> HIDE DEF g
  <2> QED BY <2>4, <2>6
<1>3. 0 .. L \subseteq T
  <2> HIDE DEF T
  <2> QED BY <1>1, <1>2, RangeInduction
<1> QED BY <1>3 DEF Recurs

\* A nonempty set of naturals has a least element.
LEMMA LeastElement ==
    ASSUME NEW S, S \subseteq Nat, S # {}
    PROVE  Min(S) \in S /\ \A y \in S : Min(S) <= y
<1>1. PICK x \in S : \A y \in S : ~ (<<y, x>> \in OpToRel(<, Nat))
  BY NatLessThanWellFounded, WFMin
<1>2. x \in Nat /\ \A y \in S : x <= y
  <2>1. \A y \in S : y \in Nat /\ ~ (y < x)
    BY <1>1 DEF OpToRel
  <2> QED BY <2>1
<1> QED BY <1>2 DEF Min

-----------------------------------------------------------------------------
(* Arithmetic.                                                             *)

LEMMA Quotient ==
    ASSUME NEW p \in Nat \ {0}, NEW t \in Nat
    PROVE  t = p * (t \div p) + (t % p) /\ t % p \in 0 .. p - 1 /\ t \div p \in Nat
OBVIOUS

LEMMA ExactQuotient ==
    ASSUME NEW p \in Nat \ {0}, NEW q \in Nat
    PROVE  (q * p) \div p = q
OBVIOUS

LEMMA Successor ==
    ASSUME NEW a \in Int, NEW b \in Int
    PROVE  (b + 1) * a = b * a + a /\ a * b = b * a
OBVIOUS

LEMMA PositiveFactor ==
    ASSUME NEW a \in Nat \ {0}, NEW b \in Int, NEW c \in Int
    PROVE  a * b < a * c <=> b < c
OBVIOUS

LEMMA MaxOfTwo ==
    ASSUME NEW a \in Int, NEW b \in Int
    PROVE  Max({a, b}) = IF a >= b THEN a ELSE b
BY DEF Max

LEMMA MinOfTwo ==
    ASSUME NEW a \in Int, NEW b \in Int
    PROVE  Min({a, b}) = IF a <= b THEN a ELSE b
BY DEF Min

-----------------------------------------------------------------------------
(* The elements of a sequence.                                             *)

LEMMA ToSetEmpty == ASSUME NEW s, s = <<>> PROVE ToSet(s) = {}
BY DEF ToSet

LEMMA ToSetHeadTail ==
    ASSUME NEW S, NEW s \in Seq(S), s # <<>>
    PROVE  ToSet(s) = {Head(s)} \cup ToSet(Tail(s)) /\ ToSet(s) \subseteq S
<1>1. Len(s) \in Nat /\ Len(s) > 0 /\ DOMAIN s = 1 .. Len(s)
  OBVIOUS
<1>2. Head(s) = s[1] /\ Tail(s) \in Seq(S) /\ Len(Tail(s)) = Len(s) - 1
      /\ \A i \in 1 .. Len(s) - 1 : Tail(s)[i] = s[i + 1]
  BY <1>1
<1>3. DOMAIN Tail(s) = 1 .. Len(s) - 1
  BY <1>2
<1>4. ASSUME NEW i \in 1 .. Len(s) PROVE s[i] \in {s[1]} \cup ToSet(Tail(s))
  <2>1. CASE i = 1
    BY <2>1
  <2>2. CASE i # 1
    <3>1. i - 1 \in 1 .. Len(s) - 1 /\ Tail(s)[i - 1] = s[i]
      BY <1>1, <1>2, <2>2
    <3> QED BY <1>3, <3>1 DEF ToSet
  <2> QED BY <2>1, <2>2
<1>5. ASSUME NEW i \in 1 .. Len(s) - 1 PROVE Tail(s)[i] \in ToSet(s)
  <2>1. i + 1 \in 1 .. Len(s) /\ Tail(s)[i] = s[i + 1]
    BY <1>1, <1>2
  <2> QED BY <1>1, <2>1 DEF ToSet
<1>6. s[1] \in ToSet(s)
  BY <1>1 DEF ToSet
<1> QED BY <1>1, <1>2, <1>3, <1>4, <1>5, <1>6 DEF ToSet

\* The n elements after the first m.
LEMMA Slice ==
    ASSUME NEW S, NEW s \in Seq(S), NEW m \in Nat, NEW n \in Nat, m + n <= Len(s)
    PROVE  /\ SubSeq(s, m + 1, m + n) \in Seq(S)
           /\ Len(SubSeq(s, m + 1, m + n)) = n
           /\ \A k \in 1 .. n : SubSeq(s, m + 1, m + n)[k] = s[m + k]
OBVIOUS

\* h and t are the first n elements of s and the others.
Cut(S, s, n, h, t) ==
    /\ h \in Seq(S) /\ Len(h) = n /\ \A k \in 1 .. n : h[k] = s[k]
    /\ t \in Seq(S) /\ Len(t) = Len(s) - n /\ \A k \in 1 .. Len(s) - n : t[k] = s[n + k]

\* A sequence cut in two.
LEMMA Split ==
    ASSUME NEW S, NEW s \in Seq(S), NEW n \in 0 .. Len(s)
    PROVE  Cut(S, s, n, SubSeq(s, 1, n), SubSeq(s, n + 1, Len(s)))
<1>1. Len(s) \in Nat
  OBVIOUS
<1>2. /\ SubSeq(s, 0 + 1, 0 + n) \in Seq(S) /\ Len(SubSeq(s, 0 + 1, 0 + n)) = n
      /\ \A k \in 1 .. n : SubSeq(s, 0 + 1, 0 + n)[k] = s[0 + k]
  <2>1. 0 \in Nat /\ n \in Nat /\ 0 + n <= Len(s)
    BY <1>1
  <2> QED BY <2>1, Slice
<1>3. 0 + 1 = 1 /\ 0 + n = n
  BY <1>1
<1> DEFINE r == Len(s) - n
<1>4. r \in Nat /\ n \in Nat /\ n + r = Len(s)
  BY <1>1
<1> HIDE DEF r
<1>5. /\ SubSeq(s, n + 1, n + r) \in Seq(S) /\ Len(SubSeq(s, n + 1, n + r)) = r
      /\ \A k \in 1 .. r : SubSeq(s, n + 1, n + r)[k] = s[n + k]
  <2>1. n + r <= Len(s)
    BY <1>1, <1>4
  <2> QED BY <1>4, <2>1, Slice
<1>6. \A k \in 1 .. n : 0 + k = k
  BY <1>1
<1>7. /\ SubSeq(s, 1, n) \in Seq(S) /\ Len(SubSeq(s, 1, n)) = n
      /\ \A k \in 1 .. n : SubSeq(s, 1, n)[k] = s[k]
  BY <1>2, <1>3, <1>6
<1>8. /\ SubSeq(s, n + 1, Len(s)) \in Seq(S) /\ Len(SubSeq(s, n + 1, Len(s))) = r
      /\ \A k \in 1 .. r : SubSeq(s, n + 1, Len(s))[k] = s[n + k]
  BY <1>4, <1>5
<1> QED BY <1>7, <1>8 DEF r, Cut

\* s is a, followed by b.
Join(S, a, b, s) ==
    /\ s \in Seq(S) /\ Len(s) = Len(a) + Len(b)
    /\ \A k \in 1 .. Len(a) : s[k] = a[k]
    /\ \A k \in 1 .. Len(b) : s[Len(a) + k] = b[k]

\* A sequence put together from two.
LEMMA Concatenated ==
    ASSUME NEW S, NEW a \in Seq(S), NEW b \in Seq(S)
    PROVE  Join(S, a, b, a \o b)
<1>1. Len(a) \in Nat /\ Len(b) \in Nat
  OBVIOUS
<1>2. a \o b \in Seq(S) /\ Len(a \o b) = Len(a) + Len(b)
  OBVIOUS
<1>3. \A k \in 1 .. Len(a) : (a \o b)[k] = a[k]
  BY <1>1
<1>4. \A k \in 1 .. Len(b) : (a \o b)[Len(a) + k] = b[k]
  <2> TAKE k \in 1 .. Len(b)
  <2>1. Len(a) + k \in 1 .. Len(a) + Len(b) /\ ~ (Len(a) + k <= Len(a)) /\ Len(a) + k - Len(a) = k
    BY <1>1
  <2> QED BY <1>1, <2>1
<1> QED BY <1>2, <1>3, <1>4 DEF Join

\* Every element of it is one of the two's.
LEMMA JoinElements ==
    ASSUME NEW S, NEW a \in Seq(S), NEW b \in Seq(S), NEW s, Join(S, a, b, s)
    PROVE  \A j \in 1 .. Len(s) :
              \/ j \in 1 .. Len(a) /\ s[j] = a[j]
              \/ j - Len(a) \in 1 .. Len(b) /\ s[j] = b[j - Len(a)]
<1>1. /\ Len(a) \in Nat /\ Len(b) \in Nat /\ Len(s) = Len(a) + Len(b)
      /\ \A k \in 1 .. Len(a) : s[k] = a[k]
      /\ \A k \in 1 .. Len(b) : s[Len(a) + k] = b[k]
  BY DEF Join
<1> TAKE j \in 1 .. Len(s)
<1>2. CASE j <= Len(a)
  BY <1>1, <1>2
<1>3. CASE ~ (j <= Len(a))
  <2>1. j - Len(a) \in 1 .. Len(b) /\ Len(a) + (j - Len(a)) = j
    BY <1>1, <1>3
  <2>2. s[Len(a) + (j - Len(a))] = b[j - Len(a)]
    BY <1>1, <2>1
  <2> QED BY <2>1, <2>2
<1> QED BY <1>2, <1>3

LEMMA SameElements ==
    ASSUME NEW S, NEW a \in Seq(S), NEW b \in Seq(S), Len(a) = Len(b),
           \A k \in 1 .. Len(a) : a[k] = b[k]
    PROVE  a = b
OBVIOUS

LEMMA JoinAssociates ==
    ASSUME NEW S, NEW a \in Seq(S), NEW b \in Seq(S), NEW c \in Seq(S), NEW s, Join(S, b, c, s)
    PROVE  Join(S, a \o b, c, a \o s)
<1>1. /\ s \in Seq(S) /\ Len(s) = Len(b) + Len(c)
      /\ \A k \in 1 .. Len(b) : s[k] = b[k]
      /\ \A k \in 1 .. Len(c) : s[Len(b) + k] = c[k]
  BY DEF Join
<1> DEFINE u == a \o b
           v == a \o s
<1>2. Join(S, a, b, u) /\ Join(S, a, s, v)
  BY <1>1, Concatenated
<1> HIDE DEF u, v
<1>3. Len(a) \in Nat /\ Len(b) \in Nat /\ Len(c) \in Nat
  OBVIOUS
<1>4. /\ u \in Seq(S) /\ Len(u) = Len(a) + Len(b)
      /\ \A k \in 1 .. Len(a) : u[k] = a[k]
      /\ \A k \in 1 .. Len(b) : u[Len(a) + k] = b[k]
      /\ v \in Seq(S) /\ Len(v) = Len(a) + Len(s)
      /\ \A k \in 1 .. Len(a) : v[k] = a[k]
      /\ \A k \in 1 .. Len(s) : v[Len(a) + k] = s[k]
  BY <1>2 DEF Join
<1>5. \A k \in 1 .. Len(u) : v[k] = u[k]
  <2> TAKE k \in 1 .. Len(u)
  <2>1. CASE k \in 1 .. Len(a)
    BY <1>4, <2>1
  <2>2. CASE k \notin 1 .. Len(a)
    <3>1. k - Len(a) \in 1 .. Len(b) /\ k - Len(a) \in 1 .. Len(s) /\ Len(a) + (k - Len(a)) = k
      BY <1>1, <1>3, <1>4, <2>2
    <3>2. v[Len(a) + (k - Len(a))] = s[k - Len(a)] /\ u[Len(a) + (k - Len(a))] = b[k - Len(a)]
          /\ s[k - Len(a)] = b[k - Len(a)]
      BY <1>1, <1>4, <3>1
    <3> QED BY <3>1, <3>2
  <2> QED BY <2>1, <2>2
<1>6. \A k \in 1 .. Len(c) : v[Len(u) + k] = c[k]
  <2> TAKE k \in 1 .. Len(c)
  <2>1. Len(b) + k \in 1 .. Len(s) /\ Len(u) + k = Len(a) + (Len(b) + k)
    BY <1>1, <1>3, <1>4
  <2>2. v[Len(a) + (Len(b) + k)] = s[Len(b) + k] /\ s[Len(b) + k] = c[k]
    BY <1>1, <1>4, <2>1
  <2> QED BY <2>1, <2>2
<1>7. Len(v) = Len(u) + Len(c)
  BY <1>1, <1>3, <1>4
<1> QED BY <1>4, <1>5, <1>6, <1>7 DEF Join, u, v

\* t is s without its first n elements.
Rear(S, s, n, t) ==
    t \in Seq(S) /\ Len(t) = Len(s) - n /\ \A k \in 1 .. Len(t) : t[k] = s[n + k]

\* The first elements of two sequences joined are those of the first one.
LEMMA JoinWithout ==
    ASSUME NEW S, NEW a \in Seq(S), NEW b \in Seq(S), NEW n \in 0 .. Len(a), NEW t \in Seq(S),
           Rear(S, a, n, t)
    PROVE  Rear(S, a \o b, n, t \o b)
<1> DEFINE u == a \o b
           v == t \o b
<1>1. Join(S, a, b, u) /\ Join(S, t, b, v)
  BY Concatenated
<1> HIDE DEF u, v
<1>0. Len(t) = Len(a) - n /\ \A k \in 1 .. Len(t) : t[k] = a[n + k]
  BY DEF Rear
<1>2. Len(a) \in Nat /\ Len(b) \in Nat /\ n \in Nat /\ n <= Len(a)
  OBVIOUS
<1>3. /\ Len(u) = Len(a) + Len(b) /\ Len(v) = Len(t) + Len(b) /\ v \in Seq(S)
      /\ \A k \in 1 .. Len(a) : u[k] = a[k]
      /\ \A k \in 1 .. Len(b) : u[Len(a) + k] = b[k]
      /\ \A k \in 1 .. Len(t) : v[k] = t[k]
      /\ \A k \in 1 .. Len(b) : v[Len(t) + k] = b[k]
  BY <1>1 DEF Join
<1>4. ASSUME NEW k \in 1 .. Len(v) PROVE v[k] = u[n + k]
  <2>1. CASE k \in 1 .. Len(t)
    <3>1. n + k \in 1 .. Len(a)
      BY <1>0, <1>2, <2>1
    <3> QED BY <1>0, <1>3, <2>1, <3>1
  <2>2. CASE k \notin 1 .. Len(t)
    <3>1. PICK j \in 1 .. Len(b) : k = Len(t) + j
      <4>1. k - Len(t) \in 1 .. Len(b) /\ k = Len(t) + (k - Len(t))
        BY <1>2, <1>3, <2>2
      <4> QED BY <4>1
    <3>2. n + k = Len(a) + j
      BY <1>0, <1>2, <3>1
    <3> QED BY <1>3, <3>1, <3>2
  <2> QED BY <2>1, <2>2
<1>5. Len(v) = Len(u) - n
  BY <1>0, <1>2, <1>3
<1> QED BY <1>3, <1>4, <1>5 DEF u, v, Rear
=============================================================================
