---------------------------- MODULE QuantizeProofs ----------------------------
(***************************************************************************)
(* Proofs about Quantize for any number of threads, any pictures, any      *)
(* palettes and any width and number of the buckets.                       *)
(***************************************************************************)
EXTENDS Quantize, FiniteSetTheorems, WellFoundedInduction, TLAPS
-----------------------------------------------------------------------------
(* Numbers *)

LEMMA Least ==
    ASSUME NEW T \in SUBSET Nat, T # {}
    PROVE  \E m \in T : \A n \in T : m <= n
<1>1. IsWellFoundedOn(OpToRel(<, Nat), Nat)
  BY NatLessThanWellFounded
<1>2. PICK m \in T : \A n \in T : ~ (<<n, m>> \in OpToRel(<, Nat))
  BY <1>1, WFMin
<1>3. \A k, n \in Nat : <<n, k>> \in OpToRel(<, Nat) <=> n < k
  BY DEF OpToRel
<1>4. \A n \in T : ~ (n < m)
  BY <1>2, <1>3
<1> QED
  BY <1>4

(* What holds of a, and of n + 1 when it holds of n, holds from a to b.    *)
LEMMA FromTo ==
    ASSUME NEW a \in Int, NEW b \in Int, NEW T \in SUBSET (a .. b), a <= b => a \in T,
           \A n \in a .. b : n + 1 <= b /\ n \in T => n + 1 \in T
    PROVE  T = a .. b
<1>1. ASSUME NEW k \in a .. b, k \notin T PROVE FALSE
  <2> DEFINE Bad == {n \in Nat : n + a \in a .. b /\ n + a \notin T}
  <2>1. Bad \in SUBSET Nat /\ k - a \in Bad
    BY <1>1
  <2>2. PICK m \in Bad : \A n \in Bad : m <= n
    <3> HIDE DEF Bad
    <3> QED
      BY <2>1, Least
  <2>3. m # 0 /\ m - 1 \notin Bad
    BY <2>2
  <2>4. (m - 1) + a \in a .. b /\ (m - 1) + a \in T /\ ((m - 1) + a) + 1 = m + a /\ m + a <= b
    BY <2>2, <2>3
  <2>5. m + a \in T
    <3> HIDE DEF Bad
    <3> QED
      BY <2>4
  <2> QED
    BY <2>2, <2>5
<1> QED
  BY <1>1

LEMMA Exchange ==
    \A x, y, z, u, v, w \in Int : (x + (z - w)) - y = u - v => (x + z) - y = (u + w) - v
OBVIOUS

LEMMA Shift ==
    \A x, y, z, u, v \in Int : x - y = u - v => (x + z) - y = (u + z) - v
OBVIOUS

LEMMA Inside ==
    ASSUME NEW a \in Nat, NEW b \in Nat, NEW l \in Nat, b <= l, NEW n \in a .. b, n + 1 <= b
    PROVE  /\ n + 1 \in 1 .. l /\ (n + 1) - 1 = n /\ n + 1 \in (a + 1) .. b
           /\ n \in 0 .. l /\ a \in 0 .. l
OBVIOUS

LEMMA EntryOf == \A f : f \in Seq(Int) => Len(f) \in Nat /\ \A i \in 1 .. Len(f) : f[i] \in Int
OBVIOUS

LEMMA MinIsLeast ==
    ASSUME NEW T \in SUBSET Int, NEW a \in Int, NEW x \in T, \A n \in T : a <= n
    PROVE  Min(T) \in T /\ Min(T) \in Int /\ \A n \in T : Min(T) <= n
<1> DEFINE D == {n \in Nat : a + n \in T}
<1>1. D \in SUBSET Nat /\ x - a \in D
  OBVIOUS
<1>2. PICK m \in D : \A n \in D : m <= n
  <2> HIDE DEF D
  <2> QED
    BY <1>1, Least
<1>3. a + m \in T /\ \A n \in T : a + m <= n
  <2>1. ASSUME NEW n \in T PROVE a + m <= n
    <3>1. n - a \in D
      OBVIOUS
    <3> QED
      BY <1>2, <3>1
  <2> QED
    BY <1>2, <2>1
<1> QED
  BY <1>3 DEF Min

LEMMA MaxIsGreatest ==
    ASSUME NEW T \in SUBSET Int, NEW b \in Int, NEW x \in T, \A n \in T : n <= b
    PROVE  Max(T) \in T /\ Max(T) \in Int /\ \A n \in T : n <= Max(T)
<1> DEFINE D == {n \in Nat : b - n \in T}
<1>1. D \in SUBSET Nat /\ b - x \in D
  OBVIOUS
<1>2. PICK m \in D : \A n \in D : m <= n
  <2> HIDE DEF D
  <2> QED
    BY <1>1, Least
<1>3. b - m \in T /\ \A n \in T : b - m >= n
  <2>1. ASSUME NEW n \in T PROVE b - m >= n
    <3>1. b - n \in D
      OBVIOUS
    <3> QED
      BY <1>2, <3>1
  <2> QED
    BY <1>2, <2>1
<1> QED
  BY <1>3 DEF Max
-----------------------------------------------------------------------------
(* Sums *)

IsSums(f, g) == g = [n \in 0 .. Len(f) |-> IF n = 0 THEN 0 ELSE g[n - 1] + f[n]]

LEMMA SumsExist ==
    ASSUME NEW f \in Seq(Int)
    PROVE  \E g : IsSums(f, g)
<1> DEFINE Law(m, g) == \A n \in 0 .. m : g[n] = IF n = 0 THEN 0 ELSE g[n - 1] + f[n]
           T == {m \in 0 .. Len(f) : \E g : Law(m, g)}
<1>1. Len(f) \in Nat
  OBVIOUS
<1>2. 0 \in T
  <2> DEFINE g == [n \in 0 .. 0 |-> 0]
  <2>1. Law(0, g)
    OBVIOUS
  <2> HIDE DEF g, Law
  <2> QED
    BY <1>1, <2>1
<1>3. ASSUME NEW m \in 0 .. Len(f), m + 1 <= Len(f), m \in T PROVE m + 1 \in T
  <2>1. PICK g : \A n \in 0 .. m : g[n] = IF n = 0 THEN 0 ELSE g[n - 1] + f[n]
    BY <1>3
  <2> DEFINE h == [n \in 0 .. m + 1 |-> IF n <= m THEN g[n] ELSE g[m] + f[m + 1]]
  <2>2. /\ \A n \in 0 .. m : h[n] = g[n]
        /\ h[m + 1] = g[m] + f[m + 1]
    BY <1>1
  <2> HIDE DEF h
  <2>3. ASSUME NEW n \in 0 .. m + 1 PROVE h[n] = IF n = 0 THEN 0 ELSE h[n - 1] + f[n]
    <3>1. CASE n \in 0 .. m
      <4>1. n # 0 => n - 1 \in 0 .. m
        BY <1>1, <3>1
      <4> QED
        BY <2>1, <2>2, <3>1, <4>1
    <3>2. CASE n = m + 1
      <4>1. m \in 0 .. m /\ n - 1 = m /\ n # 0
        BY <1>1, <3>2
      <4> QED
        BY <2>2, <3>2, <4>1
    <3> QED
      BY <1>1, <3>1, <3>2
  <2>4. Law(m + 1, h)
    BY <2>3
  <2> HIDE DEF Law
  <2> QED
    BY <1>1, <1>3, <2>4
<1>4. Len(f) \in T
  <2>1. T \in SUBSET (0 .. Len(f))
    OBVIOUS
  <2>2. T = 0 .. Len(f)
    <3> HIDE DEF T
    <3> QED
      BY <1>1, <1>2, <1>3, <2>1, FromTo
  <2> HIDE DEF T
  <2> QED
    BY <1>1, <2>2
<1>5. PICK g : \A n \in 0 .. Len(f) : g[n] = IF n = 0 THEN 0 ELSE g[n - 1] + f[n]
  BY <1>4
<1> DEFINE h == [n \in 0 .. Len(f) |-> g[n]]
           i == [n \in 0 .. Len(f) |-> IF n = 0 THEN 0 ELSE h[n - 1] + f[n]]
<1>6. \A n \in 0 .. Len(f) : h[n] = g[n] /\ (n # 0 => h[n - 1] = g[n - 1])
  BY <1>1
<1>7. h = [n \in 0 .. Len(f) |-> h[n]] /\ i = [n \in 0 .. Len(f) |-> i[n]]
  OBVIOUS
<1>8. \A n \in 0 .. Len(f) : i[n] = IF n = 0 THEN 0 ELSE h[n - 1] + f[n]
  OBVIOUS
<1> HIDE DEF h, i
<1>9. \A n \in 0 .. Len(f) : h[n] = i[n]
  BY <1>5, <1>6, <1>8
<1>10. h = i
  BY <1>7, <1>9, Zenon
<1>11. IsSums(f, h)
  BY <1>10 DEF IsSums, i
<1> QED
  BY <1>11

(* The law the sums follow. *)
LEMMA SumsLaw ==
    ASSUME NEW f \in Seq(Int)
    PROVE  /\ Sums(f)[0] = 0
           /\ \A n \in 0 .. Len(f) : Sums(f)[n] \in Int
           /\ \A n \in 1 .. Len(f) : Sums(f)[n] = Sums(f)[n - 1] + f[n]
<1> DEFINE g == CHOOSE h : IsSums(f, h)
<1>1. IsSums(f, g)
  BY SumsExist
<1>2. Sums(f) = g
  BY DEF Sums, IsSums
<1> HIDE DEF g
<1>3. Len(f) \in Nat
  OBVIOUS
<1>4. \A n \in 0 .. Len(f) : g[n] = IF n = 0 THEN 0 ELSE g[n - 1] + f[n]
  BY <1>1 DEF IsSums
<1> DEFINE T == {n \in 0 .. Len(f) : g[n] \in Int}
<1>5. 0 \in T
  BY <1>3, <1>4
<1>6. ASSUME NEW n \in 0 .. Len(f), n + 1 <= Len(f), n \in T PROVE n + 1 \in T
  <2>1. n + 1 \in 1 .. Len(f) /\ n + 1 \in 0 .. Len(f) /\ (n + 1) - 1 = n /\ n + 1 # 0 /\ f[n + 1] \in Int
    BY <1>3, <1>6
  <2>2. g[n + 1] = g[n] + f[n + 1]
    BY <1>4, <2>1
  <2> QED
    BY <1>6, <2>1, <2>2
<1>7. T = 0 .. Len(f)
  <2>1. T \in SUBSET (0 .. Len(f))
    OBVIOUS
  <2> HIDE DEF T
  <2> QED
    BY <1>3, <1>5, <1>6, <2>1, FromTo
<1>8. 0 \in 0 .. Len(f) /\ \A n \in 1 .. Len(f) : n \in 0 .. Len(f) /\ n # 0
  BY <1>3
<1> QED
  BY <1>2, <1>4, <1>7, <1>8

(* Sums of the same numbers are the same. *)
LEMMA SumsAgree ==
    ASSUME NEW f \in Seq(Int), NEW g \in Seq(Int), NEW a \in Nat, NEW b \in Nat,
           a <= b, b <= Len(f), b <= Len(g), \A i \in (a + 1) .. b : f[i] = g[i]
    PROVE  Sums(f)[b] - Sums(f)[a] = Sums(g)[b] - Sums(g)[a]
<1>1. PICK F, G : F = Sums(f) /\ G = Sums(g)
  OBVIOUS
<1>2. /\ \A n \in 0 .. Len(f) : F[n] \in Int
      /\ \A n \in 1 .. Len(f) : F[n] = F[n - 1] + f[n]
      /\ \A n \in 0 .. Len(g) : G[n] \in Int
      /\ \A n \in 1 .. Len(g) : G[n] = G[n - 1] + g[n]
  BY <1>1, SumsLaw, Zenon
<1>3. Len(f) \in Nat /\ Len(g) \in Nat
  OBVIOUS
<1> DEFINE T == {n \in a .. b : F[n] - F[a] = G[n] - G[a]}
<1>4. a \in T
  <2>1. F[a] \in Int /\ G[a] \in Int
    BY <1>2, <1>3
  <2> QED
    BY <2>1
<1>5. ASSUME NEW n \in a .. b, n + 1 <= b, n \in T PROVE n + 1 \in T
  <2>6. /\ n + 1 \in 1 .. Len(f) /\ n + 1 \in 1 .. Len(g) /\ (n + 1) - 1 = n
        /\ n \in 0 .. Len(f) /\ n \in 0 .. Len(g) /\ a \in 0 .. Len(f) /\ a \in 0 .. Len(g)
        /\ n + 1 \in (a + 1) .. b
    BY <1>3, <1>5, Inside, Zenon
  <2>1. f[n + 1] \in Int /\ g[n + 1] \in Int
    BY <2>6, EntryOf, Zenon
  <2>2. F[n + 1] = F[n] + f[n + 1] /\ G[n + 1] = G[n] + g[n + 1] /\ f[n + 1] = g[n + 1]
    BY <1>2, <2>6
  <2>3. F[n] \in Int /\ G[n] \in Int /\ F[a] \in Int /\ G[a] \in Int
    BY <1>2, <2>6, Zenon
  <2>4. F[n] - F[a] = G[n] - G[a]
    BY <1>5
  <2>5. F[n + 1] - F[a] = G[n + 1] - G[a]
    <3>1. PICK x, y, z, u, v : x = F[n] /\ y = F[a] /\ z = f[n + 1] /\ u = G[n] /\ v = G[a]
      OBVIOUS
    <3>2. x \in Int /\ y \in Int /\ z \in Int /\ u \in Int /\ v \in Int
      BY <2>1, <2>3, <3>1, Zenon
    <3>3. x - y = u - v
      BY <2>4, <3>1, Zenon
    <3>4. (x + z) - y = (u + z) - v
      BY <3>2, <3>3
    <3> QED
      BY <2>2, <3>1, <3>4, Zenon
  <2> QED
    BY <1>5, <2>5
<1>6. T = a .. b
  <2>1. T \in SUBSET (a .. b)
    OBVIOUS
  <2> HIDE DEF T
  <2> QED
    BY <1>4, <1>5, <2>1, FromTo
<1>7. b \in T
  <2> HIDE DEF T
  <2> QED
    BY <1>6
<1> QED
  BY <1>1, <1>7

(* A sum whose parts lie between multiples of other parts lies between the *)
(* same multiples of their sum.                                            *)
LEMMA SumsBound ==
    ASSUME NEW f \in Seq(Int), NEW w \in Seq(Int), NEW a \in Nat, NEW b \in Nat,
           a <= b, b <= Len(f), b <= Len(w), NEW lo \in Int, NEW hi \in Int,
           \A i \in (a + 1) .. b : lo * w[i] <= f[i] /\ f[i] <= hi * w[i]
    PROVE  /\ lo * (Sums(w)[b] - Sums(w)[a]) <= Sums(f)[b] - Sums(f)[a]
           /\ Sums(f)[b] - Sums(f)[a] <= hi * (Sums(w)[b] - Sums(w)[a])
<1>1. PICK F, W : F = Sums(f) /\ W = Sums(w)
  OBVIOUS
<1>2. /\ \A n \in 0 .. Len(f) : F[n] \in Int
      /\ \A n \in 1 .. Len(f) : F[n] = F[n - 1] + f[n]
      /\ \A n \in 0 .. Len(w) : W[n] \in Int
      /\ \A n \in 1 .. Len(w) : W[n] = W[n - 1] + w[n]
  BY <1>1, SumsLaw, Zenon
<1>3. Len(f) \in Nat /\ Len(w) \in Nat
  OBVIOUS
<1> DEFINE T == {n \in a .. b : lo * (W[n] - W[a]) <= F[n] - F[a] /\ F[n] - F[a] <= hi * (W[n] - W[a])}
<1>4. a \in T
  <2>1. a \in 0 .. Len(f) /\ a \in 0 .. Len(w)
    BY <1>3
  <2>2. F[a] - F[a] = 0 /\ W[a] - W[a] = 0
    BY <1>2, <2>1
  <2> QED
    BY <2>2
<1>5. ASSUME NEW n \in a .. b, n + 1 <= b, n \in T PROVE n + 1 \in T
  <2>11. /\ n + 1 \in 1 .. Len(f) /\ n + 1 \in 1 .. Len(w) /\ (n + 1) - 1 = n
         /\ n \in 0 .. Len(f) /\ n \in 0 .. Len(w) /\ a \in 0 .. Len(f) /\ a \in 0 .. Len(w)
         /\ n + 1 \in (a + 1) .. b
    BY <1>3, <1>5, Inside, Zenon
  <2>1. /\ n + 1 \in 1 .. Len(f) /\ n + 1 \in 1 .. Len(w) /\ (n + 1) - 1 = n
        /\ n \in 0 .. Len(f) /\ n \in 0 .. Len(w) /\ a \in 0 .. Len(f) /\ a \in 0 .. Len(w)
        /\ n + 1 \in (a + 1) .. b /\ f[n + 1] \in Int /\ w[n + 1] \in Int
    BY <2>11, EntryOf, Zenon
  <2>2. PICK x, y \in Int : x = f[n + 1] /\ y = w[n + 1]
    BY <2>1
  <2>8. F[n] \in Int /\ F[a] \in Int /\ W[n] \in Int /\ W[a] \in Int
    BY <1>2, <2>1
  <2>3. PICK u, v : u = F[n] - F[a] /\ v = W[n] - W[a]
    OBVIOUS
  <2>10. u \in Int /\ v \in Int
    BY <2>3, <2>8
  <2>9. F[n + 1] = F[n] + x /\ W[n + 1] = W[n] + y
    BY <1>2, <2>1, <2>2
  <2>4. F[n + 1] - F[a] = u + x /\ W[n + 1] - W[a] = v + y
    <3>0. x \in Int /\ y \in Int
      BY <2>1, <2>2
    <3>3. PICK c, d, e, h : c = F[n] /\ d = F[a] /\ e = W[n] /\ h = W[a]
      OBVIOUS
    <3>4. c \in Int /\ d \in Int /\ e \in Int /\ h \in Int
      BY <2>8, <3>3, Zenon
    <3>1. (c + x) - d = (c - d) + x
      BY <3>0, <3>4
    <3>2. (e + y) - h = (e - h) + y
      BY <3>0, <3>4
    <3> QED
      BY <2>3, <2>9, <3>1, <3>2, <3>3, Zenon
  <2>5. lo * v <= u /\ u <= hi * v
    BY <1>5, <2>3
  <2>6. lo * y <= x /\ x <= hi * y
    BY <2>1, <2>2
  <2>7. lo * (v + y) <= u + x /\ u + x <= hi * (v + y)
    BY <2>5, <2>6, <2>10
  <2> QED
    BY <2>1, <2>4, <2>7
<1>6. T = a .. b
  <2>1. T \in SUBSET (a .. b)
    OBVIOUS
  <2> HIDE DEF T
  <2> QED
    BY <1>4, <1>5, <2>1, FromTo
<1> QED
  BY <1>1, <1>6

(* One other number changes the sums from its place on by the difference.  *)
LEMMA SumsChange ==
    ASSUME NEW f \in Seq(Int), NEW g \in Seq(Int), NEW k \in 1 .. Len(f), Len(g) = Len(f),
           \A i \in 1 .. Len(f) : i # k => g[i] = f[i]
    PROVE  \A n \in 0 .. Len(f) : Sums(g)[n] = Sums(f)[n] + (IF k <= n THEN g[k] - f[k] ELSE 0)
<1>1. PICK F, G : F = Sums(f) /\ G = Sums(g)
  OBVIOUS
<1>2. /\ F[0] = 0 /\ G[0] = 0
      /\ \A n \in 0 .. Len(f) : F[n] \in Int
      /\ \A n \in 1 .. Len(f) : F[n] = F[n - 1] + f[n]
      /\ \A n \in 0 .. Len(f) : G[n] \in Int
      /\ \A n \in 1 .. Len(f) : G[n] = G[n - 1] + g[n]
  BY <1>1, SumsLaw, Zenon
<1>3. Len(f) \in Nat /\ f[k] \in Int /\ g[k] \in Int
  OBVIOUS
<1> DEFINE T == {n \in 0 .. Len(f) : G[n] = F[n] + (IF k <= n THEN g[k] - f[k] ELSE 0)}
<1>4. 0 \in T
  BY <1>2, <1>3
<1>5. ASSUME NEW n \in 0 .. Len(f), n + 1 <= Len(f), n \in T PROVE n + 1 \in T
  <2>1. /\ n + 1 \in 1 .. Len(f) /\ (n + 1) - 1 = n /\ f[n + 1] \in Int /\ g[n + 1] \in Int
    BY <1>3, <1>5
  <2>2. F[n + 1] = F[n] + f[n + 1] /\ G[n + 1] = G[n] + g[n + 1] /\ F[n] \in Int /\ G[n] \in Int
    BY <1>2, <2>1
  <2>3. CASE n + 1 = k
    <3>1. G[n] = F[n]
      BY <1>3, <1>5, <2>2, <2>3
    <3> QED
      BY <1>3, <2>1, <2>2, <2>3, <3>1
  <2>4. CASE n + 1 # k
    <3>1. g[n + 1] = f[n + 1] /\ (k <= n + 1 <=> k <= n)
      BY <2>1, <2>4
    <3>2. G[n] = F[n] + (IF k <= n THEN g[k] - f[k] ELSE 0)
      BY <1>5
    <3>3. CASE k <= n
      <4>1. PICK x, y, u, v, z : x = F[n] /\ y = G[n] /\ u = f[k] /\ v = g[k] /\ z = f[n + 1]
        OBVIOUS
      <4>2. x \in Int /\ u \in Int /\ v \in Int /\ z \in Int
        BY <1>3, <2>1, <2>2, <4>1, Zenon
      <4>3. y = x + (v - u)
        BY <3>2, <3>3, <4>1
      <4>4. y + z = (x + z) + (v - u)
        BY <4>2, <4>3
      <4>5. G[n + 1] = F[n + 1] + (g[k] - f[k])
        BY <2>2, <3>1, <4>1, <4>4, Zenon
      <4> QED
        BY <2>1, <3>1, <3>3, <4>5
    <3>4. CASE ~ (k <= n)
      BY <1>3, <2>1, <2>2, <3>1, <3>2, <3>4
    <3> QED
      BY <3>3, <3>4
  <2> QED
    BY <2>3, <2>4
<1>6. T = 0 .. Len(f)
  <2>0. 0 \in Int /\ Len(f) \in Int
    BY <1>3
  <2>1. T \in SUBSET (0 .. Len(f))
    OBVIOUS
  <2> HIDE DEF T
  <2> QED
    BY <2>0, <1>4, <1>5, <2>1, FromTo
<1>7. \A n \in 0 .. Len(f) : n \in T
  <2> HIDE DEF T
  <2> QED
    BY <1>6
<1> QED
  BY <1>1, <1>7

LEMMA BijectionFacts ==
    ASSUME NEW P, NEW q
    PROVE  q \in Bijection(P, P) <=>
               /\ q \in [P -> P]
               /\ \A i, j \in P : q[i] = q[j] => i = j
               /\ \A j \in P : \E i \in P : q[i] = j
BY DEF Bijection, Injection, Surjection, IsInjective

LEMMA BijectionGives ==
    ASSUME NEW P, NEW q \in Bijection(P, P)
    PROVE  /\ \A i \in P : q[i] \in P
           /\ \A i, j \in P : q[i] = q[j] => i = j
           /\ \A j \in P : \E i \in P : q[i] = j
BY BijectionFacts

(* A bijection of an interval without its last place: what it made of the  *)
(* last place it makes of the one it sent there.                           *)
LEMMA BijectionShrinks ==
    ASSUME NEW a \in Nat, NEW n \in Nat, a <= n,
           NEW q \in Bijection((a + 1) .. (n + 1), (a + 1) .. (n + 1)),
           NEW k \in (a + 1) .. (n + 1), q[k] = n + 1
    PROVE  [i \in (a + 1) .. n |-> IF i = k THEN q[n + 1] ELSE q[i]]
               \in Bijection((a + 1) .. n, (a + 1) .. n)
<1> DEFINE r == [i \in (a + 1) .. n |-> IF i = k THEN q[n + 1] ELSE q[i]]
<1>1. /\ q \in [(a + 1) .. (n + 1) -> (a + 1) .. (n + 1)]
      /\ \A i, j \in (a + 1) .. (n + 1) : q[i] = q[j] => i = j
      /\ \A j \in (a + 1) .. (n + 1) : \E i \in (a + 1) .. (n + 1) : q[i] = j
  <2>1. PICK P : P = (a + 1) .. (n + 1)
    OBVIOUS
  <2>2. q \in Bijection(P, P)
    BY <2>1, Zenon
  <2>3. /\ q \in [P -> P]
        /\ \A i, j \in P : q[i] = q[j] => i = j
        /\ \A j \in P : \E i \in P : q[i] = j
    BY <2>2, BijectionFacts, Zenon
  <2> QED
    BY <2>1, <2>3, Zenon
<1>2. /\ \A i \in (a + 1) .. n : i \in (a + 1) .. (n + 1) /\ i # n + 1
      /\ n + 1 \in (a + 1) .. (n + 1)
      /\ \A i \in (a + 1) .. (n + 1) : i # n + 1 => i \in (a + 1) .. n
  OBVIOUS
<1>3. \A i \in (a + 1) .. n : r[i] = IF i = k THEN q[n + 1] ELSE q[i]
  OBVIOUS
<1>4. ASSUME NEW i \in (a + 1) .. n PROVE r[i] \in (a + 1) .. n
  <2>1. CASE i = k
    <3>1. q[n + 1] # n + 1 /\ q[n + 1] \in (a + 1) .. (n + 1)
      BY <1>1, <1>2, <2>1
    <3> QED
      BY <1>2, <1>3, <2>1, <3>1
  <2>2. CASE i # k
    <3>1. q[i] # n + 1 /\ q[i] \in (a + 1) .. (n + 1)
      BY <1>1, <1>2, <2>2
    <3> QED
      BY <1>2, <1>3, <2>2, <3>1
  <2> QED
    BY <2>1, <2>2
<1>5. ASSUME NEW i \in (a + 1) .. n, NEW j \in (a + 1) .. n, r[i] = r[j] PROVE i = j
  BY <1>1, <1>2, <1>3, <1>5
<1>6. ASSUME NEW j \in (a + 1) .. n PROVE \E i \in (a + 1) .. n : r[i] = j
  <2>1. PICK i \in (a + 1) .. (n + 1) : q[i] = j
    BY <1>1, <1>2
  <2>2. i # k
    BY <1>2, <2>1
  <2>3. CASE i = n + 1
    <3>1. k \in (a + 1) .. n /\ r[k] = j
      BY <1>2, <1>3, <2>1, <2>2, <2>3
    <3> QED
      BY <3>1
  <2>4. CASE i # n + 1
    <3>1. i \in (a + 1) .. n /\ r[i] = j
      BY <1>2, <1>3, <2>1, <2>2, <2>4
    <3> QED
      BY <3>1
  <2> QED
    BY <2>3, <2>4
<1>7. r \in [(a + 1) .. n -> (a + 1) .. n]
  BY <1>4
<1> HIDE DEF r
<1>8. r \in Bijection((a + 1) .. n, (a + 1) .. n)
  BY <1>5, <1>6, <1>7, BijectionFacts
<1> QED
  BY <1>8 DEF r

(* The order of the numbers does not matter to their sum.                  *)
LEMMA SumsReorder ==
    ASSUME NEW f \in Seq(Int), NEW g \in Seq(Int), NEW a \in Nat, NEW b \in Nat,
           a <= b, b <= Len(f), b <= Len(g),
           NEW q \in Bijection((a + 1) .. b, (a + 1) .. b),
           \A i \in (a + 1) .. b : g[i] = f[q[i]]
    PROVE  Sums(g)[b] - Sums(g)[a] = Sums(f)[b] - Sums(f)[a]
<1> DEFINE Same(n) ==
        \A e \in Seq(Int) : \A r \in Bijection((a + 1) .. n, (a + 1) .. n) :
            n <= Len(e) /\ (\A i \in (a + 1) .. n : e[i] = f[r[i]])
                => Sums(e)[n] - Sums(e)[a] = Sums(f)[n] - Sums(f)[a]
           T == {n \in a .. b : Same(n)}
<1> HIDE DEF Same
<1>1. Len(f) \in Nat
  OBVIOUS
<1>2. PICK F : F = Sums(f)
  OBVIOUS
<1>3. /\ \A n \in 0 .. Len(f) : F[n] \in Int
      /\ \A n \in 1 .. Len(f) : F[n] = F[n - 1] + f[n]
  BY <1>2, SumsLaw, Zenon
<1>4. a \in T
  <2>1. ASSUME NEW e \in Seq(Int), a <= Len(e)
        PROVE  Sums(e)[a] - Sums(e)[a] = Sums(f)[a] - Sums(f)[a]
    <3>1. a \in 0 .. Len(e) /\ a \in 0 .. Len(f)
      BY <1>1, <2>1
    <3>2. Sums(e)[a] \in Int /\ Sums(f)[a] \in Int
      BY <3>1, SumsLaw
    <3> QED
      BY <3>2
  <2>2. Same(a)
    BY <2>1 DEF Same
  <2> QED
    BY <2>2
<1>5. ASSUME NEW n \in a .. b, n + 1 <= b, n \in T PROVE n + 1 \in T
  <2>1. ASSUME NEW e \in Seq(Int), NEW r \in Bijection((a + 1) .. (n + 1), (a + 1) .. (n + 1)),
               n + 1 <= Len(e), \A i \in (a + 1) .. (n + 1) : e[i] = f[r[i]]
        PROVE  Sums(e)[n + 1] - Sums(e)[a] = Sums(f)[n + 1] - Sums(f)[a]
    <3>1. \A j \in (a + 1) .. (n + 1) : \E i \in (a + 1) .. (n + 1) : r[i] = j
      <4>1. PICK P : P = (a + 1) .. (n + 1)
        OBVIOUS
      <4>2. r \in Bijection(P, P)
        BY <4>1, Zenon
      <4>3. \A j \in P : \E i \in P : r[i] = j
        BY <4>2, BijectionFacts, Zenon
      <4> QED
        BY <4>1, <4>3, Zenon
    <3>2. n + 1 \in (a + 1) .. (n + 1) /\ n \in Nat /\ a <= n /\ Len(e) \in Nat
      BY <1>5
    <3>3. PICK k \in (a + 1) .. (n + 1) : r[k] = n + 1
      BY <3>1, <3>2
    <3> DEFINE r2 == [i \in (a + 1) .. n |-> IF i = k THEN r[n + 1] ELSE r[i]]
               e2 == [i \in 1 .. Len(e) |-> IF i = k THEN e[n + 1] ELSE e[i]]
    <3>4. r2 \in Bijection((a + 1) .. n, (a + 1) .. n)
      <4> HIDE DEF r2
      <4> QED
        BY <3>2, <3>3, BijectionShrinks DEF r2
    <3>5. n + 1 \in 1 .. Len(e) /\ k \in 1 .. Len(e)
      BY <2>1, <3>2
    <3>6. \A i \in 1 .. Len(e) : e[i] \in Int
      OBVIOUS
    <3>7. e2 \in Seq(Int) /\ Len(e2) = Len(e) /\ \A i \in 1 .. Len(e) : e2[i] = IF i = k THEN e[n + 1] ELSE e[i]
      <4>1. \A i \in 1 .. Len(e) : e2[i] \in Int
        BY <3>5, <3>6
      <4> QED
        BY <3>2, <4>1
    <3>8. \A i \in (a + 1) .. n : r2[i] = IF i = k THEN r[n + 1] ELSE r[i]
      OBVIOUS
    <3> HIDE DEF r2, e2
    <3>9. \A i \in (a + 1) .. n : i \in 1 .. Len(e) /\ i \in (a + 1) .. (n + 1)
      BY <2>1, <3>2
    <3>10. \A i \in (a + 1) .. n : e2[i] = f[r2[i]]
      BY <2>1, <3>2, <3>7, <3>8, <3>9
    <3>11. Sums(e2)[n] - Sums(e2)[a] = Sums(f)[n] - Sums(f)[a]
      <4>1. Same(n)
        BY <1>5
      <4>2. n <= Len(e2)
        BY <2>1, <3>2, <3>7
      <4>3. e2 \in Seq(Int)
        BY <3>7
      <4> QED
        BY <3>4, <3>10, <4>1, <4>2, <4>3, Zenon DEF Same
    <3>12. \A m \in 0 .. Len(e) : Sums(e2)[m] = Sums(e)[m] + (IF k <= m THEN e2[k] - e[k] ELSE 0)
      <4>1. e2 \in Seq(Int) /\ Len(e2) = Len(e)
        BY <3>7
      <4>2. \A i \in 1 .. Len(e) : i # k => e2[i] = e[i]
        BY <3>7
      <4> QED
        BY <3>5, <4>1, <4>2, SumsChange, Zenon
    <3>13. e2[k] = e[n + 1] /\ e[n + 1] \in Int /\ e[k] \in Int /\ f[n + 1] \in Int /\ e[k] = f[n + 1]
      <4>1. e2[k] = e[n + 1] /\ e[n + 1] \in Int /\ e[k] \in Int
        BY <3>5, <3>6, <3>7
      <4>2. e[k] = f[n + 1]
        BY <2>1, <3>3
      <4> QED
        BY <4>1, <4>2
    <3>14. PICK E, E2 : E = Sums(e) /\ E2 = Sums(e2)
      OBVIOUS
    <3>15. /\ E[n] \in Int /\ E[a] \in Int /\ E[n + 1] = E[n] + e[n + 1]
           /\ F[n] \in Int /\ F[a] \in Int /\ F[n + 1] = F[n] + f[n + 1]
      <4>1. n + 1 \in 1 .. Len(f) /\ n \in 0 .. Len(f) /\ a \in 0 .. Len(f) /\ (n + 1) - 1 = n
        BY <1>1, <1>5, Inside, Zenon
      <4>2. n \in 0 .. Len(e) /\ a \in 0 .. Len(e)
        BY <2>1, <3>2
      <4>3. E[n] \in Int /\ E[a] \in Int /\ E[n + 1] = E[(n + 1) - 1] + e[n + 1]
        BY <3>5, <3>14, <4>2, SumsLaw, Zenon
      <4> QED
        BY <1>3, <4>1, <4>3
    <3>16. /\ E2[n] = E[n] + (IF k <= n THEN e[n + 1] - e[k] ELSE 0)
           /\ E2[a] = E[a]
      <4>1. n \in 0 .. Len(e) /\ a \in 0 .. Len(e) /\ ~ (k <= a)
        BY <2>1, <3>2
      <4>2. /\ E2[n] = E[n] + (IF k <= n THEN e[n + 1] - e[k] ELSE 0)
            /\ E2[a] = E[a] + 0
        BY <3>12, <3>13, <3>14, <4>1, Zenon
      <4> QED
        BY <3>15, <4>2
    <3>17. E2[n] - E2[a] = F[n] - F[a]
      BY <1>2, <3>11, <3>14
    <3>18. E[n + 1] - E[a] = F[n + 1] - F[a]
      <4>1. PICK x, y, z, u, v, w : /\ x = E[n] /\ y = E[a] /\ z = e[n + 1]
                                    /\ u = F[n] /\ v = F[a] /\ w = f[n + 1]
        OBVIOUS
      <4>6. x \in Int /\ y \in Int /\ z \in Int /\ u \in Int /\ v \in Int /\ w \in Int
        BY <3>13, <3>15, <4>1
      <4>2. /\ x \in Int /\ y \in Int /\ z \in Int /\ u \in Int /\ v \in Int /\ w \in Int
            /\ E[n + 1] = x + z /\ F[n + 1] = u + w /\ e[k] = w
        BY <3>13, <3>15, <4>1
      <4>3. E2[n] = x + (IF k <= n THEN z - w ELSE 0) /\ E2[a] = y
        BY <3>16, <4>1, <4>2
      <4>4. CASE k <= n
        <5>1. E2[n] - E2[a] = (x + (z - w)) - y
          BY <4>3, <4>4
        <5>2. (x + (z - w)) - y = u - v
          BY <3>17, <4>1, <5>1, Zenon
        <5>3. (x + z) - y = (u + w) - v
          BY <4>6, <5>2, Exchange
        <5> QED
          BY <4>1, <4>2, <5>3, Zenon
      <4>5. CASE ~ (k <= n)
        <5>1. k = n + 1
          BY <3>2, <4>5
        <5>2. z = w
          BY <4>1, <4>2, <5>1
        <5>3. E2[n] = x
          BY <4>2, <4>3, <4>5
        <5>4. x - y = u - v
          BY <3>17, <4>1, <4>3, <5>3
        <5>6. (x + z) - y = (u + z) - v
          BY <4>6, <5>4, Shift, SMTT(60)
        <5>5. (x + z) - y = (u + w) - v
          BY <5>2, <5>6, Zenon
        <5> QED
          BY <4>1, <4>2, <5>5, Zenon
      <4> QED
        BY <4>4, <4>5
    <3> QED
      BY <1>2, <3>14, <3>18
  <2>2. Same(n + 1)
    BY <2>1 DEF Same
  <2>3. n + 1 \in a .. b
    BY <1>5
  <2> QED
    BY <2>2, <2>3
<1>6. T = a .. b
  <2>1. T \in SUBSET (a .. b)
    OBVIOUS
  <2>2. \A n \in a .. b : n + 1 <= b /\ n \in T => n + 1 \in T
    BY <1>5
  <2> HIDE DEF T
  <2>3. a \in Int /\ b \in Int
    OBVIOUS
  <2> QED
    BY <1>4, <2>1, <2>2, <2>3, FromTo, Zenon
<1>7. b \in T
  <2> HIDE DEF T
  <2> QED
    BY <1>6
<1>8. Same(b)
  BY <1>7
<1> QED
  BY <1>8, Zenon DEF Same

(* Sums of counts are counts, and no count is greater than its sum.        *)
LEMMA SumsGrow ==
    ASSUME NEW f \in Seq(Int), NEW a \in Nat, NEW b \in Nat,
           a <= b, b <= Len(f), \A i \in (a + 1) .. b : f[i] \in Nat
    PROVE  /\ Sums(f)[b] - Sums(f)[a] \in Nat
           /\ \A k \in (a + 1) .. b : f[k] <= Sums(f)[b] - Sums(f)[a]
<1>1. PICK F : F = Sums(f)
  OBVIOUS
<1>2. /\ \A n \in 0 .. Len(f) : F[n] \in Int
      /\ \A n \in 1 .. Len(f) : F[n] = F[n - 1] + f[n]
  BY <1>1, SumsLaw, Zenon
<1>3. Len(f) \in Nat
  OBVIOUS
<1> DEFINE T == {n \in a .. b : /\ F[n] - F[a] \in Nat
                                /\ \A k \in (a + 1) .. n : f[k] <= F[n] - F[a]}
<1>4. a \in T
  <2>1. F[a] \in Int
    BY <1>2, <1>3
  <2>2. F[a] - F[a] = 0
    BY <2>1
  <2>3. \A k \in (a + 1) .. a : f[k] <= F[a] - F[a]
    OBVIOUS
  <2> QED
    BY <2>2, <2>3
<1>5. ASSUME NEW n \in a .. b, n + 1 <= b, n \in T PROVE n + 1 \in T
  <2>1. /\ n + 1 \in 1 .. Len(f) /\ (n + 1) - 1 = n /\ n \in 0 .. Len(f) /\ a \in 0 .. Len(f)
        /\ n + 1 \in (a + 1) .. b
    BY <1>3, <1>5
  <2>2. F[n + 1] = F[n] + f[n + 1] /\ F[n] \in Int /\ F[a] \in Int /\ f[n + 1] \in Nat
    BY <1>2, <2>1
  <2>3. F[n] - F[a] \in Nat /\ \A k \in (a + 1) .. n : f[k] <= F[n] - F[a]
    BY <1>5
  <2>4. F[n + 1] - F[a] = (F[n] - F[a]) + f[n + 1]
    BY <2>2
  <2>5. F[n + 1] - F[a] \in Nat /\ f[n + 1] <= F[n + 1] - F[a] /\ F[n] - F[a] <= F[n + 1] - F[a]
    BY <2>2, <2>3, <2>4
  <2>6. ASSUME NEW k \in (a + 1) .. (n + 1) PROVE f[k] <= F[n + 1] - F[a]
    <3>1. CASE k = n + 1
      BY <2>5, <3>1
    <3>2. CASE k # n + 1
      <4>1. k \in (a + 1) .. n /\ k \in (a + 1) .. b
        BY <1>5, <3>2
      <4>2. f[k] \in Nat /\ f[k] <= F[n] - F[a]
        BY <2>3, <4>1
      <4> QED
        BY <2>3, <2>5, <4>2
    <3> QED
      BY <3>1, <3>2
  <2> QED
    BY <1>5, <2>5, <2>6
<1>6. T = a .. b
  <2>1. T \in SUBSET (a .. b)
    OBVIOUS
  <2> HIDE DEF T
  <2> QED
    BY <1>4, <1>5, <2>1, FromTo
<1>7. b \in T
  <2> HIDE DEF T
  <2> QED
    BY <1>6
<1> QED
  BY <1>1, <1>7

(* Of n numbers exactly one has k - 1 below it, for k from 1 to n.         *)
LEMMA Ranks ==
    ASSUME NEW U \in SUBSET Nat, IsFiniteSet(U)
    PROVE  /\ Cardinality(U) \in Nat
           /\ \A k \in 1 .. Cardinality(U) : \E b \in U : Cardinality({a \in U : a < b}) = k - 1
           /\ \A b \in U : Cardinality({a \in U : a < b}) + 1 \in 1 .. Cardinality(U)
           /\ \A b, d \in U : Cardinality({a \in U : a < b}) = Cardinality({a \in U : a < d}) => b = d
<1> DEFINE Below(b) == {a \in U : a < b}
           rank == [b \in U |-> Cardinality(Below(b))]
           n == Cardinality(U)
<1>1. n \in Nat
  BY FS_CardinalityType
<1>2. ASSUME NEW b \in U PROVE IsFiniteSet(Below(b)) /\ rank[b] \in 0 .. (n - 1)
  <2>1. Below(b) \in SUBSET U /\ b \notin Below(b)
    OBVIOUS
  <2>2. /\ IsFiniteSet(Below(b)) /\ Cardinality(Below(b)) <= n
        /\ (n = Cardinality(Below(b)) => U = Below(b))
    <3> HIDE DEF Below
    <3> QED
      BY <2>1, FS_Subset
  <2>3. Cardinality(Below(b)) \in Nat
    BY <2>2, FS_CardinalityType
  <2>4. n # Cardinality(Below(b))
    <3> HIDE DEF Below, n
    <3> QED
      BY <2>1, <2>2
  <2>5. rank[b] = Cardinality(Below(b))
    OBVIOUS
  <2> HIDE DEF rank, Below, n
  <2> QED
    BY <1>1, <2>2, <2>3, <2>4, <2>5
<1>3. ASSUME NEW b \in U, NEW d \in U, b < d PROVE rank[b] < rank[d]
  <2>1. Below(b) \in SUBSET Below(d) /\ b \in Below(d) /\ b \notin Below(b)
    <3>1. ASSUME NEW x \in Below(b) PROVE x \in Below(d)
      <4>1. x \in Nat /\ b \in Nat /\ d \in Nat /\ x < b /\ x \in U
        OBVIOUS
      <4> QED
        BY <1>3, <4>1
    <3>2. b \in Below(d) /\ b \notin Below(b)
      BY <1>3
    <3> HIDE DEF Below
    <3> QED
      BY <3>1, <3>2
  <2>2. /\ Cardinality(Below(b)) <= Cardinality(Below(d))
        /\ (Cardinality(Below(d)) = Cardinality(Below(b)) => Below(d) = Below(b))
    <3>1. IsFiniteSet(Below(d))
      BY <1>2
    <3> HIDE DEF Below
    <3> QED
      BY <2>1, <3>1, FS_Subset
  <2>3. rank[b] = Cardinality(Below(b)) /\ rank[d] = Cardinality(Below(d))
    OBVIOUS
  <2>4. rank[b] \in Int /\ rank[d] \in Int
    BY <1>1, <1>2
  <2>5. Below(b) # Below(d)
    BY <2>1
  <2> HIDE DEF rank, Below
  <2> QED
    BY <2>2, <2>3, <2>4, <2>5
<1>4. \A b, d \in U : rank[b] = rank[d] => b = d
  <2> SUFFICES ASSUME NEW b \in U, NEW d \in U, rank[b] = rank[d] PROVE b = d
    OBVIOUS
  <2>1. rank[b] \in Int /\ rank[d] \in Int
    BY <1>1, <1>2
  <2> HIDE DEF rank
  <2>2. ~ (b < d) /\ ~ (d < b)
    BY <1>3, <2>1
  <2> QED
    BY <2>2
<1>5. rank \in [U -> 0 .. (n - 1)]
  BY <1>2
<1>6. rank \in Injection(U, 0 .. (n - 1))
  <2> HIDE DEF rank, n
  <2> QED
    BY <1>4, <1>5 DEF Injection, IsInjective
<1>7. IsFiniteSet(0 .. (n - 1)) /\ Cardinality(0 .. (n - 1)) = n
  <2> HIDE DEF n
  <2>1. 0 \in Int /\ n - 1 \in Int /\ (IF 0 > n - 1 THEN 0 ELSE (n - 1) - 0 + 1) = n
    BY <1>1
  <2>2. IsFiniteSet(0 .. (n - 1)) /\ Cardinality(0 .. (n - 1)) = IF 0 > n - 1 THEN 0 ELSE (n - 1) - 0 + 1
    BY <2>1, FS_Interval
  <2> QED
    BY <2>1, <2>2
<1>8. rank \in Surjection(U, 0 .. (n - 1))
  <2>1. Cardinality(U) = Cardinality(0 .. (n - 1))
    BY <1>7
  <2> HIDE DEF rank, n
  <2> QED
    BY <1>6, <1>7, <2>1, FS_Injection, Zenon
<1>9. \A k \in 1 .. n : \E b \in U : rank[b] = k - 1
  <2> HIDE DEF rank, n
  <2>1. \A j \in 0 .. (n - 1) : \E b \in U : rank[b] = j
    BY <1>8 DEF Surjection
  <2> QED
    BY <1>1, <2>1
<1>10. \A b \in U : rank[b] = Cardinality({a \in U : a < b}) /\ rank[b] + 1 \in 1 .. n
  <2>1. ASSUME NEW b \in U PROVE rank[b] + 1 \in 1 .. n
    <3>1. rank[b] \in 0 .. (n - 1)
      BY <1>2
    <3> HIDE DEF rank, n
    <3> QED
      BY <1>1, <3>1
  <2> QED
    BY <2>1
<1> HIDE DEF rank
<1> QED
  BY <1>1, <1>4, <1>9, <1>10
-----------------------------------------------------------------------------
(* Division and buckets *)

Top == BucketSize * Levels - 1
Pixels == [Channels -> 0 .. Top]

LEMMA Quotient ==
    ASSUME NEW d \in Nat \ {0}, NEW n \in Nat
    PROVE  /\ n \div d \in Nat
           /\ d * (n \div d) <= n /\ n < d * (n \div d) + d
OBVIOUS

LEMMA Multiples ==
    ASSUME NEW d \in Nat \ {0}, NEW q \in Int, NEW p \in Int, q < p
    PROVE  d * q + d <= d * p
<1>1. p - q - 1 \in Nat /\ d \in Nat
  OBVIOUS
<1>2. d * (p - q - 1) >= 0
  BY <1>1
<1>3. d * (p - q - 1) = d * p - d * q - d
  OBVIOUS
<1> QED
  BY <1>2, <1>3

LEMMA QuotientIs ==
    ASSUME NEW d \in Nat \ {0}, NEW n \in Nat, NEW q \in Int, d * q <= n, n < d * q + d
    PROVE  n \div d = q
<1>1. PICK p : p = n \div d
  OBVIOUS
<1>2. p \in Nat /\ d * p <= n /\ n < d * p + d
  BY <1>1, Quotient
<1>3. d * p \in Int /\ d * q \in Int
  BY <1>2
<1>4. ~ (p < q)
  <2>1. p < q => d * p + d <= d * q
    BY <1>2, Multiples
  <2> QED
    BY <1>2, <1>3, <2>1
<1>5. ~ (q < p)
  <2>1. q < p => d * q + d <= d * p
    BY <1>2, Multiples
  <2> QED
    BY <1>2, <1>3, <2>1
<1> QED
  BY <1>1, <1>2, <1>4, <1>5

LEMMA QuotientBetween ==
    ASSUME NEW d \in Nat \ {0}, NEW n \in Nat, NEW lo \in Int, NEW hi \in Int,
           lo * d <= n, n <= hi * d
    PROVE  lo <= n \div d /\ n \div d <= hi
<1>1. PICK p : p = n \div d
  OBVIOUS
<1>2. p \in Nat /\ d * p <= n /\ n < d * p + d
  BY <1>1, Quotient
<1>3. d * p \in Int /\ d * lo \in Int /\ d * hi \in Int /\ lo * d = d * lo /\ hi * d = d * hi
  BY <1>2
<1>4. ~ (p < lo)
  <2>1. p < lo => d * p + d <= d * lo
    BY <1>2, Multiples
  <2> QED
    BY <1>2, <1>3, <2>1
<1>5. ~ (hi < p)
  <2>1. hi < p => d * hi + d <= d * p
    BY <1>2, Multiples
  <2> QED
    BY <1>2, <1>3, <2>1
<1> QED
  BY <1>1, <1>2, <1>4, <1>5

LEMMA Digits ==
    ASSUME NEW d \in Nat \ {0}, NEW x \in Int, NEW y \in Int,
           NEW i \in 0 .. (d - 1), NEW j \in 0 .. (d - 1), x * d + i = y * d + j
    PROVE  x = y /\ i = j
<1>1. d * x \in Int /\ d * y \in Int /\ x * d = d * x /\ y * d = d * y
  OBVIOUS
<1>2. ~ (x < y)
  <2>1. x < y => d * x + d <= d * y
    BY Multiples
  <2> QED
    BY <1>1, <2>1
<1>3. ~ (y < x)
  <2>1. y < x => d * y + d <= d * x
    BY Multiples
  <2> QED
    BY <1>1, <2>1
<1>4. x = y
  BY <1>2, <1>3
<1> QED
  BY <1>1, <1>4

(* A channel's level: the values that count as one.                        *)
LEMMA LevelOf ==
    ASSUME NEW v \in 0 .. Top
    PROVE  /\ v \div BucketSize \in 0 .. (Levels - 1)
           /\ BucketSize * (v \div BucketSize) <= v
           /\ v <= BucketSize * (v \div BucketSize) + (BucketSize - 1)
<1>1. BucketSize \in Nat \ {0} /\ Levels \in Nat \ {0} /\ BucketSize * Levels \in Nat
  BY QuantizeAssumption
<1>2. v \in Nat /\ v <= BucketSize * Levels - 1
  BY <1>1 DEF Top
<1>3. PICK p : p = v \div BucketSize
  OBVIOUS
<1>4. p \in Nat /\ BucketSize * p <= v /\ v < BucketSize * p + BucketSize
  BY <1>1, <1>2, <1>3, Quotient
<1>5. BucketSize * p \in Int
  BY <1>1, <1>4
<1>6. ~ (Levels - 1 < p)
  <2>1. Levels - 1 < p => BucketSize * (Levels - 1) + BucketSize <= BucketSize * p
    BY <1>1, <1>4, Multiples
  <2>2. BucketSize * (Levels - 1) + BucketSize = BucketSize * Levels
    BY <1>1
  <2> QED
    BY <1>1, <1>2, <1>4, <1>5, <2>1, <2>2
<1> QED
  BY <1>1, <1>2, <1>3, <1>4, <1>5, <1>6

(* Pixels fall into one bucket exactly when they agree on each level.      *)
LEMMA BucketFacts ==
    ASSUME NEW x \in Pixels, NEW y \in Pixels
    PROVE  /\ Bucket(x) \in Nat
           /\ Bucket(x) = Bucket(y) <=> \A c \in Channels : x[c] \div BucketSize = y[c] \div BucketSize
<1> DEFINE q == [c \in Channels |-> x[c] \div BucketSize]
           r == [c \in Channels |-> y[c] \div BucketSize]
<1>1. \A c \in Channels : x[c] \in 0 .. Top /\ y[c] \in 0 .. Top
  BY DEF Pixels
<1>2. \A c \in Channels : q[c] \in 0 .. (Levels - 1) /\ r[c] \in 0 .. (Levels - 1)
  BY <1>1, LevelOf
<1>3. 1 \in Channels /\ 2 \in Channels /\ 3 \in Channels /\ 4 \in Channels /\ \A c \in Channels : c \in {1, 2, 3, 4}
  BY DEF Channels
<1>4. /\ Bucket(x) = ((q[1] * Levels + q[2]) * Levels + q[3]) * Levels + q[4]
      /\ Bucket(y) = ((r[1] * Levels + r[2]) * Levels + r[3]) * Levels + r[4]
  BY DEF Bucket
<1>5. \A c \in Channels : q[c] = x[c] \div BucketSize /\ r[c] = y[c] \div BucketSize
  OBVIOUS
<1> HIDE DEF q, r
<1>6. PICK a, b, e, f : a = q[1] /\ b = q[1] * Levels + q[2] /\ e = b * Levels + q[3] /\ f = r[1] * Levels + r[2]
  OBVIOUS
<1>7. PICK g : g = f * Levels + r[3]
  OBVIOUS
<1>8. Levels \in Nat \ {0}
  BY QuantizeAssumption
<1>9. /\ q[1] \in 0 .. (Levels - 1) /\ q[2] \in 0 .. (Levels - 1)
      /\ q[3] \in 0 .. (Levels - 1) /\ q[4] \in 0 .. (Levels - 1)
      /\ r[1] \in 0 .. (Levels - 1) /\ r[2] \in 0 .. (Levels - 1)
      /\ r[3] \in 0 .. (Levels - 1) /\ r[4] \in 0 .. (Levels - 1)
  BY <1>2, <1>3
<1>10. b \in Nat /\ f \in Nat
  BY <1>6, <1>8, <1>9
<1>11. e \in Nat /\ g \in Nat
  BY <1>6, <1>7, <1>8, <1>9, <1>10
<1>12. Bucket(x) = e * Levels + q[4] /\ Bucket(y) = g * Levels + r[4]
  BY <1>4, <1>6, <1>7
<1>13. Bucket(x) \in Nat
  BY <1>8, <1>9, <1>11, <1>12
<1>14. ASSUME Bucket(x) = Bucket(y) PROVE \A c \in Channels : q[c] = r[c]
  <2>1. e * Levels + q[4] = g * Levels + r[4]
    BY <1>12, <1>14
  <2>2. e = g /\ q[4] = r[4]
    BY <1>8, <1>9, <1>11, <2>1, Digits
  <2>3. b * Levels + q[3] = f * Levels + r[3]
    BY <1>6, <1>7, <2>2
  <2>4. b = f /\ q[3] = r[3]
    BY <1>8, <1>9, <1>10, <2>3, Digits
  <2>5. q[1] * Levels + q[2] = r[1] * Levels + r[2]
    BY <1>6, <2>4
  <2>6. q[1] \in Int /\ r[1] \in Int
    BY <1>8, <1>9
  <2>7. q[1] = r[1] /\ q[2] = r[2]
    <3>1. PICK q1, q2, r1, r2 : q1 = q[1] /\ q2 = q[2] /\ r1 = r[1] /\ r2 = r[2]
      OBVIOUS
    <3>2. /\ q1 \in Int /\ r1 \in Int /\ q2 \in 0 .. (Levels - 1) /\ r2 \in 0 .. (Levels - 1)
          /\ q1 * Levels + q2 = r1 * Levels + r2
      BY <1>9, <2>5, <2>6, <3>1, Zenon
    <3>3. q1 = r1 /\ q2 = r2
      BY <1>8, <3>2, Digits
    <3> QED
      BY <3>1, <3>3
  <2> QED
    BY <1>3, <2>2, <2>4, <2>7
<1>15. ASSUME \A c \in Channels : q[c] = r[c] PROVE Bucket(x) = Bucket(y)
  BY <1>3, <1>4, <1>15, Zenon
<1> QED
  BY <1>5, <1>13, <1>14, <1>15
-----------------------------------------------------------------------------
(* Weights, masses and means of colours *)

Flagged == [value : Pixels, count : Nat]
Colours == [value : Pixels, count : Nat \ {0}]

LEMMA CountsOf ==
    ASSUME NEW s \in Seq(Flagged)
    PROVE  \E f \in Seq(Int) :
               /\ f = [i \in DOMAIN s |-> s[i].count]
               /\ Len(f) = Len(s)
               /\ \A i \in 1 .. Len(s) : f[i] = s[i].count /\ f[i] \in Nat
<1> DEFINE f == [i \in DOMAIN s |-> s[i].count]
<1>1. DOMAIN s = 1 .. Len(s) /\ Len(s) \in Nat
  OBVIOUS
<1>2. \A i \in 1 .. Len(s) : s[i] \in Flagged
  OBVIOUS
<1>3. \A i \in 1 .. Len(s) : f[i] = s[i].count /\ f[i] \in Nat
  BY <1>1, <1>2 DEF Flagged
<1>4. f = [i \in 1 .. Len(s) |-> f[i]]
  BY <1>1
<1>5. f \in Seq(Int) /\ Len(f) = Len(s)
  <2> HIDE DEF f
  <2>1. \A i \in 1 .. Len(s) : f[i] \in Int
    BY <1>3
  <2> QED
    BY <1>1, <1>4, <2>1
<1> HIDE DEF f
<1>6. f = [i \in DOMAIN s |-> s[i].count]
  BY DEF f
<1> QED
  BY <1>3, <1>5, <1>6

LEMMA PartsOf ==
    ASSUME NEW s \in Seq(Flagged), NEW c \in Channels
    PROVE  \E f \in Seq(Int) :
               /\ f = [i \in DOMAIN s |-> s[i].value[c] * s[i].count]
               /\ Len(f) = Len(s)
               /\ \A i \in 1 .. Len(s) : f[i] = s[i].value[c] * s[i].count /\ f[i] \in Nat
<1> DEFINE f == [i \in DOMAIN s |-> s[i].value[c] * s[i].count]
<1>1. DOMAIN s = 1 .. Len(s) /\ Len(s) \in Nat
  OBVIOUS
<1>2. \A i \in 1 .. Len(s) : s[i] \in Flagged
  OBVIOUS
<1>3. \A i \in 1 .. Len(s) : s[i].value[c] \in Nat /\ s[i].count \in Nat
  BY <1>2 DEF Flagged, Pixels
<1>4. \A i \in 1 .. Len(s) : f[i] = s[i].value[c] * s[i].count
  BY <1>1
<1>5. \A i \in 1 .. Len(s) : f[i] \in Nat
  <2> HIDE DEF f
  <2>1. \A m, n \in Nat : m * n \in Nat
    OBVIOUS
  <2> QED
    BY <1>3, <1>4, <2>1
<1>6. f = [i \in 1 .. Len(s) |-> f[i]]
  BY <1>1
<1>7. f \in Seq(Int) /\ Len(f) = Len(s)
  <2> HIDE DEF f
  <2>1. \A i \in 1 .. Len(s) : f[i] \in Int
    BY <1>5
  <2> QED
    BY <1>1, <1>6, <2>1
<1> HIDE DEF f
<1>8. f = [i \in DOMAIN s |-> s[i].value[c] * s[i].count]
  BY DEF f
<1> QED
  BY <1>4, <1>5, <1>7, <1>8

LEMMA WeightFacts ==
    ASSUME NEW s \in Seq(Flagged), NEW a \in Nat, NEW b \in Nat, a <= b, b <= Len(s)
    PROVE  /\ Weight(s, a + 1, b) \in Nat
           /\ \A k \in (a + 1) .. b : s[k].count <= Weight(s, a + 1, b)
<1>1. PICK f \in Seq(Int) :
          /\ f = [i \in DOMAIN s |-> s[i].count]
          /\ Len(f) = Len(s)
          /\ \A i \in 1 .. Len(s) : f[i] = s[i].count /\ f[i] \in Nat
  BY CountsOf
<1>2. Weight(s, a + 1, b) = Sums(f)[b] - Sums(f)[a]
  <2>1. (a + 1) - 1 = a
    OBVIOUS
  <2> QED
    BY <1>1, <2>1 DEF Weight
<1>3. \A i \in (a + 1) .. b : i \in 1 .. Len(s)
  OBVIOUS
<1>4. /\ Sums(f)[b] - Sums(f)[a] \in Nat
      /\ \A k \in (a + 1) .. b : f[k] <= Sums(f)[b] - Sums(f)[a]
  <2>1. b <= Len(f) /\ \A i \in (a + 1) .. b : f[i] \in Nat
    BY <1>1, <1>3
  <2> QED
    BY <2>1, SumsGrow
<1> QED
  BY <1>1, <1>2, <1>3, <1>4

LEMMA SameWeight ==
    ASSUME NEW s \in Seq(Flagged), NEW z \in Seq(Flagged), NEW a \in Nat, NEW b \in Nat,
           a <= b, b <= Len(s), b <= Len(z), \A i \in (a + 1) .. b : z[i] = s[i]
    PROVE  Weight(z, a + 1, b) = Weight(s, a + 1, b)
<1>1. PICK f \in Seq(Int) :
          /\ f = [i \in DOMAIN s |-> s[i].count]
          /\ Len(f) = Len(s)
          /\ \A i \in 1 .. Len(s) : f[i] = s[i].count /\ f[i] \in Nat
  BY CountsOf
<1>2. PICK g \in Seq(Int) :
          /\ g = [i \in DOMAIN z |-> z[i].count]
          /\ Len(g) = Len(z)
          /\ \A i \in 1 .. Len(z) : g[i] = z[i].count /\ g[i] \in Nat
  BY CountsOf
<1>3. (a + 1) - 1 = a
  OBVIOUS
<1>4. Weight(s, a + 1, b) = Sums(f)[b] - Sums(f)[a] /\ Weight(z, a + 1, b) = Sums(g)[b] - Sums(g)[a]
  BY <1>1, <1>2, <1>3 DEF Weight
<1>5. \A i \in (a + 1) .. b : i \in 1 .. Len(s) /\ i \in 1 .. Len(z)
  OBVIOUS
<1>6. b <= Len(f) /\ b <= Len(g) /\ \A i \in (a + 1) .. b : f[i] = g[i]
  BY <1>1, <1>2, <1>5
<1>7. Sums(f)[b] - Sums(f)[a] = Sums(g)[b] - Sums(g)[a]
  BY <1>6, SumsAgree
<1> QED
  BY <1>4, <1>7, Zenon

LEMMA WeightReordered ==
    ASSUME NEW s \in Seq(Flagged), NEW z \in Seq(Flagged), NEW a \in Nat, NEW b \in Nat,
           a <= b, b <= Len(s), b <= Len(z),
           NEW q \in Bijection((a + 1) .. b, (a + 1) .. b), \A i \in (a + 1) .. b : z[i] = s[q[i]]
    PROVE  Weight(z, a + 1, b) = Weight(s, a + 1, b)
<1>1. PICK f \in Seq(Int) :
          /\ f = [i \in DOMAIN s |-> s[i].count]
          /\ Len(f) = Len(s)
          /\ \A i \in 1 .. Len(s) : f[i] = s[i].count /\ f[i] \in Nat
  BY CountsOf
<1>2. PICK g \in Seq(Int) :
          /\ g = [i \in DOMAIN z |-> z[i].count]
          /\ Len(g) = Len(z)
          /\ \A i \in 1 .. Len(z) : g[i] = z[i].count /\ g[i] \in Nat
  BY CountsOf
<1>3. (a + 1) - 1 = a
  OBVIOUS
<1>4. Weight(s, a + 1, b) = Sums(f)[b] - Sums(f)[a] /\ Weight(z, a + 1, b) = Sums(g)[b] - Sums(g)[a]
  BY <1>1, <1>2, <1>3 DEF Weight
<1>5. \A i \in (a + 1) .. b : i \in 1 .. Len(s) /\ i \in 1 .. Len(z)
  OBVIOUS
<1>6. \A i \in (a + 1) .. b : q[i] \in (a + 1) .. b
  BY BijectionGives, Zenon
<1>7. b <= Len(f) /\ b <= Len(g) /\ \A i \in (a + 1) .. b : g[i] = f[q[i]]
  BY <1>1, <1>2, <1>5, <1>6
<1>8. Sums(g)[b] - Sums(g)[a] = Sums(f)[b] - Sums(f)[a]
  BY <1>7, SumsReorder
<1> QED
  BY <1>4, <1>8, Zenon

(* A mean lies where all that has weight lies.                             *)
LEMMA MeanFacts ==
    ASSUME NEW s \in Seq(Flagged), NEW a \in Nat, NEW b \in Nat, a <= b, b <= Len(s),
           Weight(s, a + 1, b) > 0, NEW c \in Channels, NEW lo \in Nat, NEW hi \in Nat,
           \A i \in (a + 1) .. b : s[i].count = 0 \/ (lo <= s[i].value[c] /\ s[i].value[c] <= hi)
    PROVE  /\ Mean(s, a + 1, b).value[c] \in lo .. hi
           /\ Mean(s, a + 1, b).count = Weight(s, a + 1, b)
<1>1. PICK w \in Seq(Int) :
          /\ w = [i \in DOMAIN s |-> s[i].count]
          /\ Len(w) = Len(s)
          /\ \A i \in 1 .. Len(s) : w[i] = s[i].count /\ w[i] \in Nat
  BY CountsOf
<1>2. PICK f \in Seq(Int) :
          /\ f = [i \in DOMAIN s |-> s[i].value[c] * s[i].count]
          /\ Len(f) = Len(s)
          /\ \A i \in 1 .. Len(s) : f[i] = s[i].value[c] * s[i].count /\ f[i] \in Nat
  BY PartsOf
<1>3. (a + 1) - 1 = a
  OBVIOUS
<1>4. PICK W, M : W = Weight(s, a + 1, b) /\ M = Mass(s, a + 1, b, c)
  OBVIOUS
<1>5. W = Sums(w)[b] - Sums(w)[a] /\ M = Sums(f)[b] - Sums(f)[a]
  BY <1>1, <1>2, <1>3, <1>4 DEF Weight, Mass
<1>6. \A i \in (a + 1) .. b : i \in 1 .. Len(s)
  OBVIOUS
<1>7. W \in Nat \ {0}
  BY <1>4, WeightFacts
<1>8. M \in Nat
  <2>1. b <= Len(f) /\ \A i \in (a + 1) .. b : f[i] \in Nat
    BY <1>2, <1>6
  <2>2. Sums(f)[b] - Sums(f)[a] \in Nat
    BY <2>1, SumsGrow
  <2> QED
    BY <1>5, <2>2
<1>9. \A i \in (a + 1) .. b : lo * w[i] <= f[i] /\ f[i] <= hi * w[i]
  <2> SUFFICES ASSUME NEW i \in (a + 1) .. b PROVE lo * w[i] <= f[i] /\ f[i] <= hi * w[i]
    OBVIOUS
  <2>1. PICK v, n : v = s[i].value[c] /\ n = s[i].count
    OBVIOUS
  <2>2. s[i] \in Flagged
    BY <1>6
  <2>3. v \in Nat /\ n \in Nat
    BY <2>1, <2>2 DEF Flagged, Pixels
  <2>4. w[i] = n /\ f[i] = v * n
    BY <1>1, <1>2, <1>6, <2>1
  <2>5. n = 0 \/ (lo <= v /\ v <= hi)
    BY <2>1
  <2>6. lo * n <= v * n /\ v * n <= hi * n
    <3>1. CASE n = 0
      BY <2>3, <3>1
    <3>2. CASE lo <= v /\ v <= hi
      <4>1. v - lo \in Nat /\ hi - v \in Nat
        BY <2>3, <3>2
      <4>2. (v - lo) * n >= 0 /\ (hi - v) * n >= 0
        BY <2>3, <4>1
      <4>3. (v - lo) * n = v * n - lo * n /\ (hi - v) * n = hi * n - v * n
        BY <2>3
      <4> QED
        BY <2>3, <4>2, <4>3
    <3> QED
      BY <2>5, <3>1, <3>2
  <2> QED
    BY <2>4, <2>6
<1>10. lo * W <= M /\ M <= hi * W
  <2>1. b <= Len(f) /\ b <= Len(w) /\ lo \in Int /\ hi \in Int
    BY <1>1, <1>2
  <2> QED
    BY <1>5, <1>9, <2>1, SumsBound
<1>11. lo <= M \div W /\ M \div W <= hi /\ M \div W \in Nat
  <2>1. lo \in Int /\ hi \in Int
    OBVIOUS
  <2> QED
    BY <1>7, <1>8, <1>10, <2>1, Quotient, QuotientBetween
<1>12. Mean(s, a + 1, b).value[c] = M \div W /\ Mean(s, a + 1, b).count = W
  BY <1>4 DEF Mean
<1> QED
  BY <1>4, <1>11, <1>12
-----------------------------------------------------------------------------
(* The histogram *)

LEMMA IsSequence ==
    ASSUME NEW S, NEW n \in Nat, NEW z \in [1 .. n -> S]
    PROVE  z \in Seq(S) /\ Len(z) = n
OBVIOUS

LEMMA ElementOf ==
    ASSUME NEW S, NEW x \in Seq(S), NEW i \in 1 .. Len(x)
    PROVE  x[i] \in S
OBVIOUS

(* Things counted by their kind, each once, are all counted.               *)
LEMMA Tally ==
    ASSUME NEW n \in Nat, NEW x \in Seq(1 .. n), NEW F \in [1 .. n -> Seq(Int)],
           \A k \in 1 .. n : /\ Len(F[k]) = Len(x)
                             /\ \A i \in 1 .. Len(x) : F[k][i] = IF x[i] = k THEN 1 ELSE 0,
           NEW e \in Seq(Int), Len(e) = n, \A k \in 1 .. n : e[k] = Sums(F[k])[Len(x)]
    PROVE  Sums(e)[n] = Len(x)
<1> DEFINE E(m) == [k \in 1 .. n |-> Sums(F[k])[m]]
           T == {m \in 0 .. Len(x) : Sums(E(m))[n] = m}
<1>1. Len(x) \in Nat /\ n \in 0 .. n /\ 0 \in 0 .. n
  OBVIOUS
<1>2. ASSUME NEW k \in 1 .. n
      PROVE  /\ Sums(F[k])[0] = 0
             /\ \A m \in 0 .. Len(x) : Sums(F[k])[m] \in Int
             /\ \A m \in 1 .. Len(x) : Sums(F[k])[m] = Sums(F[k])[m - 1] + F[k][m]
  <2>1. F[k] \in Seq(Int) /\ Len(F[k]) = Len(x)
    OBVIOUS
  <2> QED
    BY <2>1, SumsLaw
<1>3. \A m : \A k \in 1 .. n : E(m)[k] = Sums(F[k])[m]
  OBVIOUS
<1>4. ASSUME NEW m \in 0 .. Len(x) PROVE E(m) \in Seq(Int) /\ Len(E(m)) = n
  <2>1. \A k \in 1 .. n : Sums(F[k])[m] \in Int
    BY <1>2
  <2>2. E(m) \in [1 .. n -> Int]
    BY <2>1
  <2> HIDE DEF E
  <2> QED
    BY <2>2, IsSequence, Zenon
<1>5. 0 \in T
  <2>1. PICK z : z = E(0)
    OBVIOUS
  <2>2. z \in Seq(Int) /\ Len(z) = n /\ \A k \in 1 .. n : z[k] = 0
    <3>1. 0 \in 0 .. Len(x)
      BY <1>1
    <3>2. z \in Seq(Int) /\ Len(z) = n
      BY <1>4, <2>1, <3>1, Zenon
    <3>3. \A k \in 1 .. n : z[k] = 0
      <4> HIDE DEF E
      <4> QED
        BY <1>2, <1>3, <2>1
    <3> QED
      BY <3>2, <3>3
  <2>3. \A i \in (0 + 1) .. n : 0 * z[i] <= z[i] /\ z[i] <= 0 * z[i]
    BY <2>2
  <2>4. /\ 0 * (Sums(z)[n] - Sums(z)[0]) <= Sums(z)[n] - Sums(z)[0]
        /\ Sums(z)[n] - Sums(z)[0] <= 0 * (Sums(z)[n] - Sums(z)[0])
    <3>1. 0 \in Nat /\ 0 <= n /\ n <= Len(z) /\ 0 \in Int
      BY <2>2
    <3> QED
      BY <2>2, <2>3, <3>1, SumsBound
  <2>5. Sums(z)[n] \in Int /\ Sums(z)[0] = 0
    BY <1>1, <2>2, SumsLaw
  <2>6. Sums(z)[n] = 0
    BY <2>4, <2>5
  <2> HIDE DEF E
  <2> QED
    BY <1>1, <2>1, <2>6
<1>6. ASSUME NEW m \in 0 .. Len(x), m + 1 <= Len(x), m \in T PROVE m + 1 \in T
  <2>1. m + 1 \in 1 .. Len(x) /\ m + 1 \in 0 .. Len(x) /\ (m + 1) - 1 = m
    BY <1>1, <1>6
  <2>2. PICK y, z : y = E(m) /\ z = E(m + 1)
    OBVIOUS
  <2>3. y \in Seq(Int) /\ Len(y) = n /\ z \in Seq(Int) /\ Len(z) = n
    BY <1>4, <2>1, <2>2, Zenon
  <2>4. PICK j : j = x[m + 1]
    OBVIOUS
  <2>5. j \in 1 .. n
    BY <2>1, <2>4, ElementOf, Zenon
  <2>6. \A k \in 1 .. n : y[k] \in Int /\ z[k] = y[k] + (IF j = k THEN 1 ELSE 0)
    <3> SUFFICES ASSUME NEW k \in 1 .. n PROVE y[k] \in Int /\ z[k] = y[k] + (IF j = k THEN 1 ELSE 0)
      OBVIOUS
    <3>1. y[k] = Sums(F[k])[m] /\ z[k] = Sums(F[k])[m + 1]
      BY <1>3, <2>2
    <3>2. Sums(F[k])[m] \in Int
      BY <1>2
    <3>3. Sums(F[k])[m + 1] = Sums(F[k])[m] + F[k][m + 1]
      <4>1. Sums(F[k])[m + 1] = Sums(F[k])[(m + 1) - 1] + F[k][m + 1]
        BY <1>2, <2>1, Zenon
      <4> QED
        BY <2>1, <4>1, Zenon
    <3>4. F[k][m + 1] = IF j = k THEN 1 ELSE 0
      BY <2>1, <2>4
    <3> QED
      BY <3>1, <3>2, <3>3, <3>4
  <2>7. \A k \in 1 .. Len(y) : k # j => z[k] = y[k]
    <3>1. ASSUME NEW k \in 1 .. n, k # j PROVE z[k] = y[k]
      <4>1. y[k] \in Int /\ z[k] = y[k] + 0
        BY <2>6, <3>1
      <4> QED
        BY <4>1
    <3> QED
      BY <2>3, <3>1, Zenon
  <2>8. z[j] - y[j] = 1
    BY <2>5, <2>6
  <2>9. Sums(z)[n] = Sums(y)[n] + (IF j <= n THEN z[j] - y[j] ELSE 0)
    <3>1. j \in 1 .. Len(y) /\ Len(z) = Len(y) /\ n \in 0 .. Len(y)
      BY <1>1, <2>3, <2>5
    <3>2. \A i \in 0 .. Len(y) : Sums(z)[i] = Sums(y)[i] + (IF j <= i THEN z[j] - y[j] ELSE 0)
      BY <2>3, <2>7, <3>1, SumsChange
    <3> QED
      BY <3>1, <3>2, Zenon
  <2>10. Sums(y)[n] = m
    BY <1>6, <2>2
  <2>11. Sums(z)[n] = m + 1
    BY <2>5, <2>8, <2>9, <2>10
  <2>12. Sums(E(m + 1))[n] = m + 1
    BY <2>2, <2>11, Zenon
  <2> HIDE DEF E
  <2> QED
    BY <2>1, <2>12
<1>7. T = 0 .. Len(x)
  <2>1. T \in SUBSET (0 .. Len(x))
    OBVIOUS
  <2>2. \A m \in 0 .. Len(x) : m + 1 <= Len(x) /\ m \in T => m + 1 \in T
    BY <1>6
  <2>3. 0 \in Int /\ Len(x) \in Int
    BY <1>1
  <2> HIDE DEF T
  <2> QED
    BY <1>5, <2>1, <2>2, <2>3, FromTo, Zenon
<1>8. Sums(E(Len(x)))[n] = Len(x)
  <2>1. Len(x) \in T
    <3> HIDE DEF T
    <3> QED
      BY <1>1, <1>7
  <2> QED
    BY <2>1
<1>9. e = E(Len(x))
  <2>1. e = [k \in 1 .. n |-> e[k]]
    OBVIOUS
  <2> QED
    BY <2>1
<1> QED
  BY <1>8, <1>9, Zenon

(* What the histogram promises: one colour for each bucket in use, and all *)
(* of the pixels in them together.                                         *)
Tells(p, s) ==
    /\ s \in Seq(Colours)
    /\ s # <<>>
    /\ \A i \in 1 .. Len(p) : \E k \in 1 .. Len(s) : \A j \in 1 .. Len(s) :
           Bucket(s[j].value) = Bucket(p[i]) <=> j = k
    /\ Weight(s, 1, Len(s)) = Len(p)

LEMMA PictureFacts ==
    ASSUME NEW p \in Pictures
    PROVE  p \in Seq(Pixels) /\ p # <<>> /\ Len(p) \in Nat \ {0}
<1>1. p \in Seq(Pixels) /\ p # <<>>
  BY QuantizeAssumption DEF Pixels, Top
<1> QED
  BY <1>1

Flags(p, b) ==
    [i \in DOMAIN p |-> [value |-> p[i], count |-> IF Bucket(p[i]) = b THEN 1 ELSE 0]]

LEMMA FlagsFacts ==
    ASSUME NEW p \in Seq(Pixels), NEW b
    PROVE  /\ Flags(p, b) \in Seq(Flagged)
           /\ Len(Flags(p, b)) = Len(p)
           /\ \A i \in 1 .. Len(p) : /\ Flags(p, b)[i].value = p[i]
                                     /\ Flags(p, b)[i].count = IF Bucket(p[i]) = b THEN 1 ELSE 0
<1>1. DOMAIN p = 1 .. Len(p) /\ Len(p) \in Nat /\ \A i \in 1 .. Len(p) : p[i] \in Pixels
  OBVIOUS
<1>2. Flags(p, b) \in [1 .. Len(p) -> Flagged]
  BY <1>1 DEF Flags, Flagged
<1>3. \A i \in 1 .. Len(p) : /\ Flags(p, b)[i].value = p[i]
                             /\ Flags(p, b)[i].count = IF Bucket(p[i]) = b THEN 1 ELSE 0
  BY <1>1 DEF Flags
<1> QED
  BY <1>1, <1>2, <1>3, IsSequence

(* The colour made of a bucket.                                            *)
LEMMA BucketMean ==
    ASSUME NEW p \in Seq(Pixels), NEW i0 \in 1 .. Len(p)
    PROVE  LET b == Bucket(p[i0])
               m == Mean(Flags(p, b), 1, Len(p))
           IN  /\ m \in Colours
               /\ Bucket(m.value) = b
<1> DEFINE b == Bucket(p[i0])
           m == Mean(Flags(p, b), 1, Len(p))
<1>1. PICK s : s = Flags(p, b)
  OBVIOUS
<1>2. /\ s \in Seq(Flagged)
      /\ Len(s) = Len(p)
      /\ \A i \in 1 .. Len(p) : s[i].value = p[i] /\ s[i].count = IF Bucket(p[i]) = b THEN 1 ELSE 0
  <2> HIDE DEF b
  <2> QED
    BY <1>1, FlagsFacts
<1>3. Len(p) \in Nat /\ 0 <= Len(p) /\ 0 \in Nat /\ 0 + 1 = 1 /\ Len(p) <= Len(s)
  BY <1>2
<1>4. Weight(s, 1, Len(p)) \in Nat /\ \A k \in 1 .. Len(p) : s[k].count <= Weight(s, 1, Len(p))
  <2>1. /\ Weight(s, 0 + 1, Len(p)) \in Nat
        /\ \A k \in (0 + 1) .. Len(p) : s[k].count <= Weight(s, 0 + 1, Len(p))
    BY <1>2, <1>3, WeightFacts, Zenon
  <2> QED
    BY <1>3, <2>1
<1>5. Weight(s, 1, Len(p)) > 0
  <2>1. s[i0].count = 1
    BY <1>2
  <2> QED
    BY <1>4, <2>1
<1>6. ASSUME NEW c \in Channels, NEW lo \in Nat, NEW hi \in Nat,
             \A i \in 1 .. Len(p) : s[i].count = 0 \/ (lo <= p[i][c] /\ p[i][c] <= hi)
      PROVE  m.value[c] \in lo .. hi /\ m.count = Weight(s, 1, Len(p))
  <2>1. \A i \in (0 + 1) .. Len(p) : s[i].count = 0 \/ (lo <= s[i].value[c] /\ s[i].value[c] <= hi)
    BY <1>2, <1>3, <1>6
  <2>2. Weight(s, 0 + 1, Len(p)) > 0
    BY <1>3, <1>5
  <2>3. /\ Mean(s, 0 + 1, Len(p)).value[c] \in lo .. hi
        /\ Mean(s, 0 + 1, Len(p)).count = Weight(s, 0 + 1, Len(p))
    BY <1>2, <1>3, <2>1, <2>2, MeanFacts, Zenon
  <2>4. m = Mean(s, 1, Len(p))
    BY <1>1
  <2> HIDE DEF m
  <2> QED
    BY <1>3, <2>3, <2>4, Zenon
<1>7. \A i \in 1 .. Len(p) : p[i] \in Pixels
  OBVIOUS
<1>8. Top \in Nat
  <2>1. \A x, y \in Nat \ {0} : x * y - 1 \in Nat
    OBVIOUS
  <2> QED
    BY <2>1, QuantizeAssumption DEF Top
<1>9. m = [value |-> [c \in Channels |-> m.value[c]], count |-> m.count]
  BY DEF Mean
<1>10. \A c \in Channels : m.value[c] \in 0 .. Top /\ m.count = Weight(s, 1, Len(p))
  <2> SUFFICES ASSUME NEW c \in Channels
               PROVE  m.value[c] \in 0 .. Top /\ m.count = Weight(s, 1, Len(p))
    OBVIOUS
  <2>1. \A i \in 1 .. Len(p) : s[i].count = 0 \/ (0 <= p[i][c] /\ p[i][c] <= Top)
    BY <1>7 DEF Pixels
  <2> HIDE DEF m
  <2> QED
    BY <1>3, <1>6, <1>8, <2>1
<1>11. m \in Colours
  <2>1. m.count \in Nat \ {0}
    <3>1. 1 \in Channels
      BY DEF Channels
    <3>2. m.count = Weight(s, 1, Len(p))
      <4> HIDE DEF m
      <4> QED
        BY <1>10, <3>1
    <3> HIDE DEF m
    <3> QED
      BY <1>4, <1>5, <3>2
  <2>2. \A c \in Channels : m.value[c] \in 0 .. Top
    BY <1>10
  <2> HIDE DEF m
  <2> QED
    BY <1>9, <2>1, <2>2 DEF Colours, Pixels
<1>12. \A c \in Channels : m.value[c] \div BucketSize = p[i0][c] \div BucketSize
  <2> SUFFICES ASSUME NEW c \in Channels
               PROVE  m.value[c] \div BucketSize = p[i0][c] \div BucketSize
    OBVIOUS
  <2>1. PICK q : q = p[i0][c] \div BucketSize
    OBVIOUS
  <2>2. p[i0][c] \in 0 .. Top
    BY <1>7 DEF Pixels
  <2>3. q \in Nat
    BY <2>1, <2>2, LevelOf, QuantizeAssumption
  <2>4. BucketSize * q \in Nat /\ BucketSize * q + (BucketSize - 1) \in Nat /\ BucketSize \in Nat \ {0}
    <3>1. BucketSize \in Nat \ {0}
      BY QuantizeAssumption
    <3>2. \A x \in Nat \ {0} : \A y \in Nat : x * y \in Nat
      OBVIOUS
    <3>3. BucketSize * q \in Nat
      BY <2>3, <3>1, <3>2
    <3> QED
      BY <3>1, <3>3
  <2>5. ASSUME NEW i \in 1 .. Len(p)
        PROVE  s[i].count = 0 \/ (/\ BucketSize * q <= p[i][c]
                                  /\ p[i][c] <= BucketSize * q + (BucketSize - 1))
    <3>1. CASE Bucket(p[i]) = b
      <4>1. p[i] \in Pixels /\ p[i0] \in Pixels /\ p[i][c] \in 0 .. Top
        BY <1>7 DEF Pixels
      <4>2. p[i][c] \div BucketSize = q
        BY <2>1, <3>1, <4>1, BucketFacts
      <4> QED
        BY <4>1, <4>2, LevelOf
    <3>2. CASE Bucket(p[i]) # b
      BY <1>2, <3>2
    <3> QED
      BY <3>1, <3>2
  <2>6. PICK lo, hi : lo = BucketSize * q /\ hi = BucketSize * q + (BucketSize - 1)
    OBVIOUS
  <2>7. m.value[c] \in lo .. hi
    <3>1. lo \in Nat /\ hi \in Nat
      BY <2>4, <2>6
    <3>2. \A i \in 1 .. Len(p) : s[i].count = 0 \/ (lo <= p[i][c] /\ p[i][c] <= hi)
      BY <2>5, <2>6
    <3> HIDE DEF m
    <3> QED
      BY <1>6, <3>1, <3>2, Zenon
  <2>8. PICK v : v = m.value[c]
    OBVIOUS
  <2>9. v \in Nat /\ BucketSize * q <= v /\ v < BucketSize * q + BucketSize
    BY <2>4, <2>6, <2>7, <2>8
  <2>10. v \div BucketSize = q
    BY <2>3, <2>4, <2>9, QuotientIs
  <2> QED
    BY <2>1, <2>8, <2>10, Zenon
<1>13. Bucket(m.value) = b
  <2>1. m.value \in Pixels /\ p[i0] \in Pixels
    <3> HIDE DEF m
    <3> QED
      BY <1>7, <1>11 DEF Colours
  <2> HIDE DEF m
  <2> QED
    BY <1>12, <2>1, BucketFacts
<1> QED
  BY <1>11, <1>13

LEMMA HistogramTells ==
    ASSUME NEW p \in Pictures
    PROVE  Tells(p, Histogram(p))
<1> DEFINE used == {Bucket(p[i]) : i \in DOMAIN p}
           n == Cardinality(used)
           Nth(k) == CHOOSE b \in used : Cardinality({a \in used : a < b}) = k - 1
           h == [k \in 1 .. n |-> Mean(Flags(p, Nth(k)), 1, Len(p))]
<1>1. Histogram(p) = h
  BY DEF Histogram, Flags
<1>2. p \in Seq(Pixels) /\ p # <<>> /\ Len(p) \in Nat \ {0} /\ DOMAIN p = 1 .. Len(p)
  BY PictureFacts
<1>3. \A i \in 1 .. Len(p) : p[i] \in Pixels /\ Bucket(p[i]) \in used /\ Bucket(p[i]) \in Nat
  BY <1>2, BucketFacts
<1>4. used \in SUBSET Nat
  BY <1>2, <1>3
<1>5. IsFiniteSet(used)
  <2> DEFINE f == [i \in 1 .. Len(p) |-> Bucket(p[i])]
  <2>1. f \in Surjection(1 .. Len(p), used)
    BY <1>2 DEF Surjection
  <2>2. IsFiniteSet(1 .. Len(p))
    BY <1>2, FS_Interval
  <2> HIDE DEF f, used
  <2> QED
    BY <2>1, <2>2, FS_Surjection
<1>6. /\ n \in Nat
      /\ \A k \in 1 .. n : \E b \in used : Cardinality({a \in used : a < b}) = k - 1
      /\ \A b \in used : Cardinality({a \in used : a < b}) + 1 \in 1 .. n
      /\ \A b, d \in used : Cardinality({a \in used : a < b}) = Cardinality({a \in used : a < d}) => b = d
  <2> HIDE DEF used
  <2> QED
    BY <1>4, <1>5, Ranks
<1>7. \A k \in 1 .. n : Nth(k) \in used /\ Cardinality({a \in used : a < Nth(k)}) = k - 1
  <2> HIDE DEF used, n
  <2> QED
    BY <1>6
<1>8. ASSUME NEW b \in used PROVE \E k \in 1 .. n : Nth(k) = b
  <2>1. PICK r : r = Cardinality({a \in used : a < b})
    OBVIOUS
  <2>2. r + 1 \in 1 .. n
    <3> HIDE DEF used, n
    <3> QED
      BY <1>6, <2>1
  <2>3. PICK k : k = r + 1
    OBVIOUS
  <2>4. k \in 1 .. n /\ k - 1 = r
    <3>1. r \in Nat
      <4> HIDE DEF used
      <4>1. IsFiniteSet({a \in used : a < b})
        <5>1. {a \in used : a < b} \in SUBSET used
          OBVIOUS
        <5> QED
          BY <1>5, <5>1, FS_Subset
      <4> QED
        BY <2>1, <4>1, FS_CardinalityType
    <3> HIDE DEF n
    <3> QED
      BY <2>2, <2>3, <3>1
  <2>5. Nth(k) \in used /\ Cardinality({a \in used : a < Nth(k)}) = k - 1
    BY <1>7, <2>4, Zenon
  <2>6. PICK d : d = Nth(k)
    OBVIOUS
  <2>7. d = b
    <3>1. d \in used /\ Cardinality({a \in used : a < d}) = k - 1
      BY <2>5, <2>6, Zenon
    <3> HIDE DEF used, n, Nth
    <3> QED
      BY <1>6, <2>1, <2>4, <3>1
  <2> HIDE DEF Nth, n
  <2> QED
    BY <2>4, <2>6, <2>7
<1>9. ASSUME NEW k \in 1 .. n
      PROVE  /\ h[k] = Mean(Flags(p, Nth(k)), 1, Len(p))
             /\ h[k] \in Colours
             /\ Bucket(h[k].value) = Nth(k)
  <2>1. PICK i0 \in 1 .. Len(p) : Nth(k) = Bucket(p[i0])
    <3>1. Nth(k) \in used
      BY <1>7
    <3> HIDE DEF Nth
    <3> QED
      BY <1>2, <3>1
  <2>2. h[k] = Mean(Flags(p, Nth(k)), 1, Len(p))
    OBVIOUS
  <2>3. /\ Mean(Flags(p, Bucket(p[i0])), 1, Len(p)) \in Colours
        /\ Bucket(Mean(Flags(p, Bucket(p[i0])), 1, Len(p)).value) = Bucket(p[i0])
    BY <1>2, BucketMean
  <2> HIDE DEF h, Nth
  <2> QED
    BY <2>1, <2>2, <2>3
<1>10. h \in Seq(Colours) /\ Len(h) = n
  <2>1. h \in [1 .. n -> Colours]
    <3>1. \A k \in 1 .. n : Mean(Flags(p, Nth(k)), 1, Len(p)) \in Colours
      <4> HIDE DEF h, n, Nth
      <4> QED
        BY <1>9, Zenon
    <3> HIDE DEF n, Nth
    <3> QED
      BY <3>1
  <2> HIDE DEF h, n
  <2> QED
    BY <1>6, <2>1, IsSequence
<1>11. n # 0
  <2>1. Bucket(p[1]) \in used
    BY <1>2, <1>3
  <2>2. PICK k \in 1 .. n : Nth(k) = Bucket(p[1])
    <3> HIDE DEF used, n, Nth
    <3> QED
      BY <1>8, <2>1
  <2> HIDE DEF n
  <2> QED
    BY <1>6
<1>12. h # <<>>
  <2> HIDE DEF h, n
  <2> QED
    BY <1>10, <1>11
<1>13. ASSUME NEW i \in 1 .. Len(p)
       PROVE  \E k \in 1 .. n : \A j \in 1 .. n : Bucket(h[j].value) = Bucket(p[i]) <=> j = k
  <2>1. PICK k \in 1 .. n : Nth(k) = Bucket(p[i])
    BY <1>3, <1>8, Zenon
  <2>2. ASSUME NEW j \in 1 .. n PROVE Bucket(h[j].value) = Bucket(p[i]) <=> j = k
    <3>1. Bucket(h[j].value) = Nth(j) /\ Bucket(p[i]) = Nth(k)
      BY <1>9, <2>1, Zenon
    <3>2. j - 1 = Cardinality({a \in used : a < Nth(j)}) /\ k - 1 = Cardinality({a \in used : a < Nth(k)})
      BY <1>7, Zenon
    <3>3. ASSUME Nth(j) = Nth(k) PROVE j = k
      <4>1. j - 1 = k - 1
        BY <3>2, <3>3, Zenon
      <4>2. j \in Int /\ k \in Int
        BY <1>6
      <4> QED
        BY <4>1, <4>2
    <3> HIDE DEF h, n, Nth
    <3> QED
      BY <3>1, <3>3
  <2> QED
    BY <2>2
<1>14. Weight(h, 1, n) = Len(p)
  <2> DEFINE x == [i \in 1 .. Len(p) |-> CHOOSE k \in 1 .. n : Nth(k) = Bucket(p[i])]
             F == [k \in 1 .. n |-> [i \in DOMAIN Flags(p, Nth(k)) |-> Flags(p, Nth(k))[i].count]]
             e == [k \in DOMAIN h |-> h[k].count]
  <2>1. ASSUME NEW i \in 1 .. Len(p)
        PROVE  x[i] \in 1 .. n /\ Nth(x[i]) = Bucket(p[i]) /\ \A k \in 1 .. n : Bucket(p[i]) = Nth(k) <=> x[i] = k
    <3>1. \E k \in 1 .. n : Nth(k) = Bucket(p[i])
      BY <1>3, <1>8, Zenon
    <3>2. x[i] = CHOOSE k \in 1 .. n : Nth(k) = Bucket(p[i])
      OBVIOUS
    <3>3. PICK m : m = x[i]
      OBVIOUS
    <3>4. m \in 1 .. n /\ Nth(m) = Bucket(p[i])
      <4> HIDE DEF n, Nth, x
      <4> QED
        BY <3>1, <3>2, <3>3, Zenon
    <3>5. ASSUME NEW k \in 1 .. n, Nth(k) = Nth(m) PROVE m = k
      <4>1. k - 1 = Cardinality({a \in used : a < Nth(k)}) /\ m - 1 = Cardinality({a \in used : a < Nth(m)})
        BY <1>7, <3>4, Zenon
      <4>2. k - 1 = m - 1
        BY <3>5, <4>1, Zenon
      <4>3. k \in Int /\ m \in Int
        BY <1>6, <3>4
      <4> QED
        BY <4>2, <4>3
    <3>6. \A k \in 1 .. n : Bucket(p[i]) = Nth(k) <=> m = k
      <4> HIDE DEF n, Nth, x
      <4> QED
        BY <3>4, <3>5
    <3> HIDE DEF n, Nth, x
    <3> QED
      BY <3>3, <3>4, <3>6, Zenon
  <2>2. x \in Seq(1 .. n) /\ Len(x) = Len(p)
    <3>1. \A i \in 1 .. Len(p) : (CHOOSE k \in 1 .. n : Nth(k) = Bucket(p[i])) \in 1 .. n
      <4> HIDE DEF n, Nth
      <4> QED
        BY <1>3, <1>8
    <3>2. x \in [1 .. Len(p) -> 1 .. n]
      <4> HIDE DEF n, Nth
      <4> QED
        BY <3>1
    <3>3. Len(p) \in Nat
      BY <1>2
    <3> HIDE DEF x, n
    <3> QED
      BY <3>2, <3>3, IsSequence
  <2>3. ASSUME NEW k \in 1 .. n
        PROVE  /\ F[k] \in Seq(Int)
               /\ Len(F[k]) = Len(p)
               /\ \A i \in 1 .. Len(p) : F[k][i] = IF Bucket(p[i]) = Nth(k) THEN 1 ELSE 0
               /\ h[k].count = Sums(F[k])[Len(p)]
    <3>1. PICK s : s = Flags(p, Nth(k))
      OBVIOUS
    <3>2. /\ s \in Seq(Flagged)
          /\ Len(s) = Len(p)
          /\ \A i \in 1 .. Len(p) : s[i].count = IF Bucket(p[i]) = Nth(k) THEN 1 ELSE 0
      <4> HIDE DEF Nth
      <4> QED
        BY <1>2, <3>1, FlagsFacts
    <3>3. PICK f \in Seq(Int) :
              /\ f = [i \in DOMAIN s |-> s[i].count]
              /\ Len(f) = Len(s)
              /\ \A i \in 1 .. Len(s) : f[i] = s[i].count /\ f[i] \in Nat
      BY <3>2, CountsOf
    <3>4. F[k] = f
      <4>1. F[k] = [i \in DOMAIN Flags(p, Nth(k)) |-> Flags(p, Nth(k))[i].count]
        OBVIOUS
      <4> HIDE DEF F, n, h, Nth
      <4> QED
        BY <3>1, <3>3, <4>1
    <3>5. h[k].count = Weight(s, 1, Len(p))
      <4>1. h[k] = Mean(s, 1, Len(p))
        BY <1>9, <3>1, Zenon
      <4> QED
        BY <4>1 DEF Mean
    <3>6. Weight(s, 1, Len(p)) = Sums(f)[Len(p)]
      <4>1. Weight(s, 1, Len(p)) = Sums(f)[Len(p)] - Sums(f)[0]
        <5>1. 1 - 1 = 0
          OBVIOUS
        <5> QED
          BY <3>3, <5>1 DEF Weight
      <4>2. Sums(f)[0] = 0 /\ Sums(f)[Len(p)] \in Int
        <5>1. Len(p) \in 0 .. Len(f)
          BY <1>2, <3>2, <3>3
        <5> QED
          BY <5>1, SumsLaw
      <4> QED
        BY <4>1, <4>2
    <3>7. \A i \in 1 .. Len(p) : f[i] = IF Bucket(p[i]) = Nth(k) THEN 1 ELSE 0
      <4> HIDE DEF Nth
      <4> QED
        BY <3>2, <3>3
    <3> HIDE DEF F, h, n, Nth
    <3> QED
      BY <3>2, <3>3, <3>4, <3>5, <3>6, <3>7, Zenon
  <2>4. F \in [1 .. n -> Seq(Int)]
    <3>1. F = [k \in 1 .. n |-> F[k]]
      OBVIOUS
    <3> HIDE DEF F, n, h, Nth
    <3> QED
      BY <2>3, <3>1
  <2>5. /\ e \in Seq(Int) /\ Len(e) = n /\ \A k \in 1 .. n : e[k] = h[k].count
        /\ Weight(h, 1, n) = Sums(e)[n]
    <3>1. h \in Seq(Flagged)
      <4> HIDE DEF h
      <4>1. Colours \subseteq Flagged
        BY DEF Colours, Flagged
      <4> QED
        BY <1>10, <4>1
    <3>2. PICK f \in Seq(Int) :
              /\ f = [i \in DOMAIN h |-> h[i].count]
              /\ Len(f) = Len(h)
              /\ \A i \in 1 .. Len(h) : f[i] = h[i].count /\ f[i] \in Nat
      <4> HIDE DEF h
      <4> QED
        BY <3>1, CountsOf
    <3>3. e = f
      BY <3>2
    <3>4. Weight(h, 1, n) = Sums(f)[n] - Sums(f)[0]
      <4>1. 1 - 1 = 0
        OBVIOUS
      <4> HIDE DEF h, n
      <4> QED
        BY <3>2, <4>1 DEF Weight
    <3>5. Sums(f)[0] = 0 /\ Sums(f)[n] \in Int
      <4>1. n \in 0 .. Len(f)
        <5> HIDE DEF h, n
        <5> QED
          BY <1>6, <1>10, <3>2
      <4> HIDE DEF n
      <4> QED
        BY <4>1, SumsLaw
    <3>6. Weight(h, 1, n) = Sums(f)[n]
      <4> HIDE DEF h, n
      <4> QED
        BY <3>4, <3>5
    <3> HIDE DEF e, h, n
    <3> QED
      BY <1>10, <3>2, <3>3, <3>6
  <2>6. \A k \in 1 .. n : /\ Len(F[k]) = Len(x)
                          /\ \A i \in 1 .. Len(x) : F[k][i] = IF x[i] = k THEN 1 ELSE 0
    <3> SUFFICES ASSUME NEW k \in 1 .. n
                 PROVE  /\ Len(F[k]) = Len(x)
                        /\ \A i \in 1 .. Len(x) : F[k][i] = IF x[i] = k THEN 1 ELSE 0
      OBVIOUS
    <3>1. Len(F[k]) = Len(x)
      <4> HIDE DEF F, x, n, h, Nth
      <4> QED
        BY <2>2, <2>3
    <3>2. ASSUME NEW i \in 1 .. Len(p) PROVE F[k][i] = IF x[i] = k THEN 1 ELSE 0
      <4>1. F[k][i] = IF Bucket(p[i]) = Nth(k) THEN 1 ELSE 0
        BY <2>3, Zenon
      <4>2. Bucket(p[i]) = Nth(k) <=> x[i] = k
        BY <2>1, Zenon
      <4> HIDE DEF F, x, n, h, Nth
      <4> QED
        BY <4>1, <4>2
    <3> HIDE DEF F, x, n, h, Nth
    <3> QED
      BY <2>2, <3>1, <3>2, Zenon
  <2>7. \A k \in 1 .. n : e[k] = Sums(F[k])[Len(x)]
    <3> HIDE DEF F, x, n, h, e, Nth
    <3> QED
      BY <2>2, <2>3, <2>5, Zenon
  <2>8. Sums(e)[n] = Len(x)
    <3> HIDE DEF F, x, n, h, e, Nth
    <3> QED
      BY <1>6, <2>2, <2>4, <2>5, <2>6, <2>7, Tally, Zenon
  <2> HIDE DEF F, x, n, h, e, Nth
  <2> QED
    BY <2>2, <2>5, <2>8
<1> HIDE DEF h, n, Nth
<1> QED
  BY <1>1, <1>10, <1>12, <1>13, <1>14 DEF Tells
-----------------------------------------------------------------------------
(* Boxes *)

Boxes == [start : Nat, end : Nat, min : Pixels, max : Pixels, total : Nat]

LEMMA TopNat == Top \in Nat
<1>1. \A x, y \in Nat \ {0} : x * y - 1 \in Nat
  OBVIOUS
<1> QED
  BY <1>1, QuantizeAssumption DEF Top

LEMMA ColoursAreFlagged ==
    ASSUME NEW s \in Seq(Colours)
    PROVE  /\ s \in Seq(Flagged)
           /\ DOMAIN s = 1 .. Len(s) /\ Len(s) \in Nat
           /\ \A i \in 1 .. Len(s) : s[i] \in Colours
<1>1. Colours \subseteq Flagged
  BY DEF Colours, Flagged
<1> QED
  BY <1>1

(* The statistics of a box that is not empty.                              *)
LEMMA RecalcFacts ==
    ASSUME NEW s \in Seq(Colours), NEW a \in Nat, NEW b \in Nat, a < b, b <= Len(s)
    PROVE  /\ Recalc(s, a, b) \in Boxes
           /\ Recalc(s, a, b).start = a
           /\ Recalc(s, a, b).end = b
           /\ Recalc(s, a, b).total = Weight(s, a + 1, b)
<1>1. /\ s \in Seq(Flagged) /\ DOMAIN s = 1 .. Len(s) /\ Len(s) \in Nat
      /\ \A i \in 1 .. Len(s) : s[i] \in Colours
  BY ColoursAreFlagged
<1>2. Weight(s, a + 1, b) \in Nat
  BY <1>1, WeightFacts
<1> DEFINE In(c) == {s[i].value[c] : i \in (a + 1) .. b}
<1>3. Recalc(s, a, b) = [start |-> a, end |-> b, min |-> [c \in Channels |-> Min(In(c))],
                         max |-> [c \in Channels |-> Max(In(c))], total |-> Weight(s, a + 1, b)]
  <2>1. ~ (a >= b)
    OBVIOUS
  <2>2. \A c \in Channels : (IF a >= b THEN {0} ELSE {s[i].value[c] : i \in (a + 1) .. b}) = In(c)
    BY <2>1, Zenon
  <2>3. [c \in Channels |-> Min(IF a >= b THEN {0} ELSE {s[i].value[c] : i \in (a + 1) .. b})]
            = [c \in Channels |-> Min(In(c))]
    <3> HIDE DEF In
    <3> QED
      BY <2>2
  <2>4. [c \in Channels |-> Max(IF a >= b THEN {0} ELSE {s[i].value[c] : i \in (a + 1) .. b})]
            = [c \in Channels |-> Max(In(c))]
    <3> HIDE DEF In
    <3> QED
      BY <2>2
  <2> HIDE DEF In
  <2> QED
    BY <2>3, <2>4 DEF Recalc
<1>4. ASSUME NEW c \in Channels PROVE Min(In(c)) \in 0 .. Top /\ Max(In(c)) \in 0 .. Top
  <2>1. \A i \in (a + 1) .. b : s[i].value[c] \in 0 .. Top
    <3>1. \A i \in (a + 1) .. b : i \in 1 .. Len(s)
      BY <1>1
    <3> QED
      BY <1>1, <3>1 DEF Colours, Pixels
  <2>2. a + 1 \in (a + 1) .. b
    OBVIOUS
  <2>3. In(c) \in SUBSET (0 .. Top) /\ s[a + 1].value[c] \in In(c)
    BY <2>1, <2>2
  <2> HIDE DEF In
  <2>4. In(c) \in SUBSET Int /\ (\A n \in In(c) : 0 <= n /\ n <= Top) /\ 0 \in Int /\ Top \in Int
    BY <2>3, TopNat
  <2>5. PICK I : I = In(c)
    OBVIOUS
  <2>6. PICK x : x \in I
    BY <2>3, <2>5
  <2>7. I \in SUBSET Int /\ (\A n \in I : 0 <= n) /\ (\A n \in I : n <= Top)
    BY <2>4, <2>5
  <2>8. Min(I) \in I
    BY <2>4, <2>6, <2>7, MinIsLeast
  <2>9. Max(I) \in I
    BY <2>4, <2>6, <2>7, MaxIsGreatest
  <2> QED
    BY <2>3, <2>5, <2>8, <2>9
<1> HIDE DEF In
<1>5. [c \in Channels |-> Min(In(c))] \in Pixels /\ [c \in Channels |-> Max(In(c))] \in Pixels
  BY <1>4 DEF Pixels
<1> QED
  BY <1>2, <1>3, <1>5 DEF Boxes

LEMMA SameRecalc ==
    ASSUME NEW s \in Seq(Colours), NEW z \in Seq(Colours), NEW a \in Nat, NEW b \in Nat,
           a < b, b <= Len(s), b <= Len(z), \A i \in (a + 1) .. b : z[i] = s[i]
    PROVE  Recalc(z, a, b) = Recalc(s, a, b)
<1>1. Weight(z, a + 1, b) = Weight(s, a + 1, b)
  <2>1. s \in Seq(Flagged) /\ z \in Seq(Flagged) /\ a <= b
    BY ColoursAreFlagged
  <2> QED
    BY <2>1, SameWeight
<1>2. \A c \in Channels : {z[i].value[c] : i \in (a + 1) .. b} = {s[i].value[c] : i \in (a + 1) .. b}
  OBVIOUS
<1>3. [c \in Channels |-> Min({z[i].value[c] : i \in (a + 1) .. b})]
          = [c \in Channels |-> Min({s[i].value[c] : i \in (a + 1) .. b})]
  BY <1>2
<1>4. [c \in Channels |-> Max({z[i].value[c] : i \in (a + 1) .. b})]
          = [c \in Channels |-> Max({s[i].value[c] : i \in (a + 1) .. b})]
  BY <1>2
<1> QED
  BY <1>1, <1>3, <1>4 DEF Recalc

LEMMA RecalcReordered ==
    ASSUME NEW s \in Seq(Colours), NEW z \in Seq(Colours), NEW a \in Nat, NEW b \in Nat,
           a < b, b <= Len(s), b <= Len(z),
           NEW q \in Bijection((a + 1) .. b, (a + 1) .. b), \A i \in (a + 1) .. b : z[i] = s[q[i]]
    PROVE  Recalc(z, a, b) = Recalc(s, a, b)
<1>1. Weight(z, a + 1, b) = Weight(s, a + 1, b)
  <2>1. s \in Seq(Flagged) /\ z \in Seq(Flagged) /\ a <= b
    BY ColoursAreFlagged
  <2> QED
    BY <2>1, WeightReordered
<1>2. PICK P : P = (a + 1) .. b
  OBVIOUS
<1>3. (\A i \in P : q[i] \in P) /\ (\A j \in P : \E i \in P : q[i] = j) /\ (\A i \in P : z[i] = s[q[i]])
  <2>1. q \in Bijection(P, P)
    BY <1>2, Zenon
  <2>2. (\A i \in P : q[i] \in P) /\ (\A j \in P : \E i \in P : q[i] = j)
    BY <2>1, BijectionFacts
  <2> QED
    BY <1>2, <2>2, Zenon
<1>4. \A c \in Channels : {z[i].value[c] : i \in P} = {s[i].value[c] : i \in P}
  <2> SUFFICES ASSUME NEW c \in Channels
               PROVE  {z[i].value[c] : i \in P} = {s[i].value[c] : i \in P}
    OBVIOUS
  <2>1. ASSUME NEW i \in P PROVE z[i].value[c] = s[q[i]].value[c] /\ q[i] \in P
    BY <1>3
  <2>2. ASSUME NEW j \in P PROVE \E i \in P : s[j].value[c] = z[i].value[c]
    <3>1. PICK i \in P : q[i] = j
      BY <1>3
    <3>2. z[i] = s[j]
      BY <1>3, <3>1
    <3> QED
      BY <3>2
  <2>3. ASSUME NEW v \in {z[i].value[c] : i \in P} PROVE v \in {s[i].value[c] : i \in P}
    <3>1. PICK i \in P : v = z[i].value[c]
      BY <2>3
    <3>2. v = s[q[i]].value[c] /\ q[i] \in P
      BY <2>1, <3>1
    <3> QED
      BY <3>2
  <2>4. ASSUME NEW v \in {s[i].value[c] : i \in P} PROVE v \in {z[i].value[c] : i \in P}
    BY <2>2
  <2> QED
    BY <2>3, <2>4
<1>5. [c \in Channels |-> Min({z[i].value[c] : i \in P})]
          = [c \in Channels |-> Min({s[i].value[c] : i \in P})]
  BY <1>4
<1>6. [c \in Channels |-> Max({z[i].value[c] : i \in P})]
          = [c \in Channels |-> Max({s[i].value[c] : i \in P})]
  BY <1>4
<1> QED
  BY <1>1, <1>2, <1>5, <1>6 DEF Recalc

LEMMA WidestFacts ==
    ASSUME NEW box \in Boxes
    PROVE  /\ Widest(box) \in Int /\ Widest(box) <= Top
           /\ CutChannel(box) \in Channels
<1> DEFINE E == {Extent(box, c) : c \in Channels}
           C == {c \in Channels : Extent(box, c) = Widest(box)}
<1>1. \A c \in Channels : Extent(box, c) \in Int /\ Extent(box, c) <= Top
  BY TopNat DEF Boxes, Pixels, Extent
<1>2. 1 \in Channels /\ Channels \subseteq Int /\ \A c \in Channels : 1 <= c
  BY DEF Channels
<1>3. E \in SUBSET Int /\ (\A n \in E : n <= Top) /\ Extent(box, 1) \in E
  BY <1>1, <1>2
<1>4. Max(E) \in E /\ Max(E) \in Int
  <2>1. Top \in Int
    BY TopNat
  <2> HIDE DEF E
  <2> QED
    BY <1>3, <2>1, MaxIsGreatest, Zenon
<1>5. Widest(box) = Max(E)
  BY DEF Widest
<1>6. PICK c0 \in Channels : Extent(box, c0) = Widest(box)
  <2>1. Widest(box) \in E
    BY <1>4, <1>5
  <2> QED
    BY <2>1
<1>7. Widest(box) \in Int /\ Widest(box) <= Top
  BY <1>1, <1>6
<1>8. C \in SUBSET Int /\ (\A n \in C : 1 <= n) /\ c0 \in C /\ 1 \in Int /\ C \subseteq Channels
  BY <1>2, <1>6
<1>9. Min(C) \in C
  <2> HIDE DEF C
  <2> QED
    BY <1>8, MinIsLeast
<1>10. CutChannel(box) = Min(C)
  BY DEF CutChannel
<1> QED
  BY <1>7, <1>8, <1>9, <1>10, Zenon

LEMMA ChosenFacts ==
    ASSUME NEW bs \in Seq(Boxes), Cuttable(bs) # {}
    PROVE  Chosen(bs) \in Cuttable(bs)
<1>1. Cuttable(bs) \subseteq 1 .. Len(bs) /\ Len(bs) \in Nat
  BY DEF Cuttable
<1>2. \A i \in Cuttable(bs) : bs[i] \in Boxes
  BY <1>1
<1> DEFINE W == {Widest(bs[i]) : i \in Cuttable(bs)}
           B == {i \in Cuttable(bs) : \A j \in Cuttable(bs) : Widest(bs[i]) >= Widest(bs[j])}
<1>3. PICK i0 : i0 \in Cuttable(bs)
  OBVIOUS
<1>4. \A i \in Cuttable(bs) : Widest(bs[i]) \in Int /\ Widest(bs[i]) <= Top
  BY <1>2, WidestFacts
<1>5. W \in SUBSET Int /\ (\A n \in W : n <= Top) /\ Widest(bs[i0]) \in W
  BY <1>3, <1>4
<1>6. Max(W) \in W /\ \A n \in W : n <= Max(W)
  <2>1. Top \in Int
    BY TopNat
  <2> HIDE DEF W
  <2> QED
    BY <1>5, <2>1, MaxIsGreatest, Zenon
<1>7. PICK i1 \in Cuttable(bs) : Max(W) = Widest(bs[i1])
  BY <1>6
<1>8. \A j \in Cuttable(bs) : Widest(bs[i1]) >= Widest(bs[j])
  <2>1. \A j \in Cuttable(bs) : Widest(bs[j]) \in W
    OBVIOUS
  <2> HIDE DEF W
  <2> QED
    BY <1>4, <1>6, <1>7, <2>1
<1>9. B \in SUBSET Int /\ (\A n \in B : n <= Len(bs)) /\ i1 \in B /\ Len(bs) \in Int /\ B \subseteq Cuttable(bs)
  BY <1>1, <1>8
<1>10. Max(B) \in B
  <2> HIDE DEF B
  <2> QED
    BY <1>9, MaxIsGreatest
<1>11. Chosen(bs) = Max(B)
  BY DEF Chosen
<1> QED
  BY <1>9, <1>10, <1>11, Zenon

(* A box of two colours or more is cut inside.                             *)
LEMMA MiddleFacts ==
    ASSUME NEW s \in Seq(Colours), NEW a \in Nat, NEW b \in Nat, a + 2 <= b, b <= Len(s),
           NEW box, box = Recalc(s, a, b)
    PROVE  Middle(s, box) \in (a + 1) .. (b - 1)
<1>1. s \in Seq(Flagged)
  BY ColoursAreFlagged
<1>2. box.start = a /\ box.end = b /\ box.total = Weight(s, a + 1, b)
  BY RecalcFacts
<1> DEFINE enough == {m \in a .. b : Weight(s, a + 1, m) >= box.total \div 2}
<1>3. PICK t : t = box.total
  OBVIOUS
<1>4. t \in Nat /\ t >= t \div 2
  <2>1. t \in Nat
    BY <1>1, <1>2, <1>3, WeightFacts
  <2> QED
    BY <2>1
<1>5. b \in enough
  BY <1>2, <1>3, <1>4
<1>6. enough \in SUBSET Int /\ (\A n \in enough : a <= n) /\ \A n \in enough : n <= b
  OBVIOUS
<1>7. Min(enough) \in Int
  <2>1. a \in Int
    OBVIOUS
  <2> HIDE DEF enough
  <2> QED
    BY <1>5, <1>6, <2>1, MinIsLeast, Zenon
<1>8. Middle(s, box) = Max({a + 1, Min({b - 1, Min(enough)})})
  BY <1>2 DEF Middle
<1>9. PICK e : e = Min(enough)
  OBVIOUS
<1> HIDE DEF enough
<1>10. Min({b - 1, e}) \in {b - 1, e} /\ Min({b - 1, e}) <= b - 1 /\ Min({b - 1, e}) \in Int
  <2>1. CASE e <= b - 1
    <3>1. {b - 1, e} \in SUBSET Int /\ (\A n \in {b - 1, e} : e <= n) /\ e \in {b - 1, e} /\ e \in Int
      BY <1>7, <1>9, <2>1
    <3> QED
      BY <3>1, MinIsLeast
  <2>2. CASE ~ (e <= b - 1)
    <3>1. {b - 1, e} \in SUBSET Int /\ (\A n \in {b - 1, e} : b - 1 <= n) /\ e \in {b - 1, e} /\ b - 1 \in Int
      BY <1>7, <1>9, <2>2
    <3> QED
      BY <3>1, MinIsLeast
  <2> QED
    BY <2>1, <2>2
<1>11. PICK f : f = Min({b - 1, e})
  OBVIOUS
<1>12. f \in Int /\ f <= b - 1
  BY <1>10, <1>11
<1>13. Max({a + 1, f}) \in {a + 1, f} /\ Max({a + 1, f}) >= a + 1
  <2>1. {a + 1, f} \in SUBSET Int /\ (\A n \in {a + 1, f} : n <= b - 1) /\ f \in {a + 1, f} /\ b - 1 \in Int /\ a + 1 \in {a + 1, f}
    BY <1>12
  <2>2. Max({a + 1, f}) \in {a + 1, f} /\ \A n \in {a + 1, f} : n <= Max({a + 1, f})
    BY <2>1, MaxIsGreatest
  <2> QED
    BY <1>12, <2>2
<1>14. Middle(s, box) = Max({a + 1, f})
  BY <1>8, <1>9, <1>11, Zenon
<1> QED
  BY <1>12, <1>13, <1>14
-----------------------------------------------------------------------------
(* The cut: the boxes share the colours out among them, none is empty, and *)
(* each holds the statistics of what is in it.                             *)
Cut(s, bs) ==
    /\ bs \in Seq(Boxes)
    /\ \A k \in 1 .. Len(bs) : /\ bs[k].start < bs[k].end
                               /\ bs[k].end <= Len(s)
                               /\ bs[k] = Recalc(s, bs[k].start, bs[k].end)
    /\ \A i \in 1 .. Len(s) : \E k \in 1 .. Len(bs) : i \in Places(bs[k])
    /\ \A k, l \in 1 .. Len(bs) : \A i \in 1 .. Len(s) :
           i \in Places(bs[k]) /\ i \in Places(bs[l]) => k = l

LEMMA CutFacts ==
    ASSUME NEW s \in Seq(Colours), NEW bs, Cut(s, bs), NEW k \in 1 .. Len(bs)
    PROVE  /\ bs[k] \in Boxes /\ Len(bs) \in Nat /\ DOMAIN bs = 1 .. Len(bs)
           /\ bs[k].start \in Nat /\ bs[k].end \in Nat
           /\ bs[k].start < bs[k].end /\ bs[k].end <= Len(s)
           /\ bs[k] = Recalc(s, bs[k].start, bs[k].end)
           /\ Places(bs[k]) = (bs[k].start + 1) .. bs[k].end
           /\ Places(bs[k]) \subseteq 1 .. Len(s)
<1>1. bs \in Seq(Boxes)
  BY DEF Cut
<1>2. bs[k] \in Boxes /\ Len(bs) \in Nat /\ DOMAIN bs = 1 .. Len(bs)
  BY <1>1
<1>3. /\ bs[k].start < bs[k].end /\ bs[k].end <= Len(s)
      /\ bs[k] = Recalc(s, bs[k].start, bs[k].end)
  BY DEF Cut
<1>4. bs[k].start \in Nat /\ bs[k].end \in Nat
  BY <1>2 DEF Boxes
<1>5. Len(s) \in Nat
  OBVIOUS
<1>6. Places(bs[k]) = (bs[k].start + 1) .. bs[k].end
  BY DEF Places
<1>7. Places(bs[k]) \subseteq 1 .. Len(s)
  BY <1>3, <1>4, <1>5, <1>6
<1> QED
  BY <1>2, <1>3, <1>4, <1>6, <1>7

LEMMA ReorderedFacts ==
    ASSUME NEW s \in Seq(Colours), NEW P \in SUBSET (1 .. Len(s)), NEW q \in Bijection(P, P)
    PROVE  /\ Reordered(s, q) \in Seq(Colours)
           /\ Len(Reordered(s, q)) = Len(s)
           /\ \A i \in P : Reordered(s, q)[i] = s[q[i]]
           /\ \A i \in 1 .. Len(s) : i \notin P => Reordered(s, q)[i] = s[i]
<1>1. /\ q \in [P -> P] /\ DOMAIN q = P
      /\ \A i, j \in P : q[i] = q[j] => i = j
      /\ \A j \in P : \E i \in P : q[i] = j
  BY BijectionFacts
<1>2. DOMAIN s = 1 .. Len(s) /\ Len(s) \in Nat /\ \A i \in 1 .. Len(s) : s[i] \in Colours
  OBVIOUS
<1>3. Reordered(s, q) = [i \in 1 .. Len(s) |-> IF i \in P THEN s[q[i]] ELSE s[i]]
  BY <1>1, <1>2 DEF Reordered
<1>4. \A i \in P : q[i] \in P /\ q[i] \in 1 .. Len(s) /\ i \in 1 .. Len(s)
  BY <1>1
<1>5. Reordered(s, q) \in [1 .. Len(s) -> Colours]
  BY <1>2, <1>3, <1>4
<1>6. Reordered(s, q) \in Seq(Colours) /\ Len(Reordered(s, q)) = Len(s)
  BY <1>2, <1>5, IsSequence
<1>7. \A i \in P : Reordered(s, q)[i] = s[q[i]]
  BY <1>3, <1>4
<1>8. \A i \in 1 .. Len(s) : i \notin P => Reordered(s, q)[i] = s[i]
  BY <1>3
<1> QED
  BY <1>6, <1>7, <1>8

LEMMA ReorderedThroughout ==
    ASSUME NEW s \in Seq(Colours), NEW P \in SUBSET (1 .. Len(s)), NEW q \in Bijection(P, P)
    PROVE  \E r \in Bijection(1 .. Len(s), 1 .. Len(s)) :
               \A i \in 1 .. Len(s) : Reordered(s, q)[i] = s[r[i]]
<1> DEFINE r == [i \in 1 .. Len(s) |-> IF i \in P THEN q[i] ELSE i]
<1>1. /\ q \in [P -> P] /\ DOMAIN q = P
      /\ \A i, j \in P : q[i] = q[j] => i = j
      /\ \A j \in P : \E i \in P : q[i] = j
  BY BijectionFacts
<1>4. \A i \in P : q[i] \in P /\ q[i] \in 1 .. Len(s) /\ i \in 1 .. Len(s)
  BY <1>1
<1>7. /\ \A i \in P : Reordered(s, q)[i] = s[q[i]]
      /\ \A i \in 1 .. Len(s) : i \notin P => Reordered(s, q)[i] = s[i]
  BY ReorderedFacts
<1>9. r \in [1 .. Len(s) -> 1 .. Len(s)] /\ \A i \in 1 .. Len(s) : r[i] = IF i \in P THEN q[i] ELSE i
  BY <1>4
<1>10. ASSUME NEW i \in 1 .. Len(s), NEW j \in 1 .. Len(s), r[i] = r[j] PROVE i = j
  <2>1. PICK u, v : u = r[i] /\ v = r[j]
    OBVIOUS
  <2>2. u = v /\ u = (IF i \in P THEN q[i] ELSE i) /\ v = (IF j \in P THEN q[j] ELSE j)
    BY <1>9, <1>10, <2>1, Zenon
  <2>3. CASE i \in P /\ j \in P
    BY <1>1, <2>2, <2>3
  <2>4. CASE i \in P /\ j \notin P
    BY <1>4, <2>2, <2>4
  <2>5. CASE i \notin P /\ j \in P
    BY <1>4, <2>2, <2>5
  <2>6. CASE i \notin P /\ j \notin P
    BY <2>2, <2>6
  <2> QED
    BY <2>3, <2>4, <2>5, <2>6
<1>11. ASSUME NEW j \in 1 .. Len(s) PROVE \E i \in 1 .. Len(s) : r[i] = j
  <2> HIDE DEF r
  <2>1. CASE j \in P
    <3>1. PICK i \in P : q[i] = j
      BY <1>1, <2>1
    <3> QED
      BY <1>4, <1>9, <3>1
  <2>2. CASE j \notin P
    BY <1>9, <2>2
  <2> QED
    BY <2>1, <2>2
<1>12. r \in Bijection(1 .. Len(s), 1 .. Len(s))
  <2>1. PICK D : D = 1 .. Len(s)
    OBVIOUS
  <2>2. r \in [D -> D] /\ (\A i, j \in D : r[i] = r[j] => i = j) /\ (\A j \in D : \E i \in D : r[i] = j)
    <3> HIDE DEF r
    <3> QED
      BY <1>9, <1>10, <1>11, <2>1
  <2>3. r \in Bijection(D, D)
    <3> HIDE DEF r
    <3> QED
      BY <2>2, BijectionFacts
  <2> HIDE DEF r
  <2> QED
    BY <2>1, <2>3, Zenon
<1>13. \A i \in 1 .. Len(s) : Reordered(s, q)[i] = s[r[i]]
  <2> HIDE DEF r
  <2> QED
    BY <1>7, <1>9
<1> HIDE DEF r
<1> QED
  BY <1>12, <1>13

(* Sorting a box moves colours inside it and changes nothing else.         *)
LEMMA TellsReordered ==
    ASSUME NEW p \in Pictures, NEW s, Tells(p, s),
           NEW P \in SUBSET (1 .. Len(s)), NEW q \in Bijection(P, P)
    PROVE  Tells(p, Reordered(s, q))
<1>1. s \in Seq(Colours) /\ Len(s) \in Nat
  BY DEF Tells
<1>2. PICK z : z = Reordered(s, q)
  OBVIOUS
<1>8. PICK r \in Bijection(1 .. Len(s), 1 .. Len(s)) : \A i \in 1 .. Len(s) : z[i] = s[r[i]]
  BY <1>1, <1>2, ReorderedThroughout
<1>3. /\ z \in Seq(Colours) /\ Len(z) = Len(s)
      /\ r \in Bijection(1 .. Len(s), 1 .. Len(s))
      /\ \A i \in 1 .. Len(s) : z[i] = s[r[i]]
  BY <1>1, <1>2, <1>8, ReorderedFacts
<1>4. /\ \A i \in 1 .. Len(s) : r[i] \in 1 .. Len(s)
      /\ \A i, j \in 1 .. Len(s) : r[i] = r[j] => i = j
      /\ \A j \in 1 .. Len(s) : \E i \in 1 .. Len(s) : r[i] = j
  BY <1>3, BijectionGives, Zenon
<1>5. z # <<>>
  <2>1. Len(s) # 0
    BY <1>1 DEF Tells
  <2> QED
    BY <1>3, <2>1
<1>6. ASSUME NEW i \in 1 .. Len(p)
      PROVE  \E k \in 1 .. Len(z) : \A j \in 1 .. Len(z) : Bucket(z[j].value) = Bucket(p[i]) <=> j = k
  <2>1. PICK l \in 1 .. Len(s) : \A j \in 1 .. Len(s) : Bucket(s[j].value) = Bucket(p[i]) <=> j = l
    BY DEF Tells
  <2>2. PICK k \in 1 .. Len(s) : r[k] = l
    BY <1>4
  <2>3. ASSUME NEW j \in 1 .. Len(s) PROVE Bucket(z[j].value) = Bucket(p[i]) <=> j = k
    <3>1. z[j] = s[r[j]] /\ r[j] \in 1 .. Len(s)
      BY <1>3, <1>4
    <3>2. Bucket(z[j].value) = Bucket(p[i]) <=> r[j] = l
      BY <2>1, <3>1
    <3>3. r[j] = l <=> j = k
      BY <1>4, <2>2
    <3> QED
      BY <3>2, <3>3
  <2> QED
    BY <1>3, <2>3
<1>7. Weight(z, 1, Len(z)) = Len(p)
  <2>1. s \in Seq(Flagged) /\ z \in Seq(Flagged)
    BY <1>1, <1>3, ColoursAreFlagged
  <2>2. PICK n : n = Len(s)
    OBVIOUS
  <2>3. n \in Nat /\ 0 \in Nat /\ 0 <= n /\ n <= Len(s) /\ n <= Len(z) /\ 0 + 1 = 1
    BY <1>1, <1>3, <2>2
  <2>4. r \in Bijection((0 + 1) .. n, (0 + 1) .. n) /\ \A i \in (0 + 1) .. n : z[i] = s[r[i]]
    BY <1>3, <2>2, <2>3
  <2>5. Weight(z, 0 + 1, n) = Weight(s, 0 + 1, n)
    BY <2>1, <2>3, <2>4, WeightReordered, Zenon
  <2>6. Weight(s, 1, Len(s)) = Len(p)
    BY DEF Tells
  <2> QED
    BY <1>3, <2>2, <2>3, <2>5, <2>6, Zenon
<1> QED
  BY <1>2, <1>3, <1>5, <1>6, <1>7 DEF Tells

LEMMA CutReordered ==
    ASSUME NEW s \in Seq(Colours), NEW bs, Cut(s, bs), NEW k \in 1 .. Len(bs),
           NEW P \in SUBSET (1 .. Len(s)), \A i : i \in P <=> i \in Places(bs[k]),
           NEW q \in Bijection(P, P)
    PROVE  Cut(Reordered(s, q), bs)
<1>1. PICK z : z = Reordered(s, q)
  OBVIOUS
<1>2. P = Places(bs[k])
  OBVIOUS
<1>3. /\ z \in Seq(Colours) /\ Len(z) = Len(s)
      /\ \A i \in P : z[i] = s[q[i]]
      /\ \A i \in 1 .. Len(s) : i \notin P => z[i] = s[i]
  <2>1. z \in Seq(Colours) /\ Len(z) = Len(s)
    BY <1>1, ReorderedFacts
  <2>2. ASSUME NEW i \in P PROVE z[i] = s[q[i]]
    BY <1>1, ReorderedFacts
  <2>3. ASSUME NEW i \in 1 .. Len(s), i \notin P PROVE z[i] = s[i]
    BY <1>1, <2>3, ReorderedFacts
  <2> QED
    BY <2>1, <2>2, <2>3
<1>4. ASSUME NEW l \in 1 .. Len(bs) PROVE bs[l] = Recalc(z, bs[l].start, bs[l].end)
  <2>1. PICK a, b : a = bs[l].start /\ b = bs[l].end
    OBVIOUS
  <2>2. /\ a \in Nat /\ b \in Nat /\ a < b /\ b <= Len(s) /\ b <= Len(z)
        /\ Places(bs[l]) = (a + 1) .. b /\ Places(bs[l]) \subseteq 1 .. Len(s)
        /\ bs[l] = Recalc(s, a, b)
    BY <1>3, <2>1, CutFacts
  <2>3. CASE l = k
    <3>1. P = (a + 1) .. b
      BY <1>2, <2>2, <2>3
    <3>2. q \in Bijection((a + 1) .. b, (a + 1) .. b) /\ \A i \in (a + 1) .. b : z[i] = s[q[i]]
      BY <1>3, <3>1, Zenon
    <3>3. Recalc(z, a, b) = Recalc(s, a, b)
      BY <1>3, <2>2, <3>2, RecalcReordered
    <3> QED
      BY <2>1, <2>2, <3>3, Zenon
  <2>4. CASE l # k
    <3>1. \A i \in (a + 1) .. b : z[i] = s[i]
      <4> SUFFICES ASSUME NEW i \in (a + 1) .. b PROVE z[i] = s[i]
        OBVIOUS
      <4>1. i \in 1 .. Len(s) /\ i \in Places(bs[l])
        BY <2>2
      <4>2. i \notin P
        BY <2>4, <4>1 DEF Cut
      <4> QED
        BY <1>3, <4>1, <4>2
    <3>2. Recalc(z, a, b) = Recalc(s, a, b)
      BY <1>3, <2>2, <3>1, SameRecalc
    <3> QED
      BY <2>1, <2>2, <3>2, Zenon
  <2> QED
    BY <2>3, <2>4
<1> QED
  BY <1>1, <1>3, <1>4 DEF Cut

LEMMA CuttableFacts ==
    ASSUME NEW s \in Seq(Colours), NEW bs, Cut(s, bs), NEW k \in Cuttable(bs)
    PROVE  k \in 1 .. Len(bs) /\ bs[k].start + 2 <= bs[k].end
<1>1. bs \in Seq(Boxes)
  BY DEF Cut
<1>2. k \in 1 .. Len(bs) /\ bs[k].end - bs[k].start >= 2
  BY <1>1 DEF Cuttable
<1>3. bs[k].start \in Nat /\ bs[k].end \in Nat
  BY <1>2, CutFacts
<1> QED
  BY <1>2, <1>3

(* Cutting a box in two leaves a cut, of one box more.                     *)
LEMMA CutHalved ==
    ASSUME NEW s \in Seq(Colours), NEW bs, Cut(s, bs), NEW k \in Cuttable(bs)
    PROVE  Cut(s, Halved(bs, k, s)) /\ Len(Halved(bs, k, s)) = Len(bs) + 1
<1>1. bs \in Seq(Boxes) /\ Len(bs) \in Nat /\ Len(s) \in Nat
  BY DEF Cut
<1>2. k \in 1 .. Len(bs) /\ bs[k].start + 2 <= bs[k].end
  BY CuttableFacts
<1>3. PICK a, b, mid, n : a = bs[k].start /\ b = bs[k].end /\ mid = Middle(s, bs[k]) /\ n = Len(bs)
  OBVIOUS
<1>4. a \in Nat /\ b \in Nat /\ a + 2 <= b /\ b <= Len(s) /\ bs[k] = Recalc(s, a, b) /\ Places(bs[k]) = (a + 1) .. b
  BY <1>2, <1>3, CutFacts
<1>5. mid \in (a + 1) .. (b - 1)
  BY <1>3, <1>4, MiddleFacts
<1>6. mid \in Nat /\ a < mid /\ mid < b /\ mid <= Len(s)
  BY <1>1, <1>4, <1>5
<1>7. PICK x, y, z : x = Recalc(s, a, mid) /\ y = Recalc(s, mid, b) /\ z = Halved(bs, k, s)
  OBVIOUS
<1>8. x \in Boxes /\ x.start = a /\ x.end = mid /\ y \in Boxes /\ y.start = mid /\ y.end = b
  BY <1>4, <1>6, <1>7, RecalcFacts
<1>9. z = Append([bs EXCEPT ![k] = x], y)
  BY <1>3, <1>7 DEF Halved
<1>10. /\ z \in Seq(Boxes) /\ Len(z) = n + 1 /\ n \in Nat /\ n = Len(bs)
       /\ z[k] = x /\ z[n + 1] = y /\ k \in 1 .. n
       /\ \A l \in 1 .. n : l # k => z[l] = bs[l]
  BY <1>1, <1>2, <1>3, <1>8, <1>9
<1>11. Places(x) = (a + 1) .. mid /\ Places(y) = (mid + 1) .. b
  BY <1>8 DEF Places
<1>12. ASSUME NEW l \in 1 .. Len(z)
       PROVE  z[l].start < z[l].end /\ z[l].end <= Len(s) /\ z[l] = Recalc(s, z[l].start, z[l].end)
  <2>1. CASE l = k
    BY <1>1, <1>6, <1>7, <1>8, <1>10, <2>1
  <2>2. CASE l = n + 1
    BY <1>1, <1>4, <1>6, <1>7, <1>8, <1>10, <2>2
  <2>3. CASE l # k /\ l # n + 1
    <3>1. l \in 1 .. n /\ z[l] = bs[l]
      BY <1>10, <2>3
    <3>2. bs[l].start < bs[l].end /\ bs[l].end <= Len(s) /\ bs[l] = Recalc(s, bs[l].start, bs[l].end)
      BY <1>10, <3>1 DEF Cut
    <3> QED
      BY <3>1, <3>2, Zenon
  <2> QED
    BY <2>1, <2>2, <2>3
<1>13. ASSUME NEW i \in 1 .. Len(s) PROVE \E l \in 1 .. Len(z) : i \in Places(z[l])
  <2>1. PICK l \in 1 .. n : i \in Places(bs[l])
    BY <1>10 DEF Cut
  <2>2. CASE l # k
    <3>1. z[l] = bs[l] /\ l \in 1 .. Len(z)
      BY <1>10, <2>2
    <3> QED
      BY <2>1, <3>1
  <2>3. CASE l = k /\ i <= mid
    <3>1. i \in (a + 1) .. b
      BY <1>4, <2>1, <2>3
    <3>2. i \in Places(x)
      BY <1>6, <1>11, <2>3, <3>1
    <3>3. k \in 1 .. Len(z)
      BY <1>10
    <3> QED
      BY <1>10, <3>2, <3>3
  <2>4. CASE l = k /\ ~ (i <= mid)
    <3>1. i \in (a + 1) .. b
      BY <1>4, <2>1, <2>4
    <3>2. i \in Places(y)
      BY <1>6, <1>11, <2>4, <3>1
    <3>3. n + 1 \in 1 .. Len(z)
      BY <1>10
    <3> QED
      BY <1>10, <3>2, <3>3
  <2> QED
    BY <2>2, <2>3, <2>4
<1> DEFINE Old(l) == IF l = n + 1 THEN k ELSE l
<1>14. ASSUME NEW l \in 1 .. Len(z), NEW i \in Places(z[l])
       PROVE  Old(l) \in 1 .. n /\ i \in Places(bs[Old(l)])
  <2>1. CASE l = k
    BY <1>4, <1>6, <1>10, <1>11, <2>1
  <2>2. CASE l = n + 1
    BY <1>4, <1>6, <1>10, <1>11, <2>2
  <2>3. CASE l # k /\ l # n + 1
    <3>1. l \in 1 .. n /\ z[l] = bs[l]
      BY <1>10, <2>3
    <3> QED
      BY <2>3, <3>1
  <2> QED
    BY <2>1, <2>2, <2>3
<1>15. ASSUME NEW l \in 1 .. Len(z), NEW m \in 1 .. Len(z), NEW i \in 1 .. Len(s),
              i \in Places(z[l]), i \in Places(z[m])
       PROVE  l = m
  <2>1. /\ Old(l) \in 1 .. n /\ i \in Places(bs[Old(l)])
        /\ Old(m) \in 1 .. n /\ i \in Places(bs[Old(m)])
    <3> HIDE DEF Old
    <3> QED
      BY <1>14, <1>15
  <2>2. Old(l) = Old(m)
    <3> HIDE DEF Old
    <3> QED
      BY <1>10, <2>1 DEF Cut
  <2>3. ~ (i \in Places(x) /\ i \in Places(y))
    BY <1>6, <1>11
  <2>4. \A j \in 1 .. Len(z) : j = n + 1 \/ j \in 1 .. n
    BY <1>10
  <2>5. CASE l = n + 1 /\ m # n + 1
    <3>1. m = k
      BY <2>2, <2>5
    <3> QED
      BY <1>10, <1>15, <2>3, <2>5, <3>1
  <2>6. CASE m = n + 1 /\ l # n + 1
    <3>1. l = k
      BY <2>2, <2>6
    <3> QED
      BY <1>10, <1>15, <2>3, <2>6, <3>1
  <2>7. CASE l # n + 1 /\ m # n + 1
    BY <2>2, <2>7
  <2> QED
    BY <2>5, <2>6, <2>7
<1>16. Cut(s, z)
  BY <1>10, <1>12, <1>13, <1>15 DEF Cut
<1> QED
  BY <1>7, <1>10, <1>16

(* The first box holds all.                                                *)
LEMMA FirstCut ==
    ASSUME NEW s \in Seq(Colours), s # <<>>
    PROVE  Cut(s, <<Recalc(s, 0, Len(s))>>)
<1>1. Len(s) \in Nat \ {0}
  OBVIOUS
<1>2. PICK x : x = Recalc(s, 0, Len(s))
  OBVIOUS
<1>3. x \in Boxes /\ x.start = 0 /\ x.end = Len(s)
  <2>1. 0 \in Nat /\ 0 < Len(s) /\ Len(s) <= Len(s) /\ Len(s) \in Nat
    BY <1>1
  <2> QED
    BY <1>2, <2>1, RecalcFacts
<1>4. Places(x) = (0 + 1) .. Len(s)
  BY <1>3 DEF Places
<1>5. <<x>> \in Seq(Boxes) /\ Len(<<x>>) = 1 /\ <<x>>[1] = x
  BY <1>3
<1>6. \A k \in 1 .. Len(<<x>>) : k = 1
  BY <1>5
<1>7. \A i \in 1 .. Len(s) : \E k \in 1 .. Len(<<x>>) : i \in Places(<<x>>[k])
  <2>1. 1 \in 1 .. Len(<<x>>) /\ \A i \in 1 .. Len(s) : i \in Places(x)
    BY <1>4, <1>5
  <2> QED
    BY <1>5, <2>1
<1> QED
  BY <1>1, <1>2, <1>3, <1>5, <1>6, <1>7 DEF Cut

(* When no box can be cut, there is a box for each colour.                 *)
LEMMA CutEnds ==
    ASSUME NEW s \in Seq(Colours), NEW bs, Cut(s, bs), Cuttable(bs) = {}
    PROVE  Len(bs) = Len(s)
<1>1. bs \in Seq(Boxes) /\ Len(bs) \in Nat /\ Len(s) \in Nat
  BY DEF Cut
<1>2. ASSUME NEW k \in 1 .. Len(bs)
      PROVE  /\ bs[k].start \in Nat /\ bs[k].start + 1 \in 1 .. Len(s)
             /\ \A i : i \in Places(bs[k]) <=> i = bs[k].start + 1
  <2>1. PICK a, b : a = bs[k].start /\ b = bs[k].end
    OBVIOUS
  <2>2. a \in Nat /\ b \in Nat /\ a < b /\ b <= Len(s) /\ Places(bs[k]) = (a + 1) .. b
    BY <2>1, CutFacts
  <2>3. ~ (b - a >= 2)
    BY <1>1, <2>1 DEF Cuttable
  <2>4. b = a + 1
    BY <2>2, <2>3
  <2> QED
    BY <1>1, <2>1, <2>2, <2>4
<1> DEFINE f == [k \in 1 .. Len(bs) |-> bs[k].start + 1]
<1>3. f \in [1 .. Len(bs) -> 1 .. Len(s)] /\ \A k \in 1 .. Len(bs) : f[k] = bs[k].start + 1
  BY <1>2
<1> HIDE DEF f
<1>4. \A k \in 1 .. Len(bs) : f[k] \in 1 .. Len(s) /\ f[k] \in Places(bs[k])
  BY <1>2, <1>3
<1>5. \A k, l \in 1 .. Len(bs) : f[k] = f[l] => k = l
  BY <1>4 DEF Cut
<1>6. \A i \in 1 .. Len(s) : \E k \in 1 .. Len(bs) : f[k] = i
  <2> SUFFICES ASSUME NEW i \in 1 .. Len(s) PROVE \E k \in 1 .. Len(bs) : f[k] = i
    OBVIOUS
  <2>1. PICK k \in 1 .. Len(bs) : i \in Places(bs[k])
    BY DEF Cut
  <2> QED
    BY <1>2, <1>3, <2>1
<1>7. f \in Bijection(1 .. Len(bs), 1 .. Len(s))
  BY <1>3, <1>5, <1>6 DEF Bijection, Injection, Surjection, IsInjective
<1>8. ExistsBijection(1 .. Len(bs), 1 .. Len(s))
  BY <1>7 DEF ExistsBijection
<1>9. \A n \in Nat : IsFiniteSet(1 .. n) /\ Cardinality(1 .. n) = n
  <2> SUFFICES ASSUME NEW n \in Nat PROVE IsFiniteSet(1 .. n) /\ Cardinality(1 .. n) = n
    OBVIOUS
  <2>1. 1 \in Int /\ n \in Int /\ (IF 1 > n THEN 0 ELSE n - 1 + 1) = n
    OBVIOUS
  <2>2. IsFiniteSet(1 .. n) /\ Cardinality(1 .. n) = IF 1 > n THEN 0 ELSE n - 1 + 1
    BY <2>1, FS_Interval
  <2> QED
    BY <2>1, <2>2
<1>10. IsFiniteSet(1 .. Len(bs)) /\ Cardinality(1 .. Len(bs)) = Len(bs) /\ Cardinality(1 .. Len(s)) = Len(s)
  BY <1>1, <1>9
<1> QED
  BY <1>8, <1>10, FS_Bijection, Zenon
-----------------------------------------------------------------------------
(* Sorting by one channel *)

Precedes(s, c, i, j) ==
    \/ Compare(s[i], s[j], c) < 0
    \/ Compare(s[i], s[j], c) = 0 /\ i < j

LEMMA OneChannel ==
    ASSUME NEW s, NEW P, NEW c, NEW q \in Sorted(s, P, {c})
    PROVE  /\ q \in Bijection(P, P)
           /\ \A i \in P : i + 1 \in P => Precedes(s, c, q[i], q[i + 1])
BY DEF Sorted, Precedes

LEMMA CompareFacts ==
    ASSUME NEW x \in Colours, NEW y \in Colours, NEW c \in Channels
    PROVE  /\ x.value[c] \in Int /\ y.value[c] \in Int /\ x.count \in Int /\ y.count \in Int
           /\ Compare(x, y, c) < 0 <=>
                  x.value[c] < y.value[c] \/ (x.value[c] = y.value[c] /\ x.count > y.count)
           /\ Compare(x, y, c) = 0 <=> x.value[c] = y.value[c] /\ x.count = y.count
<1>1. x.value[c] \in Int /\ y.value[c] \in Int /\ x.count \in Int /\ y.count \in Int
  BY DEF Colours, Pixels
<1>2. PICK v, w, m, n : v = x.value[c] /\ w = y.value[c] /\ m = x.count /\ n = y.count
  OBVIOUS
<1>3. v \in Int /\ w \in Int /\ m \in Int /\ n \in Int
  BY <1>1, <1>2
<1>4. PICK d : d = Compare(x, y, c)
  OBVIOUS
<1>5. d = IF v # w THEN v - w ELSE n - m
  BY <1>2, <1>4, Zenon DEF Compare
<1>6. /\ d < 0 <=> v < w \/ (v = w /\ m > n)
      /\ d = 0 <=> v = w /\ m = n
  BY <1>3, <1>5
<1> QED
  BY <1>1, <1>2, <1>4, <1>6

LEMMA PrecedesFacts ==
    ASSUME NEW s \in Seq(Colours), NEW c \in Channels, NEW i \in 1 .. Len(s), NEW j \in 1 .. Len(s)
    PROVE  Precedes(s, c, i, j) <=>
               \/ s[i].value[c] < s[j].value[c]
               \/ s[i].value[c] = s[j].value[c] /\ s[i].count > s[j].count
               \/ s[i].value[c] = s[j].value[c] /\ s[i].count = s[j].count /\ i < j
<1>1. PICK x, y : x = s[i] /\ y = s[j]
  OBVIOUS
<1>2. x \in Colours /\ y \in Colours
  BY <1>1
<1>3. PICK v, w, m, n : v = x.value[c] /\ w = y.value[c] /\ m = x.count /\ n = y.count
  OBVIOUS
<1>4. v \in Int /\ w \in Int /\ m \in Int /\ n \in Int
  BY <1>2, <1>3, CompareFacts, Zenon
<1>5. PICK d : d = Compare(x, y, c)
  OBVIOUS
<1>6. /\ d < 0 <=> v < w \/ (v = w /\ m > n)
      /\ d = 0 <=> v = w /\ m = n
  BY <1>2, <1>3, <1>5, CompareFacts
<1>7. Precedes(s, c, i, j) <=> d < 0 \/ (d = 0 /\ i < j)
  BY <1>1, <1>5, Zenon DEF Precedes
<1>8. Precedes(s, c, i, j) <=> v < w \/ (v = w /\ m > n) \/ (v = w /\ m = n /\ i < j)
  BY <1>4, <1>6, <1>7
<1> QED
  BY <1>1, <1>3, <1>8, Zenon

LEMMA PrecedesOrders ==
    ASSUME NEW s \in Seq(Colours), NEW c \in Channels
    PROVE  /\ \A i, j \in 1 .. Len(s) : ~ (Precedes(s, c, i, j) /\ Precedes(s, c, j, i))
           /\ \A i, j, k \in 1 .. Len(s) :
                  Precedes(s, c, i, j) /\ Precedes(s, c, j, k) => Precedes(s, c, i, k)
           /\ \A i, j \in 1 .. Len(s) : Precedes(s, c, i, j) => s[i].value[c] <= s[j].value[c]
<1>1. \A i \in 1 .. Len(s) : s[i].value[c] \in Int /\ s[i].count \in Int
  <2>1. \A i \in 1 .. Len(s) : s[i] \in Colours
    OBVIOUS
  <2> QED
    BY <2>1 DEF Colours, Pixels
<1>2. ASSUME NEW i \in 1 .. Len(s), NEW j \in 1 .. Len(s)
      PROVE  ~ (Precedes(s, c, i, j) /\ Precedes(s, c, j, i))
  BY <1>1, PrecedesFacts
<1>3. ASSUME NEW i \in 1 .. Len(s), NEW j \in 1 .. Len(s), NEW k \in 1 .. Len(s),
             Precedes(s, c, i, j), Precedes(s, c, j, k)
      PROVE  Precedes(s, c, i, k)
  <2>1. PICK x, y, z : x = s[i].value[c] /\ y = s[j].value[c] /\ z = s[k].value[c]
    OBVIOUS
  <2>2. PICK l, m, n : l = s[i].count /\ m = s[j].count /\ n = s[k].count
    OBVIOUS
  <2>3. x \in Int /\ y \in Int /\ z \in Int /\ l \in Int /\ m \in Int /\ n \in Int
    BY <1>1, <2>1, <2>2
  <2>4. x < y \/ (x = y /\ l > m) \/ (x = y /\ l = m /\ i < j)
    BY <1>3, <2>1, <2>2, PrecedesFacts
  <2>5. y < z \/ (y = z /\ m > n) \/ (y = z /\ m = n /\ j < k)
    BY <1>3, <2>1, <2>2, PrecedesFacts
  <2>6. i < j /\ j < k => i < k
    OBVIOUS
  <2>7. x < z \/ (x = z /\ l > n) \/ (x = z /\ l = n /\ i < k)
    BY <2>3, <2>4, <2>5, <2>6
  <2> QED
    BY <2>1, <2>2, <2>7, PrecedesFacts
<1>4. ASSUME NEW i \in 1 .. Len(s), NEW j \in 1 .. Len(s), Precedes(s, c, i, j)
      PROVE  s[i].value[c] <= s[j].value[c]
  BY <1>1, <1>4, PrecedesFacts
<1> QED
  BY <1>2, <1>3, <1>4

(* Sorted neighbours make a sorted interval.                               *)
LEMMA SortedFacts ==
    ASSUME NEW s \in Seq(Colours), NEW c \in Channels, NEW a \in Nat, NEW b \in Nat,
           b <= Len(s), NEW q \in Sorted(s, (a + 1) .. b, {c})
    PROVE  \A i, j \in (a + 1) .. b : i < j => Precedes(s, c, q[i], q[j])
<1>1. /\ q \in Bijection((a + 1) .. b, (a + 1) .. b)
      /\ \A i \in (a + 1) .. b : i + 1 \in (a + 1) .. b => Precedes(s, c, q[i], q[i + 1])
  BY OneChannel
<1>2. \A i \in (a + 1) .. b : q[i] \in (a + 1) .. b
  BY <1>1, BijectionGives, Zenon
<1>3. \A i \in (a + 1) .. b : q[i] \in 1 .. Len(s)
  <2>1. \A i \in (a + 1) .. b : i \in 1 .. Len(s)
    OBVIOUS
  <2> QED
    BY <1>2, <2>1
<1> SUFFICES ASSUME NEW i \in (a + 1) .. b
             PROVE  \A j \in (a + 1) .. b : i < j => Precedes(s, c, q[i], q[j])
  OBVIOUS
<1> DEFINE T == {j \in (i + 1) .. b : Precedes(s, c, q[i], q[j])}
<1>4. ASSUME i + 1 <= b PROVE i + 1 \in T
  <2>1. i + 1 \in (a + 1) .. b /\ i + 1 \in (i + 1) .. b
    BY <1>4
  <2> QED
    BY <1>1, <2>1
<1>5. ASSUME NEW n \in (i + 1) .. b, n + 1 <= b, n \in T PROVE n + 1 \in T
  <2>1. n \in (a + 1) .. b /\ n + 1 \in (a + 1) .. b /\ n + 1 \in (i + 1) .. b
    BY <1>5
  <2>2. Precedes(s, c, q[n], q[n + 1]) /\ Precedes(s, c, q[i], q[n])
    BY <1>1, <1>5, <2>1
  <2>3. q[i] \in 1 .. Len(s) /\ q[n] \in 1 .. Len(s) /\ q[n + 1] \in 1 .. Len(s)
    BY <1>3, <2>1
  <2>4. Precedes(s, c, q[i], q[n + 1])
    BY <2>2, <2>3, PrecedesOrders, Zenon
  <2> QED
    BY <2>1, <2>4
<1>6. T = (i + 1) .. b
  <2>1. T \in SUBSET ((i + 1) .. b)
    OBVIOUS
  <2>2. i + 1 \in Int /\ b \in Int
    OBVIOUS
  <2> HIDE DEF T
  <2> QED
    BY <1>4, <1>5, <2>1, <2>2, FromTo
<1>7. \A j \in (a + 1) .. b : i < j => j \in T
  <2> HIDE DEF T
  <2> QED
    BY <1>6
<1> QED
  BY <1>7

(* So there is one way to sort.                                            *)
LEMMA SortedOnce ==
    ASSUME NEW s \in Seq(Colours), NEW c \in Channels, NEW a \in Nat, NEW b \in Nat,
           b <= Len(s), NEW q \in Sorted(s, (a + 1) .. b, {c}), NEW r \in Sorted(s, (a + 1) .. b, {c})
    PROVE  q = r
<1>1. q \in Bijection((a + 1) .. b, (a + 1) .. b) /\ r \in Bijection((a + 1) .. b, (a + 1) .. b)
  BY OneChannel
<1>2. /\ \A i \in (a + 1) .. b : q[i] \in (a + 1) .. b
      /\ \A i, j \in (a + 1) .. b : q[i] = q[j] => i = j
      /\ \A j \in (a + 1) .. b : \E i \in (a + 1) .. b : q[i] = j
  BY <1>1, BijectionGives, Zenon
<1>3. /\ \A i \in (a + 1) .. b : r[i] \in (a + 1) .. b
      /\ \A i, j \in (a + 1) .. b : r[i] = r[j] => i = j
      /\ \A j \in (a + 1) .. b : \E i \in (a + 1) .. b : r[i] = j
  BY <1>1, BijectionGives, Zenon
<1>4. /\ \A i, j \in (a + 1) .. b : i < j => Precedes(s, c, q[i], q[j])
      /\ \A i, j \in (a + 1) .. b : i < j => Precedes(s, c, r[i], r[j])
  BY SortedFacts
<1>5. \A i \in (a + 1) .. b : i \in Nat /\ i \in 1 .. Len(s)
  OBVIOUS
<1> DEFINE Bad == {i \in (a + 1) .. b : q[i] # r[i]}
<1>6. ASSUME Bad # {} PROVE FALSE
  <2>1. Bad \in SUBSET Nat
    OBVIOUS
  <2>2. PICK m \in Bad : \A n \in Bad : m <= n
    <3> HIDE DEF Bad
    <3> QED
      BY <1>6, <2>1, Least
  <2>3. m \in (a + 1) .. b /\ q[m] # r[m] /\ \A n \in (a + 1) .. b : n < m => q[n] = r[n]
    BY <2>2
  <2>4. PICK k \in (a + 1) .. b : r[k] = q[m]
    BY <1>2, <1>3, <2>3
  <2>5. PICK l \in (a + 1) .. b : q[l] = r[m]
    BY <1>2, <1>3, <2>3
  <2>6. ~ (k < m) /\ k # m
    <3>1. k # m
      BY <2>3, <2>4
    <3>2. ~ (k < m)
      <4>1. ASSUME k < m PROVE FALSE
        <5>1. q[k] = q[m]
          BY <2>3, <2>4, <4>1
        <5> QED
          BY <1>2, <2>3, <3>1, <5>1
      <4> QED
        BY <4>1
    <3> QED
      BY <3>1, <3>2
  <2>7. ~ (l < m) /\ l # m
    <3>1. l # m
      BY <2>3, <2>5
    <3>2. ~ (l < m)
      <4>1. ASSUME l < m PROVE FALSE
        <5>1. r[l] = r[m]
          BY <2>3, <2>5, <4>1
        <5> QED
          BY <1>3, <2>3, <3>1, <5>1
      <4> QED
        BY <4>1
    <3> QED
      BY <3>1, <3>2
  <2>8. m < k /\ m < l
    BY <1>5, <2>3, <2>4, <2>5, <2>6, <2>7
  <2>9. Precedes(s, c, r[m], q[m]) /\ Precedes(s, c, q[m], r[m])
    BY <1>4, <2>3, <2>4, <2>5, <2>8
  <2>10. q[m] \in 1 .. Len(s) /\ r[m] \in 1 .. Len(s)
    BY <1>2, <1>3, <1>5, <2>3
  <2> QED
    BY <2>9, <2>10, PrecedesOrders, Zenon
<1>7. \A i \in (a + 1) .. b : q[i] = r[i]
  BY <1>6
<1>8. q \in [(a + 1) .. b -> (a + 1) .. b] /\ r \in [(a + 1) .. b -> (a + 1) .. b]
  BY <1>1, BijectionFacts, Zenon
<1> QED
  BY <1>7, <1>8

LEMMA SortedInOrder ==
    ASSUME NEW s \in Seq(Colours), NEW c \in Channels, NEW a \in Nat, NEW b \in Nat,
           b <= Len(s), NEW q \in Sorted(s, (a + 1) .. b, {c})
    PROVE  \A i, j \in (a + 1) .. b :
               i < j => Reordered(s, q)[i].value[c] <= Reordered(s, q)[j].value[c]
<1>1. PICK P : P = (a + 1) .. b
  OBVIOUS
<1>2. P \in SUBSET (1 .. Len(s))
  BY <1>1
<1>3. q \in Bijection(P, P)
  <2>1. q \in Bijection((a + 1) .. b, (a + 1) .. b)
    BY OneChannel
  <2> QED
    BY <1>1, <2>1, Zenon
<1>4. \A i \in P : Reordered(s, q)[i] = s[q[i]]
  BY <1>2, <1>3, ReorderedFacts
<1>5. \A i \in P : q[i] \in 1 .. Len(s)
  <2>1. \A i \in P : q[i] \in P
    BY <1>3, BijectionGives
  <2> QED
    BY <1>2, <2>1
<1>6. \A i, j \in P : i < j => Precedes(s, c, q[i], q[j])
  <2>1. \A i, j \in (a + 1) .. b : i < j => Precedes(s, c, q[i], q[j])
    BY SortedFacts
  <2> QED
    BY <1>1, <2>1, Zenon
<1>7. \A i, j \in P : i < j => s[q[i]].value[c] <= s[q[j]].value[c]
  BY <1>5, <1>6, PrecedesOrders, Zenon
<1>8. \A i, j \in P : i < j => Reordered(s, q)[i].value[c] <= Reordered(s, q)[j].value[c]
  BY <1>4, <1>7
<1> QED
  BY <1>1, <1>8, Zenon
-----------------------------------------------------------------------------
(* One thread's part of the state *)

LEMMA LimitFacts ==
    ASSUME NEW wanted \in Int, NEW available \in Nat \ {0}
    PROVE  /\ Limit(wanted, available) \in Int
           /\ 1 <= Limit(wanted, available)
           /\ Limit(wanted, available) <= 256
           /\ Limit(wanted, available) <= available
<1> DEFINE T == {IF wanted <= 0 THEN 128 ELSE wanted, 256, available}
<1>1. T \in SUBSET Int /\ 256 \in T /\ available \in T /\ \A n \in T : 1 <= n
  OBVIOUS
<1>2. Limit(wanted, available) = Min(T)
  BY DEF Limit
<1>3. Min(T) \in T /\ Min(T) \in Int /\ \A n \in T : Min(T) <= n
  <2>1. 1 \in Int
    OBVIOUS
  <2> HIDE DEF T
  <2> QED
    BY <1>1, <2>1, MinIsLeast
<1> HIDE DEF T
<1> QED
  BY <1>1, <1>2, <1>3

(* A thread with picture p that wants a palette of g colours, at stage st, *)
(* with the histogram s, the boxes bs, box k chosen, the palette pl.       *)
Sound(p, g, st, s, bs, k, pl) ==
    /\ p \in Pictures
    /\ st \in {"count", "choose", "sort", "split", "done", "failed"}
    /\ g \in Int
    /\ st = "count" => bs = <<>>
    /\ bs = <<>> => st \in {"count", "failed"}
    /\ bs # <<>> => Tells(p, s) /\ Cut(s, bs) /\ Len(bs) <= g /\ g <= 256 /\ g <= Len(s)
    /\ st \in {"sort", "split"} => k = Chosen(bs) /\ Cuttable(bs) # {} /\ Len(bs) < g
    /\ st # "done" => pl = <<>>
    /\ st = "done" => Len(bs) = g /\ pl = Means(s, bs)

LEMMA SoundCounted ==
    ASSUME NEW p, NEW g, NEW s, NEW bs, NEW k, NEW pl, Sound(p, g, "count", s, bs, k, pl)
    PROVE  LET h == Histogram(p)
           IN Sound(p, Limit(g, Len(h)), "choose", h, <<Recalc(h, 0, Len(h))>>, k, pl)
<1>1. PICK h : h = Histogram(p)
  OBVIOUS
<1>2. p \in Pictures /\ g \in Int /\ pl = <<>>
  BY DEF Sound
<1>3. Tells(p, h)
  BY <1>1, <1>2, HistogramTells
<1>4. h \in Seq(Colours) /\ h # <<>> /\ Len(h) \in Nat \ {0}
  BY <1>3 DEF Tells
<1>5. Cut(h, <<Recalc(h, 0, Len(h))>>)
  BY <1>4, FirstCut
<1>6. PICK l, n : l = Limit(g, Len(h)) /\ n = Len(h)
  OBVIOUS
<1>7. l \in Int /\ 1 <= l /\ l <= 256 /\ l <= n
  BY <1>2, <1>4, <1>6, LimitFacts, Zenon
<1>8. PICK fs : fs = <<Recalc(h, 0, Len(h))>>
  OBVIOUS
<1>9. Len(fs) = 1 /\ fs # <<>>
  BY <1>8
<1>10. Sound(p, l, "choose", h, fs, k, pl)
  BY <1>2, <1>3, <1>5, <1>6, <1>7, <1>8, <1>9 DEF Sound
<1> QED
  BY <1>1, <1>6, <1>8, <1>10, Zenon

LEMMA SoundChosen ==
    ASSUME NEW p, NEW g, NEW s, NEW bs, NEW k, NEW pl, Sound(p, g, "choose", s, bs, k, pl),
           Len(bs) < g, Cuttable(bs) # {}
    PROVE  Sound(p, g, "sort", s, bs, Chosen(bs), pl)
BY DEF Sound

LEMMA SoundCuttable ==
    ASSUME NEW p, NEW g, NEW st, NEW s, NEW bs, NEW k, NEW pl, Sound(p, g, st, s, bs, k, pl),
           st \in {"sort", "split"}
    PROVE  /\ bs # <<>> /\ bs \in Seq(Boxes) /\ Tells(p, s) /\ Cut(s, bs) /\ s \in Seq(Colours)
           /\ k = Chosen(bs) /\ k \in Cuttable(bs) /\ k \in 1 .. Len(bs)
<1>1. bs # <<>> /\ Tells(p, s) /\ Cut(s, bs) /\ k = Chosen(bs) /\ Cuttable(bs) # {}
  BY DEF Sound
<1>2. s \in Seq(Colours)
  BY <1>1 DEF Tells
<1>3. bs \in Seq(Boxes)
  BY <1>1 DEF Cut
<1>4. k \in Cuttable(bs)
  BY <1>1, <1>3, ChosenFacts
<1>5. k \in 1 .. Len(bs)
  BY <1>1, <1>2, <1>4, CuttableFacts
<1> QED
  BY <1>1, <1>2, <1>3, <1>4, <1>5

LEMMA SoundSorted ==
    ASSUME NEW p, NEW g, NEW s, NEW bs, NEW k, NEW pl, Sound(p, g, "sort", s, bs, k, pl),
           NEW Cs, NEW q \in Sorted(s, Places(bs[k]), Cs)
    PROVE  Sound(p, g, "split", Reordered(s, q), bs, k, pl)
<1>1. /\ bs # <<>> /\ Tells(p, s) /\ Cut(s, bs) /\ s \in Seq(Colours)
      /\ k \in 1 .. Len(bs)
  BY SoundCuttable
<1>2. PICK P : P = Places(bs[k])
  OBVIOUS
<1>3. P \in SUBSET (1 .. Len(s))
  BY <1>1, <1>2, CutFacts
<1>4. q \in Bijection(P, P)
  BY <1>2 DEF Sorted
<1>5. PICK z : z = Reordered(s, q)
  OBVIOUS
<1>6. Len(z) = Len(s)
  BY <1>1, <1>3, <1>4, <1>5, ReorderedFacts
<1>7. p \in Pictures
  BY DEF Sound
<1>8. Tells(p, z)
  BY <1>1, <1>3, <1>4, <1>5, <1>7, TellsReordered
<1>9. Cut(z, bs)
  BY <1>1, <1>2, <1>3, <1>4, <1>5, CutReordered
<1>10. Sound(p, g, "split", z, bs, k, pl)
  BY <1>1, <1>6, <1>8, <1>9 DEF Sound
<1> QED
  BY <1>5, <1>10

LEMMA SoundSplit ==
    ASSUME NEW p, NEW g, NEW s, NEW bs, NEW k, NEW pl, Sound(p, g, "split", s, bs, k, pl)
    PROVE  /\ Sound(p, g, "choose", s, Halved(bs, k, s), k, pl)
           /\ Len(Halved(bs, k, s)) = Len(bs) + 1
<1>1. /\ bs # <<>> /\ bs \in Seq(Boxes) /\ Tells(p, s) /\ Cut(s, bs) /\ s \in Seq(Colours)
      /\ k \in Cuttable(bs)
  BY SoundCuttable
<1>2. PICK hs, n : hs = Halved(bs, k, s) /\ n = Len(bs)
  OBVIOUS
<1>3. Cut(s, hs) /\ Len(hs) = n + 1
  BY <1>1, <1>2, CutHalved
<1>4. n \in Nat
  BY <1>1, <1>2
<1>5. hs # <<>>
  BY <1>3, <1>4
<1>6. g \in Int /\ n < g /\ g <= 256 /\ g <= Len(s)
  BY <1>1, <1>2 DEF Sound
<1>7. Len(hs) <= g
  BY <1>3, <1>4, <1>6
<1>8. Sound(p, g, "choose", s, hs, k, pl)
  BY <1>1, <1>3, <1>5, <1>6, <1>7 DEF Sound
<1> QED
  BY <1>2, <1>3, <1>8

LEMMA SoundFinished ==
    ASSUME NEW p, NEW g, NEW s, NEW bs, NEW k, NEW pl, Sound(p, g, "choose", s, bs, k, pl),
           ~ (Len(bs) < g /\ Cuttable(bs) # {})
    PROVE  Sound(p, g, "done", s, bs, k, Means(s, bs))
<1>1. bs # <<>> /\ Tells(p, s) /\ Cut(s, bs) /\ g \in Int /\ Len(bs) <= g /\ g <= 256 /\ g <= Len(s)
  BY DEF Sound
<1>2. s \in Seq(Colours) /\ bs \in Seq(Boxes)
  BY <1>1 DEF Tells, Cut
<1>3. Len(bs) \in Nat /\ Len(s) \in Nat
  BY <1>2
<1>4. Len(bs) = g
  <2>1. CASE Cuttable(bs) = {}
    <3>1. Len(bs) = Len(s)
      BY <1>1, <1>2, <2>1, CutEnds
    <3> QED
      BY <1>1, <1>3, <3>1
  <2>2. CASE ~ (Len(bs) < g)
    BY <1>1, <1>3, <2>2
  <2> QED
    BY <2>1, <2>2
<1> QED
  BY <1>1, <1>4 DEF Sound

LEMMA SoundFailed ==
    ASSUME NEW p, NEW g, NEW st, NEW s, NEW bs, NEW k, NEW pl, Sound(p, g, st, s, bs, k, pl),
           st \in {"count", "choose"}
    PROVE  Sound(p, g, "failed", s, bs, k, pl)
BY DEF Sound
-----------------------------------------------------------------------------
(* A sort that nobody disturbed *)

InOrder(s, box) ==
    \A i, j \in Places(box) : i < j => s[i].value[CutChannel(box)] <= s[j].value[CutChannel(box)]

(* The one order such a sort leaves the colours in.                        *)
Ordered(s, bs) ==
    LET box == bs[Chosen(bs)]
    IN Reordered(s, CHOOSE q \in Sorted(s, Places(box), {CutChannel(box)}) : TRUE)

LEMMA OrderedFacts ==
    ASSUME NEW p, NEW g, NEW s, NEW bs, NEW k, NEW pl, Sound(p, g, "sort", s, bs, k, pl),
           NEW sn, sn = {CutChannel(bs[k])}, NEW q \in Sorted(s, Places(bs[k]), sn)
    PROVE  InOrder(Reordered(s, q), bs[k]) /\ Reordered(s, q) = Ordered(s, bs)
<1>1. Cut(s, bs) /\ s \in Seq(Colours) /\ k = Chosen(bs) /\ k \in 1 .. Len(bs)
  BY SoundCuttable
<1>2. PICK box, a, b, c : box = bs[k] /\ a = box.start /\ b = box.end /\ c = CutChannel(box)
  OBVIOUS
<1>3. box \in Boxes /\ a \in Nat /\ b \in Nat /\ b <= Len(s) /\ Places(box) = (a + 1) .. b
  BY <1>1, <1>2, CutFacts
<1>4. c \in Channels
  BY <1>2, <1>3, WidestFacts
<1>5. q \in Sorted(s, (a + 1) .. b, {c})
  BY <1>2, <1>3, Zenon
<1>6. \A i, j \in (a + 1) .. b : i < j => Reordered(s, q)[i].value[c] <= Reordered(s, q)[j].value[c]
  BY <1>1, <1>3, <1>4, <1>5, SortedInOrder
<1>7. InOrder(Reordered(s, q), bs[k])
  BY <1>2, <1>3, <1>6 DEF InOrder
<1>8. PICK r : r = CHOOSE x \in Sorted(s, (a + 1) .. b, {c}) : TRUE
  OBVIOUS
<1>9. r \in Sorted(s, (a + 1) .. b, {c})
  BY <1>5, <1>8
<1>10. r = q
  BY <1>1, <1>3, <1>4, <1>5, <1>9, SortedOnce
<1>11. Ordered(s, bs) = Reordered(s, CHOOSE x \in Sorted(s, Places(bs[k]), {CutChannel(bs[k])}) : TRUE)
  BY <1>1, Zenon DEF Ordered
<1>12. Ordered(s, bs) = Reordered(s, r)
  BY <1>2, <1>3, <1>8, <1>11, Zenon
<1> QED
  BY <1>7, <1>10, <1>12

-----------------------------------------------------------------------------
(* The course of undisturbed cuts: histogram and boxes after each          *)

First(p) == <<Histogram(p), <<Recalc(Histogram(p), 0, Len(Histogram(p)))>>>>

After(x) == <<Ordered(x[1], x[2]), Halved(x[2], Chosen(x[2]), Ordered(x[1], x[2]))>>

Reached(p, n, x) ==
    \E h : /\ h[1] = First(p)
           /\ \A m \in 1 .. n : m + 1 <= n => h[m + 1] = After(h[m])
           /\ h[n] = x

LEMMA ReachedFirst == ASSUME NEW p PROVE Reached(p, 1, First(p))
<1>1. PICK h : h = [m \in 1 .. 1 |-> First(p)]
  OBVIOUS
<1>2. h[1] = First(p) /\ \A m \in 1 .. 1 : m + 1 <= 1 => h[m + 1] = After(h[m])
  BY <1>1
<1> QED
  BY <1>2, Zenon DEF Reached

LEMMA ReachedNext ==
    ASSUME NEW p, NEW n \in Nat \ {0}, NEW x, Reached(p, n, x)
    PROVE  Reached(p, n + 1, After(x))
<1>1. PICK h : /\ h[1] = First(p)
               /\ \A m \in 1 .. n : m + 1 <= n => h[m + 1] = After(h[m])
               /\ h[n] = x
  BY DEF Reached
<1>2. PICK z : z = [m \in 1 .. n + 1 |-> IF m <= n THEN h[m] ELSE After(x)]
  OBVIOUS
<1>3. /\ z[1] = First(p) /\ z[n + 1] = After(x) /\ \A m \in 1 .. n : z[m] = h[m]
  BY <1>1, <1>2
<1>4. ASSUME NEW m \in 1 .. n + 1, m + 1 <= n + 1 PROVE z[m + 1] = After(z[m])
  <2>1. CASE m = n
    BY <1>1, <1>3, <2>1
  <2>2. CASE m # n
    <3>1. m \in 1 .. n /\ m + 1 \in 1 .. n /\ m + 1 <= n
      BY <1>4, <2>2
    <3> QED
      BY <1>1, <1>3, <3>1
  <2> QED
    BY <2>1, <2>2
<1>5. /\ z[1] = First(p)
      /\ \A m \in 1 .. n + 1 : m + 1 <= n + 1 => z[m + 1] = After(z[m])
      /\ z[n + 1] = After(x)
  BY <1>3, <1>4
<1> QED
  BY <1>5, Zenon DEF Reached

LEMMA ReachedOnce ==
    ASSUME NEW p, NEW n \in Nat \ {0}, NEW x, NEW y, Reached(p, n, x), Reached(p, n, y)
    PROVE  x = y
<1>1. PICK h : /\ h[1] = First(p)
               /\ \A m \in 1 .. n : m + 1 <= n => h[m + 1] = After(h[m])
               /\ h[n] = x
  BY DEF Reached
<1>2. PICK z : /\ z[1] = First(p)
               /\ \A m \in 1 .. n : m + 1 <= n => z[m + 1] = After(z[m])
               /\ z[n] = y
  BY DEF Reached
<1> DEFINE T == {m \in 1 .. n : z[m] = h[m]}
<1>3. T \in SUBSET (1 .. n) /\ (1 <= n => 1 \in T) /\ 1 \in Int /\ n \in Int /\ n \in 1 .. n
  BY <1>1, <1>2
<1>4. \A m \in 1 .. n : m + 1 <= n /\ m \in T => m + 1 \in T
  BY <1>1, <1>2
<1>5. T = 1 .. n
  <2> HIDE DEF T
  <2> QED
    BY <1>3, <1>4, FromTo
<1>6. n \in T
  <2> HIDE DEF T
  <2> QED
    BY <1>3, <1>5
<1> QED
  BY <1>1, <1>2, <1>6
-----------------------------------------------------------------------------
(* What a thread keeps to, whatever step it or another takes: with the     *)
(* channels sn seen, the cuts dt disturbed and sc the shared channel.      *)

Tidy(st, s, bs, k, sn, dt, sc) ==
    Len(bs) \notin dt =>
        /\ st = "sort" => sc = CutChannel(bs[k]) /\ sn \subseteq {CutChannel(bs[k])}
        /\ st = "split" => InOrder(s, bs[k])

Follows(p, st, s, bs, dt) ==
    dt = {} =>
        /\ st \in {"choose", "sort", "done"} => Reached(p, Len(bs), <<s, bs>>)
        /\ st = "split" => \E x : Reached(p, Len(bs), <<x, bs>>) /\ s = Ordered(x, bs)

Kept(p, g, st, s, bs, k, sn, pl, dt, sc) ==
    /\ Sound(p, g, st, s, bs, k, pl)
    /\ sn \subseteq Channels
    /\ dt \subseteq 1 .. Len(bs)
    /\ Tidy(st, s, bs, k, sn, dt, sc)
    /\ Follows(p, st, s, bs, dt)

LEMMA KeptCounted ==
    ASSUME NEW p, NEW g, NEW s, NEW bs, NEW k, NEW sn, NEW pl, NEW dt, NEW sc,
           Kept(p, g, "count", s, bs, k, sn, pl, dt, sc)
    PROVE  LET h == Histogram(p)
           IN Kept(p, Limit(g, Len(h)), "choose", h, <<Recalc(h, 0, Len(h))>>, k, sn, pl, dt, sc)
<1>1. PICK h, l, fs : h = Histogram(p) /\ l = Limit(g, Len(h)) /\ fs = <<Recalc(h, 0, Len(h))>>
  OBVIOUS
<1>2. Sound(p, l, "choose", h, fs, k, pl)
  <2>1. Sound(p, g, "count", s, bs, k, pl)
    BY DEF Kept
  <2> QED
    BY <1>1, <2>1, SoundCounted, Zenon
<1>3. sn \subseteq Channels
  BY DEF Kept
<1>4. dt = {}
  <2>1. bs = <<>> /\ dt \subseteq 1 .. Len(bs)
    BY DEF Kept, Sound
  <2> QED
    BY <2>1
<1>5. Len(fs) = 1
  BY <1>1
<1>6. Tidy("choose", h, fs, k, sn, dt, sc)
  BY DEF Tidy
<1>7. Follows(p, "choose", h, fs, dt)
  <2>1. First(p) = <<h, fs>>
    BY <1>1, Zenon DEF First
  <2>2. Reached(p, 1, <<h, fs>>)
    BY <2>1, ReachedFirst, Zenon
  <2> QED
    BY <1>5, <2>2 DEF Follows
<1>8. Kept(p, l, "choose", h, fs, k, sn, pl, dt, sc)
  BY <1>2, <1>3, <1>4, <1>6, <1>7 DEF Kept
<1> QED
  BY <1>1, <1>8, Zenon

LEMMA KeptChosen ==
    ASSUME NEW p, NEW g, NEW s, NEW bs, NEW k, NEW sn, NEW pl, NEW dt, NEW sc,
           Kept(p, g, "choose", s, bs, k, sn, pl, dt, sc), Len(bs) < g, Cuttable(bs) # {}
    PROVE  /\ CutChannel(bs[Chosen(bs)]) \in Channels
           /\ Kept(p, g, "sort", s, bs, Chosen(bs), {}, pl, dt, CutChannel(bs[Chosen(bs)]))
<1>1. Sound(p, g, "choose", s, bs, k, pl) /\ dt \subseteq 1 .. Len(bs) /\ Follows(p, "choose", s, bs, dt)
  BY DEF Kept
<1>2. Sound(p, g, "sort", s, bs, Chosen(bs), pl)
  BY <1>1, SoundChosen
<1>3. CutChannel(bs[Chosen(bs)]) \in Channels
  <2>1. bs \in Seq(Boxes) /\ Chosen(bs) \in 1 .. Len(bs)
    BY <1>2, SoundCuttable
  <2>2. bs[Chosen(bs)] \in Boxes
    BY <2>1
  <2> QED
    BY <2>2, WidestFacts
<1>4. Tidy("sort", s, bs, Chosen(bs), {}, dt, CutChannel(bs[Chosen(bs)]))
  BY DEF Tidy
<1>5. Follows(p, "sort", s, bs, dt)
  BY <1>1 DEF Follows
<1> QED
  BY <1>1, <1>2, <1>3, <1>4, <1>5 DEF Kept

LEMMA KeptRead ==
    ASSUME NEW p, NEW g, NEW s, NEW bs, NEW k, NEW sn, NEW pl, NEW dt, NEW sc \in Channels,
           Kept(p, g, "sort", s, bs, k, sn, pl, dt, sc)
    PROVE  Kept(p, g, "sort", s, bs, k, sn \cup {sc}, pl, dt, sc)
<1>1. Tidy("sort", s, bs, k, sn \cup {sc}, dt, sc)
  BY DEF Kept, Tidy
<1> QED
  BY <1>1 DEF Kept

LEMMA KeptSorted ==
    ASSUME NEW p, NEW g, NEW s, NEW bs, NEW k, NEW sn, NEW pl, NEW dt, NEW sc,
           Kept(p, g, "sort", s, bs, k, sn, pl, dt, sc), sn # {},
           NEW q \in Sorted(s, Places(bs[k]), sn)
    PROVE  Kept(p, g, "split", Reordered(s, q), bs, k, sn, pl, dt, sc)
<1>1. /\ Sound(p, g, "sort", s, bs, k, pl) /\ sn \subseteq Channels /\ dt \subseteq 1 .. Len(bs)
      /\ Tidy("sort", s, bs, k, sn, dt, sc) /\ Follows(p, "sort", s, bs, dt)
  BY DEF Kept
<1>2. Sound(p, g, "split", Reordered(s, q), bs, k, pl)
  BY <1>1, SoundSorted
<1>3. ASSUME Len(bs) \notin dt
      PROVE  InOrder(Reordered(s, q), bs[k]) /\ Reordered(s, q) = Ordered(s, bs)
  <2>1. sn = {CutChannel(bs[k])}
    BY <1>1, <1>3 DEF Tidy
  <2> QED
    BY <1>1, <2>1, OrderedFacts, Z3
<1>4. Tidy("split", Reordered(s, q), bs, k, sn, dt, sc)
  BY <1>3 DEF Tidy
<1>5. Follows(p, "split", Reordered(s, q), bs, dt)
  <2>1. ASSUME dt = {} PROVE Reached(p, Len(bs), <<s, bs>>) /\ Reordered(s, q) = Ordered(s, bs)
    BY <1>1, <1>3, <2>1 DEF Follows
  <2> QED
    BY <2>1 DEF Follows
<1> QED
  BY <1>1, <1>2, <1>4, <1>5 DEF Kept

LEMMA KeptSplit ==
    ASSUME NEW p, NEW g, NEW s, NEW bs, NEW k, NEW sn, NEW pl, NEW dt, NEW sc,
           Kept(p, g, "split", s, bs, k, sn, pl, dt, sc)
    PROVE  Kept(p, g, "choose", s, Halved(bs, k, s), k, sn, pl, dt, sc)
<1>1. /\ Sound(p, g, "split", s, bs, k, pl) /\ sn \subseteq Channels /\ dt \subseteq 1 .. Len(bs)
      /\ Follows(p, "split", s, bs, dt)
  BY DEF Kept
<1>2. PICK hs, n : hs = Halved(bs, k, s) /\ n = Len(bs)
  OBVIOUS
<1>3. Sound(p, g, "choose", s, hs, k, pl) /\ Len(hs) = n + 1
  BY <1>1, <1>2, SoundSplit
<1>4. k = Chosen(bs) /\ n \in Nat \ {0}
  <2>1. k = Chosen(bs) /\ bs # <<>> /\ bs \in Seq(Boxes)
    BY <1>1, SoundCuttable
  <2> QED
    BY <1>2, <2>1
<1>5. dt \subseteq 1 .. Len(hs)
  BY <1>1, <1>2, <1>3, <1>4
<1>6. Tidy("choose", s, hs, k, sn, dt, sc)
  BY DEF Tidy
<1>7. ASSUME dt = {} PROVE Reached(p, n + 1, <<s, hs>>)
  <2>1. PICK x : Reached(p, n, <<x, bs>>) /\ s = Ordered(x, bs)
    BY <1>1, <1>2, <1>7 DEF Follows
  <2>2. After(<<x, bs>>) = <<s, hs>>
    BY <1>2, <1>4, <2>1 DEF After
  <2> QED
    BY <1>4, <2>1, <2>2, ReachedNext
<1>8. Follows(p, "choose", s, hs, dt)
  BY <1>3, <1>7 DEF Follows
<1>9. Kept(p, g, "choose", s, hs, k, sn, pl, dt, sc)
  BY <1>1, <1>3, <1>5, <1>6, <1>8 DEF Kept
<1> QED
  BY <1>2, <1>9, Zenon

LEMMA KeptFinished ==
    ASSUME NEW p, NEW g, NEW s, NEW bs, NEW k, NEW sn, NEW pl, NEW dt, NEW sc,
           Kept(p, g, "choose", s, bs, k, sn, pl, dt, sc), ~ (Len(bs) < g /\ Cuttable(bs) # {})
    PROVE  Kept(p, g, "done", s, bs, k, sn, Means(s, bs), dt, sc)
<1>1. Sound(p, g, "choose", s, bs, k, pl)
  BY DEF Kept
<1>2. Sound(p, g, "done", s, bs, k, Means(s, bs))
  BY <1>1, SoundFinished
<1>3. Tidy("done", s, bs, k, sn, dt, sc)
  BY DEF Tidy
<1>4. Follows(p, "done", s, bs, dt)
  BY DEF Kept, Follows
<1> QED
  BY <1>2, <1>3, <1>4 DEF Kept

LEMMA KeptFailed ==
    ASSUME NEW p, NEW g, NEW st, NEW s, NEW bs, NEW k, NEW sn, NEW pl, NEW dt, NEW sc,
           Kept(p, g, st, s, bs, k, sn, pl, dt, sc), st \in {"count", "choose"}
    PROVE  Kept(p, g, "failed", s, bs, k, sn, pl, dt, sc)
<1>1. Sound(p, g, st, s, bs, k, pl)
  BY DEF Kept
<1>2. Sound(p, g, "failed", s, bs, k, pl)
  BY <1>1, SoundFailed
<1>3. Tidy("failed", s, bs, k, sn, dt, sc) /\ Follows(p, "failed", s, bs, dt)
  BY DEF Tidy, Follows
<1> QED
  BY <1>2, <1>3 DEF Kept

(* Another thread chooses channel c: that disturbs a sort, nothing else.   *)
LEMMA KeptBeside ==
    ASSUME NEW p, NEW g, NEW st, NEW s, NEW bs, NEW k, NEW sn, NEW pl, NEW dt, NEW sc, NEW c,
           Kept(p, g, st, s, bs, k, sn, pl, dt, sc)
    PROVE  Kept(p, g, st, s, bs, k, sn, pl, IF st = "sort" THEN dt \cup {Len(bs)} ELSE dt, c)
<1>1. CASE st # "sort"
  <2>1. Tidy(st, s, bs, k, sn, dt, c)
    BY <1>1 DEF Kept, Tidy
  <2> QED
    BY <1>1, <2>1 DEF Kept
<1>2. CASE st = "sort"
  <2>1. PICK et : et = dt \cup {Len(bs)}
    OBVIOUS
  <2>2. Tidy(st, s, bs, k, sn, et, c) /\ Follows(p, st, s, bs, et)
    BY <2>1 DEF Tidy, Follows
  <2>3. et \subseteq 1 .. Len(bs)
    <3>1. Sound(p, g, st, s, bs, k, pl) /\ dt \subseteq 1 .. Len(bs)
      BY DEF Kept
    <3>2. bs # <<>> /\ bs \in Seq(Boxes)
      BY <1>2, <3>1, SoundCuttable
    <3>3. Len(bs) \in 1 .. Len(bs)
      BY <3>2
    <3> QED
      BY <2>1, <3>1, <3>3
  <2> QED
    BY <1>2, <2>1, <2>2, <2>3 DEF Kept
<1> QED
  BY <1>1, <1>2
-----------------------------------------------------------------------------
(* The inductive invariant *)

ThreadOK(t) ==
    Kept(image[t], target[t], stage[t], colors[t], boxes[t], index[t], seen[t], palette[t],
         disturbed[t], sortChannel)

Domains ==
    \A f \in {image, target, stage, colors, boxes, index, seen, palette, disturbed} : DOMAIN f = Threads

Inv == sortChannel \in Channels /\ Domains /\ \A t \in Threads : ThreadOK(t)

LEMMA InvInit == Init => Inv
<1> SUFFICES ASSUME Init PROVE Inv
  OBVIOUS
<1>1. sortChannel \in Channels
  BY DEF Init, Channels
<1>2. Domains
  BY DEF Init, Domains
<1>3. ASSUME NEW t \in Threads PROVE ThreadOK(t)
  <2>1. /\ image[t] \in Pictures /\ target[t] \in Int /\ stage[t] = "count"
        /\ boxes[t] = <<>> /\ palette[t] = <<>> /\ seen[t] = {} /\ disturbed[t] = {}
    BY QuantizeAssumption DEF Init
  <2>2. Sound(image[t], target[t], stage[t], colors[t], boxes[t], index[t], palette[t])
    BY <2>1 DEF Sound
  <2>3. Tidy(stage[t], colors[t], boxes[t], index[t], seen[t], disturbed[t], sortChannel)
    BY <2>1 DEF Tidy
  <2>4. Follows(image[t], stage[t], colors[t], boxes[t], disturbed[t])
    BY <2>1 DEF Follows
  <2> QED
    BY <2>1, <2>2, <2>3, <2>4 DEF ThreadOK, Kept
<1> QED
  BY <1>1, <1>2, <1>3 DEF Inv

(* A step that changes only what is thread t's own.                        *)
LEMMA StepKeeps ==
    ASSUME Inv, NEW t \in Threads, ThreadOK(t)', sortChannel' = sortChannel, Domains',
           \A u \in Threads : u # t =>
               /\ image'[u] = image[u] /\ target'[u] = target[u] /\ stage'[u] = stage[u]
               /\ colors'[u] = colors[u] /\ boxes'[u] = boxes[u] /\ index'[u] = index[u]
               /\ seen'[u] = seen[u] /\ palette'[u] = palette[u] /\ disturbed'[u] = disturbed[u]
    PROVE  Inv'
<1>1. ASSUME NEW u \in Threads PROVE ThreadOK(u)'
  <2>1. CASE u = t
    BY <2>1
  <2>2. CASE u # t
    <3>1. ThreadOK(u)
      BY DEF Inv
    <3> QED
      BY <2>2, <3>1 DEF ThreadOK
  <2> QED
    BY <2>1, <2>2
<1>2. sortChannel' \in Channels
  BY DEF Inv
<1> QED
  BY <1>1, <1>2 DEF Inv

LEMMA InvCount == ASSUME Inv, NEW t \in Threads, Count(t) PROVE Inv'
<1> USE DEF Count, Goto
<1>1. Domains'
  BY DEF Inv, Domains
<1>2. Domains /\ ThreadOK(t)
  BY DEF Inv
<1>3. PICK h : h = Histogram(image[t])
  OBVIOUS
<1>4. /\ image'[t] = image[t] /\ target'[t] = Limit(target[t], Len(h)) /\ stage'[t] = "choose"
      /\ colors'[t] = h /\ boxes'[t] = <<Recalc(h, 0, Len(h))>> /\ index'[t] = index[t]
      /\ seen'[t] = seen[t] /\ palette'[t] = palette[t] /\ disturbed'[t] = disturbed[t]
      /\ sortChannel' = sortChannel
  BY <1>2, <1>3 DEF Domains
<1>5. Kept(image[t], target[t], "count", colors[t], boxes[t], index[t], seen[t], palette[t],
           disturbed[t], sortChannel)
  BY <1>2 DEF ThreadOK
<1>6. Kept(image[t], Limit(target[t], Len(h)), "choose", h, <<Recalc(h, 0, Len(h))>>, index[t],
           seen[t], palette[t], disturbed[t], sortChannel)
  BY <1>3, <1>5, KeptCounted, Zenon
<1>7. ThreadOK(t)'
  BY <1>4, <1>6, Zenon DEF ThreadOK
<1> QED
  BY <1>1, <1>2, <1>4, <1>7, StepKeeps DEF Domains

LEMMA InvReadChannel == ASSUME Inv, NEW t \in Threads, ReadChannel(t) PROVE Inv'
<1> USE DEF ReadChannel
<1>1. Domains'
  BY DEF Inv, Domains
<1>2. Domains /\ ThreadOK(t) /\ sortChannel \in Channels
  BY DEF Inv
<1>4. /\ image'[t] = image[t] /\ target'[t] = target[t] /\ stage'[t] = "sort"
      /\ colors'[t] = colors[t] /\ boxes'[t] = boxes[t] /\ index'[t] = index[t]
      /\ seen'[t] = seen[t] \cup {sortChannel} /\ palette'[t] = palette[t]
      /\ disturbed'[t] = disturbed[t] /\ sortChannel' = sortChannel
  BY <1>2 DEF Domains
<1>5. Kept(image[t], target[t], "sort", colors[t], boxes[t], index[t], seen[t], palette[t],
           disturbed[t], sortChannel)
  BY <1>2 DEF ThreadOK
<1>6. Kept(image[t], target[t], "sort", colors[t], boxes[t], index[t], seen[t] \cup {sortChannel},
           palette[t], disturbed[t], sortChannel)
  BY <1>2, <1>5, KeptRead
<1>7. ThreadOK(t)'
  BY <1>4, <1>6, Zenon DEF ThreadOK
<1> QED
  BY <1>1, <1>2, <1>4, <1>7, StepKeeps DEF Domains

LEMMA InvSort == ASSUME Inv, NEW t \in Threads, Sort(t) PROVE Inv'
<1> USE DEF Sort, Goto
<1>1. Domains'
  BY DEF Inv, Domains
<1>2. Domains /\ ThreadOK(t)
  BY DEF Inv
<1>3. PICK q \in Sorted(colors[t], Places(boxes[t][index[t]]), seen[t]) :
          colors' = [colors EXCEPT ![t] = Reordered(@, q)]
  OBVIOUS
<1>4. /\ image'[t] = image[t] /\ target'[t] = target[t] /\ stage'[t] = "split"
      /\ colors'[t] = Reordered(colors[t], q) /\ boxes'[t] = boxes[t] /\ index'[t] = index[t]
      /\ seen'[t] = seen[t] /\ palette'[t] = palette[t] /\ disturbed'[t] = disturbed[t]
      /\ sortChannel' = sortChannel
  BY <1>2, <1>3 DEF Domains
<1>5. Kept(image[t], target[t], "sort", colors[t], boxes[t], index[t], seen[t], palette[t],
           disturbed[t], sortChannel)
  BY <1>2 DEF ThreadOK
<1>6. Kept(image[t], target[t], "split", Reordered(colors[t], q), boxes[t], index[t], seen[t],
           palette[t], disturbed[t], sortChannel)
  BY <1>5, KeptSorted
<1>7. ThreadOK(t)'
  BY <1>4, <1>6, Zenon DEF ThreadOK
<1> QED
  BY <1>1, <1>2, <1>3, <1>4, <1>7, StepKeeps DEF Domains

LEMMA InvSplit == ASSUME Inv, NEW t \in Threads, Split(t) PROVE Inv'
<1> USE DEF Split, Goto
<1>1. Domains'
  BY DEF Inv, Domains
<1>2. Domains /\ ThreadOK(t)
  BY DEF Inv
<1>4. /\ image'[t] = image[t] /\ target'[t] = target[t] /\ stage'[t] = "choose"
      /\ colors'[t] = colors[t] /\ boxes'[t] = Halved(boxes[t], index[t], colors[t])
      /\ index'[t] = index[t] /\ seen'[t] = seen[t] /\ palette'[t] = palette[t]
      /\ disturbed'[t] = disturbed[t] /\ sortChannel' = sortChannel
  BY <1>2 DEF Domains
<1>5. Kept(image[t], target[t], "split", colors[t], boxes[t], index[t], seen[t], palette[t],
           disturbed[t], sortChannel)
  BY <1>2 DEF ThreadOK
<1>6. Kept(image[t], target[t], "choose", colors[t], Halved(boxes[t], index[t], colors[t]), index[t],
           seen[t], palette[t], disturbed[t], sortChannel)
  BY <1>5, KeptSplit
<1>7. ThreadOK(t)'
  BY <1>4, <1>6, Zenon DEF ThreadOK
<1> QED
  BY <1>1, <1>2, <1>4, <1>7, StepKeeps DEF Domains

LEMMA InvFinish == ASSUME Inv, NEW t \in Threads, Finish(t) PROVE Inv'
<1> USE DEF Finish, Goto
<1>1. Domains'
  BY DEF Inv, Domains
<1>2. Domains /\ ThreadOK(t)
  BY DEF Inv
<1>4. /\ image'[t] = image[t] /\ target'[t] = target[t] /\ stage'[t] = "done"
      /\ colors'[t] = colors[t] /\ boxes'[t] = boxes[t] /\ index'[t] = index[t]
      /\ seen'[t] = seen[t] /\ palette'[t] = Means(colors[t], boxes[t])
      /\ disturbed'[t] = disturbed[t] /\ sortChannel' = sortChannel
  BY <1>2 DEF Domains
<1>5. Kept(image[t], target[t], "choose", colors[t], boxes[t], index[t], seen[t], palette[t],
           disturbed[t], sortChannel)
  BY <1>2 DEF ThreadOK
<1>6. Kept(image[t], target[t], "done", colors[t], boxes[t], index[t], seen[t],
           Means(colors[t], boxes[t]), disturbed[t], sortChannel)
  <2>1. ~ (Len(boxes[t]) < target[t] /\ Cuttable(boxes[t]) # {})
    BY DEF More
  <2> QED
    BY <1>5, <2>1, KeptFinished
<1>7. ThreadOK(t)'
  BY <1>4, <1>6, Zenon DEF ThreadOK
<1> QED
  BY <1>1, <1>2, <1>4, <1>7, StepKeeps DEF Domains

LEMMA InvFail == ASSUME Inv, NEW t \in Threads, Fail(t) PROVE Inv'
<1> USE DEF Fail, Goto
<1>1. Domains'
  BY DEF Inv, Domains
<1>2. Domains /\ ThreadOK(t)
  BY DEF Inv
<1>4. /\ image'[t] = image[t] /\ target'[t] = target[t] /\ stage'[t] = "failed"
      /\ colors'[t] = colors[t] /\ boxes'[t] = boxes[t] /\ index'[t] = index[t]
      /\ seen'[t] = seen[t] /\ palette'[t] = palette[t]
      /\ disturbed'[t] = disturbed[t] /\ sortChannel' = sortChannel
  BY <1>2 DEF Domains
<1>5. Kept(image[t], target[t], stage[t], colors[t], boxes[t], index[t], seen[t], palette[t],
           disturbed[t], sortChannel)
  BY <1>2 DEF ThreadOK
<1>6. Kept(image[t], target[t], "failed", colors[t], boxes[t], index[t], seen[t], palette[t],
           disturbed[t], sortChannel)
  <2>1. stage[t] \in {"count", "choose"}
    OBVIOUS
  <2> QED
    BY <1>5, <2>1, KeptFailed
<1>7. ThreadOK(t)'
  BY <1>4, <1>6, Zenon DEF ThreadOK
<1> QED
  BY <1>1, <1>2, <1>4, <1>7, StepKeeps DEF Domains

(* The one step that tells on the others: it sets their channel, too.      *)
LEMMA InvChoose == ASSUME Inv, NEW t \in Threads, Choose(t) PROVE Inv'
<1> USE DEF Choose, Goto
<1>1. Domains'
  BY DEF Inv, Domains
<1>2. Domains /\ \A u \in Threads : ThreadOK(u)
  BY DEF Inv
<1>3. PICK c : c = CutChannel(boxes[t][Chosen(boxes[t])])
  OBVIOUS
<1>4. /\ image'[t] = image[t] /\ target'[t] = target[t] /\ stage'[t] = "sort"
      /\ colors'[t] = colors[t] /\ boxes'[t] = boxes[t] /\ index'[t] = Chosen(boxes[t])
      /\ seen'[t] = {} /\ palette'[t] = palette[t] /\ disturbed'[t] = disturbed[t]
      /\ sortChannel' = c
  BY <1>2, <1>3 DEF Domains
<1>5. c \in Channels /\ ThreadOK(t)'
  <2>1. Kept(image[t], target[t], "choose", colors[t], boxes[t], index[t], seen[t], palette[t],
             disturbed[t], sortChannel)
    BY <1>2 DEF ThreadOK
  <2>2. Len(boxes[t]) < target[t] /\ Cuttable(boxes[t]) # {}
    BY DEF More
  <2>3. /\ c \in Channels
        /\ Kept(image[t], target[t], "sort", colors[t], boxes[t], Chosen(boxes[t]), {}, palette[t],
                disturbed[t], c)
    BY <1>3, <2>1, <2>2, KeptChosen
  <2> QED
    BY <1>4, <2>3, Zenon DEF ThreadOK
<1>6. ASSUME NEW u \in Threads, u # t PROVE ThreadOK(u)'
  <2>1. PICK et : et = IF stage[u] = "sort" THEN disturbed[u] \cup {Len(boxes[u])} ELSE disturbed[u]
    OBVIOUS
  <2>2. /\ image'[u] = image[u] /\ target'[u] = target[u] /\ stage'[u] = stage[u]
        /\ colors'[u] = colors[u] /\ boxes'[u] = boxes[u] /\ index'[u] = index[u]
        /\ seen'[u] = seen[u] /\ palette'[u] = palette[u] /\ disturbed'[u] = et
    BY <1>2, <1>6, <2>1 DEF Domains
  <2>3. Kept(image[u], target[u], stage[u], colors[u], boxes[u], index[u], seen[u], palette[u],
             disturbed[u], sortChannel)
    BY <1>2 DEF ThreadOK
  <2>4. Kept(image[u], target[u], stage[u], colors[u], boxes[u], index[u], seen[u], palette[u], et, c)
    BY <2>1, <2>3, KeptBeside
  <2> QED
    BY <1>4, <2>2, <2>4, Zenon DEF ThreadOK
<1>7. sortChannel' \in Channels
  BY <1>4, <1>5
<1> QED
  BY <1>1, <1>5, <1>6, <1>7 DEF Inv

LEMMA InvStays == ASSUME Inv, UNCHANGED vars PROVE Inv'
BY DEF Inv, Domains, ThreadOK, vars

LEMMA Invariance == Spec => []Inv
<1>1. Inv /\ [Next]_vars => Inv'
  <2> SUFFICES ASSUME Inv, [Next]_vars PROVE Inv'
    OBVIOUS
  <2>1. CASE UNCHANGED vars
    BY <2>1, InvStays
  <2>2. CASE Ended
    BY <2>2, InvStays DEF Ended
  <2>3. ASSUME NEW t \in Threads, ThreadStep(t) PROVE Inv'
    <3>1. CASE Count(t)
      BY <3>1, InvCount
    <3>2. CASE Choose(t)
      BY <3>2, InvChoose
    <3>3. CASE ReadChannel(t)
      BY <3>3, InvReadChannel
    <3>4. CASE Sort(t)
      BY <3>4, InvSort
    <3>5. CASE Split(t)
      BY <3>5, InvSplit
    <3>6. CASE Finish(t)
      BY <3>6, InvFinish
    <3>7. CASE Fail(t)
      BY <3>7, InvFail
    <3> QED
      BY <2>3, <3>1, <3>2, <3>3, <3>4, <3>5, <3>6, <3>7 DEF ThreadStep
  <2> QED
    BY <2>1, <2>2, <2>3 DEF Next
<1> QED
  BY <1>1, InvInit, PTL DEF Spec
-----------------------------------------------------------------------------
(* What the invariant says *)

LEMMA SoundAt ==
    ASSUME Inv, NEW t \in Threads
    PROVE  /\ Sound(image[t], target[t], stage[t], colors[t], boxes[t], index[t], palette[t])
           /\ seen[t] \subseteq Channels
           /\ disturbed[t] \subseteq 1 .. Len(boxes[t])
           /\ Tidy(stage[t], colors[t], boxes[t], index[t], seen[t], disturbed[t], sortChannel)
           /\ Follows(image[t], stage[t], colors[t], boxes[t], disturbed[t])
BY DEF Inv, ThreadOK, Kept

LEMMA InvCutFollowsChannel == Inv => CutFollowsChannel
<1> SUFFICES ASSUME Inv, NEW t \in Threads, stage[t] = "split", Len(boxes[t]) \notin disturbed[t]
             PROVE  LET box == boxes[t][index[t]]
                        c   == CutChannel(box)
                    IN \A i, j \in Places(box) :
                           i < j => colors[t][i].value[c] <= colors[t][j].value[c]
  BY DEF CutFollowsChannel
<1>1. InOrder(colors[t], boxes[t][index[t]])
  BY SoundAt DEF Tidy
<1> QED
  BY <1>1, Zenon DEF InOrder

(* A box is cut with its colours in the order of its widest channel,       *)
(* unless another thread set the comparator's channel, a plain global,     *)
(* while it was being sorted (compress_png.c:296, 545-554).                *)
THEOREM CutsFollowTheirChannel == Spec => []CutFollowsChannel
BY Invariance, InvCutFollowsChannel, PTL

LEMMA InvUndisturbedAgree == Inv => UndisturbedAgree
<1> SUFFICES ASSUME Inv, NEW t \in Threads, NEW u \in Threads,
                    stage[t] = "done", stage[u] = "done",
                    image[t] = image[u], target[t] = target[u],
                    disturbed[t] = {}, disturbed[u] = {}
             PROVE  palette[t] = palette[u]
  BY DEF UndisturbedAgree
<1>1. PICK n : n = target[t]
  OBVIOUS
<1>2. /\ Sound(image[t], target[t], stage[t], colors[t], boxes[t], index[t], palette[t])
      /\ Sound(image[u], target[u], stage[u], colors[u], boxes[u], index[u], palette[u])
  BY SoundAt
<1>3. /\ Len(boxes[t]) = n /\ palette[t] = Means(colors[t], boxes[t]) /\ boxes[t] # <<>>
      /\ Len(boxes[u]) = n /\ palette[u] = Means(colors[u], boxes[u])
  BY <1>1, <1>2 DEF Sound
<1>4. n \in Nat \ {0}
  <2>1. boxes[t] \in Seq(Boxes)
    BY <1>2, <1>3 DEF Sound, Cut
  <2> QED
    BY <1>3, <2>1
<1>5. Reached(image[t], n, <<colors[t], boxes[t]>>) /\ Reached(image[t], n, <<colors[u], boxes[u]>>)
  <2>1. Follows(image[t], "done", colors[t], boxes[t], {}) /\ Follows(image[t], "done", colors[u], boxes[u], {})
    BY SoundAt
  <2> QED
    BY <1>3, <2>1 DEF Follows
<1>6. <<colors[t], boxes[t]>> = <<colors[u], boxes[u]>>
  BY <1>4, <1>5, ReachedOnce
<1>7. colors[t] = colors[u] /\ boxes[t] = boxes[u]
  BY <1>6
<1> QED
  BY <1>3, <1>7

(* Threads that quantize the same image to as many colours make the same   *)
(* palette unless one was disturbed: but for the channel, nothing in the   *)
(* quantizer depends on the other threads, nor on how often or when the    *)
(* comparator runs (compress_png.c:482-577).                               *)
THEOREM UndisturbedPalettesAgree == Spec => []UndisturbedAgree
BY Invariance, InvUndisturbedAgree, PTL

LEMMA MeansLength == ASSUME NEW s, NEW bs \in Seq(Boxes) PROVE Len(Means(s, bs)) = Len(bs)
<1>1. PICK S : S = {Mean(s, bs[i].start + 1, bs[i].end) : i \in 1 .. Len(bs)}
  OBVIOUS
<1>2. Len(bs) \in Nat /\ DOMAIN bs = 1 .. Len(bs)
  OBVIOUS
<1>3. Means(s, bs) = [i \in 1 .. Len(bs) |-> Mean(s, bs[i].start + 1, bs[i].end)]
  BY <1>2, Zenon DEF Means
<1>4. Means(s, bs) \in [1 .. Len(bs) -> S]
  BY <1>1, <1>3, Zenon
<1> QED
  BY <1>2, <1>4, IsSequence

LEMMA InvTypeOK == Inv => TypeOK
<1> SUFFICES ASSUME Inv, NEW t \in Threads
             PROVE  /\ image[t] \in Pictures
                    /\ stage[t] \in {"count", "choose", "sort", "split", "done", "failed"}
                    /\ boxes[t] # <<>> => Len(boxes[t]) <= target[t] /\ target[t] <= 256
                    /\ Len(palette[t]) \in {0, Len(boxes[t])}
                    /\ stage[t] \in {"sort", "split"} => index[t] \in Cuttable(boxes[t])
                    /\ seen[t] \subseteq Channels
                    /\ disturbed[t] \subseteq DOMAIN boxes[t]
  BY DEF TypeOK, Inv
<1>1. PICK p, g, st, s, bs, k, pl :
          /\ p = image[t] /\ g = target[t] /\ st = stage[t] /\ s = colors[t] /\ bs = boxes[t]
          /\ k = index[t] /\ pl = palette[t]
  OBVIOUS
<1>2. /\ Sound(p, g, st, s, bs, k, pl)
      /\ seen[t] \subseteq Channels /\ disturbed[t] \subseteq 1 .. Len(bs)
  BY <1>1, SoundAt
<1>3. /\ p \in Pictures /\ st \in {"count", "choose", "sort", "split", "done", "failed"}
      /\ bs # <<>> => Len(bs) <= g /\ g <= 256
  BY <1>2 DEF Sound
<1>4. bs \in Seq(Boxes)
  <2>1. CASE bs = <<>>
    BY <2>1
  <2>2. CASE bs # <<>>
    BY <1>2, <2>2 DEF Sound, Cut
  <2> QED
    BY <2>1, <2>2
<1>5. Len(pl) \in {0, Len(bs)}
  <2>1. CASE st = "done"
    BY <1>2, <1>4, <2>1, MeansLength DEF Sound
  <2>2. CASE st # "done"
    BY <1>2, <2>2 DEF Sound
  <2> QED
    BY <2>1, <2>2
<1>6. st \in {"sort", "split"} => k \in Cuttable(bs)
  BY <1>2, SoundCuttable
<1>7. disturbed[t] \subseteq DOMAIN bs
  BY <1>2, <1>4
<1> QED
  BY <1>1, <1>2, <1>3, <1>5, <1>6, <1>7

LEMMA CutIsPartition ==
    ASSUME NEW s \in Seq(Colours), NEW bs, Cut(s, bs)
    PROVE  /\ \A i \in DOMAIN s :
                  \E k \in DOMAIN bs : {j \in DOMAIN bs : i \in Places(bs[j])} = {k}
           /\ \A k \in DOMAIN bs : Places(bs[k]) # {} /\ bs[k] = Recalc(s, bs[k].start, bs[k].end)
<1>1. DOMAIN s = 1 .. Len(s) /\ DOMAIN bs = 1 .. Len(bs)
  BY DEF Cut
<1>2. ASSUME NEW i \in 1 .. Len(s)
      PROVE  \E k \in 1 .. Len(bs) : {j \in 1 .. Len(bs) : i \in Places(bs[j])} = {k}
  <2>1. PICK k \in 1 .. Len(bs) : i \in Places(bs[k])
    BY DEF Cut
  <2>2. \A j \in 1 .. Len(bs) : i \in Places(bs[j]) => j = k
    BY <2>1 DEF Cut
  <2> QED
    BY <2>1, <2>2
<1>3. ASSUME NEW k \in 1 .. Len(bs)
      PROVE  Places(bs[k]) # {} /\ bs[k] = Recalc(s, bs[k].start, bs[k].end)
  <2>1. PICK a, b : a = bs[k].start /\ b = bs[k].end
    OBVIOUS
  <2>2. /\ a \in Nat /\ b \in Nat /\ a < b /\ Places(bs[k]) = (a + 1) .. b
        /\ bs[k] = Recalc(s, bs[k].start, bs[k].end)
    BY <2>1, CutFacts
  <2>3. b \in (a + 1) .. b
    BY <2>2
  <2> QED
    BY <2>2, <2>3
<1> QED
  BY <1>1, <1>2, <1>3

LEMMA TellsOnce ==
    ASSUME NEW p \in Pictures, NEW s, Tells(p, s)
    PROVE  \A px \in Range(p) :
               Cardinality({i \in DOMAIN s : Bucket(s[i].value) = Bucket(px)}) = 1
<1> SUFFICES ASSUME NEW px \in Range(p)
             PROVE  Cardinality({i \in DOMAIN s : Bucket(s[i].value) = Bucket(px)}) = 1
  OBVIOUS
<1>1. DOMAIN p = 1 .. Len(p)
  BY PictureFacts
<1>2. PICK i \in 1 .. Len(p) : px = p[i]
  BY <1>1 DEF Range
<1>3. PICK k \in 1 .. Len(s) : \A j \in 1 .. Len(s) : Bucket(s[j].value) = Bucket(p[i]) <=> j = k
  BY DEF Tells
<1>4. DOMAIN s = 1 .. Len(s)
  BY DEF Tells
<1>5. {j \in DOMAIN s : Bucket(s[j].value) = Bucket(px)} = {k}
  BY <1>2, <1>3, <1>4
<1> QED
  BY <1>5, FS_Singleton

LEMMA InvBoxesSound == Inv => BoxesSound
<1> SUFFICES ASSUME Inv, NEW t \in Threads, boxes[t] # <<>>
             PROVE  /\ \A i \in DOMAIN colors[t] :
                           \E k \in DOMAIN boxes[t] :
                               {j \in DOMAIN boxes[t] : i \in Places(boxes[t][j])} = {k}
                    /\ \A k \in DOMAIN boxes[t] :
                           /\ Places(boxes[t][k]) # {}
                           /\ boxes[t][k] = Recalc(colors[t], boxes[t][k].start, boxes[t][k].end)
                    /\ \A px \in Range(image[t]) :
                           Cardinality({i \in DOMAIN colors[t] :
                                           Bucket(colors[t][i].value) = Bucket(px)}) = 1
                    /\ Weight(colors[t], 1, Len(colors[t])) = Len(image[t])
                    /\ stage[t] = "done" => Len(palette[t]) = target[t]
  BY InvTypeOK, Zenon DEF BoxesSound
<1>1. PICK p, g, st, s, bs, k, pl :
          /\ p = image[t] /\ g = target[t] /\ st = stage[t] /\ s = colors[t] /\ bs = boxes[t]
          /\ k = index[t] /\ pl = palette[t]
  OBVIOUS
<1>2. Sound(p, g, st, s, bs, k, pl)
  BY <1>1, SoundAt
<1>3. /\ p \in Pictures /\ Tells(p, s) /\ Cut(s, bs)
      /\ st = "done" => Len(bs) = g /\ pl = Means(s, bs)
  BY <1>1, <1>2 DEF Sound
<1>4. s \in Seq(Colours) /\ bs \in Seq(Boxes) /\ Weight(s, 1, Len(s)) = Len(p)
  BY <1>3 DEF Tells, Cut
<1>5. st = "done" => Len(pl) = g
  BY <1>3, <1>4, MeansLength
<1>6. /\ \A i \in DOMAIN s :
             \E j \in DOMAIN bs : {l \in DOMAIN bs : i \in Places(bs[l])} = {j}
      /\ \A j \in DOMAIN bs : Places(bs[j]) # {} /\ bs[j] = Recalc(s, bs[j].start, bs[j].end)
  BY <1>3, <1>4, CutIsPartition, Zenon
<1>7. \A px \in Range(p) : Cardinality({i \in DOMAIN s : Bucket(s[i].value) = Bucket(px)}) = 1
  BY <1>3, TellsOnce, Zenon
<1>8. /\ \A i \in DOMAIN colors[t] :
             \E j \in DOMAIN boxes[t] :
                 {l \in DOMAIN boxes[t] : i \in Places(boxes[t][l])} = {j}
      /\ \A j \in DOMAIN boxes[t] :
             /\ Places(boxes[t][j]) # {}
             /\ boxes[t][j] = Recalc(colors[t], boxes[t][j].start, boxes[t][j].end)
  BY <1>1, <1>6
<1>9. \A px \in Range(image[t]) :
          Cardinality({i \in DOMAIN colors[t] : Bucket(colors[t][i].value) = Bucket(px)}) = 1
  BY <1>1, <1>7
<1>10. /\ Weight(colors[t], 1, Len(colors[t])) = Len(image[t])
       /\ stage[t] = "done" => Len(palette[t]) = target[t]
  BY <1>1, <1>4, <1>5
<1> QED
  BY <1>8, <1>9, <1>10

(* Whatever channels a disturbed sort has seen, the boxes share the        *)
(* colours out, none is empty, their statistics are true, every pixel has  *)
(* one colour for its bucket, and the palette is as long as it shall be,   *)
(* in the arrays on the stack (compress_png.c:508-600).                    *)
THEOREM BoxesStaySound == Spec => []BoxesSound
BY Invariance, InvBoxesSound, PTL
=============================================================================
