--------------------------- MODULE ExpertUsageProofs ---------------------------
(***************************************************************************)
(* The theorems about Expert requests.  Of the quota: the table is an      *)
(* account of the day, no user gets more than a day's quota, until a       *)
(* request straddles midnight; and at any time nobody is refused without a *)
(* reason.  Of the bodies: an answered request compressed each of its      *)
(* files with the options meant for it.                                    *)
(***************************************************************************)
EXTENDS ExpertUsage, FiniteSetTheorems, WellFoundedInduction, TLAPS
-----------------------------------------------------------------------------
(* Induction, as the choice of a least counterexample. *)

LEMMA Least ==
    ASSUME NEW T \in SUBSET Nat, T # {}
    PROVE  \E m \in T : \A n \in T : m <= n
<1>1. IsWellFoundedOn(OpToRel(<, Nat), Nat)
  BY NatLessThanWellFounded
<1>2. PICK m \in T : \A n \in T : ~ (<<n, m>> \in OpToRel(<, Nat))
  BY <1>1, WFMin
<1>3. \A k, n \in Nat : <<n, k>> \in OpToRel(<, Nat) <=> n < k
  BY DEF OpToRel
<1>4. \A n \in T : ~ (n < m)
  BY <1>2, <1>3
<1> QED
  BY <1>4

(* What holds of 0, and of n + 1 when it holds of n, holds up to N. *)
LEMMA UpTo ==
    ASSUME NEW N \in Nat, NEW T \in SUBSET (0 .. N), 0 \in T,
           \A n \in 0 .. N : n + 1 <= N /\ n \in T => n + 1 \in T
    PROVE  T = 0 .. N
<1>1. ASSUME NEW k \in 0 .. N, k \notin T PROVE FALSE
  <2> DEFINE Bad == {n \in 0 .. N : n \notin T}
  <2>1. Bad \in SUBSET Nat /\ Bad # {}
    BY <1>1
  <2>2. PICK m \in Bad : \A n \in Bad : m <= n
    <3> HIDE DEF Bad
    <3> QED
      BY <2>1, Least
  <2>3. m # 0 /\ m - 1 \in 0 .. N /\ m - 1 \in T
    BY <2>2
  <2> QED
    BY <2>2, <2>3
<1> QED
  BY <1>1
-----------------------------------------------------------------------------
(* Sums over finite sets. *)

Some(s) == CHOOSE x \in s : TRUE

IsSum(w, S, g) ==
    g = [s \in SUBSET S |-> IF s = {} THEN 0 ELSE w[Some(s)] + g[s \ {Some(s)}]]

LEMMA SumUnfolds ==
    ASSUME NEW w, NEW S, NEW f, IsSum(w, S, f)
    PROVE  \E g : IsSum(w, S, g) /\ SumFunctionOnSet(w, S) = g[S]
<1> DEFINE g == CHOOSE h : IsSum(w, S, h)
<1>1. IsSum(w, S, g)
  OBVIOUS
<1>2. SumFunctionOnSet(w, S) = g[S]
  BY DEF SumFunctionOnSet, FoldFunctionOnSet, MapThenFoldSet, IsSum, Some
<1> QED
  BY <1>1, <1>2

LEMMA SomeFacts ==
    ASSUME NEW S, IsFiniteSet(S), S # {}
    PROVE  /\ Some(S) \in S
           /\ IsFiniteSet(S \ {Some(S)}) /\ Cardinality(S) \in Nat
           /\ Cardinality(S \ {Some(S)}) = Cardinality(S) - 1
BY FS_RemoveElement, FS_CardinalityType DEF Some

(* Sets of as many as n of the elements. *)
Small(S, n) == {s \in SUBSET S : Cardinality(s) <= n}

LEMMA SmallFacts ==
    ASSUME NEW S, IsFiniteSet(S), NEW n \in Nat
    PROVE  /\ \A s \in SUBSET S : IsFiniteSet(s) /\ Cardinality(s) \in Nat
           /\ Small(S, Cardinality(S)) = SUBSET S
           /\ Small(S, 0) = {{}}
           /\ \A s \in Small(S, n) : s \in Small(S, n + 1)
           /\ \A s \in Small(S, n + 1) : s # {} =>
                Some(s) \in s /\ s \ {Some(s)} \in Small(S, n)
<1>1. \A s \in SUBSET S : /\ IsFiniteSet(s) /\ Cardinality(s) \in Nat
                          /\ Cardinality(s) <= Cardinality(S)
  BY FS_Subset, FS_CardinalityType
<1>2. Small(S, 0) = {{}}
  <2>1. \A s \in SUBSET S : Cardinality(s) <= 0 <=> s = {}
    BY <1>1, FS_EmptySet
  <2> QED
    BY <2>1 DEF Small
<1>3. ASSUME NEW s \in Small(S, n + 1), s # {}
      PROVE  Some(s) \in s /\ s \ {Some(s)} \in Small(S, n)
  <2>1. s \in SUBSET S /\ IsFiniteSet(s) /\ Cardinality(s) <= n + 1
    BY <1>1 DEF Small
  <2>2. Some(s) \in s /\ Cardinality(s) \in Nat /\ Cardinality(s \ {Some(s)}) = Cardinality(s) - 1
    BY <1>3, <2>1, SomeFacts
  <2> QED
    BY <2>1, <2>2 DEF Small
<1> QED
  BY <1>1, <1>2, <1>3 DEF Small

LEMMA SumExists ==
    ASSUME NEW S, IsFiniteSet(S), NEW w
    PROVE  \E g : IsSum(w, S, g)
<1> DEFINE Law(D, f) == \A s \in D : f[s] = IF s = {} THEN 0 ELSE w[Some(s)] + f[s \ {Some(s)}]
           T == {n \in 0 .. Cardinality(S) : \E f : Law(Small(S, n), f)}
<1>1. Cardinality(S) \in Nat
  BY FS_CardinalityType
<1>2. 0 \in T
  <2> DEFINE f == [s \in {{}} |-> 0]
  <2>1. Law({{}}, f)
    OBVIOUS
  <2>2. Small(S, 0) = {{}}
    BY SmallFacts
  <2>3. 0 \in 0 .. Cardinality(S)
    BY <1>1
  <2> HIDE DEF f, Law
  <2>4. Law(Small(S, 0), f)
    BY <2>1, <2>2
  <2> QED
    BY <2>3, <2>4
<1>3. ASSUME NEW n \in 0 .. Cardinality(S), n + 1 <= Cardinality(S), n \in T
      PROVE  n + 1 \in T
  <2>1. n \in Nat /\ n + 1 \in 0 .. Cardinality(S)
    BY <1>1, <1>3
  <2>2. PICK f : Law(Small(S, n), f)
    BY <1>3
  <2>3. PICK D, E : D = Small(S, n) /\ E = Small(S, n + 1)
    OBVIOUS
  <2>4. /\ \A s \in D : s \in E
        /\ \A s \in E : s # {} => s \ {Some(s)} \in D
        /\ {} \in D
    <3>1. \A s \in D : s \in E
      BY <2>1, <2>3, SmallFacts
    <3>2. \A s \in E : s # {} => s \ {Some(s)} \in D
      BY <2>1, <2>3, SmallFacts
    <3>3. {} \in D
      BY <2>1, <2>3, FS_EmptySet DEF Small
    <3> QED
      BY <3>1, <3>2, <3>3
  <2> DEFINE g == [s \in E |-> IF s \in D THEN f[s] ELSE w[Some(s)] + f[s \ {Some(s)}]]
  <2>5. \A s \in D : g[s] = f[s]
    BY <2>4
  <2>6. \A s \in E : s \notin D => g[s] = w[Some(s)] + f[s \ {Some(s)}]
    OBVIOUS
  <2>7. \A s \in D : f[s] = IF s = {} THEN 0 ELSE w[Some(s)] + f[s \ {Some(s)}]
    BY <2>2, <2>3
  <2> HIDE DEF g
  <2>8. ASSUME NEW s \in E PROVE g[s] = IF s = {} THEN 0 ELSE w[Some(s)] + g[s \ {Some(s)}]
    <3>1. CASE s = {}
      BY <2>4, <2>5, <2>7, <3>1
    <3>2. CASE s # {}
      <4>1. PICK t : t = s \ {Some(s)}
        OBVIOUS
      <4>2. t \in D /\ g[t] = f[t]
        BY <2>4, <2>5, <3>2, <4>1
      <4>3. g[s] = w[Some(s)] + f[t]
        BY <2>5, <2>6, <2>7, <3>2, <4>1
      <4> QED
        BY <3>2, <4>1, <4>2, <4>3
    <3> QED
      BY <3>1, <3>2
  <2>9. Law(Small(S, n + 1), g)
    BY <2>3, <2>8
  <2> HIDE DEF Law
  <2> QED
    BY <2>1, <2>9
<1>4. T = 0 .. Cardinality(S)
  <2>1. T \in SUBSET (0 .. Cardinality(S))
    OBVIOUS
  <2> HIDE DEF T
  <2> QED
    BY <1>1, <1>2, <1>3, <2>1, UpTo
<1>5. PICK f : Law(Small(S, Cardinality(S)), f)
  <2>1. Cardinality(S) \in 0 .. Cardinality(S)
    BY <1>1
  <2>2. Cardinality(S) \in T
    <3> HIDE DEF T
    <3> QED
      BY <1>4, <2>1
  <2> HIDE DEF Law
  <2> QED
    BY <2>2
<1>6. Small(S, Cardinality(S)) = SUBSET S
  BY <1>1, SmallFacts
<1> DEFINE g == [s \in SUBSET S |-> f[s]]
<1>7. \A s \in SUBSET S : f[s] = IF s = {} THEN 0 ELSE w[Some(s)] + f[s \ {Some(s)}]
  BY <1>5, <1>6
<1>8. \A s \in SUBSET S : g[s] = f[s] /\ g[s \ {Some(s)}] = f[s \ {Some(s)}]
  OBVIOUS
<1>9. g = [s \in SUBSET S |-> IF s = {} THEN 0 ELSE w[Some(s)] + g[s \ {Some(s)}]]
  <2> DEFINE h == [s \in SUBSET S |-> IF s = {} THEN 0 ELSE w[Some(s)] + g[s \ {Some(s)}]]
  <2>1. \A s \in SUBSET S : g[s] = IF s = {} THEN 0 ELSE w[Some(s)] + g[s \ {Some(s)}]
    <3> HIDE DEF g
    <3> QED
      BY <1>7, <1>8
  <2>2. g = [s \in SUBSET S |-> g[s]] /\ h = [s \in SUBSET S |-> h[s]]
    OBVIOUS
  <2>3. \A s \in SUBSET S : h[s] = g[s]
    <3> HIDE DEF g
    <3> QED
      BY <2>1
  <2> HIDE DEF g, h
  <2>4. g = h
    BY <2>2, <2>3
  <2> QED
    BY <2>4 DEF h
<1> QED
  BY <1>9 DEF IsSum

(* Where two functions agree they have the same sum. *)
LEMMA SumAgrees ==
    ASSUME NEW S, IsFiniteSet(S), NEW v, NEW w, \A x \in S : v[x] = w[x],
           NEW A, NEW B, S \subseteq A, S \subseteq B,
           NEW f, NEW g, IsSum(v, A, f), IsSum(w, B, g)
    PROVE  f[S] = g[S]
<1> DEFINE T == {n \in 0 .. Cardinality(S) : \A s \in Small(S, n) : f[s] = g[s]}
<1>1. Cardinality(S) \in Nat
  BY FS_CardinalityType
<1>2. \A s \in SUBSET S : /\ f[s] = IF s = {} THEN 0 ELSE v[Some(s)] + f[s \ {Some(s)}]
                          /\ g[s] = IF s = {} THEN 0 ELSE w[Some(s)] + g[s \ {Some(s)}]
  <2>1. \A s \in SUBSET S : s \in SUBSET A /\ s \in SUBSET B
    OBVIOUS
  <2>2. \A s \in SUBSET A : f[s] = IF s = {} THEN 0 ELSE v[Some(s)] + f[s \ {Some(s)}]
    BY DEF IsSum
  <2>3. \A s \in SUBSET B : g[s] = IF s = {} THEN 0 ELSE w[Some(s)] + g[s \ {Some(s)}]
    BY DEF IsSum
  <2> QED
    BY <2>1, <2>2, <2>3
<1>3. 0 \in T
  <2>1. Small(S, 0) = {{}}
    BY SmallFacts
  <2>2. {} \in SUBSET S
    OBVIOUS
  <2>3. f[{}] = 0 /\ g[{}] = 0
    BY <1>2, <2>2
  <2>4. \A s \in Small(S, 0) : f[s] = g[s]
    BY <2>1, <2>3
  <2> QED
    BY <1>1, <2>4
<1>4. ASSUME NEW n \in 0 .. Cardinality(S), n + 1 <= Cardinality(S), n \in T
      PROVE  n + 1 \in T
  <2>1. n \in Nat /\ n + 1 \in 0 .. Cardinality(S)
    BY <1>1, <1>4
  <2>2. ASSUME NEW s \in Small(S, n + 1) PROVE f[s] = g[s]
    <3>1. CASE s = {}
      BY <1>2, <3>1
    <3>2. CASE s # {}
      <4>1. PICK t, x : t = s \ {Some(s)} /\ x = Some(s)
        OBVIOUS
      <4>2. x \in s /\ t \in Small(S, n)
        BY <2>1, <3>2, <4>1, SmallFacts
      <4>3. s \in SUBSET S
        BY DEF Small
      <4>4. f[t] = g[t] /\ v[x] = w[x]
        BY <1>4, <4>2, <4>3
      <4>5. f[s] = v[x] + f[t] /\ g[s] = w[x] + g[t]
        BY <1>2, <3>2, <4>1, <4>3
      <4> QED
        BY <4>4, <4>5
    <3> QED
      BY <3>1, <3>2
  <2> QED
    BY <2>1, <2>2
<1>5. T = 0 .. Cardinality(S)
  <2>1. T \in SUBSET (0 .. Cardinality(S))
    OBVIOUS
  <2> HIDE DEF T
  <2> QED
    BY <1>1, <1>3, <1>4, <2>1, UpTo
<1>6. \A s \in Small(S, Cardinality(S)) : f[s] = g[s]
  <2>1. Cardinality(S) \in T
    BY <1>1, <1>5
  <2> QED
    BY <2>1
<1> QED
  BY <1>1, <1>6, SmallFacts

(* The order in which a set is summed does not matter. *)
LEMMA SumTakesOut ==
    ASSUME NEW S, IsFiniteSet(S), NEW w, \A x \in S : w[x] \in Nat, NEW g, IsSum(w, S, g)
    PROVE  \A s \in SUBSET S : g[s] \in Nat /\ \A x \in s : g[s] = w[x] + g[s \ {x}]
<1> DEFINE Good(s) == g[s] \in Nat /\ \A x \in s : g[s] = w[x] + g[s \ {x}]
           T == {n \in 0 .. Cardinality(S) : \A s \in Small(S, n) : Good(s)}
<1>1. Cardinality(S) \in Nat
  BY FS_CardinalityType
<1>2. \A s \in SUBSET S : g[s] = IF s = {} THEN 0 ELSE w[Some(s)] + g[s \ {Some(s)}]
  BY DEF IsSum
<1>0. Good({})
  <2>1. {} \in SUBSET S
    OBVIOUS
  <2>2. g[{}] = 0
    BY <1>2, <2>1
  <2> QED
    BY <2>2
<1>3. 0 \in T
  <2>1. Small(S, 0) = {{}}
    BY SmallFacts
  <2> HIDE DEF Good
  <2>2. \A s \in Small(S, 0) : Good(s)
    BY <1>0, <2>1
  <2> QED
    BY <1>1, <2>2
<1>4. ASSUME NEW n \in 0 .. Cardinality(S), n + 1 <= Cardinality(S), n \in T
      PROVE  n + 1 \in T
  <2>1. n \in Nat /\ n + 1 \in 0 .. Cardinality(S)
    BY <1>1, <1>4
  <2>2. ASSUME NEW s \in Small(S, n + 1) PROVE Good(s)
    <3>1. CASE s = {}
      BY <1>0, <3>1
    <3>2. CASE s # {}
      <4>1. PICK t, y : t = s \ {Some(s)} /\ y = Some(s)
        OBVIOUS
      <4>2. y \in s /\ t \in Small(S, n)
        BY <2>1, <3>2, <4>1, SmallFacts
      <4>3. s \in SUBSET S
        BY DEF Small
      <4>4. g[s] = w[y] + g[t] /\ Good(t) /\ w[y] \in Nat
        BY <1>2, <1>4, <3>2, <4>1, <4>2, <4>3
      <4>5. ASSUME NEW x \in s, x # y PROVE g[s] = w[x] + g[s \ {x}]
        <5>1. PICK u, v : u = s \ {x} /\ v = t \ {x}
          OBVIOUS
        <5>2. x \in t /\ y \in u /\ v = u \ {y} /\ u \in SUBSET S /\ v \in SUBSET S
          BY <4>1, <4>2, <4>3, <4>5, <5>1
        <5>3. u \in Small(S, n)
          <6>1. IsFiniteSet(s) /\ Cardinality(s) \in Nat /\ Cardinality(s) <= n + 1
            BY <2>1, <4>3, SmallFacts DEF Small
          <6>2. Cardinality(u) = Cardinality(s) - 1
            BY <5>1, <6>1, FS_RemoveElement
          <6> QED
            BY <2>1, <5>2, <6>1, <6>2 DEF Small
        <5>4. g[u] = w[y] + g[v]
          BY <1>4, <5>2, <5>3
        <5>5. g[t] = w[x] + g[v]
          BY <4>4, <5>1, <5>2
        <5>6. v \in Small(S, n)
          <6>1. IsFiniteSet(t) /\ Cardinality(t) \in Nat /\ Cardinality(t) <= n
            BY <2>1, <4>2, SmallFacts DEF Small
          <6>2. Cardinality(v) = Cardinality(t) - 1
            BY <5>1, <5>2, <6>1, FS_RemoveElement
          <6> QED
            BY <2>1, <5>2, <6>1, <6>2 DEF Small
        <5>7. g[v] \in Nat /\ w[x] \in Nat
          BY <1>4, <4>3, <5>6
        <5> QED
          BY <4>4, <5>1, <5>4, <5>5, <5>7
      <4>6. g[s] \in Nat
        BY <4>4
      <4>7. g[s] = w[y] + g[s \ {y}]
        BY <4>1, <4>4
      <4> QED
        BY <4>5, <4>6, <4>7
    <3> QED
      BY <3>1, <3>2
  <2> HIDE DEF Good
  <2> QED
    BY <2>1, <2>2
<1>5. T = 0 .. Cardinality(S)
  <2>1. T \in SUBSET (0 .. Cardinality(S))
    OBVIOUS
  <2> HIDE DEF T
  <2> QED
    BY <1>1, <1>3, <1>4, <2>1, UpTo
<1>6. \A s \in Small(S, Cardinality(S)) : Good(s)
  <2>1. Cardinality(S) \in T
    BY <1>1, <1>5
  <2> HIDE DEF Good
  <2> QED
    BY <2>1
<1> QED
  BY <1>1, <1>6, SmallFacts

LEMMA SumFacts ==
    ASSUME NEW S, IsFiniteSet(S), NEW w, \A x \in S : w[x] \in Nat
    PROVE  /\ SumFunctionOnSet(w, S) \in Nat
           /\ S = {} => SumFunctionOnSet(w, S) = 0
           /\ \A x : SumFunctionOnSet(w, S \ {x}) =
                       IF x \in S THEN SumFunctionOnSet(w, S) - w[x] ELSE SumFunctionOnSet(w, S)
<1>1. PICK g : IsSum(w, S, g) /\ SumFunctionOnSet(w, S) = g[S]
  BY SumExists, SumUnfolds
<1>2. g[S] \in Nat /\ \A x \in S : g[S] = w[x] + g[S \ {x}] /\ g[S \ {x}] \in Nat
  BY <1>1, SumTakesOut
<1>3. S = {} => g[S] = 0
  BY <1>1 DEF IsSum
<1>4. ASSUME NEW x \in S PROVE SumFunctionOnSet(w, S \ {x}) = SumFunctionOnSet(w, S) - w[x]
  <2>1. PICK s : s = S \ {x}
    OBVIOUS
  <2>2. IsFiniteSet(s) /\ s \subseteq S
    BY <2>1, FS_Subset
  <2>3. PICK h : IsSum(w, s, h) /\ SumFunctionOnSet(w, s) = h[s]
    BY <2>2, SumExists, SumUnfolds
  <2>4. h[s] = g[s]
    BY <1>1, <2>2, <2>3, SumAgrees
  <2>5. g[S] = w[x] + g[s] /\ g[s] \in Nat /\ w[x] \in Nat
    BY <1>2, <2>1
  <2>6. SumFunctionOnSet(w, s) = g[s]
    BY <2>3, <2>4
  <2>7. g[s] = SumFunctionOnSet(w, S) - w[x]
    BY <1>1, <2>5
  <2> QED
    BY <2>1, <2>6, <2>7, Zenon
<1>5. \A x : x \notin S => S \ {x} = S
  OBVIOUS
<1> QED
  BY <1>1, <1>2, <1>3, <1>4, <1>5

LEMMA SameSum ==
    ASSUME NEW S, IsFiniteSet(S), NEW v, NEW w, \A x \in S : v[x] = w[x]
    PROVE  SumFunctionOnSet(v, S) = SumFunctionOnSet(w, S)
<1>1. PICK f : IsSum(v, S, f) /\ SumFunctionOnSet(v, S) = f[S]
  BY SumExists, SumUnfolds
<1>2. PICK g : IsSum(w, S, g) /\ SumFunctionOnSet(w, S) = g[S]
  BY SumExists, SumUnfolds
<1> QED
  BY <1>1, <1>2, SumAgrees
-----------------------------------------------------------------------------
(* The body of a request, taken apart. *)

IsKeeping(parts, f) ==
    f = [n \in 0 .. Len(parts) |-> IF n = 0 THEN <<>> ELSE KeepPart(f[n - 1], parts[n])]

LEMMA KeepingExists ==
    ASSUME NEW K, NEW parts \in Seq(K)
    PROVE  \E f : IsKeeping(parts, f)
<1> DEFINE Law(m, f) == \A n \in 0 .. m : f[n] = IF n = 0 THEN <<>> ELSE KeepPart(f[n - 1], parts[n])
           T == {m \in 0 .. Len(parts) : \E f : Law(m, f)}
<1>1. Len(parts) \in Nat
  OBVIOUS
<1>2. 0 \in T
  <2> DEFINE f == [n \in 0 .. 0 |-> <<>>]
  <2>1. Law(0, f)
    OBVIOUS
  <2> HIDE DEF f, Law
  <2> QED
    BY <1>1, <2>1
<1>3. ASSUME NEW m \in 0 .. Len(parts), m + 1 <= Len(parts), m \in T PROVE m + 1 \in T
  <2>1. PICK f : \A n \in 0 .. m : f[n] = IF n = 0 THEN <<>> ELSE KeepPart(f[n - 1], parts[n])
    BY <1>3
  <2> DEFINE g == [n \in 0 .. m + 1 |-> IF n <= m THEN f[n] ELSE KeepPart(f[m], parts[m + 1])]
  <2>2. /\ \A n \in 0 .. m : g[n] = f[n]
        /\ g[m + 1] = KeepPart(f[m], parts[m + 1])
    BY <1>1
  <2> HIDE DEF g
  <2>3. ASSUME NEW n \in 0 .. m + 1 PROVE g[n] = IF n = 0 THEN <<>> ELSE KeepPart(g[n - 1], parts[n])
    <3>1. CASE n \in 0 .. m
      <4>1. n # 0 => n - 1 \in 0 .. m
        BY <1>1, <3>1
      <4> QED
        BY <2>1, <2>2, <3>1, <4>1
    <3>2. CASE n = m + 1
      <4>1. m \in 0 .. m /\ n - 1 = m /\ n # 0
        BY <1>1, <3>2
      <4> QED
        BY <2>2, <3>2, <4>1
    <3> QED
      BY <1>1, <3>1, <3>2
  <2>4. Law(m + 1, g)
    BY <2>3
  <2> HIDE DEF Law
  <2> QED
    BY <1>1, <1>3, <2>4
<1>4. Len(parts) \in T
  <2>1. T \in SUBSET (0 .. Len(parts))
    OBVIOUS
  <2>2. T = 0 .. Len(parts)
    <3> HIDE DEF T
    <3> QED
      BY <1>1, <1>2, <1>3, <2>1, UpTo
  <2> HIDE DEF T
  <2> QED
    BY <1>1, <2>2
<1>5. PICK f : \A n \in 0 .. Len(parts) : f[n] = IF n = 0 THEN <<>> ELSE KeepPart(f[n - 1], parts[n])
  BY <1>4
<1> DEFINE g == [n \in 0 .. Len(parts) |-> f[n]]
           h == [n \in 0 .. Len(parts) |-> IF n = 0 THEN <<>> ELSE KeepPart(g[n - 1], parts[n])]
<1>6. \A n \in 0 .. Len(parts) : g[n] = f[n] /\ (n # 0 => g[n - 1] = f[n - 1])
  BY <1>1
<1>7. g = [n \in 0 .. Len(parts) |-> g[n]] /\ h = [n \in 0 .. Len(parts) |-> h[n]]
  OBVIOUS
<1>8. \A n \in 0 .. Len(parts) : h[n] = IF n = 0 THEN <<>> ELSE KeepPart(g[n - 1], parts[n])
  OBVIOUS
<1> HIDE DEF g, h
<1>9. \A n \in 0 .. Len(parts) : h[n] = g[n]
  BY <1>5, <1>6, <1>8
<1>10. g = h
  BY <1>7, <1>9
<1> QED
  BY <1>10 DEF h, IsKeeping

(* The parts kept are parts of the body. *)
LEMMA KeptFacts ==
    ASSUME NEW K, NEW parts \in Seq(K)
    PROVE  Kept(parts) \in Seq(K)
<1> DEFINE f == CHOOSE g : IsKeeping(parts, g)
<1>1. IsKeeping(parts, f)
  BY KeepingExists
<1>2. Kept(parts) = f[Len(parts)]
  BY DEF Kept, IsKeeping
<1> HIDE DEF f
<1>3. \A n \in 0 .. Len(parts) : f[n] = IF n = 0 THEN <<>> ELSE KeepPart(f[n - 1], parts[n])
  BY <1>1 DEF IsKeeping
<1> DEFINE T == {n \in 0 .. Len(parts) : f[n] \in Seq(K)}
<1>4. Len(parts) \in Nat
  OBVIOUS
<1>5. 0 \in T
  <2>1. f[0] = <<>> /\ 0 \in 0 .. Len(parts)
    BY <1>3, <1>4
  <2>2. <<>> \in Seq(K)
    OBVIOUS
  <2>3. f[0] \in Seq(K)
    BY <2>1, <2>2, Zenon
  <2> QED
    BY <2>1, <2>3
<1>6. ASSUME NEW n \in 0 .. Len(parts), n + 1 <= Len(parts), n \in T PROVE n + 1 \in T
  <2>1. n + 1 \in 1 .. Len(parts) /\ n + 1 \in 0 .. Len(parts) /\ (n + 1) - 1 = n /\ n + 1 # 0
    BY <1>4, <1>6
  <2>2. PICK kept, p : kept = f[n] /\ p = parts[n + 1]
    OBVIOUS
  <2>3. kept \in Seq(K) /\ p \in K
    BY <1>6, <2>1, <2>2
  <2>4. KeepPart(kept, p) \in Seq(K)
    BY <2>3 DEF KeepPart
  <2>5. f[n + 1] = KeepPart(kept, p)
    BY <1>3, <2>1, <2>2
  <2>6. f[n + 1] \in Seq(K)
    BY <2>4, <2>5, Zenon
  <2> QED
    BY <2>1, <2>6
<1>7. T = 0 .. Len(parts)
  <2>1. T \in SUBSET (0 .. Len(parts))
    OBVIOUS
  <2> HIDE DEF T
  <2> QED
    BY <1>4, <1>5, <1>6, <2>1, UpTo
<1> QED
  BY <1>2, <1>4, <1>7

IsWalking(parts, f) ==
    f = [n \in 0 .. Len(parts) |-> IF n = 0 THEN Start ELSE WalkPart(f[n - 1], parts[n], n)]

LEMMA WalkingExists ==
    ASSUME NEW K, NEW parts \in Seq(K)
    PROVE  \E f : IsWalking(parts, f)
<1> DEFINE Law(m, f) == \A n \in 0 .. m : f[n] = IF n = 0 THEN Start ELSE WalkPart(f[n - 1], parts[n], n)
           T == {m \in 0 .. Len(parts) : \E f : Law(m, f)}
<1>1. Len(parts) \in Nat
  OBVIOUS
<1>2. 0 \in T
  <2> DEFINE f == [n \in 0 .. 0 |-> Start]
  <2>1. Law(0, f)
    OBVIOUS
  <2> HIDE DEF f, Law
  <2> QED
    BY <1>1, <2>1
<1>3. ASSUME NEW m \in 0 .. Len(parts), m + 1 <= Len(parts), m \in T PROVE m + 1 \in T
  <2>1. PICK f : \A n \in 0 .. m : f[n] = IF n = 0 THEN Start ELSE WalkPart(f[n - 1], parts[n], n)
    BY <1>3
  <2> DEFINE g == [n \in 0 .. m + 1 |-> IF n <= m THEN f[n] ELSE WalkPart(f[m], parts[m + 1], m + 1)]
  <2>2. /\ \A n \in 0 .. m : g[n] = f[n]
        /\ g[m + 1] = WalkPart(f[m], parts[m + 1], m + 1)
    BY <1>1
  <2> HIDE DEF g
  <2>3. ASSUME NEW n \in 0 .. m + 1 PROVE g[n] = IF n = 0 THEN Start ELSE WalkPart(g[n - 1], parts[n], n)
    <3>1. CASE n \in 0 .. m
      <4>1. n # 0 => n - 1 \in 0 .. m
        BY <1>1, <3>1
      <4> QED
        BY <2>1, <2>2, <3>1, <4>1
    <3>2. CASE n = m + 1
      <4>1. m \in 0 .. m /\ n - 1 = m /\ n # 0
        BY <1>1, <3>2
      <4> QED
        BY <2>2, <3>2, <4>1
    <3> QED
      BY <1>1, <3>1, <3>2
  <2>4. Law(m + 1, g)
    BY <2>3
  <2> HIDE DEF Law
  <2> QED
    BY <1>1, <1>3, <2>4
<1>4. Len(parts) \in T
  <2>1. T \in SUBSET (0 .. Len(parts))
    OBVIOUS
  <2>2. T = 0 .. Len(parts)
    <3> HIDE DEF T
    <3> QED
      BY <1>1, <1>2, <1>3, <2>1, UpTo
  <2> HIDE DEF T
  <2> QED
    BY <1>1, <2>2
<1>5. PICK f : \A n \in 0 .. Len(parts) : f[n] = IF n = 0 THEN Start ELSE WalkPart(f[n - 1], parts[n], n)
  BY <1>4
<1> DEFINE g == [n \in 0 .. Len(parts) |-> f[n]]
           h == [n \in 0 .. Len(parts) |-> IF n = 0 THEN Start ELSE WalkPart(g[n - 1], parts[n], n)]
<1>6. \A n \in 0 .. Len(parts) : g[n] = f[n] /\ (n # 0 => g[n - 1] = f[n - 1])
  BY <1>1
<1>7. g = [n \in 0 .. Len(parts) |-> g[n]] /\ h = [n \in 0 .. Len(parts) |-> h[n]]
  OBVIOUS
<1>8. \A n \in 0 .. Len(parts) : h[n] = IF n = 0 THEN Start ELSE WalkPart(g[n - 1], parts[n], n)
  OBVIOUS
<1> HIDE DEF g, h
<1>9. \A n \in 0 .. Len(parts) : h[n] = g[n]
  BY <1>5, <1>6, <1>8
<1>10. g = h
  BY <1>7, <1>9
<1> QED
  BY <1>10 DEF h, IsWalking

(* A walk takes no more files, and no more bytes, than a request may have. *)
Counted(walk) ==
    /\ DOMAIN walk = {"shared", "own", "files", "total", "failed"}
    /\ walk.files \in Seq(Nat) /\ Len(walk.files) <= MaxFiles
    /\ walk.total \in 0 .. MaxTotal

LEMMA WalkPartFacts ==
    ASSUME NEW walk, Counted(walk), NEW p, p.kind = "file" => p.size \in Nat, NEW n \in Nat
    PROVE  Counted(WalkPart(walk, p, n))
<1>1. ASSUME NEW own PROVE Counted([walk EXCEPT !.own = own])
  BY DEF Counted
<1>2. ASSUME NEW shared PROVE Counted([walk EXCEPT !.shared = shared])
  BY DEF Counted
<1>3. Counted([walk EXCEPT !.failed = TRUE])
  BY DEF Counted
<1>4. Counted(OwnOptions(walk, p))
  BY <1>1 DEF OwnOptions, WithOwn
<1>5. Counted([walk EXCEPT !.shared = Over(p.options, @)])
  BY <1>2
<1>6. ASSUME p.kind = "file" PROVE Counted(AddFile(walk, p, n))
  <2>1. CASE Refused(walk, p)
    BY <1>3, <2>1 DEF AddFile
  <2>2. CASE ~Refused(walk, p)
    <3>1. /\ Len(walk.files) < MaxFiles /\ walk.total + p.size <= MaxTotal
          /\ walk.total + p.size \in Nat
      BY <1>6, <2>2, UploadAssumption DEF Refused, Counted
    <3>2. PICK files, total : files = Append(walk.files, n) /\ total = walk.total + p.size
      OBVIOUS
    <3>3. AddFile(walk, p, n) = [walk EXCEPT !.files = files, !.total = total]
      BY <2>2, <3>2 DEF AddFile
    <3>4. files \in Seq(Nat) /\ Len(files) <= MaxFiles /\ total \in 0 .. MaxTotal
      BY <3>1, <3>2, UploadAssumption DEF Counted
    <3> QED
      BY <3>3, <3>4 DEF Counted
  <2> QED
    BY <2>1, <2>2
<1> QED
  BY <1>4, <1>5, <1>6 DEF WalkPart

LEMMA WalkFacts ==
    ASSUME NEW K, \A p \in K : p.kind = "file" => p.size \in Nat, NEW parts \in Seq(K)
    PROVE  Counted(Walk(parts))
<1> DEFINE f == CHOOSE g : IsWalking(parts, g)
<1>1. IsWalking(parts, f)
  BY WalkingExists
<1>2. Walk(parts) = f[Len(parts)]
  BY DEF Walk, IsWalking
<1> HIDE DEF f
<1>3. \A n \in 0 .. Len(parts) : f[n] = IF n = 0 THEN Start ELSE WalkPart(f[n - 1], parts[n], n)
  BY <1>1 DEF IsWalking
<1> DEFINE T == {n \in 0 .. Len(parts) : Counted(f[n])}
<1>4. Len(parts) \in Nat
  OBVIOUS
<1>5. 0 \in T
  <2>1. f[0] = Start /\ 0 \in 0 .. Len(parts)
    BY <1>3, <1>4
  <2>2. Counted(Start)
    BY UploadAssumption DEF Counted, Start
  <2> QED
    BY <2>1, <2>2
<1>6. ASSUME NEW n \in 0 .. Len(parts), n + 1 <= Len(parts), n \in T PROVE n + 1 \in T
  <2>1. n + 1 \in 1 .. Len(parts) /\ n + 1 \in 0 .. Len(parts) /\ (n + 1) - 1 = n /\ n + 1 # 0
    BY <1>4, <1>6
  <2>2. PICK walk, p : walk = f[n] /\ p = parts[n + 1]
    OBVIOUS
  <2>3. Counted(walk) /\ p \in K
    BY <1>6, <2>1, <2>2
  <2>4. Counted(WalkPart(walk, p, n + 1))
    BY <2>3, WalkPartFacts
  <2>5. f[n + 1] = WalkPart(walk, p, n + 1)
    BY <1>3, <2>1, <2>2
  <2>6. Counted(f[n + 1])
    BY <2>4, <2>5, Zenon
  <2> QED
    BY <2>1, <2>6
<1>7. T = 0 .. Len(parts)
  <2>1. T \in SUBSET (0 .. Len(parts))
    OBVIOUS
  <2> HIDE DEF T
  <2> QED
    BY <1>4, <1>5, <1>6, <2>1, UpTo
<1> QED
  BY <1>2, <1>4, <1>7

LEMMA ParsedFacts ==
    ASSUME NEW K, \A p \in K : p.kind = "file" => p.size \in Nat, NEW parts \in Seq(K)
    PROVE  /\ Len(Parsed(parts).files) \in 0 .. MaxFiles
           /\ Parsed(parts).total \in 0 .. MaxTotal
           /\ Parsed(parts).files # <<>> => Len(Parsed(parts).files) > 0
<1>1. PICK w : w = Walk(Kept(parts))
  OBVIOUS
<1>2. Counted(w)
  BY <1>1, KeptFacts, WalkFacts
<1>3. CASE w.failed
  <2>1. Parsed(parts) = [files |-> <<>>, total |-> 0]
    BY <1>1, <1>3 DEF Parsed
  <2>2. Parsed(parts).files = <<>> /\ Parsed(parts).total = 0 /\ Len(<<>>) = 0
    BY <2>1
  <2> QED
    BY <2>2, UploadAssumption
<1>4. CASE ~w.failed
  <2> DEFINE files == [i \in 1 .. Len(w.files) |->
                          [part |-> w.files[i],
                           options |-> IF i \in DOMAIN w.own THEN w.own[i] ELSE w.shared]]
  <2>1. Parsed(parts) = [total |-> w.total, files |-> files]
    BY <1>1, <1>4 DEF Parsed
  <2>2. Parsed(parts).total = w.total /\ Parsed(parts).files = files
    BY <2>1
  <2>3. Len(w.files) \in 0 .. MaxFiles
    BY <1>2, UploadAssumption DEF Counted
  <2>4. Len(files) = Len(w.files)
    BY <2>3
  <2>5. files # <<>> => Len(files) > 0
    <3>1. DOMAIN files = 1 .. Len(files)
      BY <2>3, <2>4
    <3>2. files = [i \in 1 .. Len(files) |-> files[i]]
      BY <2>3, <2>4
    <3> HIDE DEF files
    <3>3. \A i \in 1 .. Len(files) : files[i] \in Range(files)
      BY <3>1 DEF Range
    <3>4. files \in Seq(Range(files))
      BY <2>3, <2>4, <3>2, <3>3
    <3>5. Len(files) = 0 => files = <<>>
      BY <3>4
    <3> QED
      BY <2>3, <2>4, <3>5
  <2> HIDE DEF files
  <2> QED
    BY <1>2, <2>2, <2>3, <2>4, <2>5 DEF Counted
<1> QED
  BY <1>3, <1>4
-----------------------------------------------------------------------------
(* The inductive invariant. *)

(* The entries of a user and a day; an entry in use today. *)
InTable(u, d) == {i \in Index : entries[i].user = u /\ entries[i].day = d}
Current(i) == entries[i].user # Nobody /\ entries[i].day = day

TypesOK ==
    /\ body \in Batches
    /\ day \in Days
    /\ request = [r \in Requests |-> request[r]]
    /\ \A r \in Requests : FilesOf(r) \in 0 .. MaxFiles /\ BytesOf(r) \in 0 .. MaxTotal
    /\ entries \in [Index -> [user : Users \cup {Nobody}, day : Days,
                              jobs : 0 .. MaxJobs, bytes : 0 .. MaxBytes]]
    /\ pc \in [Requests -> {"new", "rejected", "tracking", "running",
                            "refused", "answered", "failed"}]
    /\ today \in [Requests -> Days]
    /\ finished = [r \in Requests |-> finished[r]]
    /\ \A r \in Requests : finished[r] \in Seq(Range(finished[r]))
    /\ charged \in [Users -> [Days -> SUBSET Requests]]
    /\ straddled \in BOOLEAN

(* A request's way: metered before it is let through, its files one by one. *)
RequestsOK ==
    \A r \in Requests :
        /\ today[r] <= day
        /\ pc[r] = "tracking" => UserOf[r] \in Users
        /\ pc[r] \in {"new", "rejected", "tracking", "refused", "failed"} => finished[r] = <<>>
        /\ pc[r] \in {"tracking", "running"} => FilesOf(r) > 0
        /\ pc[r] = "running" => Len(finished[r]) < FilesOf(r)
        /\ pc[r] = "answered" => Len(finished[r]) = FilesOf(r)

(* Nothing is of a later day, and only who was let through is charged. *)
ChargesOK ==
    /\ \A i \in Index : entries[i].day <= day
    /\ \A u \in Users, d \in Days :
         /\ charged[u][d] # {} => d <= day
         /\ \A r \in charged[u][d] : pc[r] \in {"running", "answered", "failed"}

(* Even past midnight an entry counts no more than was let through on its  *)
(* day, and something.                                                     *)
Covered ==
    \A i \in Index : LET e == entries[i] IN e.user # Nobody =>
        /\ charged[e.user][e.day] # {}
        /\ e.jobs <= Jobs(charged[e.user][e.day])
        /\ e.bytes <= Bytes(charged[e.user][e.day])

(* Before a request straddles midnight: a user has one entry a day, today's *)
(* entries come first, and they are an account of what was let through.     *)
Account ==
    /\ \A i, j \in Index :
         /\ entries[i].user # Nobody
         /\ entries[i].user = entries[j].user /\ entries[i].day = entries[j].day
         => i = j
    /\ \A i, j \in Index : i < j /\ Current(j) => Current(i)
    /\ \A u \in Users : charged[u][day] # {} => InTable(u, day) # {}
    /\ \A i \in Index : Current(i) =>
         /\ entries[i].jobs = Jobs(charged[entries[i].user][day])
         /\ entries[i].bytes = Bytes(charged[entries[i].user][day])
    /\ \A u \in Users, d \in Days : Within(charged[u][d])

AccountOK == ~straddled => Account

UsageInv == TypesOK /\ RequestsOK /\ ChargesOK /\ Covered /\ AccountOK
-----------------------------------------------------------------------------
(* What a set of requests uses up. *)

LEMMA UseFacts ==
    ASSUME TypesOK, NEW rs \in SUBSET Requests
    PROVE  /\ Jobs(rs) \in Nat /\ Bytes(rs) \in Nat
           /\ rs = {} => Jobs(rs) = 0 /\ Bytes(rs) = 0
           /\ \A r \in Requests \ rs : /\ Jobs(rs \cup {r}) = Jobs(rs) + FilesOf(r)
                                       /\ Bytes(rs \cup {r}) = Bytes(rs) + BytesOf(r)
<1> DEFINE v == [r \in Requests |-> FilesOf(r)]
           w == [r \in Requests |-> BytesOf(r)]
<1>1. \A S \in SUBSET Requests : IsFiniteSet(S)
  BY UsageAssumption, FS_Subset
<1>2. /\ \A r \in Requests : v[r] = FilesOf(r) /\ w[r] = BytesOf(r)
      /\ \A r \in Requests : v[r] \in Nat /\ w[r] \in Nat
  BY UploadAssumption DEF TypesOK
<1>3. \A S \in SUBSET Requests : Jobs(S) = SumFunctionOnSet(v, S) /\ Bytes(S) = SumFunctionOnSet(w, S)
  BY DEF Jobs, Bytes
<1> HIDE DEF v, w
<1>4. Jobs(rs) \in Nat /\ Bytes(rs) \in Nat /\ (rs = {} => Jobs(rs) = 0 /\ Bytes(rs) = 0)
  <2>1. IsFiniteSet(rs) /\ \A r \in rs : v[r] \in Nat /\ w[r] \in Nat
    BY <1>1, <1>2
  <2>2. SumFunctionOnSet(v, rs) \in Nat /\ (rs = {} => SumFunctionOnSet(v, rs) = 0)
    BY <2>1, SumFacts
  <2>3. SumFunctionOnSet(w, rs) \in Nat /\ (rs = {} => SumFunctionOnSet(w, rs) = 0)
    BY <2>1, SumFacts
  <2> QED
    BY <1>3, <2>2, <2>3
<1>5. ASSUME NEW r \in Requests \ rs
      PROVE  /\ Jobs(rs \cup {r}) = Jobs(rs) + FilesOf(r)
             /\ Bytes(rs \cup {r}) = Bytes(rs) + BytesOf(r)
  <2>1. PICK S : S = rs \cup {r}
    OBVIOUS
  <2>2. S \in SUBSET Requests /\ IsFiniteSet(S) /\ S \ {r} = rs /\ r \in S
    BY <1>1, <2>1
  <2>3. \A x \in S : v[x] \in Nat /\ w[x] \in Nat
    BY <1>2, <2>2
  <2>4. /\ SumFunctionOnSet(v, S \ {r}) = SumFunctionOnSet(v, S) - v[r]
        /\ SumFunctionOnSet(v, S) \in Nat
    BY <2>2, <2>3, SumFacts
  <2>5. /\ SumFunctionOnSet(w, S \ {r}) = SumFunctionOnSet(w, S) - w[r]
        /\ SumFunctionOnSet(w, S) \in Nat
    BY <2>2, <2>3, SumFacts
  <2>6. Jobs(rs) = Jobs(S) - v[r] /\ Bytes(rs) = Bytes(S) - w[r] /\ Jobs(S) \in Nat /\ Bytes(S) \in Nat
    BY <1>3, <2>2, <2>4, <2>5
  <2>7. Jobs(S) = Jobs(rs) + v[r] /\ Bytes(S) = Bytes(rs) + w[r]
    BY <1>2, <2>6
  <2> QED
    BY <1>2, <2>1, <2>7
<1> QED
  BY <1>4, <1>5

LEMMA UseKept ==
    ASSUME NEW rs \in SUBSET Requests, \A r \in rs : request'[r] = request[r]
    PROVE  Jobs(rs)' = Jobs(rs) /\ Bytes(rs)' = Bytes(rs)
<1>1. IsFiniteSet(rs)
  BY UsageAssumption, FS_Subset
<1> DEFINE v == [r \in Requests |-> Len(request[r].files)]
           vv == [r \in Requests |-> Len(request'[r].files)]
           w == [r \in Requests |-> request[r].total]
           ww == [r \in Requests |-> request'[r].total]
<1>2. \A r \in rs : v[r] = vv[r] /\ w[r] = ww[r]
  OBVIOUS
<1>3. /\ Jobs(rs) = SumFunctionOnSet(v, rs) /\ Jobs(rs)' = SumFunctionOnSet(vv, rs)
      /\ Bytes(rs) = SumFunctionOnSet(w, rs) /\ Bytes(rs)' = SumFunctionOnSet(ww, rs)
  BY DEF Jobs, Bytes, FilesOf, BytesOf
<1> HIDE DEF v, vv, w, ww
<1>4. SumFunctionOnSet(v, rs) = SumFunctionOnSet(vv, rs)
  BY <1>1, <1>2, SameSum
<1>5. SumFunctionOnSet(w, rs) = SumFunctionOnSet(ww, rs)
  BY <1>1, <1>2, SameSum
<1> QED
  BY <1>3, <1>4, <1>5
-----------------------------------------------------------------------------
(* The entry a request is charged to, or refused by. *)

Entries == [user : Users \cup {Nobody}, day : Days, jobs : 0 .. MaxJobs, bytes : 0 .. MaxBytes]

LEMMA EntryFacts ==
    ASSUME TypesOK, RequestsOK, NEW r \in Requests, pc[r] = "tracking", NEW i, Chosen(r, i)
    PROVE  /\ i \in Index /\ UserOf[r] \in Users /\ UserOf[r] # Nobody /\ today[r] \in Days
           /\ Entry(r, i) \in Entries
           /\ Entry(r, i).user = UserOf[r] /\ Entry(r, i).day = today[r]
           /\ \/ Mine(entries[i], r) /\ Entry(r, i) = entries[i]
              \/ /\ ~Mine(entries[i], r) /\ Reusable(entries[i], r)
                 /\ Entry(r, i).jobs = 0 /\ Entry(r, i).bytes = 0
           /\ \A j \in Index : j < i => ~Mine(entries[j], r) /\ ~Reusable(entries[j], r)
<1>1. i \in Index /\ UserOf[r] \in Users /\ UserOf[r] # Nobody /\ today[r] \in Days
  BY DEF Chosen, RequestsOK, TypesOK, Users
<1>2. entries[i] \in Entries
  BY <1>1 DEF TypesOK, Entries
<1>3. /\ Entry(r, i) \in Entries
      /\ Entry(r, i).user = UserOf[r] /\ Entry(r, i).day = today[r]
      /\ \/ Mine(entries[i], r) /\ Entry(r, i) = entries[i]
         \/ /\ ~Mine(entries[i], r) /\ Reusable(entries[i], r)
            /\ Entry(r, i).jobs = 0 /\ Entry(r, i).bytes = 0
  <2>1. CASE Mine(entries[i], r)
    <3>1. Entry(r, i) = entries[i]
      BY <2>1 DEF Entry
    <3>2. entries[i].user = UserOf[r] /\ entries[i].day = today[r]
      BY <2>1 DEF Mine
    <3> QED
      BY <1>2, <2>1, <3>1, <3>2
  <2>2. CASE ~Mine(entries[i], r)
    <3>1. Reusable(entries[i], r)
      BY <2>2 DEF Chosen
    <3>2. Entry(r, i) = [user |-> UserOf[r], day |-> today[r], jobs |-> 0, bytes |-> 0]
      BY <1>2, <2>2 DEF Entry, Claimed, Entries
    <3>3. 0 \in 0 .. MaxJobs /\ 0 \in 0 .. MaxBytes
      BY UsageAssumption
    <3>4. Entry(r, i) \in Entries
      BY <1>1, <3>2, <3>3 DEF Entries
    <3>5. /\ Entry(r, i).user = UserOf[r] /\ Entry(r, i).day = today[r]
          /\ Entry(r, i).jobs = 0 /\ Entry(r, i).bytes = 0
      BY <3>2
    <3> QED
      BY <2>2, <3>1, <3>4, <3>5
  <2> QED
    BY <2>1, <2>2
<1>4. \A j \in Index : j < i => ~Mine(entries[j], r) /\ ~Reusable(entries[j], r)
  <2>1. \A j \in Index : j < i => j \in 1 .. (i - 1)
    BY <1>1, UsageAssumption DEF Index
  <2> QED
    BY <2>1 DEF Chosen
<1> QED
  BY <1>1, <1>3, <1>4

LEMMA ChargedFacts ==
    ASSUME TypesOK, NEW r \in Requests, NEW e \in Entries, Fits(e, r)
    PROVE  /\ Charged(e, r) \in Entries
           /\ Charged(e, r).user = e.user /\ Charged(e, r).day = e.day
           /\ Charged(e, r).jobs = e.jobs + FilesOf(r)
           /\ Charged(e, r).bytes = e.bytes + BytesOf(r)
<1>1. PICK m, n : m = e.jobs + FilesOf(r) /\ n = e.bytes + BytesOf(r)
  OBVIOUS
<1>2. m \in 0 .. MaxJobs /\ n \in 0 .. MaxBytes
  BY <1>1, UploadAssumption, UsageAssumption DEF Fits, TypesOK, Entries
<1>3. Charged(e, r) = [e EXCEPT !.jobs = m, !.bytes = n]
  BY <1>1 DEF Charged
<1>4. e = [user |-> e.user, day |-> e.day, jobs |-> e.jobs, bytes |-> e.bytes]
  BY DEF Entries
<1>5. Charged(e, r) = [user |-> e.user, day |-> e.day, jobs |-> m, bytes |-> n]
  BY <1>3, <1>4
<1> QED
  BY <1>1, <1>2, <1>5 DEF Entries

(* A new request alone always fits. *)
LEMMA FreshFits ==
    ASSUME TypesOK, NEW r \in Requests, NEW e, e.jobs = 0, e.bytes = 0
    PROVE  Fits(e, r)
BY UploadAssumption, UsageAssumption DEF Fits, TypesOK
-----------------------------------------------------------------------------
(* What the actions do to the table. *)

LEMMA ParseFacts ==
    ASSUME TypesOK, NEW r \in Requests, Parse(r)
    PROVE  /\ \A q \in Requests : q # r => request'[q] = request[q]
           /\ request' = [q \in Requests |-> request'[q]]
           /\ Len(request'[r].files) \in 0 .. MaxFiles /\ request'[r].total \in 0 .. MaxTotal
           /\ request'[r].files # <<>> => Len(request'[r].files) > 0
<1>1. body \in Batches /\ r \in DOMAIN body /\ request' = [request EXCEPT ![r] = Parsed(body[r])]
  BY DEF TypesOK, Parse
<1>2. PICK parts : parts = body[r]
  OBVIOUS
<1>3. PICK K : K = Range(parts)
  OBVIOUS
<1>4. parts \in Seq(K) /\ \A p \in K : p.kind = "file" => p.size \in Nat
  BY <1>1, <1>2, <1>3, BatchesAssumption
<1>5. PICK made : made = Parsed(parts)
  OBVIOUS
<1>6. /\ Len(made.files) \in 0 .. MaxFiles /\ made.total \in 0 .. MaxTotal
      /\ made.files # <<>> => Len(made.files) > 0
  BY <1>4, <1>5, ParsedFacts
<1>7. DOMAIN request = Requests
  BY DEF TypesOK
<1>8. request' = [request EXCEPT ![r] = made]
  BY <1>1, <1>2, <1>5
<1>9. request'[r] = made /\ \A q \in Requests : q # r => request'[q] = request[q]
  BY <1>7, <1>8
<1>10. request' = [q \in Requests |-> request'[q]]
  BY <1>7, <1>8
<1> QED
  BY <1>6, <1>9, <1>10

(* A step that leaves the table alone changes no request in it either. *)
Quiet ==
    /\ UNCHANGED <<day, entries, charged, straddled>>
    /\ \A q \in Requests : pc[q] # "new" => request'[q] = request[q]

LEMMA ParseIsQuiet ==
    ASSUME TypesOK, NEW r \in Requests, Reject(r) \/ Unmetered(r) \/ ReadDay(r)
    PROVE  Quiet
<1>1. Parse(r) /\ pc[r] = "new" /\ UNCHANGED <<day, entries, charged, straddled>>
  BY DEF Reject, Unmetered, ReadDay, Goto
<1>2. \A q \in Requests : q # r => request'[q] = request[q]
  BY <1>1, ParseFacts
<1> QED
  BY <1>1, <1>2 DEF Quiet

LEMMA QuietSteps ==
    ASSUME TypesOK, [Next]_vars
    PROVE  \/ Quiet
           \/ Midnight
           \/ \E r \in Requests : Charge(r) \/ Refuse(r)
<1>1. ASSUME NEW r \in Requests, RefuseBusy(r) \/ FileDone(r) \/ FileFails(r) PROVE Quiet
  BY <1>1 DEF RefuseBusy, FileDone, FileFails, Quiet
<1>2. CASE UNCHANGED vars
  BY <1>2 DEF vars, Quiet
<1> QED
  BY <1>1, <1>2, ParseIsQuiet DEF Next

LEMMA ChargeFacts ==
    ASSUME TypesOK, RequestsOK, NEW r \in Requests, Charge(r)
    PROVE  \E i \in Index :
             /\ Chosen(r, i) /\ pc[r] = "tracking"
             /\ Fits(Entry(r, i), r)
             /\ entries'[i] = Charged(Entry(r, i), r) /\ entries'[i] \in Entries
             /\ \A j \in Index : j # i => entries'[j] = entries[j]
             /\ \A u \in Users, d \in Days :
                  charged'[u][d] = IF u = UserOf[r] /\ d = today[r] THEN charged[u][d] \cup {r}
                                   ELSE charged[u][d]
             /\ straddled' = (straddled \/ today[r] # day)
             /\ UNCHANGED <<day, request>>
             /\ pc' = [pc EXCEPT ![r] = "running"]
<1>1. PICK i \in Index : /\ Chosen(r, i) /\ Fits(Entry(r, i), r)
                         /\ entries' = [entries EXCEPT ![i] = Charged(Entry(r, i), r)]
                         /\ charged' = [charged EXCEPT ![UserOf[r]][today[r]] = @ \cup {r}]
                         /\ straddled' = (straddled \/ today[r] # day)
                         /\ UNCHANGED <<day, request>>
                         /\ pc[r] = "tracking" /\ pc' = [pc EXCEPT ![r] = "running"]
  BY DEF Charge, Goto
<1>2. Entry(r, i) \in Entries /\ UserOf[r] \in Users /\ today[r] \in Days
  BY <1>1, EntryFacts
<1>3. Charged(Entry(r, i), r) \in Entries
  <2>1. PICK e : e = Entry(r, i)
    OBVIOUS
  <2> QED
    BY <1>1, <1>2, <2>1, ChargedFacts
<1>4. PICK e : e = Charged(Entry(r, i), r)
  OBVIOUS
<1>5. entries'[i] = e /\ \A j \in Index : j # i => entries'[j] = entries[j]
  BY <1>1, <1>4 DEF TypesOK
<1>6. \A u \in Users, d \in Days :
        charged'[u][d] = IF u = UserOf[r] /\ d = today[r] THEN charged[u][d] \cup {r}
                         ELSE charged[u][d]
  BY <1>1, <1>2 DEF TypesOK
<1> QED
  BY <1>1, <1>3, <1>4, <1>5, <1>6

LEMMA RefuseFacts ==
    ASSUME TypesOK, RequestsOK, NEW r \in Requests, Refuse(r)
    PROVE  \E i \in Index :
             /\ Chosen(r, i) /\ pc[r] = "tracking"
             /\ ~Fits(entries[i], r) /\ Mine(entries[i], r)
             /\ UNCHANGED <<day, request, charged, entries>>
             /\ straddled' = (straddled \/ today[r] # day)
             /\ pc' = [pc EXCEPT ![r] = "refused"]
<1>1. PICK i \in Index : /\ Chosen(r, i) /\ ~Fits(Entry(r, i), r)
                         /\ entries' = [entries EXCEPT ![i] = Entry(r, i)]
                         /\ straddled' = (straddled \/ today[r] # day)
                         /\ UNCHANGED <<day, request, charged>>
                         /\ pc[r] = "tracking" /\ pc' = [pc EXCEPT ![r] = "refused"]
  BY DEF Refuse, Goto
<1>2. \/ Mine(entries[i], r) /\ Entry(r, i) = entries[i]
      \/ Entry(r, i).jobs = 0 /\ Entry(r, i).bytes = 0
  BY <1>1, EntryFacts
<1>3. Mine(entries[i], r) /\ Entry(r, i) = entries[i]
  BY <1>1, <1>2, FreshFits
<1>4. PICK e : e = Entry(r, i)
  OBVIOUS
<1>5. entries' = entries
  <2>1. entries' = [entries EXCEPT ![i] = e] /\ e = entries[i]
    BY <1>1, <1>3, <1>4
  <2> QED
    BY <2>1 DEF TypesOK
<1> QED
  BY <1>1, <1>3, <1>5
-----------------------------------------------------------------------------
(* Each part of the invariant is preserved by every step. *)

LEMMA AppendKeeps ==
    ASSUME NEW s, s \in Seq(Range(s)), NEW x
    PROVE  Append(s, x) \in Seq(Range(Append(s, x)))
<1>1. PICK t : t = Append(s, x)
  OBVIOUS
<1>2. PICK K : K = Range(s) \cup {x}
  OBVIOUS
<1>3. s \in Seq(K)
  BY <1>2
<1>4. t \in Seq(K)
  BY <1>1, <1>2, <1>3
<1>5. \A i \in 1 .. Len(t) : t[i] \in Range(t)
  BY <1>4 DEF Range
<1>6. t \in Seq(Range(t))
  BY <1>4, <1>5
<1> QED
  BY <1>1, <1>6

(* A step parses a body at most, and takes one request one step on. *)
LEMMA RequestSteps ==
    ASSUME TypesOK, [Next]_vars
    PROVE  /\ body' = body
           /\ \/ UNCHANGED request
              \/ \E r \in Requests : Parse(r) /\ pc[r] = "new"
           /\ \/ UNCHANGED <<pc, today, finished>>
              \/ \E r \in Requests :
                   \/ Reject(r) \/ Unmetered(r) \/ ReadDay(r) \/ FileDone(r) \/ FileFails(r)
                   \/ /\ pc[r] = "tracking" /\ \E to \in {"running", "refused"} : pc' = [pc EXCEPT ![r] = to]
                      /\ UNCHANGED <<request, today, finished, day>>
<1>1. CASE UNCHANGED vars
  BY <1>1 DEF vars
<1>2. CASE Midnight
  BY <1>2 DEF Midnight
<1>3. ASSUME NEW r \in Requests, Reject(r) \/ Unmetered(r) \/ ReadDay(r)
      PROVE  body' = body /\ Parse(r) /\ pc[r] = "new"
  BY <1>3 DEF Reject, Unmetered, ReadDay, Goto
<1>4. ASSUME NEW r \in Requests, FileDone(r) \/ FileFails(r)
      PROVE  body' = body /\ request' = request
  BY <1>4 DEF FileDone, FileFails
<1>5. ASSUME NEW r \in Requests, Charge(r) \/ Refuse(r) \/ RefuseBusy(r)
      PROVE  /\ body' = body
             /\ pc[r] = "tracking" /\ \E to \in {"running", "refused"} : pc' = [pc EXCEPT ![r] = to]
             /\ UNCHANGED <<request, today, finished, day>>
  BY <1>5 DEF Charge, Refuse, RefuseBusy, Goto
<1> QED
  BY <1>1, <1>2, <1>3, <1>4, <1>5 DEF Next

LEMMA TypesStep ==
    ASSUME TypesOK, RequestsOK, [Next]_vars
    PROVE  TypesOK'
<1>1. body' \in Batches
  BY RequestSteps DEF TypesOK
<1>2. day' \in Days /\ straddled' \in BOOLEAN
  <2>1. CASE Midnight
    BY <2>1, UsageAssumption DEF Midnight, TypesOK, Days
  <2>2. CASE Quiet
    BY <2>2 DEF Quiet, TypesOK
  <2>3. ASSUME NEW r \in Requests, Charge(r) \/ Refuse(r)
        PROVE  day' = day /\ straddled' \in BOOLEAN
    BY <2>3 DEF Charge, Refuse, TypesOK
  <2> QED
    BY <2>1, <2>2, <2>3, QuietSteps DEF TypesOK
<1>3. /\ request' = [r \in Requests |-> request'[r]]
      /\ \A r \in Requests : Len(request'[r].files) \in 0 .. MaxFiles /\ request'[r].total \in 0 .. MaxTotal
  <2>1. CASE UNCHANGED request
    BY <2>1 DEF TypesOK, FilesOf, BytesOf
  <2>2. ASSUME NEW r \in Requests, Parse(r)
        PROVE  /\ request' = [q \in Requests |-> request'[q]]
               /\ \A q \in Requests : Len(request'[q].files) \in 0 .. MaxFiles /\ request'[q].total \in 0 .. MaxTotal
    <3>1. ASSUME NEW q \in Requests, q # r
          PROVE  Len(request'[q].files) \in 0 .. MaxFiles /\ request'[q].total \in 0 .. MaxTotal
      <4>1. request'[q] = request[q]
        BY <2>2, <3>1, ParseFacts
      <4> QED
        BY <4>1 DEF TypesOK, FilesOf, BytesOf
    <3> QED
      BY <2>2, <3>1, ParseFacts
  <2> QED
    BY <2>1, <2>2, RequestSteps
<1>4. entries' \in [Index -> Entries]
  <2>1. entries \in [Index -> Entries]
    BY DEF TypesOK, Entries
  <2>2. ASSUME NEW r \in Requests, Charge(r)
        PROVE  entries' \in [Index -> Entries]
    <3>1. PICK i \in Index : entries'[i] \in Entries /\ \A j \in Index : j # i => entries'[j] = entries[j]
      BY <2>2, ChargeFacts
    <3>2. entries' = [j \in Index |-> entries'[j]]
      BY <2>1, <2>2 DEF Charge
    <3> QED
      BY <2>1, <3>1, <3>2
  <2>3. ASSUME NEW r \in Requests, Refuse(r)
        PROVE  entries' = entries
    BY <2>3, RefuseFacts
  <2> QED
    BY <2>1, <2>2, <2>3, QuietSteps DEF Quiet, Midnight
<1> DEFINE PlacesOK == /\ pc' \in [Requests -> {"new", "rejected", "tracking", "running",
                                               "refused", "answered", "failed"}]
                       /\ today' \in [Requests -> Days]
           FilesOK == /\ finished' = [r \in Requests |-> finished'[r]]
                      /\ \A r \in Requests : finished'[r] \in Seq(Range(finished'[r]))
<1>5. PlacesOK /\ FilesOK
  <2>1. CASE UNCHANGED <<pc, today, finished>>
    BY <2>1 DEF TypesOK
  <2>2. ASSUME NEW r \in Requests, Reject(r) \/ Unmetered(r)
        PROVE  PlacesOK /\ FilesOK
    BY <2>2 DEF Reject, Unmetered, Goto, TypesOK
  <2>3. ASSUME NEW r \in Requests, ReadDay(r)
        PROVE  PlacesOK /\ FilesOK
    BY <2>3 DEF ReadDay, Goto, TypesOK
  <2>4. ASSUME NEW r \in Requests, FileDone(r)
        PROVE  PlacesOK /\ FilesOK
    <3>1. PICK x : finished' = [finished EXCEPT ![r] = Append(finished[r], x)]
      BY <2>4 DEF FileDone
    <3>2. Append(finished[r], x) \in Seq(Range(Append(finished[r], x)))
      BY AppendKeeps DEF TypesOK
    <3>3. FilesOK
      BY <3>1, <3>2 DEF TypesOK
    <3> QED
      BY <2>4, <3>3 DEF FileDone, Goto, TypesOK
  <2>5. ASSUME NEW r \in Requests, FileFails(r)
        PROVE  PlacesOK /\ FilesOK
    <3>1. <<>> \in Seq(Range(<<>>))
      OBVIOUS
    <3>2. FilesOK
      BY <2>5, <3>1 DEF FileFails, TypesOK
    <3> QED
      BY <2>5, <3>2 DEF FileFails, Goto, TypesOK
  <2>6. ASSUME NEW r \in Requests, \E to \in {"running", "refused"} : pc' = [pc EXCEPT ![r] = to],
               UNCHANGED <<today, finished>>
        PROVE  PlacesOK /\ FilesOK
    BY <2>6 DEF TypesOK
  <2> QED
    BY <2>1, <2>2, <2>3, <2>4, <2>5, <2>6, RequestSteps
<1>6. charged' \in [Users -> [Days -> SUBSET Requests]]
  <2>1. ASSUME NEW r \in Requests, Charge(r)
        PROVE  charged' \in [Users -> [Days -> SUBSET Requests]]
    <3>1. UserOf[r] \in Users /\ today[r] \in Days
      BY <2>1, ChargeFacts, EntryFacts
    <3>2. charged' = [charged EXCEPT ![UserOf[r]][today[r]] = charged[UserOf[r]][today[r]] \cup {r}]
      BY <2>1 DEF Charge
    <3> QED
      BY <3>1, <3>2 DEF TypesOK
  <2>2. ASSUME NEW r \in Requests, Refuse(r)
        PROVE  charged' = charged
    BY <2>2 DEF Refuse
  <2> QED
    BY <2>1, <2>2, QuietSteps DEF Quiet, Midnight, TypesOK
<1> QED
  BY <1>1, <1>2, <1>3, <1>4, <1>5, <1>6 DEF TypesOK, Entries, FilesOf, BytesOf

LEMMA RequestsStep ==
    ASSUME TypesOK, RequestsOK, [Next]_vars
    PROVE  RequestsOK'
<1>1. \A r \in Requests : today[r] \in Nat /\ day \in Nat
  BY UsageAssumption DEF TypesOK, Days
<1>2. CASE UNCHANGED vars
  BY <1>2 DEF vars, RequestsOK, FilesOf
<1>3. CASE Midnight
  BY <1>1, <1>3 DEF Midnight, RequestsOK, FilesOf
<1>4. ASSUME NEW r \in Requests, Reject(r) \/ Unmetered(r) \/ ReadDay(r)
      PROVE  RequestsOK'
  <2>1. /\ Parse(r) /\ pc[r] = "new" /\ day' = day /\ finished' = finished
        /\ \E to \in {"rejected", "running", "tracking"} :
             /\ pc' = [pc EXCEPT ![r] = to]
             /\ to # "rejected" => request'[r].files # <<>>
             /\ to = "tracking" => UserOf[r] # Nobody
        /\ today' = today \/ today' = [today EXCEPT ![r] = day]
    BY <1>4 DEF Reject, Unmetered, ReadDay, Goto
  <2>2. /\ \A q \in Requests : q # r => request'[q] = request[q]
        /\ Len(request'[r].files) \in 0 .. MaxFiles
        /\ request'[r].files # <<>> => Len(request'[r].files) > 0
    BY <2>1, ParseFacts
  <2>3. finished[r] = <<>> /\ Len(finished[r]) = 0
    BY <2>1 DEF RequestsOK
  <2>4. UserOf[r] # Nobody => UserOf[r] \in Users
    BY DEF Users
  <2> QED
    BY <1>1, <2>1, <2>2, <2>3, <2>4 DEF RequestsOK, FilesOf, TypesOK
<1>5. ASSUME NEW r \in Requests, FileDone(r)
      PROVE  RequestsOK'
  <2>1. PICK x : /\ finished' = [finished EXCEPT ![r] = Append(finished[r], x)]
                 /\ pc[r] = "running"
                 /\ pc' = [pc EXCEPT ![r] = IF Len(finished[r]) + 1 = FilesOf(r) THEN "answered" ELSE "running"]
                 /\ UNCHANGED <<request, day, today>>
    BY <1>5 DEF FileDone, Goto
  <2>2. finished[r] \in Seq(Range(finished[r])) /\ finished = [q \in Requests |-> finished[q]]
    BY DEF TypesOK
  <2>3. Len(Append(finished[r], x)) = Len(finished[r]) + 1 /\ Len(finished[r]) \in Nat
    <3>1. PICK K : K = Range(finished[r]) \cup {x}
      OBVIOUS
    <3>2. finished[r] \in Seq(K)
      BY <2>2, <3>1
    <3> QED
      BY <3>1, <3>2
  <2>4. FilesOf(r) \in Nat /\ Len(finished[r]) < FilesOf(r) /\ FilesOf(r) > 0
    BY <2>1, UploadAssumption DEF RequestsOK, TypesOK
  <2>5. finished'[r] = Append(finished[r], x) /\ \A q \in Requests : q # r => finished'[q] = finished[q]
    BY <2>1, <2>2
  <2>6. \A q \in Requests : pc'[q] = IF q = r THEN IF Len(finished[r]) + 1 = FilesOf(r) THEN "answered" ELSE "running"
                                     ELSE pc[q]
    BY <2>1 DEF TypesOK
  <2> QED
    BY <1>1, <2>1, <2>3, <2>4, <2>5, <2>6 DEF RequestsOK, FilesOf
<1>6. ASSUME NEW r \in Requests, FileFails(r)
      PROVE  RequestsOK'
  BY <1>1, <1>6 DEF FileFails, Goto, RequestsOK, FilesOf, TypesOK
<1>7. ASSUME NEW r \in Requests, pc[r] = "tracking", UNCHANGED <<request, today, finished, day>>,
             \E to \in {"running", "refused"} : pc' = [pc EXCEPT ![r] = to]
      PROVE  RequestsOK'
  <2>1. finished[r] = <<>> /\ Len(finished[r]) = 0 /\ FilesOf(r) > 0
    BY <1>7 DEF RequestsOK
  <2> QED
    BY <1>1, <1>7, <2>1 DEF RequestsOK, FilesOf, TypesOK
<1>8. ASSUME NEW r \in Requests, Charge(r) \/ Refuse(r) \/ RefuseBusy(r)
      PROVE  RequestsOK'
  <2>1. /\ pc[r] = "tracking" /\ UNCHANGED <<request, today, finished, day>>
        /\ \E to \in {"running", "refused"} : pc' = [pc EXCEPT ![r] = to]
    BY <1>8 DEF Charge, Refuse, RefuseBusy, Goto
  <2> QED
    BY <1>7, <2>1
<1> QED
  BY <1>2, <1>3, <1>4, <1>5, <1>6, <1>8 DEF Next

(* Who was let through stays so, and its files do not change. *)
LEMMA ChargedRequestsStay ==
    ASSUME TypesOK, ChargesOK, [Next]_vars
    PROVE  /\ \A r \in Requests : pc[r] \in {"running", "answered", "failed"}
                 => pc'[r] \in {"running", "answered", "failed"}
           /\ \A u \in Users, d \in Days :
                /\ charged[u][d] \in SUBSET Requests
                /\ \A r \in charged[u][d] : request'[r] = request[r]
<1>1. ASSUME NEW q \in Requests, pc[q] \in {"running", "answered", "failed"}
      PROVE  pc'[q] \in {"running", "answered", "failed"} /\ request'[q] = request[q]
  <2>1. CASE UNCHANGED <<pc, request>>
    BY <1>1, <2>1
  <2>2. ASSUME NEW r \in Requests, Reject(r) \/ Unmetered(r) \/ ReadDay(r)
        PROVE  pc'[q] = pc[q] /\ request'[q] = request[q]
    <3>1. Parse(r) /\ pc[r] = "new" /\ \E to : pc' = [pc EXCEPT ![r] = to]
      BY <2>2 DEF Reject, Unmetered, ReadDay, Goto
    <3>2. q # r
      BY <1>1, <3>1
    <3> QED
      BY <3>1, <3>2, ParseFacts DEF TypesOK
  <2>3. ASSUME NEW r \in Requests, Charge(r) \/ Refuse(r) \/ RefuseBusy(r)
        PROVE  pc'[q] = pc[q] /\ request' = request
    <3>1. pc[r] = "tracking" /\ request' = request /\ \E to : pc' = [pc EXCEPT ![r] = to]
      BY <2>3 DEF Charge, Refuse, RefuseBusy, Goto
    <3> QED
      BY <1>1, <3>1 DEF TypesOK
  <2>4. ASSUME NEW r \in Requests, FileDone(r) \/ FileFails(r)
        PROVE  pc'[q] \in {"running", "answered", "failed"} /\ request' = request
    <3>1. request' = request /\ \E to \in {"running", "answered", "failed"} : pc' = [pc EXCEPT ![r] = to]
      BY <2>4 DEF FileDone, FileFails, Goto
    <3> QED
      BY <1>1, <3>1 DEF TypesOK
  <2> QED
    BY <1>1, <2>1, <2>2, <2>3, <2>4 DEF Next, Midnight, vars
<1> QED
  BY <1>1 DEF ChargesOK, TypesOK

LEMMA ChargesStep ==
    ASSUME TypesOK, RequestsOK, ChargesOK, [Next]_vars
    PROVE  ChargesOK'
<1>1. day \in Nat /\ \A d \in Days : d \in Nat
  BY UsageAssumption DEF TypesOK, Days
<1>2. \A r \in Requests : pc[r] \in {"running", "answered", "failed"}
                          => pc'[r] \in {"running", "answered", "failed"}
  BY ChargedRequestsStay
<1>3. CASE UNCHANGED <<day, entries, charged>>
  BY <1>2, <1>3 DEF ChargesOK, TypesOK
<1>4. CASE Midnight
  <2>1. day' = day + 1 /\ UNCHANGED <<entries, charged>>
    BY <1>4 DEF Midnight
  <2>2. \A i \in Index : entries'[i].day <= day'
    <3>1. \A i \in Index : entries[i].day \in Nat /\ entries[i].day <= day
      BY <1>1 DEF TypesOK, ChargesOK
    <3> QED
      BY <1>1, <2>1, <3>1
  <2>3. ASSUME NEW u \in Users, NEW d \in Days
        PROVE  /\ charged'[u][d] # {} => d <= day'
               /\ \A q \in charged'[u][d] : pc'[q] \in {"running", "answered", "failed"}
    <3>1. PICK rs : rs = charged[u][d]
      OBVIOUS
    <3>2. /\ rs \in SUBSET Requests /\ charged'[u][d] = rs /\ (rs # {} => d <= day)
          /\ \A q \in rs : pc[q] \in {"running", "answered", "failed"}
      BY <2>1, <3>1 DEF ChargesOK, TypesOK
    <3> QED
      BY <1>1, <1>2, <2>1, <3>2
  <2> QED
    BY <2>2, <2>3 DEF ChargesOK
<1>5. ASSUME NEW r \in Requests, Charge(r)
      PROVE  ChargesOK'
  <2>1. PICK i \in Index :
             /\ Chosen(r, i) /\ pc[r] = "tracking"
             /\ Fits(Entry(r, i), r)
             /\ entries'[i] = Charged(Entry(r, i), r)
             /\ \A j \in Index : j # i => entries'[j] = entries[j]
             /\ \A u \in Users, d \in Days :
                  charged'[u][d] = IF u = UserOf[r] /\ d = today[r] THEN charged[u][d] \cup {r}
                                   ELSE charged[u][d]
             /\ UNCHANGED day
             /\ pc' = [pc EXCEPT ![r] = "running"]
    BY <1>5, ChargeFacts DEF Chosen
  <2>2. entries'[i].day = today[r]
    <3>1. PICK e : e = Entry(r, i)
      OBVIOUS
    <3>2. e \in Entries /\ e.day = today[r] /\ Fits(e, r)
      BY <2>1, <3>1, EntryFacts
    <3>3. Charged(e, r).day = e.day
      BY <3>2, ChargedFacts
    <3> QED
      BY <2>1, <3>1, <3>2, <3>3
  <2>3. today[r] <= day /\ pc'[r] = "running"
    BY <2>1 DEF RequestsOK, TypesOK
  <2>4. \A j \in Index : entries'[j].day <= day'
    BY <2>1, <2>2, <2>3 DEF ChargesOK
  <2>5. ASSUME NEW u \in Users, NEW d \in Days
        PROVE  /\ charged'[u][d] # {} => d <= day'
               /\ \A q \in charged'[u][d] : pc'[q] \in {"running", "answered", "failed"}
    <3>1. PICK rs : rs = charged[u][d]
      OBVIOUS
    <3>2. /\ rs \in SUBSET Requests /\ (rs # {} => d <= day)
          /\ \A q \in rs : pc[q] \in {"running", "answered", "failed"}
      BY <3>1 DEF ChargesOK, TypesOK
    <3>3. charged'[u][d] = rs \/ (d = today[r] /\ charged'[u][d] = rs \cup {r})
      BY <2>1, <3>1
    <3> QED
      BY <1>2, <2>1, <2>3, <3>2, <3>3
  <2> QED
    BY <2>4, <2>5 DEF ChargesOK
<1>6. ASSUME NEW r \in Requests, Refuse(r)
      PROVE  UNCHANGED <<day, entries, charged>>
  BY <1>6, RefuseFacts
<1> QED
  BY <1>3, <1>4, <1>5, <1>6, QuietSteps DEF Quiet

(* What the requests let through use up does not change later. *)
LEMMA UseStays ==
    ASSUME TypesOK, ChargesOK, [Next]_vars, NEW u \in Users, NEW d \in Days,
           NEW rs, rs = charged[u][d]
    PROVE  Jobs(rs)' = Jobs(rs) /\ Bytes(rs)' = Bytes(rs)
BY ChargedRequestsStay, UseKept

LEMMA CoveredStep ==
    ASSUME TypesOK, RequestsOK, ChargesOK, Covered, [Next]_vars
    PROVE  Covered'
<1>1. \A i \in Index : entries[i].user # Nobody => entries[i].user \in Users /\ entries[i].day \in Days
  BY DEF TypesOK
<1> DEFINE CoversNext(e, rs) == /\ rs # {}
                                /\ e.jobs <= Jobs(rs)' /\ e.bytes <= Bytes(rs)'
<1>2. ASSUME NEW i \in Index, entries'[i] = entries[i], entries[i].user # Nobody,
             charged'[entries[i].user][entries[i].day] = charged[entries[i].user][entries[i].day],
             NEW rs, rs = charged[entries[i].user][entries[i].day]
      PROVE  CoversNext(entries[i], rs)
  <2>1. PICK u, d : u = entries[i].user /\ d = entries[i].day
    OBVIOUS
  <2>2. u \in Users /\ d \in Days /\ rs = charged[u][d]
    BY <1>1, <1>2, <2>1
  <2>3. Jobs(rs)' = Jobs(rs) /\ Bytes(rs)' = Bytes(rs)
    BY <2>2, UseStays
  <2>4. rs # {} /\ entries[i].jobs <= Jobs(rs) /\ entries[i].bytes <= Bytes(rs)
    BY <1>2 DEF Covered
  <2> QED
    BY <2>3, <2>4
<1>3. SUFFICES ASSUME NEW i \in Index, NEW e, e = entries'[i], e.user # Nobody,
                      NEW rs, rs = charged'[e.user][e.day]
               PROVE  CoversNext(e, rs)
  BY DEF Covered, Jobs, Bytes, FilesOf, BytesOf
<1> HIDE DEF CoversNext
<1>4. CASE UNCHANGED <<entries, charged>>
  BY <1>2, <1>3, <1>4
<1>5. ASSUME NEW r \in Requests, Charge(r)
      PROVE  CoversNext(e, rs)
  <2>1. PICK k \in Index :
             /\ Chosen(r, k) /\ pc[r] = "tracking"
             /\ Fits(Entry(r, k), r)
             /\ entries'[k] = Charged(Entry(r, k), r)
             /\ \A j \in Index : j # k => entries'[j] = entries[j]
             /\ \A u \in Users, d \in Days :
                  charged'[u][d] = IF u = UserOf[r] /\ d = today[r] THEN charged[u][d] \cup {r}
                                   ELSE charged[u][d]
    BY <1>5, ChargeFacts DEF Chosen
  <2>2. PICK old, before : old = Entry(r, k) /\ before = charged[UserOf[r]][today[r]]
    OBVIOUS
  <2>3. /\ UserOf[r] \in Users /\ today[r] \in Days /\ UserOf[r] # Nobody
        /\ old \in Entries /\ old.user = UserOf[r] /\ old.day = today[r]
        /\ \/ Mine(entries[k], r) /\ old = entries[k]
           \/ old.jobs = 0 /\ old.bytes = 0
    BY <2>1, <2>2, EntryFacts
  <2>4. before \in SUBSET Requests /\ r \notin before
    <3>1. PICK u, d : u = UserOf[r] /\ d = today[r]
      OBVIOUS
    <3>2. u \in Users /\ d \in Days /\ before = charged[u][d]
      BY <2>2, <2>3, <3>1
    <3>3. before \in SUBSET Requests /\ \A q \in before : pc[q] \in {"running", "answered", "failed"}
      BY <3>2 DEF ChargesOK, TypesOK
    <3> QED
      BY <2>1, <3>3
  <2>5. Jobs(before) \in Nat /\ Bytes(before) \in Nat
    BY <2>4, UseFacts
  <2>6. old.jobs <= Jobs(before) /\ old.bytes <= Bytes(before)
    <3>1. CASE Mine(entries[k], r) /\ old = entries[k]
      BY <2>2, <2>3, <3>1 DEF Covered, Mine
    <3>2. CASE old.jobs = 0 /\ old.bytes = 0
      BY <2>5, <3>2
    <3> QED
      BY <2>3, <3>1, <3>2
  <2>7. PICK after : after = before \cup {r}
    OBVIOUS
  <2>8. /\ Jobs(after) = Jobs(before) + FilesOf(r) /\ Bytes(after) = Bytes(before) + BytesOf(r)
        /\ Jobs(after)' = Jobs(after) /\ Bytes(after)' = Bytes(after)
    <3>1. request' = request
      BY <1>5 DEF Charge
    <3> QED
      BY <2>4, <2>7, <3>1, UseFacts, UseKept
  <2>9. CASE i = k
    <3>1. /\ e.user = UserOf[r] /\ e.day = today[r]
          /\ e.jobs = old.jobs + FilesOf(r) /\ e.bytes = old.bytes + BytesOf(r)
      BY <1>3, <2>1, <2>2, <2>3, <2>9, ChargedFacts
    <3>2. rs = after
      BY <1>3, <2>1, <2>2, <2>3, <2>7, <3>1
    <3>3. FilesOf(r) \in Nat /\ BytesOf(r) \in Nat /\ old.jobs \in Nat /\ old.bytes \in Nat
      BY <2>3, UploadAssumption, UsageAssumption DEF TypesOK, Entries
    <3>4. e.jobs <= Jobs(after)' /\ e.bytes <= Bytes(after)' /\ after # {}
      BY <2>5, <2>6, <2>7, <2>8, <3>1, <3>3
    <3> QED
      BY <3>2, <3>4 DEF CoversNext
  <2>10. CASE i # k /\ e.user = UserOf[r] /\ e.day = today[r]
    <3>1. e = entries[i] /\ rs = after
      BY <1>3, <2>1, <2>2, <2>3, <2>7, <2>10
    <3>2. e.jobs <= Jobs(before) /\ e.bytes <= Bytes(before)
      BY <1>3, <2>2, <2>10, <3>1 DEF Covered
    <3>3. FilesOf(r) \in Nat /\ BytesOf(r) \in Nat /\ e.jobs \in Nat /\ e.bytes \in Nat
      BY <3>1, UploadAssumption, UsageAssumption DEF TypesOK
    <3>4. e.jobs <= Jobs(after)' /\ e.bytes <= Bytes(after)' /\ after # {}
      BY <2>5, <2>7, <2>8, <3>2, <3>3
    <3> QED
      BY <3>1, <3>4 DEF CoversNext
  <2>11. CASE i # k /\ ~(e.user = UserOf[r] /\ e.day = today[r])
    <3>1. e = entries[i]
      BY <1>3, <2>1, <2>11
    <3>2. e.user \in Users /\ e.day \in Days
      BY <1>1, <1>3, <3>1
    <3>3. charged'[e.user][e.day] = charged[e.user][e.day]
      BY <2>1, <2>11, <3>2
    <3> QED
      BY <1>2, <1>3, <3>1, <3>3
  <2> QED
    BY <2>9, <2>10, <2>11
<1>6. ASSUME NEW r \in Requests, Refuse(r)
      PROVE  UNCHANGED <<entries, charged>>
  BY <1>6, RefuseFacts
<1> QED
  BY <1>4, <1>5, <1>6, QuietSteps DEF Quiet, Midnight

(* Without a straddle, the entry a request finds counts what its user was  *)
(* let through with today, and is the first not in use by somebody else.   *)
LEMMA ChosenToday ==
    ASSUME TypesOK, RequestsOK, ChargesOK, Account, NEW r \in Requests,
           pc[r] = "tracking", today[r] = day, NEW i, Chosen(r, i)
    PROVE  /\ \A j \in Index : Mine(entries[j], r) => j = i
           /\ Entry(r, i).jobs = Jobs(charged[UserOf[r]][day])
           /\ Entry(r, i).bytes = Bytes(charged[UserOf[r]][day])
           /\ \A j \in Index : j < i => Current(j)
           /\ \A u \in Users : entries[i].user = u /\ entries[i].day = day => u = UserOf[r]
<1>1. /\ i \in Index /\ UserOf[r] \in Users /\ UserOf[r] # Nobody
      /\ \/ Mine(entries[i], r) /\ Entry(r, i) = entries[i]
         \/ /\ ~Mine(entries[i], r) /\ Reusable(entries[i], r)
            /\ Entry(r, i).jobs = 0 /\ Entry(r, i).bytes = 0
      /\ \A j \in Index : j < i => ~Mine(entries[j], r) /\ ~Reusable(entries[j], r)
  BY EntryFacts
<1>2. \A j \in Index : j \in Nat
  BY UsageAssumption DEF Index
<1>3. /\ \A k, j \in Index :
           entries[k].user # Nobody /\ entries[k].user = entries[j].user /\ entries[k].day = entries[j].day
           => k = j
      /\ \A k, j \in Index : k < j /\ Current(j) => Current(k)
      /\ \A u \in Users : charged[u][day] # {} => InTable(u, day) # {}
      /\ \A k \in Index : Current(k) =>
           /\ entries[k].jobs = Jobs(charged[entries[k].user][day])
           /\ entries[k].bytes = Bytes(charged[entries[k].user][day])
  BY DEF Account
<1>4. \A j \in Index : Mine(entries[j], r) => Current(j)
  BY <1>1 DEF Mine, Current
<1>5. \A j \in Index : Mine(entries[j], r) => j = i
  <2>1. SUFFICES ASSUME NEW j \in Index, Mine(entries[j], r) PROVE j = i
    OBVIOUS
  <2>2. CASE Mine(entries[i], r)
    BY <1>1, <1>3, <2>1, <2>2 DEF Mine
  <2>3. CASE Reusable(entries[i], r)
    <3>1. ~Current(i)
      BY <2>3 DEF Reusable, Current
    <3>2. ~(i < j) /\ ~(j < i)
      BY <1>1, <1>3, <1>4, <2>1, <3>1
    <3> QED
      BY <1>1, <1>2, <3>2
  <2> QED
    BY <1>1, <2>2, <2>3
<1>6. \A u \in Users : entries[i].user = u /\ entries[i].day = day => u = UserOf[r]
  BY <1>1 DEF Mine, Reusable, Users
<1>7. \A j \in Index : j < i => Current(j)
  BY <1>1 DEF Reusable, Current
<1>8. /\ Entry(r, i).jobs = Jobs(charged[UserOf[r]][day])
      /\ Entry(r, i).bytes = Bytes(charged[UserOf[r]][day])
  <2>1. CASE Mine(entries[i], r) /\ Entry(r, i) = entries[i]
    <3>1. Current(i) /\ entries[i].user = UserOf[r]
      BY <1>1, <1>4, <2>1 DEF Mine
    <3>2. /\ entries[i].jobs = Jobs(charged[entries[i].user][day])
          /\ entries[i].bytes = Bytes(charged[entries[i].user][day])
      BY <1>1, <1>3, <3>1
    <3> QED
      BY <2>1, <3>1, <3>2
  <2>2. CASE ~Mine(entries[i], r) /\ Entry(r, i).jobs = 0 /\ Entry(r, i).bytes = 0
    <3>1. InTable(UserOf[r], day) = {}
      BY <1>5, <2>2 DEF InTable, Mine
    <3>2. charged[UserOf[r]][day] = {}
      BY <1>1, <1>3, <3>1
    <3>3. Jobs({}) = 0 /\ Bytes({}) = 0
      BY UseFacts
    <3> QED
      BY <2>2, <3>2, <3>3
  <2> QED
    BY <1>1, <2>1, <2>2
<1> QED
  BY <1>5, <1>6, <1>7, <1>8

(* The account after a step, in terms of what the requests now hold. *)
LEMMA AccountStep ==
    ASSUME TypesOK, RequestsOK, ChargesOK, AccountOK, [Next]_vars
    PROVE  AccountOK'
<1>1. SUFFICES ASSUME ~straddled' PROVE Account'
  BY DEF AccountOK
<1>2. ~straddled
  BY <1>1, QuietSteps DEF Quiet, Midnight, Charge, Refuse
<1>3. Account
  BY <1>2 DEF AccountOK
<1>4. \A u \in Users, d \in Days : \A rs : rs = charged[u][d] =>
        Jobs(rs)' = Jobs(rs) /\ Bytes(rs)' = Bytes(rs)
  BY UseStays
<1>5. \A i \in Index : Current(i) => entries[i].user \in Users
  BY DEF TypesOK, Current
<1>6. day \in Days /\ \A d \in Days : d \in Nat
  BY UsageAssumption DEF TypesOK, Days
<1> DEFINE WithinNext(rs) == Jobs(rs)' <= MaxJobs /\ Bytes(rs)' <= MaxBytes
<1>7. ASSUME UNCHANGED charged
      PROVE  \A u \in Users, d \in Days : \A rs : rs = charged'[u][d] => WithinNext(rs)
  BY <1>3, <1>4, <1>7 DEF Account, Within
<1>8. (\A u \in Users, d \in Days : \A rs : rs = charged'[u][d] => WithinNext(rs))
      => (\A u \in Users, d \in Days : Within(charged[u][d]))'
  BY DEF Within, Jobs, Bytes, FilesOf, BytesOf
<1> HIDE DEF WithinNext
<1> DEFINE CountsNext(i, rs) == entries'[i].jobs = Jobs(rs)' /\ entries'[i].bytes = Bytes(rs)'
<1>9. (\A i \in Index : Current(i)' => \A rs : rs = charged'[entries'[i].user][day'] => CountsNext(i, rs))
      => (\A i \in Index : Current(i) =>
            /\ entries[i].jobs = Jobs(charged[entries[i].user][day])
            /\ entries[i].bytes = Bytes(charged[entries[i].user][day]))'
  BY DEF Jobs, Bytes, FilesOf, BytesOf
<1>10. ASSUME NEW i \in Index, Current(i), entries'[i] = entries[i], day' = day,
              charged'[entries[i].user][day] = charged[entries[i].user][day],
              NEW rs, rs = charged'[entries'[i].user][day']
       PROVE  CountsNext(i, rs)
  <2>1. PICK u : u = entries[i].user
    OBVIOUS
  <2>2. u \in Users /\ rs = charged[u][day]
    BY <1>5, <1>10, <2>1
  <2>3. Jobs(rs)' = Jobs(rs) /\ Bytes(rs)' = Bytes(rs)
    BY <1>4, <1>6, <2>2
  <2>4. entries[i].jobs = Jobs(rs) /\ entries[i].bytes = Bytes(rs)
    BY <1>3, <1>10, <2>1, <2>2 DEF Account
  <2> QED
    BY <1>10, <2>3, <2>4
<1> HIDE DEF CountsNext
<1>11. CASE UNCHANGED <<day, entries, charged>>
  <2>1. \A i \in Index : Current(i)' => \A rs : rs = charged'[entries'[i].user][day'] => CountsNext(i, rs)
    BY <1>10, <1>11 DEF Current
  <2>2. /\ \A i, j \in Index :
             /\ entries[i].user # Nobody
             /\ entries[i].user = entries[j].user /\ entries[i].day = entries[j].day
             => i = j
        /\ \A i, j \in Index : i < j /\ Current(j) => Current(i)
        /\ \A u \in Users : charged[u][day] # {} => InTable(u, day) # {}
    BY <1>3 DEF Account
  <2> QED
    BY <1>7, <1>8, <1>9, <1>11, <2>1, <2>2 DEF Account, Current, InTable
<1>12. CASE Midnight
  <2>1. day' = day + 1 /\ day' \in Days /\ UNCHANGED <<entries, charged>>
    BY <1>6, <1>12, UsageAssumption DEF Midnight, Days
  <2>2. \A i \in Index : ~Current(i)'
    <3>1. \A i \in Index : entries[i].day \in Days /\ entries[i].day <= day
      BY DEF TypesOK, ChargesOK
    <3> QED
      BY <1>6, <2>1, <3>1 DEF Current
  <2>3. \A u \in Users : charged'[u][day'] = {}
    BY <1>6, <2>1 DEF ChargesOK
  <2>4. \A i, j \in Index :
             /\ entries'[i].user # Nobody
             /\ entries'[i].user = entries'[j].user /\ entries'[i].day = entries'[j].day
             => i = j
    BY <1>3, <2>1 DEF Account
  <2> QED
    BY <1>7, <1>8, <1>9, <2>1, <2>2, <2>3, <2>4 DEF Account
<1>13. ASSUME NEW r \in Requests, Charge(r)
       PROVE  Account'
  <2>1. PICK k \in Index :
             /\ Chosen(r, k) /\ pc[r] = "tracking"
             /\ Fits(Entry(r, k), r)
             /\ entries'[k] = Charged(Entry(r, k), r)
             /\ \A j \in Index : j # k => entries'[j] = entries[j]
             /\ \A u \in Users, d \in Days :
                  charged'[u][d] = IF u = UserOf[r] /\ d = today[r] THEN charged[u][d] \cup {r}
                                   ELSE charged[u][d]
             /\ straddled' = (straddled \/ today[r] # day)
             /\ UNCHANGED <<day, request>>
    BY <1>13, ChargeFacts DEF Chosen
  <2>2. today[r] = day
    BY <1>1, <2>1
  <2>3. PICK u, old, before : u = UserOf[r] /\ old = Entry(r, k) /\ before = charged[u][day]
    OBVIOUS
  <2>4. u \in Users /\ u # Nobody /\ old \in Entries /\ old.user = u /\ old.day = day
    BY <2>1, <2>2, <2>3, EntryFacts
  <2>5. /\ \A j \in Index : Mine(entries[j], r) => j = k
        /\ old.jobs = Jobs(before) /\ old.bytes = Bytes(before)
        /\ \A j \in Index : j < k => Current(j)
        /\ \A v \in Users : entries[k].user = v /\ entries[k].day = day => v = u
    BY <1>3, <2>1, <2>2, <2>3, ChosenToday
  <2>6. /\ entries'[k].user = u /\ entries'[k].day = day
        /\ entries'[k].jobs = old.jobs + FilesOf(r) /\ entries'[k].bytes = old.bytes + BytesOf(r)
        /\ old.jobs + FilesOf(r) <= MaxJobs /\ old.bytes + BytesOf(r) <= MaxBytes
    <3>1. Fits(old, r) /\ entries'[k] = Charged(old, r)
      BY <2>1, <2>3
    <3> QED
      BY <2>4, <3>1, ChargedFacts DEF Fits
  <2>7. \A j \in Index : j # k => ~(entries[j].user = u /\ entries[j].day = day)
    BY <2>2, <2>3, <2>5 DEF Mine
  <2>8. before \in SUBSET Requests /\ r \notin before
    <3>1. before \in SUBSET Requests /\ \A q \in before : pc[q] \in {"running", "answered", "failed"}
      BY <1>6, <2>3, <2>4 DEF ChargesOK, TypesOK
    <3> QED
      BY <2>1, <3>1
  <2>9. PICK after : after = before \cup {r}
    OBVIOUS
  <2>10. /\ Jobs(after)' = old.jobs + FilesOf(r) /\ Bytes(after)' = old.bytes + BytesOf(r)
    BY <2>1, <2>5, <2>8, <2>9, UseFacts, UseKept
  <2>11. \A v \in Users, d \in Days :
           charged'[v][d] = IF v = u /\ d = day THEN after ELSE charged[v][d]
    BY <2>1, <2>2, <2>3, <2>9
  <2>12. \A i \in Index : Current(i)' => \A rs : rs = charged'[entries'[i].user][day'] => CountsNext(i, rs)
    <3>1. SUFFICES ASSUME NEW i \in Index, Current(i)',
                          NEW rs, rs = charged'[entries'[i].user][day']
                   PROVE  CountsNext(i, rs)
      OBVIOUS
    <3>2. CASE i = k
      <4>1. rs = after
        BY <1>6, <2>1, <2>4, <2>6, <2>11, <3>1, <3>2
      <4> QED
        BY <2>6, <2>10, <3>2, <4>1 DEF CountsNext
    <3>3. CASE i # k
      <4>1. Current(i) /\ entries'[i] = entries[i] /\ day' = day
        BY <2>1, <3>1, <3>3 DEF Current
      <4>2. entries[i].user \in Users /\ entries[i].user # u
        BY <1>5, <2>7, <3>3, <4>1 DEF Current
      <4>3. charged'[entries[i].user][day] = charged[entries[i].user][day]
        BY <1>6, <2>11, <4>2
      <4> QED
        BY <1>10, <3>1, <4>1, <4>3
    <3> QED
      BY <3>2, <3>3
  <2>13. \A v \in Users, d \in Days : \A rs : rs = charged'[v][d] => WithinNext(rs)
    <3>1. SUFFICES ASSUME NEW v \in Users, NEW d \in Days, NEW rs, rs = charged'[v][d]
                   PROVE  WithinNext(rs)
      OBVIOUS
    <3>2. CASE rs = after
      BY <2>6, <2>10, <3>2 DEF WithinNext
    <3>3. CASE rs = charged[v][d]
      BY <1>3, <1>4, <3>3 DEF Account, Within, WithinNext
    <3> QED
      BY <2>11, <3>1, <3>2, <3>3
  <2>14. \A i, j \in Index :
             /\ entries'[i].user # Nobody
             /\ entries'[i].user = entries'[j].user /\ entries'[i].day = entries'[j].day
             => i = j
    <3>1. SUFFICES ASSUME NEW i \in Index, NEW j \in Index, entries'[i].user # Nobody,
                          entries'[i].user = entries'[j].user, entries'[i].day = entries'[j].day
                   PROVE  i = j
      OBVIOUS
    <3>2. CASE i # k /\ j # k
      BY <1>3, <2>1, <3>1, <3>2 DEF Account
    <3>3. CASE i = k \/ j = k
      BY <2>1, <2>6, <2>7, <3>1, <3>3
    <3> QED
      BY <3>2, <3>3
  <2>15. \A i, j \in Index : i < j /\ Current(j)' => Current(i)'
    <3>1. SUFFICES ASSUME NEW i \in Index, NEW j \in Index, i < j, Current(j)'
                   PROVE  Current(i)'
      OBVIOUS
    <3>2. CASE i = k
      BY <2>1, <2>4, <2>6, <3>2 DEF Current
    <3>3. CASE i # k
      <4>1. Current(i)
        <5>1. CASE j = k
          BY <2>5, <3>1, <5>1
        <5>2. CASE j # k
          <6>1. Current(j)
            BY <2>1, <3>1, <5>2 DEF Current
          <6> QED
            BY <1>3, <3>1, <6>1 DEF Account
        <5> QED
          BY <5>1, <5>2
      <4> QED
        BY <2>1, <3>3, <4>1 DEF Current
    <3> QED
      BY <3>2, <3>3
  <2>16. \A v \in Users : charged'[v][day'] # {} => InTable(v, day)' # {}
    <3>1. SUFFICES ASSUME NEW v \in Users, charged'[v][day'] # {}
                   PROVE  \E i \in Index : entries'[i].user = v /\ entries'[i].day = day'
      BY DEF InTable
    <3>2. CASE v = u
      BY <2>1, <2>6, <3>2
    <3>3. CASE v # u
      <4>1. charged[v][day] # {}
        BY <1>6, <2>1, <2>11, <3>1, <3>3
      <4>2. PICK i \in Index : entries[i].user = v /\ entries[i].day = day
        BY <1>3, <4>1 DEF Account, InTable
      <4>3. i # k
        BY <2>5, <3>3, <4>2
      <4> QED
        BY <2>1, <4>2, <4>3
    <3> QED
      BY <3>2, <3>3
  <2> QED
    BY <1>8, <1>9, <2>12, <2>13, <2>14, <2>15, <2>16 DEF Account
<1>14. ASSUME NEW r \in Requests, Refuse(r)
       PROVE  UNCHANGED <<day, entries, charged>>
  BY <1>14, RefuseFacts
<1> QED
  BY <1>11, <1>12, <1>13, <1>14, QuietSteps DEF Quiet
-----------------------------------------------------------------------------
LEMMA UsageInit == Init => UsageInv
<1> SUFFICES ASSUME Init PROVE UsageInv
  OBVIOUS
<1>1. /\ body \in Batches /\ day = 0 /\ straddled = FALSE
      /\ \A r \in Requests : request[r] = [files |-> <<>>, total |-> 0]
      /\ \A r \in Requests : pc[r] = "new" /\ today[r] = 0 /\ finished[r] = <<>>
      /\ \A u \in Users, d \in Days : charged[u][d] = {}
      /\ \A i \in Index : entries[i] = [user |-> Nobody, day |-> 0, jobs |-> 0, bytes |-> 0]
  BY DEF Init
<1>2. 0 \in Days /\ 0 \in 0 .. MaxJobs /\ 0 \in 0 .. MaxBytes /\ 0 \in 0 .. MaxFiles /\ 0 \in 0 .. MaxTotal
  BY UsageAssumption, UploadAssumption DEF Days
<1>3. \A r \in Requests : FilesOf(r) = 0 /\ BytesOf(r) = 0
  BY <1>1 DEF FilesOf, BytesOf
<1>4. TypesOK
  <2>1. <<>> \in Seq(Range(<<>>))
    OBVIOUS
  <2>2. \A r \in Requests : finished[r] \in Seq(Range(finished[r]))
    BY <1>1, <2>1
  <2>3. charged \in [Users -> [Days -> SUBSET Requests]]
    BY DEF Init
  <2>4. request = [r \in Requests |-> request[r]] /\ finished = [r \in Requests |-> finished[r]]
    BY DEF Init
  <2>5. entries \in [Index -> [user : Users \cup {Nobody}, day : Days,
                               jobs : 0 .. MaxJobs, bytes : 0 .. MaxBytes]]
    BY <1>2 DEF Init
  <2>6. /\ pc \in [Requests -> {"new", "rejected", "tracking", "running",
                                "refused", "answered", "failed"}]
        /\ today \in [Requests -> Days]
    BY <1>2 DEF Init
  <2> QED
    BY <1>1, <1>2, <1>3, <2>2, <2>3, <2>4, <2>5, <2>6 DEF TypesOK
<1>5. RequestsOK /\ ChargesOK /\ Covered
  BY <1>1, <1>3 DEF RequestsOK, ChargesOK, Covered
<1>6. AccountOK
  <2>1. \A i \in Index : ~Current(i) /\ entries[i].user = Nobody
    BY <1>1 DEF Current
  <2>2. Jobs({}) = 0 /\ Bytes({}) = 0
    BY <1>4, UseFacts
  <2>3. Within({})
    BY <2>2, UsageAssumption DEF Within
  <2> QED
    BY <1>1, <1>2, <2>1, <2>3 DEF AccountOK, Account
<1> QED
  BY <1>4, <1>5, <1>6 DEF UsageInv

LEMMA UsageInvariant == Spec => []UsageInv
<1>1. UsageInv /\ [Next]_vars => UsageInv'
  BY TypesStep, RequestsStep, ChargesStep, CoveredStep, AccountStep DEF UsageInv
<1> QED
  BY <1>1, UsageInit, PTL DEF Spec

(* As long as no request locks the table a day after it read the clock, no *)
(* user is let through with more than the day's files and bytes, whatever  *)
(* the size of the table and the order of the requests.                    *)
THEOREM NobodyExceedsTheQuota == Spec => []CapUnlessStraddled
<1>1. UsageInv => CapUnlessStraddled
  BY DEF UsageInv, AccountOK, Account, CapUnlessStraddled
<1> QED
  BY <1>1, UsageInvariant, PTL

(* The table is well-typed, and until a request straddles midnight it is   *)
(* an account of the day, one entry for each user let through.             *)
THEOREM TheTableIsAnAccount == Spec => []TableIsExact
<1>1. ASSUME UsageInv PROVE TypeOK
  <2>1. \A r \in Requests : Len(finished[r]) <= FilesOf(r) /\ FilesOf(r) <= MaxFiles
    <3>1. SUFFICES ASSUME NEW r \in Requests
                   PROVE  Len(finished[r]) <= FilesOf(r) /\ FilesOf(r) <= MaxFiles
      OBVIOUS
    <3>2. FilesOf(r) \in 0 .. MaxFiles /\ MaxFiles \in Nat
      BY <1>1, UploadAssumption DEF UsageInv, TypesOK
    <3>3. finished[r] = <<>> => Len(finished[r]) = 0
      OBVIOUS
    <3>4. pc[r] \in {"new", "rejected", "tracking", "running", "refused", "answered", "failed"}
      BY <1>1 DEF UsageInv, TypesOK
    <3> QED
      BY <1>1, <3>2, <3>3, <3>4, UploadAssumption DEF UsageInv, RequestsOK
  <2> QED
    BY <1>1, <2>1 DEF UsageInv, TypesOK, TypeOK
<1>2. ASSUME UsageInv, ~straddled, NEW u \in Users
      PROVE  LET mine == {i \in Index : entries[i].user = u /\ entries[i].day = day} IN
             /\ Cardinality(mine) <= 1
             /\ charged[u][day] # {} => mine # {}
             /\ \A i \in mine : /\ entries[i].jobs = Jobs(charged[u][day])
                                /\ entries[i].bytes = Bytes(charged[u][day])
  <2> DEFINE mine == {i \in Index : entries[i].user = u /\ entries[i].day = day}
  <2>1. Account /\ u # Nobody
    BY <1>2 DEF UsageInv, AccountOK, Users
  <2>2. \A i, j \in mine : i = j
    BY <2>1 DEF Account
  <2>3. Cardinality(mine) <= 1
    <3> HIDE DEF mine
    <3>1. CASE mine = {}
      BY <3>1, FS_EmptySet
    <3>2. CASE mine # {}
      <4>1. PICK i : mine = {i}
        BY <2>2, <3>2
      <4> QED
        BY <4>1, FS_Singleton
    <3> QED
      BY <3>1, <3>2
  <2>4. charged[u][day] # {} => mine # {}
    BY <2>1 DEF Account, InTable
  <2>5. \A i \in mine : /\ entries[i].jobs = Jobs(charged[u][day])
                        /\ entries[i].bytes = Bytes(charged[u][day])
    BY <2>1 DEF Account, Current
  <2> QED
    BY <2>3, <2>4, <2>5
<1>3. UsageInv => TableIsExact
  BY <1>1, <1>2 DEF TableIsExact
<1> QED
  BY <1>3, UsageInvariant, PTL

(* What a refusal shows.  Of a quota: the user's entry counts no more than *)
(* the user was let through with on that day.  Of the whole table: each of *)
(* its entries counts somebody else's requests of that day.                *)
LEMMA RefusalHasAReason ==
    ASSUME UsageInv, [Next]_vars, NEW r \in Requests, pc[r] = "tracking", pc'[r] = "refused"
    PROVE  \/ ~Within(charged[UserOf[r]][today[r]] \cup {r})
           \/ /\ \A i \in Index : entries[i].user \in Others(r) /\ entries[i].day = today[r]
              /\ ~straddled => Cardinality(Others(r)) >= Slots
<1>1. TypesOK /\ RequestsOK /\ ChargesOK /\ Covered /\ AccountOK
  BY DEF UsageInv
<1>2. UserOf[r] \in Users /\ UserOf[r] # Nobody /\ today[r] \in Days
  BY <1>1 DEF RequestsOK, TypesOK, Users
<1>3. Refuse(r) \/ RefuseBusy(r)
  <2>1. ~UNCHANGED pc
    OBVIOUS
  <2>2. ASSUME NEW q \in Requests, Reject(q) \/ Unmetered(q) \/ ReadDay(q)
        PROVE  FALSE
    <3>1. pc[q] = "new" /\ \E to : pc' = [pc EXCEPT ![q] = to]
      BY <2>2 DEF Reject, Unmetered, ReadDay, Goto
    <3> QED
      BY <1>1, <3>1 DEF TypesOK
  <2>3. ASSUME NEW q \in Requests, FileDone(q) \/ FileFails(q)
        PROVE  FALSE
    <3>1. pc[q] = "running" /\ \E to : pc' = [pc EXCEPT ![q] = to]
      BY <2>3 DEF FileDone, FileFails, Goto
    <3> QED
      BY <1>1, <3>1 DEF TypesOK
  <2>4. ASSUME NEW q \in Requests, Charge(q)
        PROVE  FALSE
    <3>1. pc[q] = "tracking" /\ pc' = [pc EXCEPT ![q] = "running"]
      BY <2>4 DEF Charge, Goto
    <3> QED
      BY <1>1, <3>1 DEF TypesOK
  <2>5. ASSUME NEW q \in Requests, Refuse(q) \/ RefuseBusy(q)
        PROVE  q = r
    <3>1. pc[q] = "tracking" /\ pc' = [pc EXCEPT ![q] = "refused"]
      BY <2>5 DEF Refuse, RefuseBusy, Goto
    <3> QED
      BY <1>1, <3>1 DEF TypesOK
  <2>6. ~Midnight
    BY DEF Midnight
  <2> QED
    BY <2>1, <2>2, <2>3, <2>4, <2>5, <2>6 DEF Next, vars
<1>4. CASE Refuse(r)
  <2>1. PICK i \in Index : ~Fits(entries[i], r) /\ Mine(entries[i], r)
    BY <1>1, <1>4, RefuseFacts DEF Chosen
  <2>2. PICK before : before = charged[UserOf[r]][today[r]]
    OBVIOUS
  <2>3. before \in SUBSET Requests /\ r \notin before
    <3>1. PICK u, d : u = UserOf[r] /\ d = today[r]
      OBVIOUS
    <3>2. u \in Users /\ d \in Days /\ before = charged[u][d]
      BY <1>2, <2>2, <3>1
    <3>3. before \in SUBSET Requests /\ \A q \in before : pc[q] \in {"running", "answered", "failed"}
      BY <1>1, <3>2 DEF ChargesOK, TypesOK
    <3> QED
      BY <3>3
  <2>4. entries[i].jobs <= Jobs(before) /\ entries[i].bytes <= Bytes(before)
    BY <1>1, <1>2, <2>1, <2>2 DEF Covered, Mine
  <2>5. /\ Jobs(before \cup {r}) = Jobs(before) + FilesOf(r)
        /\ Bytes(before \cup {r}) = Bytes(before) + BytesOf(r)
        /\ Jobs(before) \in Nat /\ Bytes(before) \in Nat
    BY <1>1, <2>3, UseFacts
  <2>6. /\ entries[i].jobs \in Nat /\ entries[i].bytes \in Nat
        /\ FilesOf(r) \in Nat /\ BytesOf(r) \in Nat /\ MaxJobs \in Nat /\ MaxBytes \in Nat
    BY <1>1, UploadAssumption, UsageAssumption DEF TypesOK
  <2>7. ~Within(before \cup {r})
    BY <2>1, <2>4, <2>5, <2>6 DEF Within, Fits
  <2> QED
    BY <2>2, <2>7
<1>5. CASE RefuseBusy(r)
  <2>1. \A i \in Index : ~Mine(entries[i], r) /\ ~Reusable(entries[i], r)
    <3> DEFINE Free(i) == i \in Index /\ (Mine(entries[i], r) \/ Reusable(entries[i], r))
    <3>1. SUFFICES ASSUME NEW i \in Index, Free(i) PROVE FALSE
      OBVIOUS
    <3> HIDE DEF Free
    <3>2. i \in Nat /\ \A j \in Index : j \in Nat
      BY UsageAssumption DEF Index
    <3> DEFINE T == {n \in Nat : Free(n)}
    <3>3. T # {} /\ T \in SUBSET Nat
      BY <3>1, <3>2
    <3>4. PICK least \in T : \A n \in T : least <= n
      <4> HIDE DEF T
      <4> QED
        BY <3>3, Least
    <3>5. Free(least) /\ \A j \in 1 .. (least - 1) : ~Free(j)
      BY <3>4
    <3>6. \A j \in 1 .. (least - 1) : j \in Index
      BY <3>5, UsageAssumption DEF Free, Index
    <3>7. Chosen(r, least)
      BY <3>5, <3>6 DEF Chosen, Free
    <3>8. least \in Index
      BY <3>5 DEF Free
    <3> QED
      BY <1>5, <3>7, <3>8 DEF RefuseBusy
  <2>2. \A i \in Index : entries[i].user \in Others(r) /\ entries[i].day = today[r]
    <3>1. SUFFICES ASSUME NEW i \in Index
                   PROVE  entries[i].user \in Others(r) /\ entries[i].day = today[r]
      OBVIOUS
    <3>2. entries[i].user # Nobody /\ entries[i].day = today[r] /\ entries[i].user # UserOf[r]
      BY <2>1 DEF Mine, Reusable
    <3>3. entries[i].user \in Users
      BY <1>1, <3>2 DEF TypesOK
    <3>4. charged[entries[i].user][entries[i].day] # {}
      BY <1>1, <3>2 DEF Covered
    <3> QED
      BY <3>2, <3>3, <3>4 DEF Others
  <2>3. ASSUME ~straddled PROVE Cardinality(Others(r)) >= Slots
    <3>1. IsFiniteSet(Others(r))
      <4>1. PICK image : image = {UserOf[q] : q \in Requests}
        OBVIOUS
      <4>2. [q \in Requests |-> UserOf[q]] \in Surjection(Requests, image)
        BY <4>1 DEF Surjection
      <4>3. IsFiniteSet(image)
        BY <4>2, UsageAssumption, FS_Surjection
      <4>4. Others(r) \in SUBSET image
        BY <4>1 DEF Others, Users
      <4> QED
        BY <4>3, <4>4, FS_Subset
    <3>2. PICK f : f = [i \in Index |-> entries[i].user]
      OBVIOUS
    <3>3. \A i, j \in Index : f[i] = f[j] => i = j
      <4>1. \A i, j \in Index : /\ entries[i].user # Nobody
                                /\ entries[i].user = entries[j].user /\ entries[i].day = entries[j].day
                                => i = j
        BY <1>1, <2>3 DEF AccountOK, Account
      <4>2. \A i \in Index : entries[i].user # Nobody /\ entries[i].day = today[r]
        BY <2>2 DEF Others, Users
      <4> QED
        BY <3>2, <4>1, <4>2
    <3>4. f \in Injection(Index, Others(r))
      BY <2>2, <3>2, <3>3 DEF Injection, IsInjective
    <3>5. Cardinality(Index) <= Cardinality(Others(r))
      BY <3>1, <3>4, FS_Injection
    <3>6. Cardinality(Index) = Slots
      BY UsageAssumption, FS_Interval DEF Index
    <3>7. Cardinality(Others(r)) \in Nat
      BY <3>1, FS_CardinalityType
    <3> QED
      BY <3>5, <3>6, <3>7, UsageAssumption
  <2> QED
    BY <2>2, <2>3
<1> QED
  BY <1>3, <1>4, <1>5

(* Even when the clock turns between a request's reading and the mutex, it *)
(* is refused only for a reason: the day's quota of its user, or a table   *)
(* taken up by the other users of that day.                                *)
THEOREM RefusalsAreJustified == Spec => RefusedForAReason
<1>1. UsageInv /\ [Next]_vars =>
        [\A r \in Requests :
            pc[r] = "tracking" /\ pc'[r] = "refused" =>
                \/ ~Within(charged[UserOf[r]][today[r]] \cup {r})
                \/ /\ \A i \in Index : entries[i].user \in Others(r) /\ entries[i].day = today[r]
                   /\ ~straddled => Cardinality(Others(r)) >= Slots]_vars
  BY RefusalHasAReason
<1> QED
  BY <1>1, UsageInvariant, PTL DEF Spec, RefusedForAReason
-----------------------------------------------------------------------------
(* The parts with a name. *)

IsNaming(parts, f) ==
    f = [n \in 0 .. Len(parts) |->
            IF n = 0 THEN <<>>
            ELSE IF parts[n].kind = "nameless" THEN f[n - 1]
            ELSE Append(f[n - 1], parts[n])]

NamePart(named, p) == IF p.kind = "nameless" THEN named ELSE Append(named, p)

LEMMA NamingExists ==
    ASSUME NEW K, NEW parts \in Seq(K)
    PROVE  \E f : IsNaming(parts, f)
<1> DEFINE Law(m, f) == \A n \in 0 .. m : f[n] = IF n = 0 THEN <<>> ELSE NamePart(f[n - 1], parts[n])
           T == {m \in 0 .. Len(parts) : \E f : Law(m, f)}
<1>1. Len(parts) \in Nat
  OBVIOUS
<1>2. 0 \in T
  <2> DEFINE f == [n \in 0 .. 0 |-> <<>>]
  <2>1. Law(0, f)
    OBVIOUS
  <2> HIDE DEF f, Law
  <2> QED
    BY <1>1, <2>1
<1>3. ASSUME NEW m \in 0 .. Len(parts), m + 1 <= Len(parts), m \in T PROVE m + 1 \in T
  <2>1. PICK f : \A n \in 0 .. m : f[n] = IF n = 0 THEN <<>> ELSE NamePart(f[n - 1], parts[n])
    BY <1>3
  <2> DEFINE g == [n \in 0 .. m + 1 |-> IF n <= m THEN f[n] ELSE NamePart(f[m], parts[m + 1])]
  <2>2. /\ \A n \in 0 .. m : g[n] = f[n]
        /\ g[m + 1] = NamePart(f[m], parts[m + 1])
    BY <1>1
  <2> HIDE DEF g
  <2>3. ASSUME NEW n \in 0 .. m + 1 PROVE g[n] = IF n = 0 THEN <<>> ELSE NamePart(g[n - 1], parts[n])
    <3>1. CASE n \in 0 .. m
      <4>1. n # 0 => n - 1 \in 0 .. m
        BY <1>1, <3>1
      <4> QED
        BY <2>1, <2>2, <3>1, <4>1
    <3>2. CASE n = m + 1
      <4>1. m \in 0 .. m /\ n - 1 = m /\ n # 0
        BY <1>1, <3>2
      <4> QED
        BY <2>2, <3>2, <4>1
    <3> QED
      BY <1>1, <3>1, <3>2
  <2>4. Law(m + 1, g)
    BY <2>3
  <2> HIDE DEF Law
  <2> QED
    BY <1>1, <1>3, <2>4
<1>4. Len(parts) \in T
  <2>1. T \in SUBSET (0 .. Len(parts))
    OBVIOUS
  <2>2. T = 0 .. Len(parts)
    <3> HIDE DEF T
    <3> QED
      BY <1>1, <1>2, <1>3, <2>1, UpTo
  <2> HIDE DEF T
  <2> QED
    BY <1>1, <2>2
<1>5. PICK f : \A n \in 0 .. Len(parts) : f[n] = IF n = 0 THEN <<>> ELSE NamePart(f[n - 1], parts[n])
  BY <1>4
<1> DEFINE g == [n \in 0 .. Len(parts) |-> f[n]]
           h == [n \in 0 .. Len(parts) |->
                    IF n = 0 THEN <<>>
                    ELSE IF parts[n].kind = "nameless" THEN g[n - 1]
                    ELSE Append(g[n - 1], parts[n])]
<1>6. \A n \in 0 .. Len(parts) : g[n] = f[n] /\ (n # 0 => g[n - 1] = f[n - 1])
  BY <1>1
<1>7. g = [n \in 0 .. Len(parts) |-> g[n]] /\ h = [n \in 0 .. Len(parts) |-> h[n]]
  OBVIOUS
<1>8. \A n \in 0 .. Len(parts) : h[n] = IF n = 0 THEN <<>> ELSE NamePart(g[n - 1], parts[n])
  BY Zenon DEF NamePart
<1> HIDE DEF g, h
<1>9. \A n \in 0 .. Len(parts) : h[n] = g[n]
  BY <1>5, <1>6, <1>8
<1>10. g = h
  BY <1>7, <1>9
<1> QED
  BY <1>10 DEF h, IsNaming

(* With room for all of them, the parts kept are those with a name. *)
LEMMA NamedAreKept ==
    ASSUME NEW K, NEW parts \in Seq(K), Len(Named(parts)) <= MaxParts
    PROVE  Kept(parts) = Named(parts)
<1> DEFINE f == CHOOSE g : IsKeeping(parts, g)
           h == CHOOSE g : IsNaming(parts, g)
<1>1. IsKeeping(parts, f) /\ IsNaming(parts, h)
  BY KeepingExists, NamingExists
<1>2. Kept(parts) = f[Len(parts)] /\ Named(parts) = h[Len(parts)]
  BY DEF Kept, IsKeeping, Named, IsNaming
<1> HIDE DEF f, h
<1>3. \A n \in 0 .. Len(parts) : f[n] = IF n = 0 THEN <<>> ELSE KeepPart(f[n - 1], parts[n])
  BY <1>1 DEF IsKeeping
<1>4. \A n \in 0 .. Len(parts) : h[n] = IF n = 0 THEN <<>> ELSE NamePart(h[n - 1], parts[n])
  BY <1>1 DEF IsNaming, NamePart
<1> DEFINE T == {n \in 0 .. Len(parts) : /\ h[n] \in Seq(K)
                                         /\ Len(h[n]) <= MaxParts => f[n] = h[n]}
<1>5. Len(parts) \in Nat
  OBVIOUS
<1>6. 0 \in T
  <2>1. h[0] = <<>> /\ f[0] = <<>> /\ 0 \in 0 .. Len(parts)
    BY <1>3, <1>4, <1>5
  <2>2. <<>> \in Seq(K)
    OBVIOUS
  <2> QED
    BY <2>1, <2>2, Zenon
<1>7. ASSUME NEW n \in 0 .. Len(parts), n + 1 <= Len(parts), n \in T PROVE n + 1 \in T
  <2>1. n + 1 \in 1 .. Len(parts) /\ n + 1 \in 0 .. Len(parts) /\ (n + 1) - 1 = n /\ n + 1 # 0
    BY <1>5, <1>7
  <2>2. PICK kept, named, p : kept = f[n] /\ named = h[n] /\ p = parts[n + 1]
    OBVIOUS
  <2>3. named \in Seq(K) /\ p \in K /\ (Len(named) <= MaxParts => kept = named)
    BY <1>7, <2>1, <2>2
  <2>4. f[n + 1] = KeepPart(kept, p) /\ h[n + 1] = NamePart(named, p)
    BY <1>3, <1>4, <2>1, <2>2
  <2>5. /\ NamePart(named, p) \in Seq(K)
        /\ Len(NamePart(named, p)) <= MaxParts => KeepPart(kept, p) = NamePart(named, p)
    <3>1. CASE p.kind = "nameless"
      BY <2>3, <3>1 DEF NamePart, KeepPart
    <3>2. CASE p.kind # "nameless"
      <4>1. NamePart(named, p) = Append(named, p)
        BY <3>2 DEF NamePart
      <4>2. /\ Append(named, p) \in Seq(K) /\ Len(Append(named, p)) = Len(named) + 1
            /\ Len(named) \in Nat
        BY <2>3
      <4>3. ASSUME Len(named) + 1 <= MaxParts PROVE KeepPart(kept, p) = Append(named, p)
        <5>1. kept = named /\ ~ (Len(named) >= MaxParts)
          BY <2>3, <4>2, <4>3, UploadAssumption
        <5> QED
          BY <3>2, <5>1, Zenon DEF KeepPart
      <4> QED
        BY <4>1, <4>2, <4>3
    <3> QED
      BY <3>1, <3>2
  <2> QED
    BY <2>1, <2>4, <2>5, Zenon
<1>8. T = 0 .. Len(parts)
  <2>1. T \in SUBSET (0 .. Len(parts))
    OBVIOUS
  <2> HIDE DEF T
  <2> QED
    BY <1>5, <1>6, <1>7, <2>1, UpTo
<1> QED
  BY <1>2, <1>5, <1>8
-----------------------------------------------------------------------------
(* What a walk has made of the parts so far. *)

FilesTo(parts, n) == {m \in 1 .. n : parts[m].kind = "file"}
SharedTo(parts, n, name) == {m \in 1 .. n : parts[m].kind = "shared" /\ name \in DOMAIN parts[m].options}
OwnTo(parts, n, i) == {m \in 1 .. n : parts[m].kind = "own" /\ parts[m].of = i}
LastOf(m, S) == m \in S /\ \A l \in S : l <= m

GivenOr(options, name, other) == IF name \in DOMAIN options THEN options[name] ELSE other

SharedFollows(parts, n, shared) ==
    /\ Names \subseteq DOMAIN shared
    /\ \A name \in Names :
         /\ SharedTo(parts, n, name) = {} => shared[name] = Default[name]
         /\ \A m \in 1 .. n :
              LastOf(m, SharedTo(parts, n, name)) => shared[name] = parts[m].options[name]

OwnFollows(parts, n, own, shared) ==
    \A i \in 1 .. MaxFiles :
        /\ i \in DOMAIN own => OwnTo(parts, n, i) # {}
        /\ \A m \in 1 .. n :
             LastOf(m, OwnTo(parts, n, i)) =>
                 /\ i \in DOMAIN own
                 /\ \A name \in Names : own[i][name] = GivenOr(parts[m].options, name, shared[name])

FilesFollow(parts, n, files) ==
    /\ Len(files) = Cardinality(FilesTo(parts, n))
    /\ \A m \in FilesTo(parts, n) : files[Cardinality(FilesTo(parts, m))] = m

Followed(parts, n, w) ==
    ~ w.failed => /\ SharedFollows(parts, n, w.shared)
                  /\ OwnFollows(parts, n, w.own, w.shared)
                  /\ FilesFollow(parts, n, w.files)

(* In the bodies looked at, the metadata for all comes first. *)
SharedFirst(parts) ==
    \A n, m \in DOMAIN parts : parts[n].kind = "shared" /\ parts[m].kind = "own" => n < m

LEMMA OverFacts ==
    ASSUME NEW options, NEW others, NEW name \in DOMAIN others
    PROVE  /\ name \in DOMAIN Over(options, others)
           /\ Over(options, others)[name] = GivenOr(options, name, others[name])
BY DEF Over, GivenOr

(* One part more. *)
LEMMA SetsGrow ==
    ASSUME NEW parts, NEW n \in Nat, NEW k, k = n + 1
    PROVE  /\ FilesTo(parts, k) = IF parts[k].kind = "file" THEN FilesTo(parts, n) \cup {k}
                                  ELSE FilesTo(parts, n)
           /\ \A name : SharedTo(parts, k, name) =
                 IF parts[k].kind = "shared" /\ name \in DOMAIN parts[k].options
                 THEN SharedTo(parts, n, name) \cup {k} ELSE SharedTo(parts, n, name)
           /\ \A i : OwnTo(parts, k, i) =
                 IF parts[k].kind = "own" /\ parts[k].of = i
                 THEN OwnTo(parts, n, i) \cup {k} ELSE OwnTo(parts, n, i)
<1>1. 1 .. k = (1 .. n) \cup {k}
  OBVIOUS
<1>2. FilesTo(parts, k) = IF parts[k].kind = "file" THEN FilesTo(parts, n) \cup {k} ELSE FilesTo(parts, n)
  BY <1>1 DEF FilesTo
<1>3. ASSUME NEW name
      PROVE  SharedTo(parts, k, name) =
                IF parts[k].kind = "shared" /\ name \in DOMAIN parts[k].options
                THEN SharedTo(parts, n, name) \cup {k} ELSE SharedTo(parts, n, name)
  BY <1>1 DEF SharedTo
<1>4. ASSUME NEW i
      PROVE  OwnTo(parts, k, i) =
                IF parts[k].kind = "own" /\ parts[k].of = i
                THEN OwnTo(parts, n, i) \cup {k} ELSE OwnTo(parts, n, i)
  BY <1>1 DEF OwnTo
<1> QED
  BY <1>2, <1>3, <1>4

LEMMA LastGrows ==
    ASSUME NEW n \in Nat, NEW S \in SUBSET (1 .. n), NEW m
    PROVE  LastOf(m, S \cup {n + 1}) => m = n + 1
<1>1. SUFFICES ASSUME m \in S \cup {n + 1}, \A l \in S \cup {n + 1} : l <= m PROVE m = n + 1
  BY DEF LastOf
<1>2. n + 1 <= m
  BY <1>1
<1>3. m \in S => m \in 1 .. n
  OBVIOUS
<1> QED
  BY <1>1, <1>2, <1>3

LEMMA SharedStays ==
    ASSUME NEW parts, NEW n \in Nat, NEW shared, SharedFollows(parts, n, shared),
           parts[n + 1].kind # "shared"
    PROVE  SharedFollows(parts, n + 1, shared)
<1>1. PICK k : k = n + 1
  OBVIOUS
<1>2. \A name : SharedTo(parts, k, name) = SharedTo(parts, n, name)
  BY <1>1, SetsGrow
<1>3. \A m, name : LastOf(m, SharedTo(parts, n, name)) => m \in 1 .. n
  BY DEF LastOf, SharedTo
<1>4. SharedFollows(parts, k, shared)
  BY <1>2, <1>3 DEF SharedFollows
<1> QED
  BY <1>1, <1>4

LEMMA SharedGrows ==
    ASSUME NEW parts, NEW n \in Nat, NEW shared, SharedFollows(parts, n, shared),
           parts[n + 1].kind = "shared"
    PROVE  SharedFollows(parts, n + 1, Over(parts[n + 1].options, shared))
<1>1. PICK k, o, new : k = n + 1 /\ o = parts[k].options /\ new = Over(o, shared)
  OBVIOUS
<1>2. Names \subseteq DOMAIN shared /\ Names \subseteq DOMAIN new
  BY <1>1, OverFacts DEF SharedFollows
<1>3. \A name \in Names : new[name] = GivenOr(o, name, shared[name])
  BY <1>1, <1>2, OverFacts
<1>4. ASSUME NEW name \in Names, name \in DOMAIN o
      PROVE  /\ SharedTo(parts, k, name) # {}
             /\ \A m \in 1 .. k :
                  LastOf(m, SharedTo(parts, k, name)) => new[name] = parts[m].options[name]
  <2>1. SharedTo(parts, k, name) = SharedTo(parts, n, name) \cup {n + 1}
    BY <1>1, <1>4, SetsGrow
  <2>2. SharedTo(parts, n, name) \in SUBSET (1 .. n)
    BY DEF SharedTo
  <2>3. new[name] = o[name]
    BY <1>3, <1>4 DEF GivenOr
  <2>4. \A m : LastOf(m, SharedTo(parts, k, name)) => m = n + 1
    BY <2>1, <2>2, LastGrows
  <2>5. new[name] = parts[n + 1].options[name]
    BY <1>1, <2>3, Zenon
  <2> QED
    BY <2>1, <2>4, <2>5
<1>5. ASSUME NEW name \in Names, name \notin DOMAIN o
      PROVE  /\ SharedTo(parts, k, name) = {} => new[name] = Default[name]
             /\ \A m \in 1 .. k :
                  LastOf(m, SharedTo(parts, k, name)) => new[name] = parts[m].options[name]
  <2>1. SharedTo(parts, k, name) = SharedTo(parts, n, name)
    BY <1>1, <1>5, SetsGrow
  <2>2. new[name] = shared[name]
    BY <1>3, <1>5 DEF GivenOr
  <2>3. \A m : LastOf(m, SharedTo(parts, n, name)) => m \in 1 .. n
    BY DEF LastOf, SharedTo
  <2> QED
    BY <2>1, <2>2, <2>3, Zenon DEF SharedFollows
<1>6. SharedFollows(parts, k, new)
  BY <1>2, <1>4, <1>5, Zenon DEF SharedFollows
<1> QED
  BY <1>1, <1>6, Zenon

LEMMA OwnStays ==
    ASSUME NEW parts, NEW n \in Nat, NEW own, NEW shared, OwnFollows(parts, n, own, shared),
           parts[n + 1].kind = "own" => ~ (parts[n + 1].of <= MaxFiles)
    PROVE  OwnFollows(parts, n + 1, own, shared)
<1>1. PICK k : k = n + 1
  OBVIOUS
<1>2. \A i \in 1 .. MaxFiles : OwnTo(parts, k, i) = OwnTo(parts, n, i)
  BY <1>1, SetsGrow, UploadAssumption
<1>3. \A m, i : LastOf(m, OwnTo(parts, n, i)) => m \in 1 .. n
  BY DEF LastOf, OwnTo
<1>4. OwnFollows(parts, k, own, shared)
  BY <1>2, <1>3 DEF OwnFollows
<1> QED
  BY <1>1, <1>4

LEMMA NoOwnYet ==
    ASSUME NEW parts, NEW n \in Nat, NEW own, NEW shared, OwnFollows(parts, n, own, shared),
           SharedFirst(parts), n + 1 \in DOMAIN parts, parts[n + 1].kind = "shared",
           1 .. n + 1 \subseteq DOMAIN parts, NEW new
    PROVE  OwnFollows(parts, n + 1, own, new)
<1>1. \A i : OwnTo(parts, n + 1, i) = {}
  BY DEF OwnTo, SharedFirst
<1>2. \A i : OwnTo(parts, n, i) = {}
  <2>1. \A i : OwnTo(parts, n, i) \subseteq OwnTo(parts, n + 1, i)
    <3>1. 1 .. n \subseteq 1 .. n + 1
      OBVIOUS
    <3> QED
      BY <3>1 DEF OwnTo
  <2> QED
    BY <1>1, <2>1
<1> QED
  BY <1>1, <1>2 DEF OwnFollows, LastOf

LEMMA OwnGrows ==
    ASSUME NEW parts, NEW n \in Nat, NEW own, NEW shared, OwnFollows(parts, n, own, shared),
           Names \subseteq DOMAIN shared, parts[n + 1].kind = "own",
           NEW new,
           new = [i \in DOMAIN own \cup {parts[n + 1].of} |->
                    IF i = parts[n + 1].of THEN Over(parts[n + 1].options, shared) ELSE own[i]]
    PROVE  OwnFollows(parts, n + 1, new, shared)
<1>1. PICK k, o, of : k = n + 1 /\ o = parts[k].options /\ of = parts[k].of
  OBVIOUS
<1>2. new = [i \in DOMAIN own \cup {of} |-> IF i = of THEN Over(o, shared) ELSE own[i]]
  BY <1>1, Zenon
<1>3. \A name \in Names : Over(o, shared)[name] = GivenOr(o, name, shared[name])
  BY OverFacts
<1>4. ASSUME NEW i \in 1 .. MaxFiles
      PROVE  /\ i \in DOMAIN new => OwnTo(parts, k, i) # {}
             /\ \A m \in 1 .. k :
                  LastOf(m, OwnTo(parts, k, i)) =>
                      /\ i \in DOMAIN new
                      /\ \A name \in Names :
                           new[i][name] = GivenOr(parts[m].options, name, shared[name])
  <2>1. CASE i = of
    <3>1. OwnTo(parts, k, i) = OwnTo(parts, n, i) \cup {n + 1}
      BY <1>1, <2>1, SetsGrow
    <3>2. OwnTo(parts, n, i) \in SUBSET (1 .. n)
      BY DEF OwnTo
    <3>3. \A m : LastOf(m, OwnTo(parts, k, i)) => m = k
      BY <1>1, <3>1, <3>2, LastGrows
    <3>4. i \in DOMAIN new /\ new[i] = Over(o, shared)
      BY <1>2, <2>1
    <3>5. \A name \in Names : new[i][name] = GivenOr(parts[k].options, name, shared[name])
      BY <1>1, <1>3, <3>4, Zenon
    <3> QED
      BY <3>1, <3>3, <3>4, <3>5, Zenon
  <2>2. CASE i # of
    <3>1. OwnTo(parts, k, i) = OwnTo(parts, n, i)
      BY <1>1, <2>2, SetsGrow
    <3>2. i \in DOMAIN new <=> i \in DOMAIN own
      BY <1>2, <2>2
    <3>3. i \in DOMAIN own => new[i] = own[i]
      BY <1>2, <2>2
    <3>4. \A m : LastOf(m, OwnTo(parts, n, i)) => m \in 1 .. n
      BY DEF LastOf, OwnTo
    <3>5. /\ i \in DOMAIN own => OwnTo(parts, n, i) # {}
          /\ \A m \in 1 .. n :
               LastOf(m, OwnTo(parts, n, i)) =>
                   /\ i \in DOMAIN own
                   /\ \A name \in Names : own[i][name] = GivenOr(parts[m].options, name, shared[name])
      BY Zenon DEF OwnFollows
    <3> QED
      BY <3>1, <3>2, <3>3, <3>4, <3>5, Zenon
  <2> QED
    BY <2>1, <2>2
<1>5. OwnFollows(parts, k, new, shared)
  BY <1>4, Zenon DEF OwnFollows
<1> QED
  BY <1>1, <1>5, Zenon

LEMMA RankFacts ==
    ASSUME NEW parts, NEW n \in Nat
    PROVE  /\ IsFiniteSet(FilesTo(parts, n)) /\ Cardinality(FilesTo(parts, n)) \in Nat
           /\ \A m \in FilesTo(parts, n) :
                Cardinality(FilesTo(parts, m)) \in 1 .. Cardinality(FilesTo(parts, n))
<1>1. ASSUME NEW m \in Nat PROVE IsFiniteSet(FilesTo(parts, m)) /\ Cardinality(FilesTo(parts, m)) \in Nat
  <2>1. IsFiniteSet(1 .. m)
    BY FS_Interval
  <2>2. FilesTo(parts, m) \subseteq 1 .. m
    BY DEF FilesTo
  <2> QED
    BY <2>1, <2>2, FS_Subset, FS_CardinalityType
<1>2. ASSUME NEW m \in FilesTo(parts, n)
      PROVE  Cardinality(FilesTo(parts, m)) \in 1 .. Cardinality(FilesTo(parts, n))
  <2>1. m \in 1 .. n /\ m \in FilesTo(parts, m) /\ FilesTo(parts, m) \subseteq FilesTo(parts, n)
    BY DEF FilesTo
  <2>2. Cardinality(FilesTo(parts, m)) <= Cardinality(FilesTo(parts, n))
    BY <1>1, <2>1, FS_Subset
  <2>3. /\ IsFiniteSet(FilesTo(parts, m)) /\ Cardinality(FilesTo(parts, m)) \in Nat
        /\ Cardinality(FilesTo(parts, n)) \in Nat
    BY <1>1, <2>1
  <2>4. Cardinality(FilesTo(parts, m)) # 0
    BY <2>1, <2>3, FS_EmptySet
  <2> QED
    BY <2>2, <2>3, <2>4
<1> QED
  BY <1>1, <1>2

LEMMA FilesStay ==
    ASSUME NEW parts, NEW n \in Nat, NEW files, FilesFollow(parts, n, files),
           parts[n + 1].kind # "file"
    PROVE  FilesFollow(parts, n + 1, files)
<1>1. PICK k : k = n + 1
  OBVIOUS
<1>2. FilesTo(parts, k) = FilesTo(parts, n)
  BY <1>1, SetsGrow
<1>3. FilesFollow(parts, k, files)
  BY <1>2, Zenon DEF FilesFollow
<1> QED
  BY <1>1, <1>3

LEMMA FilesGrow ==
    ASSUME NEW parts, NEW n \in Nat, NEW files \in Seq(Nat), FilesFollow(parts, n, files),
           parts[n + 1].kind = "file"
    PROVE  FilesFollow(parts, n + 1, Append(files, n + 1))
<1>1. PICK k, new, c : k = n + 1 /\ new = Append(files, k) /\ c = Cardinality(FilesTo(parts, n))
  OBVIOUS
<1>2. FilesTo(parts, k) = FilesTo(parts, n) \cup {k}
  BY <1>1, SetsGrow
<1>3. k \in Nat /\ k \notin FilesTo(parts, n)
  BY <1>1 DEF FilesTo
<1>4. IsFiniteSet(FilesTo(parts, n)) /\ c \in Nat
  BY <1>1, RankFacts
<1>5. Cardinality(FilesTo(parts, k)) = c + 1
  BY <1>1, <1>2, <1>3, <1>4, FS_AddElement
<1>6. Len(files) = c
  BY <1>1 DEF FilesFollow
<1>7. /\ Len(new) = c + 1 /\ new[c + 1] = k /\ \A i \in 1 .. c : new[i] = files[i]
  BY <1>1, <1>3, <1>4, <1>6
<1>8. ASSUME NEW m \in FilesTo(parts, n)
      PROVE  new[Cardinality(FilesTo(parts, m))] = m
  <2>1. Cardinality(FilesTo(parts, m)) \in 1 .. c
    BY <1>1, RankFacts
  <2>2. files[Cardinality(FilesTo(parts, m))] = m
    BY DEF FilesFollow
  <2> QED
    BY <1>7, <2>1, <2>2, Zenon
<1>9. FilesFollow(parts, k, new)
  <2>1. Len(new) = Cardinality(FilesTo(parts, k))
    BY <1>5, <1>7
  <2>2. new[Cardinality(FilesTo(parts, k))] = k
    BY <1>5, <1>7
  <2>3. \A m \in FilesTo(parts, k) : new[Cardinality(FilesTo(parts, m))] = m
    BY <1>2, <1>8, <2>2
  <2> QED
    BY <2>1, <2>3, Zenon DEF FilesFollow
<1> QED
  BY <1>1, <1>9, Zenon

LEMMA FollowedStep ==
    ASSUME NEW K, NEW parts \in Seq(K), SharedFirst(parts),
           NEW n \in Nat, n + 1 <= Len(parts),
           NEW w, Counted(w), Followed(parts, n, w)
    PROVE  Followed(parts, n + 1, WalkPart(w, parts[n + 1], n + 1))
<1>1. PICK k, p, v : k = n + 1 /\ p = parts[k] /\ v = WalkPart(w, p, k)
  OBVIOUS
<1>2. /\ DOMAIN parts = 1 .. Len(parts) /\ Len(parts) \in Nat
      /\ k \in DOMAIN parts /\ 1 .. k \subseteq DOMAIN parts
  BY <1>1
<1>3. DOMAIN w = {"shared", "own", "files", "total", "failed"} /\ w.files \in Seq(Nat)
  BY DEF Counted
<1>4. CASE w.failed
  <2>1. v = w
    BY <1>1, <1>4, Zenon DEF WalkPart
  <2> QED
    BY <1>1, <1>4, <2>1, Zenon DEF Followed
<1>5. CASE ~ w.failed
  <2>1. /\ SharedFollows(parts, n, w.shared) /\ OwnFollows(parts, n, w.own, w.shared)
        /\ FilesFollow(parts, n, w.files) /\ Names \subseteq DOMAIN w.shared
    BY <1>5 DEF Followed, SharedFollows
  <2>2. CASE p.kind = "own" /\ p.of <= MaxFiles
    <3>1. PICK new : new = [i \in DOMAIN w.own \cup {p.of} |->
                              IF i = p.of THEN Over(p.options, w.shared) ELSE w.own[i]]
      OBVIOUS
    <3>2. v = [w EXCEPT !.own = new]
      <4>1. v = OwnOptions(w, p)
        BY <1>1, <1>5, <2>2, Zenon DEF WalkPart
      <4>2. OwnOptions(w, p) = [w EXCEPT !.own = new]
        BY <3>1 DEF OwnOptions, WithOwn
      <4> QED
        BY <4>1, <4>2
    <3>3. v.own = new /\ v.shared = w.shared /\ v.files = w.files
      BY <1>3, <3>2
    <3>4. parts[n + 1] = p /\ parts[n + 1].kind = "own" /\ parts[n + 1].kind # "shared"
          /\ parts[n + 1].kind # "file"
      BY <1>1, <2>2
    <3>5. new = [i \in DOMAIN w.own \cup {parts[n + 1].of} |->
                  IF i = parts[n + 1].of THEN Over(parts[n + 1].options, w.shared) ELSE w.own[i]]
      BY <3>1, <3>4, Zenon
    <3>6. OwnFollows(parts, n + 1, new, w.shared)
      BY <2>1, <3>4, <3>5, OwnGrows
    <3>7. SharedFollows(parts, n + 1, w.shared) /\ FilesFollow(parts, n + 1, w.files)
      BY <2>1, <3>4, SharedStays, FilesStay
    <3> QED
      BY <1>1, <3>3, <3>6, <3>7, Zenon DEF Followed
  <2>3. CASE p.kind = "own" /\ ~ (p.of <= MaxFiles)
    <3>1. v = w
      BY <1>1, <1>5, <2>3 DEF WalkPart
    <3>2. /\ parts[n + 1].kind # "shared" /\ parts[n + 1].kind # "file"
          /\ ~ (parts[n + 1].of <= MaxFiles)
      BY <1>1, <2>3
    <3>3. /\ SharedFollows(parts, n + 1, w.shared) /\ FilesFollow(parts, n + 1, w.files)
          /\ OwnFollows(parts, n + 1, w.own, w.shared)
      BY <2>1, <3>2, SharedStays, FilesStay, OwnStays
    <3> QED
      BY <1>1, <3>1, <3>3, Zenon DEF Followed
  <2>4. CASE p.kind = "shared"
    <3>1. PICK new : new = Over(p.options, w.shared)
      OBVIOUS
    <3>2. v = [w EXCEPT !.shared = new]
      BY <1>1, <1>5, <2>4, <3>1 DEF WalkPart
    <3>3. v.own = w.own /\ v.shared = new /\ v.files = w.files
      BY <1>3, <3>2
    <3>4. /\ parts[n + 1] = p /\ parts[n + 1].kind = "shared" /\ parts[n + 1].kind # "file"
          /\ n + 1 \in DOMAIN parts /\ 1 .. n + 1 \subseteq DOMAIN parts
      BY <1>1, <1>2, <2>4
    <3>5. SharedFollows(parts, n + 1, new)
      <4>1. SharedFollows(parts, n + 1, Over(parts[n + 1].options, w.shared))
        BY <2>1, <3>4, SharedGrows
      <4> QED
        BY <3>1, <3>4, <4>1, Zenon
    <3>6. OwnFollows(parts, n + 1, w.own, new)
      BY <2>1, <3>4, NoOwnYet
    <3>7. FilesFollow(parts, n + 1, w.files)
      BY <2>1, <3>4, FilesStay
    <3> QED
      BY <1>1, <3>3, <3>5, <3>6, <3>7, Zenon DEF Followed
  <2>5. CASE p.kind = "file"
    <3>1. v = AddFile(w, p, k)
      BY <1>1, <1>5, <2>5 DEF WalkPart
    <3>2. CASE Refused(w, p)
      <4>1. v = [w EXCEPT !.failed = TRUE]
        BY <3>1, <3>2, Zenon DEF AddFile
      <4>2. v.failed
        BY <1>3, <4>1
      <4> QED
        BY <1>1, <4>2, Zenon DEF Followed
    <3>3. CASE ~ Refused(w, p)
      <4>1. PICK new, total : new = Append(w.files, k) /\ total = w.total + p.size
        OBVIOUS
      <4>2. v = [w EXCEPT !.files = new, !.total = total]
        BY <3>1, <3>3, <4>1 DEF AddFile
      <4>3. v.own = w.own /\ v.shared = w.shared /\ v.files = new
        BY <1>3, <4>2
      <4>4. /\ parts[n + 1].kind = "file" /\ parts[n + 1].kind # "shared"
            /\ parts[n + 1].kind # "own"
        BY <1>1, <2>5
      <4>5. SharedFollows(parts, n + 1, w.shared) /\ OwnFollows(parts, n + 1, w.own, w.shared)
        BY <2>1, <4>4, SharedStays, OwnStays
      <4>6. FilesFollow(parts, n + 1, new)
        <5>1. FilesFollow(parts, n + 1, Append(w.files, n + 1))
          BY <1>3, <2>1, <4>4, FilesGrow
        <5> QED
          BY <1>1, <4>1, <5>1, Zenon
      <4> QED
        BY <1>1, <4>3, <4>5, <4>6, Zenon DEF Followed
    <3> QED
      BY <3>2, <3>3
  <2>6. CASE p.kind \notin {"own", "shared", "file"}
    <3>1. v = w
      BY <1>1, <1>5, <2>6 DEF WalkPart
    <3>2. /\ parts[n + 1].kind # "shared" /\ parts[n + 1].kind # "file"
          /\ parts[n + 1].kind # "own"
      BY <1>1, <2>6
    <3>3. /\ SharedFollows(parts, n + 1, w.shared) /\ FilesFollow(parts, n + 1, w.files)
          /\ OwnFollows(parts, n + 1, w.own, w.shared)
      BY <2>1, <3>2, SharedStays, FilesStay, OwnStays
    <3> QED
      BY <1>1, <3>1, <3>3, Zenon DEF Followed
  <2> QED
    BY <2>2, <2>3, <2>4, <2>5, <2>6
<1> QED
  BY <1>4, <1>5

LEMMA WalkFollows ==
    ASSUME NEW K, \A p \in K : p.kind = "file" => p.size \in Nat,
           NEW parts \in Seq(K), SharedFirst(parts)
    PROVE  Followed(parts, Len(parts), Walk(parts))
<1> DEFINE f == CHOOSE g : IsWalking(parts, g)
<1>1. IsWalking(parts, f)
  BY WalkingExists
<1>2. Walk(parts) = f[Len(parts)]
  BY DEF Walk, IsWalking
<1> HIDE DEF f
<1>3. \A n \in 0 .. Len(parts) : f[n] = IF n = 0 THEN Start ELSE WalkPart(f[n - 1], parts[n], n)
  BY <1>1 DEF IsWalking
<1> DEFINE T == {n \in 0 .. Len(parts) : Counted(f[n]) /\ Followed(parts, n, f[n])}
<1>4. Len(parts) \in Nat
  OBVIOUS
<1>5. 0 \in T
  <2>1. f[0] = Start /\ 0 \in 0 .. Len(parts)
    BY <1>3, <1>4
  <2>2. Counted(Start)
    BY UploadAssumption DEF Counted, Start
  <2>3. Followed(parts, 0, Start)
    <3>1. 1 .. 0 = {}
      OBVIOUS
    <3>2. /\ FilesTo(parts, 0) = {} /\ \A name : SharedTo(parts, 0, name) = {}
          /\ \A i : OwnTo(parts, 0, i) = {}
      BY <3>1 DEF FilesTo, SharedTo, OwnTo
    <3>3. Start.shared = Default /\ Start.own = <<>> /\ Start.files = <<>>
      BY DEF Start
    <3>4. SharedFollows(parts, 0, Default)
      <4>1. DOMAIN Default = Names
        BY DEF Default, Names
      <4> QED
        BY <3>1, <4>1 DEF SharedFollows
    <3>5. OwnFollows(parts, 0, <<>>, Default)
      BY <3>1 DEF OwnFollows
    <3>6. FilesFollow(parts, 0, <<>>)
      BY <3>2, FS_EmptySet DEF FilesFollow
    <3> QED
      BY <3>3, <3>4, <3>5, <3>6, Zenon DEF Followed
  <2> QED
    BY <2>1, <2>2, <2>3
<1>6. ASSUME NEW n \in 0 .. Len(parts), n + 1 <= Len(parts), n \in T PROVE n + 1 \in T
  <2>1. n + 1 \in 1 .. Len(parts) /\ n + 1 \in 0 .. Len(parts) /\ (n + 1) - 1 = n /\ n + 1 # 0
        /\ n \in Nat
    BY <1>4, <1>6
  <2>2. PICK walk, p : walk = f[n] /\ p = parts[n + 1]
    OBVIOUS
  <2>3. Counted(walk) /\ p \in K /\ Followed(parts, n, walk)
    BY <1>6, <2>1, <2>2
  <2>4. Counted(WalkPart(walk, p, n + 1))
    BY <2>1, <2>3, WalkPartFacts
  <2>5. Followed(parts, n + 1, WalkPart(walk, p, n + 1))
    <3>1. Followed(parts, n + 1, WalkPart(walk, parts[n + 1], n + 1))
      BY <1>6, <2>1, <2>3, FollowedStep
    <3> QED
      BY <2>2, <3>1, Zenon
  <2>6. f[n + 1] = WalkPart(walk, p, n + 1)
    BY <1>3, <2>1, <2>2
  <2>7. Counted(f[n + 1]) /\ Followed(parts, n + 1, f[n + 1])
    BY <2>4, <2>5, <2>6, Zenon
  <2> QED
    BY <2>1, <2>7
<1>7. T = 0 .. Len(parts)
  <2>1. T \in SUBSET (0 .. Len(parts))
    OBVIOUS
  <2> HIDE DEF T
  <2> QED
    BY <1>4, <1>5, <1>6, <2>1, UpTo
<1> QED
  BY <1>2, <1>4, <1>7
-----------------------------------------------------------------------------
(* The settings meant for a file. *)

LEMMA LastExists ==
    ASSUME NEW n \in Nat, NEW S \in SUBSET (1 .. n), S # {}
    PROVE  LastOf(Max(S), S) /\ Max(S) \in 1 .. n
<1> DEFINE D == {d \in Nat : n - d \in S}
<1>1. D \in SUBSET Nat /\ D # {}
  <2>1. PICK m \in S : TRUE
    OBVIOUS
  <2>2. n - m \in D
    OBVIOUS
  <2> QED
    BY <2>2
<1>2. PICK d \in D : \A e \in D : d <= e
  <2> HIDE DEF D
  <2> QED
    BY <1>1, Least
<1>3. n - d \in S /\ \A m \in S : n - d >= m
  <2>1. ASSUME NEW m \in S PROVE n - d >= m
    <3>1. n - m \in D
      OBVIOUS
    <3> QED
      BY <1>2, <3>1
  <2> QED
    BY <1>2, <2>1
<1>4. Max(S) \in S /\ \A m \in S : Max(S) >= m
  BY <1>3 DEF Max
<1> QED
  BY <1>4 DEF LastOf

InRange(value, name) ==
    IF value <= 0 THEN Default[name] ELSE Max({Lowest[name], Min({Highest[name], value})})

LEMMA NamesFacts ==
    ASSUME NEW name \in Names
    PROVE  /\ Default[name] \in Int /\ Lowest[name] \in Int /\ Highest[name] \in Int
           /\ Lowest[name] <= Default[name] /\ Default[name] <= Highest[name]
           /\ Default[name] > 0
           /\ Lowest[name] >= 0 /\ (Lowest[name] = 0 <=> name = "avifQuality")
<1>1. CASE name = "pngLevel"
  BY <1>1 DEF Default, Lowest, Highest
<1>2. CASE name = "pngQuantColors"
  BY <1>2 DEF Default, Lowest, Highest
<1>3. CASE name = "webpQuality"
  BY <1>3 DEF Default, Lowest, Highest
<1>4. CASE name = "avifQuality"
  BY <1>4 DEF Default, Lowest, Highest
<1> QED
  BY <1>1, <1>2, <1>3, <1>4 DEF Names

LEMMA ClampIs ==
    ASSUME NEW low \in Int, NEW high \in Int, low <= high, NEW v \in Int
    PROVE  Max({low, Min({high, v})}) = Clamp(v, low, high)
<1>1. Min({high, v}) = IF v > high THEN high ELSE v
  BY DEF Min
<1>2. PICK m \in Int : m = Min({high, v})
  BY <1>1
<1>3. Max({low, m}) = IF m < low THEN low ELSE m
  BY DEF Max
<1> QED
  BY <1>1, <1>2, <1>3 DEF Clamp

LEMMA SettingIs ==
    ASSUME NEW options, NEW name \in Names, options[name] \in Int
    PROVE  Settings(options)[name] = InRange(options[name], name)
<1>1. PICK v, d, low, high :
        /\ v = options[name] /\ d = Default[name] /\ low = Lowest[name] /\ high = Highest[name]
  OBVIOUS
<1>2. /\ v \in Int /\ d \in Int /\ low \in Int /\ high \in Int
      /\ low <= d /\ d <= high /\ d > 0 /\ low >= 0 /\ (low = 0 <=> name = "avifQuality")
  BY <1>1, NamesFacts
<1>3. PICK q : q = Clamp(IF v > 0 \/ name = "avifQuality" THEN v ELSE d, low, high)
  OBVIOUS
<1>4. Populated(options)[name] = q
  BY <1>1, <1>3, Zenon DEF Populated
<1>5. Settings(options)[name] = Clamp(IF q # 0 THEN q ELSE d, low, high)
  BY <1>1, <1>4, Zenon DEF Settings
<1>6. Max({low, Min({high, v})}) = Clamp(v, low, high)
  BY <1>2, ClampIs
<1>7. Clamp(IF q # 0 THEN q ELSE d, low, high) = IF v <= 0 THEN d ELSE Clamp(v, low, high)
  <2>1. CASE v > 0
    BY <1>2, <1>3, <2>1 DEF Clamp
  <2>2. CASE v <= 0 /\ name = "avifQuality"
    BY <1>2, <1>3, <2>2 DEF Clamp
  <2>3. CASE v <= 0 /\ name # "avifQuality"
    BY <1>2, <1>3, <2>3 DEF Clamp
  <2> QED
    BY <1>2, <2>1, <2>2, <2>3
<1> QED
  BY <1>1, <1>5, <1>6, <1>7, Zenon DEF InRange

(* Of all metadata, what was noted is what was meant. *)
LEMMA ValueMeant ==
    ASSUME NEW K, NEW parts \in Seq(K),
           NEW own, NEW shared, SharedFollows(parts, Len(parts), shared),
           OwnFollows(parts, Len(parts), own, shared),
           NEW i \in 1 .. MaxFiles, NEW name \in Names
    PROVE  MeantFor(parts, i, name) =
              InRange(IF i \in DOMAIN own THEN own[i][name] ELSE shared[name], name)
<1>1. PICK l \in Nat : l = Len(parts) /\ DOMAIN parts = 1 .. l
  OBVIOUS
<1>2. PICK S, O, v : /\ S = SharedTo(parts, l, name) /\ O = OwnTo(parts, l, i)
                     /\ v = IF i \in DOMAIN own THEN own[i][name] ELSE shared[name]
  OBVIOUS
<1>3. S \in SUBSET (1 .. l) /\ O \in SUBSET (1 .. l)
  BY <1>2 DEF SharedTo, OwnTo
<1>4. shared[name] = IF S # {} THEN parts[Max(S)].options[name] ELSE Default[name]
  <2>1. CASE S = {}
    BY <1>1, <1>2, <2>1 DEF SharedFollows
  <2>2. CASE S # {}
    <3>1. LastOf(Max(S), S) /\ Max(S) \in 1 .. l
      BY <1>3, <2>2, LastExists
    <3>2. shared[name] = parts[Max(S)].options[name]
      BY <1>1, <1>2, <3>1, Zenon DEF SharedFollows
    <3> QED
      BY <2>2, <3>2
  <2> QED
    BY <2>1, <2>2
<1> DEFINE says == IF O = {} THEN {} ELSE {n \in {Max(O)} : name \in DOMAIN parts[n].options}
<1>5. v = IF says # {} THEN parts[Max(says)].options[name] ELSE shared[name]
  <2>1. CASE O = {}
    <3>1. i \notin DOMAIN own
      BY <1>1, <1>2, <2>1, Zenon DEF OwnFollows
    <3> QED
      BY <1>2, <2>1, <3>1
  <2>2. CASE O # {}
    <3>1. PICK m : m = Max(O)
      OBVIOUS
    <3>2. LastOf(m, O) /\ m \in 1 .. l
      BY <1>3, <2>2, <3>1, LastExists
    <3>3. i \in DOMAIN own /\ own[i][name] = GivenOr(parts[m].options, name, shared[name])
      BY <1>1, <1>2, <3>2, Zenon DEF OwnFollows
    <3>4. v = GivenOr(parts[m].options, name, shared[name])
      BY <1>2, <3>3
    <3>5. says = {n \in {m} : name \in DOMAIN parts[n].options}
      BY <2>2, <3>1
    <3>6. CASE name \in DOMAIN parts[m].options
      <4>1. says = {m}
        BY <3>5, <3>6
      <4>2. Max({m}) = m
        BY <3>2 DEF Max
      <4>3. says # {} /\ Max(says) = m
        <5> HIDE DEF says
        <5> QED
          BY <4>1, <4>2
      <4>4. v = parts[m].options[name]
        BY <3>4, <3>6 DEF GivenOr
      <4> HIDE DEF says
      <4> QED
        BY <4>3, <4>4
    <3>7. CASE name \notin DOMAIN parts[m].options
      <4>1. says = {}
        BY <3>5, <3>7
      <4>2. v = shared[name]
        BY <3>4, <3>7 DEF GivenOr
      <4> HIDE DEF says
      <4> QED
        BY <4>1, <4>2
    <3> QED
      BY <3>6, <3>7
  <2> QED
    BY <2>1, <2>2
<1>6. /\ {n \in {n \in DOMAIN parts : parts[n].kind = "shared"} : name \in DOMAIN parts[n].options} = S
      /\ {n \in DOMAIN parts : parts[n].kind = "own" /\ parts[n].of = i} = O
  BY <1>1, <1>2 DEF SharedTo, OwnTo
<1>7. MeantFor(parts, i, name) = InRange(v, name)
  <2>1. v = IF says # {} THEN parts[Max(says)].options[name]
            ELSE IF S # {} THEN parts[Max(S)].options[name] ELSE Default[name]
    <3> HIDE DEF says
    <3> QED
      BY <1>4, <1>5
  <2> QED
    BY <1>6, <2>1, Zenon DEF MeantFor, InRange
<1> QED
  BY <1>2, <1>7, Zenon

LEMMA ValueIsInt ==
    ASSUME NEW K,
           \A p \in K : p.kind \in {"shared", "own"} => \A name \in DOMAIN p.options : p.options[name] \in Int,
           NEW parts \in Seq(K),
           NEW own, NEW shared, SharedFollows(parts, Len(parts), shared),
           OwnFollows(parts, Len(parts), own, shared),
           NEW i \in 1 .. MaxFiles, NEW name \in Names
    PROVE  (IF i \in DOMAIN own THEN own[i][name] ELSE shared[name]) \in Int
<1>1. PICK l \in Nat : l = Len(parts) /\ \A n \in 1 .. l : parts[n] \in K
  OBVIOUS
<1>2. PICK S, O : S = SharedTo(parts, l, name) /\ O = OwnTo(parts, l, i)
  OBVIOUS
<1>3. S \in SUBSET (1 .. l) /\ O \in SUBSET (1 .. l)
  BY <1>2 DEF SharedTo, OwnTo
<1>4. shared[name] \in Int
  <2>1. CASE S = {}
    <3>1. shared[name] = Default[name]
      BY <1>1, <1>2, <2>1 DEF SharedFollows
    <3> QED
      BY <3>1, NamesFacts
  <2>2. CASE S # {}
    <3>1. PICK m : m = Max(S)
      OBVIOUS
    <3>2. LastOf(m, S) /\ m \in 1 .. l
      BY <1>3, <2>2, <3>1, LastExists
    <3>3. shared[name] = parts[m].options[name]
      BY <1>1, <1>2, <3>2, Zenon DEF SharedFollows
    <3>4. parts[m].kind = "shared" /\ name \in DOMAIN parts[m].options
      BY <1>2, <3>2 DEF LastOf, SharedTo
    <3>5. parts[m].options[name] \in Int
      BY <1>1, <3>2, <3>4
    <3> QED
      BY <3>3, <3>5
  <2> QED
    BY <2>1, <2>2
<1>5. CASE i \in DOMAIN own
  <2>1. O # {}
    BY <1>1, <1>2, <1>5, Zenon DEF OwnFollows
  <2>2. PICK m : m = Max(O)
    OBVIOUS
  <2>3. LastOf(m, O) /\ m \in 1 .. l
    BY <1>3, <2>1, <2>2, LastExists
  <2>4. own[i][name] = GivenOr(parts[m].options, name, shared[name])
    BY <1>1, <1>2, <2>3, Zenon DEF OwnFollows
  <2>5. parts[m].kind = "own"
    BY <1>2, <2>3 DEF LastOf, OwnTo
  <2>6. name \in DOMAIN parts[m].options => parts[m].options[name] \in Int
    BY <1>1, <2>3, <2>5
  <2> QED
    BY <1>4, <1>5, <2>4, <2>6 DEF GivenOr
<1> QED
  BY <1>4, <1>5

(* The files of a request that is not refused, each with what is meant for it. *)
LEMMA ParsedMeant ==
    ASSUME NEW K, \A p \in K : p.kind = "file" => p.size \in Nat,
           \A p \in K : p.kind \in {"shared", "own"} => \A name \in DOMAIN p.options : p.options[name] \in Int,
           NEW parts \in Seq(K), Parsed(parts).files # <<>>,
           NEW kept, kept = Kept(parts), SharedFirst(kept),
           NEW files, files = Parsed(parts).files
    PROVE  /\ Len(files) = Cardinality(FilesTo(kept, Len(kept)))
           /\ \A n \in FilesTo(kept, Len(kept)) :
                /\ files[Cardinality(FilesTo(kept, n))].part = n
                /\ Settings(files[Cardinality(FilesTo(kept, n))].options) =
                     [name \in Names |-> MeantFor(kept, Cardinality(FilesTo(kept, n)), name)]
<1>1. PICK w : w = Walk(Kept(parts))
  OBVIOUS
<1>2. kept \in Seq(K)
  BY KeptFacts
<1>3. Counted(w) /\ Followed(kept, Len(kept), w)
  BY <1>1, <1>2, WalkFacts, WalkFollows
<1>4. ~ w.failed
  <2>1. SUFFICES ASSUME w.failed PROVE FALSE
    OBVIOUS
  <2>2. Parsed(parts) = [files |-> <<>>, total |-> 0]
    BY <1>1, <2>1 DEF Parsed
  <2> QED
    BY <2>2
<1>5. /\ SharedFollows(kept, Len(kept), w.shared) /\ OwnFollows(kept, Len(kept), w.own, w.shared)
      /\ FilesFollow(kept, Len(kept), w.files)
  BY <1>3, <1>4 DEF Followed
<1>6. PICK c : c = Cardinality(FilesTo(kept, Len(kept)))
  OBVIOUS
<1>7. c \in Nat /\ c <= MaxFiles /\ Len(w.files) = c
  <2>1. Len(w.files) = c
    BY <1>5, <1>6 DEF FilesFollow
  <2>2. Len(kept) \in Nat
    BY <1>2
  <2>3. c \in Nat
    BY <1>6, <2>2, RankFacts
  <2> QED
    BY <1>3, <2>1, <2>3 DEF Counted
<1>8. files = [i \in 1 .. c |->
                 [part |-> w.files[i],
                  options |-> IF i \in DOMAIN w.own THEN w.own[i] ELSE w.shared]]
  <2>1. Parsed(parts) =
          [total |-> w.total,
           files |-> [i \in 1 .. Len(w.files) |->
                        [part |-> w.files[i],
                         options |-> IF i \in DOMAIN w.own THEN w.own[i] ELSE w.shared]]]
    BY <1>1, <1>4, Zenon DEF Parsed
  <2> QED
    BY <1>7, <2>1
<1>9. Len(files) = c
  BY <1>7, <1>8
<1>10. ASSUME NEW n \in FilesTo(kept, Len(kept)), NEW i, i = Cardinality(FilesTo(kept, n))
       PROVE  /\ files[i].part = n
              /\ Settings(files[i].options) = [name \in Names |-> MeantFor(kept, i, name)]
  <2>1. i \in 1 .. c
    <3>1. Len(kept) \in Nat
      BY <1>2
    <3> QED
      BY <1>6, <1>10, <3>1, RankFacts
  <2>2. i \in 1 .. MaxFiles
    BY <1>7, <2>1, UploadAssumption
  <2>3. PICK o : o = IF i \in DOMAIN w.own THEN w.own[i] ELSE w.shared
    OBVIOUS
  <2>4. files[i] = [part |-> w.files[i], options |-> o]
    BY <1>8, <2>1, <2>3, Zenon
  <2>5. w.files[i] = n
    BY <1>5, <1>10 DEF FilesFollow
  <2>6. ASSUME NEW name \in Names
        PROVE  Settings(o)[name] = MeantFor(kept, i, name)
    <3>1. o[name] = IF i \in DOMAIN w.own THEN w.own[i][name] ELSE w.shared[name]
      BY <2>3
    <3>2. (IF i \in DOMAIN w.own THEN w.own[i][name] ELSE w.shared[name]) \in Int
      BY <1>2, <1>5, <2>2, ValueIsInt
    <3>3. MeantFor(kept, i, name) =
             InRange(IF i \in DOMAIN w.own THEN w.own[i][name] ELSE w.shared[name], name)
      BY <1>2, <1>5, <2>2, ValueMeant
    <3>4. o[name] \in Int /\ MeantFor(kept, i, name) = InRange(o[name], name)
      BY <3>1, <3>2, <3>3, Zenon
    <3> QED
      BY <3>4, SettingIs
  <2>7. Settings(o) = [name \in Names |-> Settings(o)[name]]
    BY DEF Settings
  <2>8. Settings(o) = [name \in Names |-> MeantFor(kept, i, name)]
    BY <2>6, <2>7
  <2> QED
    BY <2>4, <2>5, <2>8
<1> QED
  BY <1>6, <1>9, <1>10
-----------------------------------------------------------------------------
(* From the upload to the encoders. *)

FilesOK ==
    \A r \in Requests :
        /\ pc[r] \notin {"new", "rejected"} =>
             r \in DOMAIN body /\ request[r] = Parsed(body[r]) /\ request[r].files # <<>>
        /\ pc[r] \in {"running", "answered"} =>
             \A i \in 1 .. Len(finished[r]) :
                finished[r][i] = [part |-> request[r].files[i].part,
                                  settings |-> Settings(request[r].files[i].options)]

LEMMA FilesStep ==
    ASSUME TypesOK, RequestsOK, FilesOK, [Next]_vars
    PROVE  FilesOK'
<1>1. CASE UNCHANGED vars
  BY <1>1 DEF vars, FilesOK
<1>2. CASE Midnight
  BY <1>2 DEF Midnight, FilesOK
<1>3. ASSUME NEW r \in Requests, Reject(r) \/ Unmetered(r) \/ ReadDay(r)
      PROVE  FilesOK'
  <2>1. /\ r \in DOMAIN body /\ request' = [request EXCEPT ![r] = Parsed(body[r])]
        /\ pc[r] = "new" /\ body' = body /\ finished' = finished
        /\ \E to \in {"rejected", "running", "tracking"} :
             /\ pc' = [pc EXCEPT ![r] = to]
             /\ to # "rejected" => request'[r].files # <<>>
    BY <1>3 DEF Reject, Unmetered, ReadDay, Goto, Parse
  <2>2. /\ request'[r] = Parsed(body[r])
        /\ \A q \in Requests : q # r => request'[q] = request[q]
    BY <2>1 DEF TypesOK
  <2>3. finished[r] = <<>> /\ 1 .. Len(finished[r]) = {}
    BY <2>1 DEF RequestsOK
  <2>4. \E to \in {"rejected", "running", "tracking"} :
          /\ pc'[r] = to /\ \A q \in Requests : q # r => pc'[q] = pc[q]
          /\ to # "rejected" => request'[r].files # <<>>
    BY <2>1 DEF TypesOK
  <2> QED
    BY <2>1, <2>2, <2>3, <2>4 DEF FilesOK
<1>4. ASSUME NEW r \in Requests, FileDone(r)
      PROVE  FilesOK'
  <2>1. PICK n, x :
          /\ n = Len(finished[r]) + 1
          /\ x = [part |-> request[r].files[n].part, settings |-> Settings(request[r].files[n].options)]
    OBVIOUS
  <2>2. /\ finished' = [finished EXCEPT ![r] = Append(finished[r], x)]
        /\ pc[r] = "running" /\ body' = body /\ request' = request
        /\ \E to \in {"running", "answered"} : pc' = [pc EXCEPT ![r] = to]
    BY <1>4, <2>1 DEF FileDone, Goto
  <2>3. /\ finished'[r] = Append(finished[r], x)
        /\ \A q \in Requests : q # r => finished'[q] = finished[q]
    BY <2>2 DEF TypesOK
  <2>4. /\ Len(finished[r]) \in Nat /\ Len(Append(finished[r], x)) = n /\ Append(finished[r], x)[n] = x
        /\ \A i \in 1 .. Len(finished[r]) : Append(finished[r], x)[i] = finished[r][i]
    <3>1. PICK K, s : K = Range(finished[r]) \cup {x} /\ s = finished[r]
      OBVIOUS
    <3>2. s \in Seq(K) /\ x \in K
      BY <3>1 DEF TypesOK
    <3>3. /\ Len(s) \in Nat /\ Len(Append(s, x)) = Len(s) + 1 /\ Append(s, x)[Len(s) + 1] = x
          /\ \A i \in 1 .. Len(s) : Append(s, x)[i] = s[i]
      BY <3>2
    <3> QED
      BY <2>1, <3>1, <3>3, Zenon
  <2>5. \A i \in 1 .. Len(finished'[r]) :
           finished'[r][i] = [part |-> request'[r].files[i].part,
                              settings |-> Settings(request'[r].files[i].options)]
    <3>1. ASSUME NEW i \in 1 .. n
          PROVE  Append(finished[r], x)[i] = [part |-> request[r].files[i].part,
                                              settings |-> Settings(request[r].files[i].options)]
      <4>1. CASE i = n
        BY <2>1, <2>4, <4>1, Zenon
      <4>2. CASE i # n
        <5>1. i \in 1 .. Len(finished[r])
          BY <2>1, <2>4, <4>2
        <5> QED
          BY <2>2, <2>4, <5>1, Zenon DEF FilesOK
      <4> QED
        BY <4>1, <4>2
    <3> QED
      BY <2>2, <2>3, <2>4, <3>1, Zenon
  <2>6. pc'[r] \in {"running", "answered"} /\ \A q \in Requests : q # r => pc'[q] = pc[q]
    BY <2>2 DEF TypesOK
  <2>7. r \in DOMAIN body /\ request[r] = Parsed(body[r]) /\ request[r].files # <<>>
    BY <2>2 DEF FilesOK
  <2>8. ASSUME NEW q \in Requests
        PROVE  /\ pc'[q] \notin {"new", "rejected"} =>
                    q \in DOMAIN body /\ request'[q] = Parsed(body[q]) /\ request'[q].files # <<>>
               /\ pc'[q] \in {"running", "answered"} =>
                    \A i \in 1 .. Len(finished'[q]) :
                       finished'[q][i] = [part |-> request'[q].files[i].part,
                                          settings |-> Settings(request'[q].files[i].options)]
    <3>1. CASE q = r
      BY <2>2, <2>5, <2>7, <3>1, Zenon
    <3>2. CASE q # r
      <4>1. pc'[q] = pc[q] /\ finished'[q] = finished[q] /\ request' = request
        BY <2>2, <2>3, <2>6, <3>2
      <4> QED
        BY <4>1, Zenon DEF FilesOK
    <3> QED
      BY <3>1, <3>2
  <2> QED
    BY <2>2, <2>8, Zenon DEF FilesOK
<1>5. ASSUME NEW r \in Requests, FileFails(r)
      PROVE  FilesOK'
  <2>1. /\ pc'[r] = "failed" /\ \A q \in Requests : q # r => pc'[q] = pc[q] /\ finished'[q] = finished[q]
        /\ pc[r] = "running" /\ body' = body /\ request' = request
    BY <1>5 DEF FileFails, Goto, TypesOK
  <2> QED
    BY <2>1 DEF FilesOK
<1>6. ASSUME NEW r \in Requests, Charge(r) \/ Refuse(r) \/ RefuseBusy(r)
      PROVE  FilesOK'
  <2>1. /\ pc[r] = "tracking" /\ UNCHANGED <<body, request, finished>>
        /\ \E to \in {"running", "refused"} : pc' = [pc EXCEPT ![r] = to]
    BY <1>6 DEF Charge, Refuse, RefuseBusy, Goto
  <2>2. /\ pc'[r] \in {"running", "refused"} /\ \A q \in Requests : q # r => pc'[q] = pc[q]
    BY <2>1 DEF TypesOK
  <2>3. finished[r] = <<>> /\ 1 .. Len(finished[r]) = {}
    BY <2>1 DEF RequestsOK
  <2> QED
    BY <2>1, <2>2, <2>3 DEF FilesOK
<1> QED
  BY <1>1, <1>2, <1>3, <1>4, <1>5, <1>6 DEF Next

LEMMA FilesInvariant == Spec => []FilesOK
<1>1. Init => FilesOK
  BY DEF Init, FilesOK
<1>2. UsageInv /\ FilesOK /\ [Next]_vars => FilesOK'
  BY FilesStep DEF UsageInv
<1> QED
  BY <1>1, <1>2, UsageInvariant, PTL DEF Spec

(* An answered request compressed every file it was sent, in order, each   *)
(* with the options meant for it, whatever the number and the order of its *)
(* parts, as long as there is room for them and the metadata for all comes *)
(* before that for one file.                                               *)
THEOREM OptionsReachTheEncoders == Spec => []FilesGetTheirOptions
<1>1. ASSUME UsageInv, FilesOK, NEW r \in Requests, pc[r] = "answered",
             NEW parts, parts = Named(body[r]), Len(parts) <= MaxParts, SharedFirst(parts)
      PROVE  LET F == {n \in DOMAIN parts : parts[n].kind = "file"}
                 Rank(n) == Cardinality({m \in F : m <= n})
             IN  /\ Len(finished[r]) = Cardinality(F)
                 /\ \A n \in F :
                      finished[r][Rank(n)] =
                        [part |-> n, settings |-> [name \in Names |-> MeantFor(parts, Rank(n), name)]]
  <2>1. r \in DOMAIN body /\ request[r] = Parsed(body[r]) /\ request[r].files # <<>> /\ body \in Batches
    BY <1>1 DEF UsageInv, TypesOK, FilesOK
  <2>2. PICK K, b, files : K = Range(body[r]) /\ b = body[r] /\ files = request[r].files
    OBVIOUS
  <2>3. /\ b \in Seq(K) /\ \A p \in K : p.kind = "file" => p.size \in Nat
        /\ \A p \in K : p.kind \in {"shared", "own"} =>
             \A name \in DOMAIN p.options : p.options[name] \in Int
    BY <2>1, <2>2, BatchesAssumption
  <2>4. parts = Kept(b) /\ parts \in Seq(K)
    <3>1. parts = Named(b) /\ Len(Named(b)) <= MaxParts
      BY <1>1, <2>2
    <3>2. Kept(b) = Named(b)
      BY <2>3, <3>1, NamedAreKept
    <3>3. Kept(b) \in Seq(K)
      BY <2>3, KeptFacts
    <3> QED
      BY <3>1, <3>2, <3>3
  <2>5. PICK l \in Nat : l = Len(parts) /\ DOMAIN parts = 1 .. l
    BY <2>4
  <2>6. /\ Len(files) = Cardinality(FilesTo(parts, l))
        /\ \A n \in FilesTo(parts, l) :
             /\ files[Cardinality(FilesTo(parts, n))].part = n
             /\ Settings(files[Cardinality(FilesTo(parts, n))].options) =
                  [name \in Names |-> MeantFor(parts, Cardinality(FilesTo(parts, n)), name)]
    <3>1. files = Parsed(b).files /\ Parsed(b).files # <<>>
      BY <2>1, <2>2
    <3> QED
      BY <1>1, <2>3, <2>4, <2>5, <3>1, ParsedMeant
  <2>7. /\ Len(finished[r]) = Len(files)
        /\ \A i \in 1 .. Len(finished[r]) :
             finished[r][i] = [part |-> files[i].part, settings |-> Settings(files[i].options)]
    BY <1>1, <2>2 DEF UsageInv, RequestsOK, FilesOf, FilesOK
  <2>8. {n \in DOMAIN parts : parts[n].kind = "file"} = FilesTo(parts, l)
    BY <2>5 DEF FilesTo
  <2>9. \A n \in FilesTo(parts, l) : {m \in FilesTo(parts, l) : m <= n} = FilesTo(parts, n)
    BY <2>5 DEF FilesTo
  <2>10. ASSUME NEW n \in FilesTo(parts, l)
         PROVE  finished[r][Cardinality(FilesTo(parts, n))] =
                  [part |-> n,
                   settings |-> [name \in Names |-> MeantFor(parts, Cardinality(FilesTo(parts, n)), name)]]
    <3>1. PICK i : i = Cardinality(FilesTo(parts, n))
      OBVIOUS
    <3>2. i \in 1 .. Len(finished[r])
      BY <2>6, <2>7, <3>1, RankFacts
    <3>3. finished[r][i] = [part |-> files[i].part, settings |-> Settings(files[i].options)]
      BY <2>7, <3>2
    <3>4. files[i].part = n /\ Settings(files[i].options) = [name \in Names |-> MeantFor(parts, i, name)]
      BY <2>6, <3>1
    <3> QED
      BY <3>1, <3>3, <3>4
  <2> QED
    BY <2>6, <2>7, <2>8, <2>9, <2>10
<1>2. UsageInv /\ FilesOK => FilesGetTheirOptions
  BY <1>1 DEF FilesGetTheirOptions, SharedFirst
<1> QED
  BY <1>2, UsageInvariant, FilesInvariant, PTL
=============================================================================
