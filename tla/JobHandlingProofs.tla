--------------------------- MODULE JobHandlingProofs ---------------------------
(***************************************************************************)
(* The theorems about one job: nothing is freed under an encoder, stream,  *)
(* result and verdict agree however the encoders end, the ETA table is     *)
(* what a restart would load, and trimming and cropping leave of a picture *)
(* exactly the points asked for.                                           *)
(***************************************************************************)
EXTENDS JobHandling, FiniteSetTheorems, WellFoundedInduction, TLAPS
-----------------------------------------------------------------------------
(* Induction, as the choice of a least counterexample. *)

LEMMA Least ==
    ASSUME NEW T \in SUBSET Nat, T # {}
    PROVE  \E m \in T : \A n \in T : m <= n
<1>1. IsWellFoundedOn(OpToRel(<, Nat), Nat)
  BY NatLessThanWellFounded
<1>2. PICK m \in T : \A n \in T : ~ (<<n, m>> \in OpToRel(<, Nat))
  BY <1>1, WFMin
<1>3. \A k, n \in Nat : <<n, k>> \in OpToRel(<, Nat) <=> n < k
  BY DEF OpToRel
<1>4. \A n \in T : ~ (n < m)
  BY <1>2, <1>3
<1> QED
  BY <1>4

LEMMA MinIsLeast ==
    ASSUME NEW T \in SUBSET Nat, T # {}
    PROVE  Min(T) \in T /\ \A n \in T : Min(T) <= n
BY Least DEF Min

(* What holds of 0, and of n + 1 when it holds of n, holds up to N. *)
LEMMA UpTo ==
    ASSUME NEW N \in Nat, NEW T \in SUBSET (0 .. N), 0 \in T,
           \A n \in 0 .. N : n + 1 <= N /\ n \in T => n + 1 \in T
    PROVE  T = 0 .. N
<1>1. ASSUME NEW k \in 0 .. N, k \notin T PROVE FALSE
  <2> DEFINE Bad == {n \in 0 .. N : n \notin T}
  <2>1. Bad \in SUBSET Nat /\ Bad # {}
    BY <1>1
  <2>2. PICK m \in Bad : \A n \in Bad : m <= n
    <3> HIDE DEF Bad
    <3> QED
      BY <2>1, Least
  <2>3. m # 0 /\ m - 1 \in 0 .. N /\ m - 1 \in T
    BY <2>2
  <2> QED
    BY <2>2, <2>3
<1> QED
  BY <1>1
-----------------------------------------------------------------------------
(* Loading a file: the table after n lines is LoadLine of the one after    *)
(* n - 1.                                                                  *)

IsLoading(file, f) ==
    f = [n \in 0 .. Len(file) |-> IF n = 0 THEN EmptyTable ELSE LoadLine(f[n - 1], file[n])]

LEMMA LoadingExists ==
    ASSUME NEW K, NEW file \in Seq(K)
    PROVE  \E f : IsLoading(file, f)
<1> DEFINE Upto(m, f) ==
             f = [n \in 0 .. m |-> IF n = 0 THEN EmptyTable ELSE LoadLine(f[n - 1], file[n])]
           T == {m \in 0 .. Len(file) : \E f : Upto(m, f)}
<1>1. Len(file) \in Nat
  OBVIOUS
<1>2. 0 \in T
  <2>1. Upto(0, [n \in 0 .. 0 |-> EmptyTable])
    OBVIOUS
  <2>2. 0 \in 0 .. Len(file)
    BY <1>1
  <2> HIDE DEF Upto
  <2> QED
    BY <2>1, <2>2
<1>3. ASSUME NEW m \in 0 .. Len(file), m + 1 <= Len(file), m \in T PROVE m + 1 \in T
  <2>1. PICK f : Upto(m, f)
    BY <1>3
  <2> DEFINE g == [n \in 0 .. m + 1 |-> IF n <= m THEN f[n] ELSE LoadLine(f[m], file[m + 1])]
  <2>2. \A n \in 0 .. m : f[n] = IF n = 0 THEN EmptyTable ELSE LoadLine(f[n - 1], file[n])
    BY <2>1
  <2>3. \A n \in 0 .. m : g[n] = f[n]
    BY <1>1
  <2>4. g[m + 1] = LoadLine(f[m], file[m + 1])
    BY <1>1
  <2>5. ASSUME NEW n \in 0 .. m + 1
        PROVE  g[n] = IF n = 0 THEN EmptyTable ELSE LoadLine(g[n - 1], file[n])
    <3>1. CASE n = 0
      BY <2>2, <2>3, <3>1
    <3>2. CASE n \in 1 .. m
      <4>1. n - 1 \in 0 .. m /\ n \in 0 .. m /\ n # 0
        BY <1>1, <3>2
      <4> HIDE DEF g
      <4> QED
        BY <2>2, <2>3, <4>1
    <3>3. CASE n = m + 1
      <4>1. m \in 0 .. m /\ n - 1 = m /\ n # 0
        BY <1>1, <3>3
      <4> HIDE DEF g
      <4> QED
        BY <2>3, <2>4, <3>3, <4>1
    <3> QED
      BY <1>1, <3>1, <3>2, <3>3
  <2>6. Upto(m + 1, g)
    <3> DEFINE h == [n \in 0 .. m + 1 |-> IF n = 0 THEN EmptyTable ELSE LoadLine(g[n - 1], file[n])]
    <3>1. DOMAIN g = 0 .. m + 1 /\ DOMAIN h = 0 .. m + 1
      OBVIOUS
    <3>2. \A n \in 0 .. m + 1 : g[n] = h[n]
      <4> HIDE DEF g
      <4> QED
        BY <2>5
    <3>3. g = [n \in 0 .. m + 1 |-> g[n]] /\ h = [n \in 0 .. m + 1 |-> h[n]]
      OBVIOUS
    <3> HIDE DEF g, h
    <3>4. g = h
      BY <3>2, <3>3
    <3> QED
      BY <3>4 DEF h
  <2> HIDE DEF Upto, g
  <2> QED
    BY <1>1, <1>3, <2>6
<1>4. T = 0 .. Len(file)
  <2>1. T \in SUBSET (0 .. Len(file))
    OBVIOUS
  <2> HIDE DEF T
  <2> QED
    BY <1>1, <1>2, <1>3, <2>1, UpTo
<1>5. PICK f : Upto(Len(file), f)
  BY <1>1, <1>4
<1> QED
  BY <1>5 DEF IsLoading

(* The tables on the way to Loaded(file). *)
LEMMA LoadedSteps ==
    ASSUME NEW K, NEW file \in Seq(K)
    PROVE  \E f : /\ Loaded(file) = f[Len(file)]
                  /\ f[0] = EmptyTable
                  /\ \A n \in 1 .. Len(file) : f[n] = LoadLine(f[n - 1], file[n])
<1> DEFINE f == CHOOSE g : IsLoading(file, g)
<1>1. IsLoading(file, f)
  BY LoadingExists
<1>2. Loaded(file) = f[Len(file)]
  BY DEF Loaded, IsLoading
<1> HIDE DEF f
<1>3. f[0] = EmptyTable
  <2>1. 0 \in 0 .. Len(file)
    OBVIOUS
  <2> QED
    BY <1>1, <2>1 DEF IsLoading
<1>4. \A n \in 1 .. Len(file) : f[n] = LoadLine(f[n - 1], file[n])
  <2>1. \A n \in 1 .. Len(file) : n \in 0 .. Len(file) /\ n # 0
    OBVIOUS
  <2> QED
    BY <1>1, <2>1 DEF IsLoading
<1> QED
  BY <1>2, <1>3, <1>4

(* One more line. *)
LEMMA LoadedAppend ==
    ASSUME NEW K, NEW file \in Seq(K), NEW key \in K
    PROVE  Loaded(Append(file, key)) = LoadLine(Loaded(file), key)
<1> DEFINE longer == Append(file, key)
           N == Len(file)
<1>1. /\ N \in Nat /\ longer \in Seq(K) /\ Len(longer) = N + 1 /\ longer[N + 1] = key
      /\ \A n \in 1 .. N : longer[n] = file[n]
  OBVIOUS
<1>2. PICK f : /\ Loaded(file) = f[N]
               /\ f[0] = EmptyTable
               /\ \A n \in 1 .. N : f[n] = LoadLine(f[n - 1], file[n])
  BY LoadedSteps
<1> HIDE DEF longer, N
<1>3. PICK g : /\ Loaded(longer) = g[N + 1]
               /\ g[0] = EmptyTable
               /\ \A n \in 1 .. N + 1 : g[n] = LoadLine(g[n - 1], longer[n])
  <2>1. \E g : /\ Loaded(longer) = g[Len(longer)]
               /\ g[0] = EmptyTable
               /\ \A n \in 1 .. Len(longer) : g[n] = LoadLine(g[n - 1], longer[n])
    BY <1>1, LoadedSteps
  <2> QED
    BY <1>1, <2>1
<1> DEFINE T == {n \in 0 .. N : f[n] = g[n]}
<1>4. 0 \in T
  BY <1>1, <1>2, <1>3
<1>5. ASSUME NEW n \in 0 .. N, n + 1 <= N, n \in T PROVE n + 1 \in T
  <2>1. n + 1 \in 1 .. N /\ n + 1 \in 1 .. N + 1 /\ (n + 1) - 1 = n /\ n + 1 \in 0 .. N
    BY <1>1, <1>5
  <2>2. f[n + 1] = LoadLine(f[n], file[n + 1]) /\ g[n + 1] = LoadLine(g[n], file[n + 1])
    BY <1>1, <1>2, <1>3, <2>1
  <2> QED
    BY <1>5, <2>1, <2>2
<1>6. T = 0 .. N
  <2>1. T \in SUBSET (0 .. N)
    OBVIOUS
  <2> HIDE DEF T
  <2> QED
    BY <1>1, <1>4, <1>5, <2>1, UpTo
<1>7. f[N] = g[N]
  BY <1>1, <1>6
<1>8. g[N + 1] = LoadLine(g[N], key)
  <2>1. N + 1 \in 1 .. N + 1 /\ (N + 1) - 1 = N
    BY <1>1
  <2> QED
    BY <1>1, <1>3, <2>1
<1> QED
  BY <1>2, <1>3, <1>7, <1>8 DEF longer
-----------------------------------------------------------------------------
(* What the table of a file is: one entry to a key, with its lines. *)

KeysIn(file) == {file[n] : n \in 1 .. Len(file)}
LinesOf(file, key) == {n \in 1 .. Len(file) : file[n] = key}

Exact(table, file) ==
    /\ table \in [EtaIndex -> [key : {NoKey} \cup KeysIn(file), own : Nat, foreign : {0}]]
    /\ \A i \in EtaIndex : Samples(table[i]) > 0 => table[i].key \in KeysIn(file)
    /\ \A key \in KeysIn(file) :
         \E i \in EtaIndex : /\ EntriesOf(table, key) = {i}
                             /\ table[i].own = Cardinality(LinesOf(file, key))

LEMMA FileFacts ==
    ASSUME NEW K, NEW file \in Seq(K)
    PROVE  /\ IsFiniteSet(KeysIn(file)) /\ KeysIn(file) \subseteq K
           /\ \A key : IsFiniteSet(LinesOf(file, key))
           /\ \A key : key \notin KeysIn(file) => LinesOf(file, key) = {}
<1>1. Len(file) \in Nat /\ IsFiniteSet(1 .. Len(file))
  BY FS_Interval
<1>2. IsFiniteSet(KeysIn(file))
  <2> DEFINE f == [n \in 1 .. Len(file) |-> file[n]]
  <2>1. f \in Surjection(1 .. Len(file), KeysIn(file))
    BY DEF Surjection, KeysIn
  <2> HIDE DEF f
  <2> QED
    BY <1>1, <2>1, FS_Surjection
<1>3. \A key : LinesOf(file, key) \subseteq 1 .. Len(file)
  BY DEF LinesOf
<1>4. \A key : IsFiniteSet(LinesOf(file, key))
  BY <1>1, <1>3, FS_Subset
<1>5. KeysIn(file) \subseteq K
  BY DEF KeysIn
<1>6. \A key : key \notin KeysIn(file) => LinesOf(file, key) = {}
  BY DEF KeysIn, LinesOf
<1> QED
  BY <1>2, <1>4, <1>5, <1>6

LEMMA AppendFacts ==
    ASSUME NEW K, NEW file \in Seq(K), NEW key \in K
    PROVE  /\ Append(file, key) \in Seq(K)
           /\ KeysIn(Append(file, key)) = KeysIn(file) \cup {key}
           /\ \A k \in K : k # key => LinesOf(Append(file, key), k) = LinesOf(file, k)
           /\ Cardinality(LinesOf(Append(file, key), key)) = Cardinality(LinesOf(file, key)) + 1
<1> DEFINE longer == Append(file, key)
           N == Len(file)
<1>1. /\ N \in Nat /\ longer \in Seq(K) /\ Len(longer) = N + 1 /\ longer[N + 1] = key
      /\ \A n \in 1 .. N : longer[n] = file[n]
      /\ 1 .. N + 1 = (1 .. N) \cup {N + 1} /\ N + 1 \notin 1 .. N
  OBVIOUS
<1> HIDE DEF longer
<1>2. KeysIn(longer) = KeysIn(file) \cup {key}
  BY <1>1 DEF KeysIn
<1>3. \A k \in K : k # key => LinesOf(longer, k) = LinesOf(file, k)
  BY <1>1 DEF LinesOf
<1>4. LinesOf(longer, key) = LinesOf(file, key) \cup {N + 1} /\ N + 1 \notin LinesOf(file, key)
  BY <1>1 DEF LinesOf
<1>5. Cardinality(LinesOf(longer, key)) = Cardinality(LinesOf(file, key)) + 1
  <2>1. IsFiniteSet(LinesOf(file, key))
    BY FileFacts
  <2>2. PICK lines : lines = LinesOf(file, key)
    OBVIOUS
  <2> QED
    BY <1>4, <2>1, <2>2, FS_AddElement
<1> QED
  BY <1>1, <1>2, <1>3, <1>5 DEF longer

(* With entries for all keys there is one for the next line. *)
LEMMA RoomForKey ==
    ASSUME NEW K, NEW file \in Seq(K), NEW key \in K, NEW table, Exact(table, file),
           Cardinality(KeysIn(file) \cup {key}) <= EtaSlots
    PROVE  SlotsFor(table, key) # {}
<1>1. CASE key \in KeysIn(file)
  BY <1>1 DEF Exact, SlotsFor
<1>2. CASE key \notin KeysIn(file)
  <2>1. /\ IsFiniteSet(KeysIn(file)) /\ Cardinality(KeysIn(file)) \in Nat
        /\ Cardinality(KeysIn(file) \cup {key}) = Cardinality(KeysIn(file)) + 1
    BY <1>2, FileFacts, FS_AddElement, FS_CardinalityType
  <2>2. IsFiniteSet(EtaIndex) /\ Cardinality(EtaIndex) = EtaSlots
    BY EtaAssumption, FS_Interval DEF EtaIndex
  <2>3. ASSUME FreeEntries(table) = {} PROVE FALSE
    <3> DEFINE f == [i \in EtaIndex |-> table[i].key]
    <3>1. \A i \in EtaIndex : Samples(table[i]) > 0
      BY <2>3 DEF FreeEntries, Samples, Exact
    <3>2. f \in Injection(EtaIndex, KeysIn(file))
      <4>1. f \in [EtaIndex -> KeysIn(file)]
        BY <3>1 DEF Exact
      <4>2. ASSUME NEW i \in EtaIndex, NEW j \in EtaIndex, table[i].key = table[j].key PROVE i = j
        <5>1. table[i].key \in KeysIn(file)
          BY <3>1 DEF Exact
        <5>2. i \in EntriesOf(table, table[i].key) /\ j \in EntriesOf(table, table[i].key)
          BY <3>1, <4>2 DEF EntriesOf
        <5> QED
          BY <5>1, <5>2 DEF Exact
      <4>3. \A i \in EtaIndex : f[i] = table[i].key
        OBVIOUS
      <4> HIDE DEF f
      <4> QED
        BY <4>1, <4>2, <4>3 DEF Injection, IsInjective
    <3>3. Cardinality(EtaIndex) <= Cardinality(KeysIn(file))
      <4> HIDE DEF f
      <4> QED
        BY <2>1, <3>2, FS_Injection
    <3> QED
      BY <2>1, <2>2, <3>3, EtaAssumption
  <2> QED
    BY <2>3 DEF SlotsFor
<1> QED
  BY <1>1, <1>2

(* A line added to the entry of its key. *)
LEMMA AddIsExact ==
    ASSUME NEW K, NEW file \in Seq(K), NEW key \in K, NEW table, Exact(table, file),
           SlotsFor(table, key) # {}
    PROVE  Exact(AddTo(table, Min(SlotsFor(table, key)), key), Append(file, key))
<1>1. SlotsFor(table, key) \in SUBSET Nat /\ SlotsFor(table, key) \subseteq EtaIndex
  BY EtaAssumption DEF SlotsFor, EntriesOf, FreeEntries, EtaIndex
<1>2. PICK e \in EtaIndex : e = Min(SlotsFor(table, key)) /\ e \in SlotsFor(table, key)
  BY <1>1, MinIsLeast
<1>3. PICK after : after = AddTo(table, e, key)
  OBVIOUS
<1>4. PICK longer : longer = Append(file, key)
  OBVIOUS
<1>5. /\ longer \in Seq(K) /\ KeysIn(longer) = KeysIn(file) \cup {key}
      /\ \A k \in K : k # key => LinesOf(longer, k) = LinesOf(file, k)
      /\ Cardinality(LinesOf(longer, key)) = Cardinality(LinesOf(file, key)) + 1
      /\ KeysIn(file) \subseteq K
      /\ \A k : k \notin KeysIn(file) => LinesOf(file, k) = {}
  BY <1>4, AppendFacts, FileFacts
<1>6. /\ table[e].own \in Nat /\ table[e].foreign = 0
      /\ table[e] = [key |-> table[e].key, own |-> table[e].own, foreign |-> 0]
  BY DEF Exact
<1>7. /\ \A i \in EtaIndex : i # e => after[i] = table[i]
      /\ after[e] = [key |-> key, own |-> table[e].own + 1, foreign |-> 0]
      /\ after \in [EtaIndex -> [key : {NoKey} \cup KeysIn(longer), own : Nat, foreign : {0}]]
      /\ table[e].own = Cardinality(LinesOf(file, key))
  <2>1. CASE key \in KeysIn(file)
    <3>1. PICK i \in EtaIndex : /\ EntriesOf(table, key) = {i}
                                /\ table[i].own = Cardinality(LinesOf(file, key))
      BY <2>1 DEF Exact
    <3>2. e = i /\ Samples(table[e]) > 0 /\ table[e].key = key
      <4>1. SlotsFor(table, key) = {i} /\ e = i /\ e \in EntriesOf(table, key)
        BY <1>2, <3>1 DEF SlotsFor
      <4> QED
        BY <4>1 DEF EntriesOf
    <3>3. after = [table EXCEPT ![e] = [table[e] EXCEPT !.own = @ + 1]]
      <4>1. Samples(table[e]) # 0
        BY <1>6, <3>2 DEF Samples
      <4> QED
        BY <1>3, <3>2, <4>1 DEF AddTo, WithSample
    <3>4. [table[e] EXCEPT !.own = @ + 1] = [key |-> key, own |-> table[e].own + 1, foreign |-> 0]
      BY <1>6, <3>2
    <3> QED
      BY <1>5, <1>6, <3>1, <3>2, <3>3, <3>4 DEF Exact
  <2>2. CASE key \notin KeysIn(file)
    <3>1. EntriesOf(table, key) = {}
      BY <2>2 DEF Exact, EntriesOf
    <3>2. Samples(table[e]) = 0
      BY <1>2, <3>1 DEF SlotsFor, FreeEntries
    <3>3. table[e].own = 0
      BY <1>6, <3>2 DEF Samples
    <3>4. after = [table EXCEPT ![e] = [key |-> key, own |-> 1, foreign |-> 0]]
      BY <1>3, <3>2 DEF AddTo, WithSample
    <3>5. Cardinality(LinesOf(file, key)) = 0
      BY <1>5, <2>2, FS_EmptySet
    <3> QED
      BY <1>5, <3>3, <3>4, <3>5 DEF Exact
  <2> QED
    BY <2>1, <2>2
<1>8. \A i \in EtaIndex : Samples(after[i]) > 0 => after[i].key \in KeysIn(longer)
  <2>1. key \in KeysIn(longer) /\ KeysIn(file) \subseteq KeysIn(longer)
    BY <1>5
  <2>2. \A i \in EtaIndex : Samples(table[i]) > 0 => table[i].key \in KeysIn(file)
    BY DEF Exact
  <2>3. after[e].key = key
    BY <1>7
  <2> QED
    BY <1>7, <2>1, <2>2, <2>3
<1>9. ASSUME NEW k \in KeysIn(longer)
      PROVE  \E i \in EtaIndex : /\ EntriesOf(after, k) = {i}
                                 /\ after[i].own = Cardinality(LinesOf(longer, k))
  <2>1. CASE k = key
    <3>1. EntriesOf(table, key) \subseteq {e}
      <4>1. CASE EntriesOf(table, key) = {}
        BY <4>1
      <4>2. CASE EntriesOf(table, key) # {}
        <5>1. key \in KeysIn(file)
          BY <4>2 DEF Exact, EntriesOf
        <5>2. \E i : EntriesOf(table, key) = {i}
          BY <5>1 DEF Exact
        <5> QED
          BY <1>2, <4>2, <5>2 DEF SlotsFor
      <4> QED
        BY <4>1, <4>2
    <3>2. Samples(after[e]) > 0
      BY <1>6, <1>7 DEF Samples
    <3>3. EntriesOf(after, key) = {e}
      <4>1. ASSUME NEW i \in EtaIndex, i # e PROVE i \notin EntriesOf(after, key)
        BY <1>7, <3>1, <4>1 DEF EntriesOf
      <4>2. e \in EntriesOf(after, key)
        BY <1>7, <3>2 DEF EntriesOf
      <4>3. EntriesOf(after, key) \subseteq EtaIndex
        BY DEF EntriesOf
      <4> QED
        BY <4>1, <4>2, <4>3
    <3> QED
      BY <1>5, <1>7, <2>1, <3>3
  <2>2. CASE k # key
    <3>1. k \in KeysIn(file) /\ k \in K
      BY <1>5, <1>9, <2>2
    <3>2. PICK i \in EtaIndex : /\ EntriesOf(table, k) = {i}
                                /\ table[i].own = Cardinality(LinesOf(file, k))
      BY <3>1 DEF Exact
    <3>3. i # e
      <4>1. Samples(table[i]) > 0 /\ table[i].key = k
        BY <3>2 DEF EntriesOf
      <4>2. i \notin SlotsFor(table, key)
        BY <2>2, <4>1 DEF SlotsFor, EntriesOf, FreeEntries, Samples, Exact
      <4> QED
        BY <1>2, <4>2
    <3>4. e \notin EntriesOf(after, k)
      BY <1>7, <2>2 DEF EntriesOf
    <3>5. EntriesOf(after, k) = {i}
      <4>1. \A j \in EtaIndex : j # e => (j \in EntriesOf(after, k) <=> j \in EntriesOf(table, k))
        BY <1>7 DEF EntriesOf
      <4>2. EntriesOf(after, k) \subseteq EtaIndex
        BY DEF EntriesOf
      <4> QED
        BY <3>2, <3>3, <3>4, <4>1, <4>2
    <3> QED
      BY <1>5, <1>7, <2>2, <3>1, <3>2, <3>3, <3>5
  <2> QED
    BY <2>1, <2>2
<1> QED
  BY <1>2, <1>3, <1>4, <1>7, <1>8, <1>9 DEF Exact

(* The table loaded from any file with room for its keys is exact. *)
LEMMA LoadedIsExact ==
    ASSUME NEW K, NEW file \in Seq(K), Cardinality(KeysIn(file)) <= EtaSlots
    PROVE  Exact(Loaded(file), file)
<1>1. PICK N \in Nat : N = Len(file)
  OBVIOUS
<1>2. PICK f : /\ Loaded(file) = f[N]
               /\ f[0] = EmptyTable
               /\ \A n \in 1 .. N : f[n] = LoadLine(f[n - 1], file[n])
  BY <1>1, LoadedSteps
<1> DEFINE T == {n \in 0 .. N : Exact(f[n], SubSeq(file, 1, n))}
<1>3. 0 \in T
  <2>1. SubSeq(file, 1, 0) = <<>> /\ Len(<<>>) = 0
    OBVIOUS
  <2>2. KeysIn(<<>>) = {}
    BY <2>1 DEF KeysIn
  <2>3. \A i \in EtaIndex : EmptyTable[i] = [key |-> NoKey, own |-> 0, foreign |-> 0]
    BY DEF EmptyTable, FreeEntry
  <2>4. \A i \in EtaIndex : Samples(EmptyTable[i]) = 0
    BY <2>3 DEF Samples
  <2>5. EmptyTable \in [EtaIndex -> [key : {NoKey}, own : Nat, foreign : {0}]]
    BY DEF EmptyTable, FreeEntry
  <2>6. Exact(EmptyTable, <<>>)
    BY <2>2, <2>4, <2>5 DEF Exact
  <2>7. f[0] = EmptyTable /\ 0 \in 0 .. N
    BY <1>2
  <2>8. Exact(f[0], SubSeq(file, 1, 0))
    BY <2>1, <2>6, <2>7, Zenon
  <2> QED
    BY <2>7, <2>8
<1>4. ASSUME NEW n \in 0 .. N, n + 1 <= N, n \in T PROVE n + 1 \in T
  <2>1. n \in Nat /\ n + 1 \in 1 .. N /\ (n + 1) - 1 = n
    BY <1>4
  <2>2. f[n + 1] = LoadLine(f[n], file[n + 1])
    BY <1>2, <2>1
  <2>3. PICK part : part = SubSeq(file, 1, n)
    OBVIOUS
  <2>4. PICK key : key = file[n + 1]
    OBVIOUS
  <2>5. part \in Seq(K) /\ key \in K /\ SubSeq(file, 1, n + 1) = Append(part, key)
    BY <1>1, <2>1, <2>3, <2>4
  <2>6. Cardinality(KeysIn(part) \cup {key}) <= EtaSlots
    <3>1. KeysIn(part) \cup {key} \subseteq KeysIn(file)
      BY <1>1, <2>1, <2>3, <2>4 DEF KeysIn
    <3>2. /\ IsFiniteSet(KeysIn(file))
          /\ Cardinality(KeysIn(part) \cup {key}) <= Cardinality(KeysIn(file))
          /\ Cardinality(KeysIn(part) \cup {key}) \in Nat /\ Cardinality(KeysIn(file)) \in Nat
      BY <3>1, FileFacts, FS_Subset, FS_CardinalityType
    <3> QED
      BY <3>2, EtaAssumption
  <2>7. Exact(f[n], part)
    BY <1>4, <2>3
  <2>8. PICK table : table = f[n]
    OBVIOUS
  <2>9. SlotsFor(table, key) # {}
    BY <2>5, <2>6, <2>7, <2>8, RoomForKey
  <2>10. Exact(AddTo(table, Min(SlotsFor(table, key)), key), Append(part, key))
    BY <2>5, <2>7, <2>8, <2>9, AddIsExact
  <2>11. f[n + 1] = AddTo(table, Min(SlotsFor(table, key)), key)
    BY <2>2, <2>4, <2>8, <2>9 DEF LoadLine
  <2>12. Exact(f[n + 1], SubSeq(file, 1, n + 1))
    BY <2>5, <2>10, <2>11, Zenon
  <2>13. n + 1 \in 0 .. N
    BY <2>1
  <2> QED
    BY <2>12, <2>13
<1>5. T = 0 .. N
  <2>1. T \in SUBSET (0 .. N)
    OBVIOUS
  <2> HIDE DEF T
  <2> QED
    BY <1>3, <1>4, <2>1, UpTo
<1>6. SubSeq(file, 1, N) = file
  BY <1>1
<1>7. Exact(f[N], SubSeq(file, 1, N))
  BY <1>1, <1>5
<1> QED
  BY <1>2, <1>6, <1>7
-----------------------------------------------------------------------------
(* The encoders chosen for an upload. *)

LEMMA IfRunFacts ==
    ASSUME NEW S, NEW u, NEW e \in S
    PROVE  /\ IfRun(u, e) \in Seq(S)
           /\ ShouldRun(u, e) => IfRun(u, e) = <<e>>
           /\ ~ShouldRun(u, e) => IfRun(u, e) = <<>>
BY DEF IfRun

AnEncoder == {Encoders[n] : n \in 1 .. 4}

LEMMA EncodersFacts ==
    /\ Encoders \in Seq(AnEncoder)
    /\ Len(Encoders) = 4
    /\ \A e \in AnEncoder : e.failure \in -5 .. -2
    /\ \A n \in 1 .. 4 : Encoders[n] \in AnEncoder
<1>1. /\ Len(Encoders) = 4
      /\ \A n \in 1 .. 4 : Encoders[n] \in AnEncoder
  BY DEF Encoders, AnEncoder
<1>2. Encoders \in Seq(AnEncoder)
  <2>1. PICK e1, e2, e3, e4 : /\ e1 = Encoders[1] /\ e2 = Encoders[2]
                              /\ e3 = Encoders[3] /\ e4 = Encoders[4]
    OBVIOUS
  <2>2. Encoders = <<e1, e2, e3, e4>>
    BY <2>1 DEF Encoders
  <2>3. e1 \in AnEncoder /\ e2 \in AnEncoder /\ e3 \in AnEncoder /\ e4 \in AnEncoder
    BY <1>1, <2>1
  <2> QED
    BY <2>2, <2>3
<1>3. \A n \in 1 .. 4 : Encoders[n].failure \in -5 .. -2
  <2>1. /\ Encoders[1].failure = -2 /\ Encoders[2].failure = -5
        /\ Encoders[3].failure = -3 /\ Encoders[4].failure = -4
    BY DEF Encoders
  <2>2. \A n \in 1 .. 4 : n = 1 \/ n = 2 \/ n = 3 \/ n = 4
    OBVIOUS
  <2> QED
    BY <2>1, <2>2
<1> QED
  BY <1>1, <1>2, <1>3 DEF AnEncoder

LEMMA TasksFacts ==
    ASSUME NEW u
    PROVE  TasksFor(u) \in Seq(AnEncoder)
<1>1. ASSUME NEW n \in 1 .. 4 PROVE IfRun(u, Encoders[n]) \in Seq(AnEncoder)
  <2>1. Encoders[n] \in AnEncoder
    BY EncodersFacts
  <2>2. PICK e : e = Encoders[n]
    OBVIOUS
  <2> QED
    BY <2>1, <2>2, IfRunFacts
<1>2. PICK r1 \in Seq(AnEncoder), r2 \in Seq(AnEncoder), r3 \in Seq(AnEncoder), r4 \in Seq(AnEncoder) :
        /\ r1 = IfRun(u, Encoders[1]) /\ r2 = IfRun(u, Encoders[2])
        /\ r3 = IfRun(u, Encoders[3]) /\ r4 = IfRun(u, Encoders[4])
  BY <1>1
<1>3. r1 \o r2 \o r3 \o r4 \in Seq(AnEncoder)
  OBVIOUS
<1> QED
  BY <1>2, <1>3, EncodersFacts DEF TasksFor

(* A tune request the server lets through has its encoder run, and no      *)
(* other.                                                                  *)
LEMMA TuneTasks ==
    ASSUME NEW u, Checked(u), KnownTarget(u)
    PROVE  /\ Len(TasksFor(u)) = 1
           /\ TasksFor(u)[1].format = u.format /\ TasksFor(u)[1].label = u.label
<1>1. PICK n \in 1 .. 4 : Encoders[n].format = u.format /\ Encoders[n].label = u.label
  <2>1. Len(Encoders) = 4
    BY EncodersFacts
  <2>2. \E n \in 1 .. Len(Encoders) : Encoders[n].format = u.format /\ Encoders[n].label = u.label
    BY DEF KnownTarget
  <2> QED
    BY <2>1, <2>2, Zenon
<1>2. \A m \in 1 .. 4 : ShouldRun(u, Encoders[m]) <=> m = n
  <2>1. /\ Encoders[1].label = "lossless" /\ Encoders[2].label = "pngquant q80"
        /\ Encoders[3].label = "high" /\ Encoders[4].label = "medium"
    BY DEF Encoders
  <2>2. \A m \in 1 .. 4 : m = 1 \/ m = 2 \/ m = 3 \/ m = 4
    OBVIOUS
  <2>3. \A m \in 1 .. 4 : Encoders[m].label = Encoders[n].label => m = n
    BY <2>1, <2>2
  <2>4. u.label # ""
    BY <1>1, <2>1, <2>2
  <2>5. u.format # ""
    BY DEF Checked
  <2>6. \A m \in 1 .. 4 : ShouldRun(u, Encoders[m]) => Encoders[m].label = u.label
    BY <2>4, <2>5 DEF ShouldRun
  <2>7. ShouldRun(u, Encoders[n])
    BY <1>1 DEF ShouldRun
  <2> QED
    BY <1>1, <2>3, <2>6, <2>7
<1>3. \A m \in 1 .. 4 : IfRun(u, Encoders[m]) = IF m = n THEN <<Encoders[n]>> ELSE <<>>
  BY <1>2 DEF IfRun
<1>4. PICK e : e = Encoders[n]
  OBVIOUS
<1>5. TasksFor(u) = <<e>>
  <2>1. PICK r1, r2, r3, r4 : /\ r1 = IfRun(u, Encoders[1]) /\ r2 = IfRun(u, Encoders[2])
                              /\ r3 = IfRun(u, Encoders[3]) /\ r4 = IfRun(u, Encoders[4])
    OBVIOUS
  <2>2. /\ r1 = IF 1 = n THEN <<e>> ELSE <<>>
        /\ r2 = IF 2 = n THEN <<e>> ELSE <<>>
        /\ r3 = IF 3 = n THEN <<e>> ELSE <<>>
        /\ r4 = IF 4 = n THEN <<e>> ELSE <<>>
    BY <1>3, <1>4, <2>1
  <2>3. TasksFor(u) = r1 \o r2 \o r3 \o r4
    BY <2>1 DEF TasksFor, Checked
  <2>4. r1 \o r2 \o r3 \o r4 = <<e>>
    <3>1. CASE n = 1
      BY <2>2, <3>1
    <3>2. CASE n = 2
      BY <2>2, <3>2
    <3>3. CASE n = 3
      BY <2>2, <3>3
    <3>4. CASE n = 4
      BY <2>2, <3>4
    <3> QED
      BY <3>1, <3>2, <3>3, <3>4
  <2> QED
    BY <2>3, <2>4
<1> QED
  BY <1>1, <1>4, <1>5

-----------------------------------------------------------------------------
(* The inductive invariant. *)

Ended == {"ok", "failed"}

(* Until an image is decoded there are no tasks; a worker that starts or   *)
(* joins has those of the upload, with memory for them.                    *)
StageOK ==
    /\ upload \in Uploads
    /\ stage \in {"arrived", "rejected", "decode", "start", "join", "done"}
    /\ stage \in {"arrived", "decode", "rejected"} => tasks = <<>>
    /\ stage \in {"start", "join"} => tasks = TasksFor(upload)
    /\ stage = "done" => tasks \in {<<>>, TasksFor(upload)}
    /\ stage = "join" => tasks # <<>>
    /\ stage \in {"arrived", "decode"} => memory = {"job"} /\ at = 1
    /\ stage \in {"start", "join"} => memory = {"image", "job"}
    /\ stage \in {"rejected", "done"} => memory = {}
    /\ stage \in {"start", "join"} /\ Checked(upload) => KnownTarget(upload)
    /\ stage = "decode" /\ Checked(upload) => KnownTarget(upload)

(* What the loops have passed has been started, or has ended. *)
LoopsOK ==
    /\ at \in 1 .. (Len(tasks) + 1)
    /\ encoder \in [Index -> {"none", "running", "encoded", "timed", "ok", "failed"}]
    /\ inline \subseteq Index
    /\ stage = "start" => \A i \in Index : encoder[i] = "none" <=> i >= at
    /\ stage = "join" => /\ \A i \in Index : encoder[i] # "none"
                         /\ \A i \in inline : encoder[i] \in Ended
                         /\ \A i \in Index : i < at => encoder[i] \in Ended
    /\ stage = "done" => \A i \in Index : encoder[i] \in Ended

(* What an encoder has left behind tells how far it is. *)
OutputsOK ==
    /\ outputs = {i \in Index : encoder[i] \in {"encoded", "timed", "ok"}}
    /\ events \in Seq(Index)
    /\ IsInjective(events)
    /\ {events[k] : k \in 1 .. Len(events)} = {i \in Index : encoder[i] = "ok"}

(* The verdict is that of no image, of no task, of no failure, or of the   *)
(* first failure.                                                          *)
VerdictOK ==
    /\ stage # "done" => status = 0 /\ count = 0
    /\ stage = "done" =>
         \/ tasks = <<>> /\ status \in {-1, -6} /\ count = 0
         \/ /\ tasks # <<>> /\ status = 0 /\ count = Len(tasks)
            /\ \A i \in Index : encoder[i] = "ok"
         \/ /\ count = 0
            /\ \E i \in Index : /\ encoder[i] = "failed" /\ status = tasks[i].failure
                                /\ \A j \in Index : j < i => encoder[j] = "ok"

(* With room for all keys the table is that of the file, at every step. *)
EtaOK ==
    /\ report \in {Report(Decoded(upload.picture)), Prepared(upload.picture, upload.ops)}
    /\ eta = [table |-> eta.table, file |-> eta.file, writable |-> eta.writable]
    /\ eta.writable \in BOOLEAN
    /\ eta.file \in Seq(KeysIn(eta.file))
    /\ eta.table \in [EtaIndex -> [key : {NoKey} \cup KeysIn(eta.file) \cup {KeyOf(i) : i \in Index},
                                   own : Nat, foreign : Nat]]
    /\ eta.writable /\ Cardinality(KeysIn(eta.file)) <= EtaSlots => eta.table = Loaded(eta.file)

JobInv == StageOK /\ LoopsOK /\ OutputsOK /\ VerdictOK /\ EtaOK
-----------------------------------------------------------------------------
(* The tasks are a short sequence at every stage. *)
LEMMA TasksAreSeq ==
    ASSUME StageOK
    PROVE  /\ tasks \in Seq(AnEncoder) /\ Len(tasks) \in Nat
           /\ tasks = <<>> <=> Len(tasks) = 0
           /\ Index = 1 .. Len(tasks)
           /\ \A i \in Index : tasks[i] \in AnEncoder
<1>1. tasks \in Seq(AnEncoder)
  <2>1. TasksFor(upload) \in Seq(AnEncoder)
    BY TasksFacts
  <2>2. tasks = <<>> \/ tasks = TasksFor(upload)
    BY DEF StageOK
  <2>3. <<>> \in Seq(AnEncoder)
    OBVIOUS
  <2> QED
    BY <2>1, <2>2, <2>3, Zenon
<1> QED
  BY <1>1 DEF Index
-----------------------------------------------------------------------------
(* The stages. *)

LEMMA StageStep ==
    ASSUME StageOK, [Next]_vars
    PROVE  StageOK'
<1> USE DEF StageOK, Goto, work, verdict, result
<1>1. CASE Accept
  BY <1>1 DEF Accept
<1>2. CASE Reject
  BY <1>2 DEF Reject
<1>3. CASE DecodeFails
  BY <1>3 DEF DecodeFails, Finish
<1>4. CASE Decode
  BY <1>4 DEF Decode
<1>5. CASE NothingToRun
  BY <1>5 DEF NothingToRun, Finish
<1>6. CASE Start
  BY <1>6 DEF Start
<1>7. CASE StartJoining
  BY <1>7 DEF StartJoining
<1>8. CASE Join
  BY <1>8 DEF Join
<1>9. CASE Judge
  BY <1>9 DEF Judge, Finish
<1>10. ASSUME NEW i \in Index, EncoderStep(i) PROVE StageOK'
  BY <1>10 DEF EncoderStep, Encode, EncodeFails, Record, Emit
<1>11. CASE UNCHANGED vars
  BY <1>11 DEF vars
<1> QED
  BY <1>1, <1>2, <1>3, <1>4, <1>5, <1>6, <1>7, <1>8, <1>9, <1>10, <1>11 DEF Next, WorkerStep

(* The loops: nothing is passed over, and what has ended stays ended. *)
LEMMA LoopsStep ==
    ASSUME StageOK, LoopsOK, [Next]_vars
    PROVE  LoopsOK'
<1>0. Index = 1 .. Len(tasks) /\ Len(tasks) \in Nat /\ (tasks = <<>> <=> Len(tasks) = 0)
  BY TasksAreSeq
<1>1. CASE Accept
  BY <1>1 DEF Accept, Goto, LoopsOK, Index, work
<1>2. CASE Reject
  BY <1>2 DEF Reject, Goto, LoopsOK, Index, work
<1>3. CASE DecodeFails
  <2>1. stage = "decode" /\ stage' = "done" /\ UNCHANGED <<tasks, at, encoder, inline>>
    BY <1>3 DEF DecodeFails, Finish, Goto
  <2>2. tasks = <<>> /\ Index = {}
    BY <1>0, <2>1 DEF StageOK
  <2> QED
    BY <2>1, <2>2 DEF LoopsOK, Index
<1>4. CASE Decode
  <2>1. /\ stage = "decode" /\ stage' = "start" /\ tasks' = TasksFor(upload)
        /\ encoder' = [i \in 1 .. Len(TasksFor(upload)) |-> "none"]
        /\ at' = at /\ inline' = inline
    BY <1>4 DEF Decode, Goto
  <2>2. at = 1 /\ tasks = <<>> /\ Index = {}
    BY <1>0, <2>1 DEF StageOK
  <2>3. inline' = {}
    BY <2>1, <2>2 DEF LoopsOK
  <2>4. Len(tasks') \in Nat
    BY <2>1, TasksFacts
  <2>5. encoder' = [i \in Index' |-> "none"]
    BY <2>1 DEF Index
  <2>6. \A i \in Index' : i \in Nat /\ i >= 1
    BY <2>4 DEF Index
  <2> QED
    BY <2>1, <2>2, <2>3, <2>4, <2>5, <2>6 DEF LoopsOK
<1>5. CASE NothingToRun
  <2>1. stage' = "done" /\ tasks = <<>> /\ UNCHANGED <<tasks, at, encoder, inline>>
    BY <1>5 DEF NothingToRun, Finish, Goto
  <2>2. Index = {}
    BY <1>0, <2>1
  <2> QED
    BY <2>1, <2>2 DEF LoopsOK, Index
<1>6. CASE Start
  <2>1. /\ stage = "start" /\ stage' = "start" /\ at \in Index /\ tasks' = tasks /\ Index' = Index
        /\ encoder' = [encoder EXCEPT ![at] = "running"]
        /\ inline' = inline \/ inline' = inline \cup {at}
        /\ at' = at + 1
    BY <1>6 DEF Start, Index
  <2>2. at' \in 1 .. Len(tasks) + 1
    BY <1>0, <2>1
  <2>3. encoder' \in [Index -> {"none", "running", "encoded", "timed", "ok", "failed"}]
    BY <2>1 DEF LoopsOK
  <2>4. \A i \in Index : encoder'[i] = "none" <=> i >= at'
    <3>1. \A i \in Index : encoder'[i] = IF i = at THEN "running" ELSE encoder[i]
      BY <2>1 DEF LoopsOK
    <3>2. \A i \in Index : encoder[i] = "none" <=> i >= at
      BY <2>1 DEF LoopsOK
    <3>3. \A i \in Index : i >= at + 1 <=> i >= at /\ i # at
      BY <1>0, <2>1
    <3> QED
      BY <2>1, <3>1, <3>2, <3>3
  <2> QED
    BY <2>1, <2>2, <2>3, <2>4 DEF LoopsOK
<1>7. CASE StartJoining
  <2>1. /\ stage = "start" /\ stage' = "join" /\ at > Len(tasks) /\ at' = 1
        /\ UNCHANGED <<tasks, encoder, inline>> /\ Index' = Index /\ Free
    BY <1>7 DEF StartJoining, Goto, Index
  <2>2. \A i \in Index : encoder[i] # "none"
    <3>1. \A i \in Index : ~ (i >= at)
      BY <1>0, <2>1 DEF LoopsOK
    <3> QED
      BY <2>1, <3>1 DEF LoopsOK
  <2>3. \A i \in inline : encoder[i] \in Ended
    BY <2>1 DEF Free, Ended
  <2>4. \A i \in Index : ~ (i < 1)
    BY <1>0
  <2>5. at' \in 1 .. Len(tasks) + 1
    BY <1>0, <2>1
  <2> QED
    BY <2>1, <2>2, <2>3, <2>4, <2>5 DEF LoopsOK
<1>8. CASE Join
  <2>1. /\ stage = "join" /\ stage' = "join" /\ at \in Index /\ at' = at + 1
        /\ at \in inline \/ encoder[at] \in Ended
        /\ UNCHANGED <<tasks, encoder, inline>> /\ Index' = Index
    BY <1>8 DEF Join, Index, Ended
  <2>2. at' \in 1 .. Len(tasks) + 1
    BY <1>0, <2>1
  <2>3. encoder[at] \in Ended
    BY <2>1 DEF LoopsOK
  <2>4. \A i \in Index : i < at + 1 => i < at \/ i = at
    BY <1>0, <2>1
  <2> QED
    BY <2>1, <2>2, <2>3, <2>4 DEF LoopsOK
<1>9. CASE Judge
  <2>1. /\ stage = "join" /\ stage' = "done" /\ at > Len(tasks)
        /\ UNCHANGED <<tasks, at, encoder, inline>> /\ Index' = Index
    BY <1>9 DEF Judge, Finish, Goto, Index
  <2>2. \A i \in Index : i < at
    BY <1>0, <2>1 DEF LoopsOK
  <2> QED
    BY <2>1, <2>2 DEF LoopsOK
<1>10. ASSUME NEW i \in Index, EncoderStep(i) PROVE LoopsOK'
  <2>1. /\ UNCHANGED <<stage, tasks, at, inline>> /\ Index' = Index
        /\ encoder[i] \in {"running", "encoded", "timed"}
        /\ \E s \in {"encoded", "timed", "ok", "failed"} : encoder' = [encoder EXCEPT ![i] = s]
    BY <1>10 DEF EncoderStep, Encode, EncodeFails, Record, Emit, Index
  <2>2. PICK s \in {"encoded", "timed", "ok", "failed"} : encoder' = [encoder EXCEPT ![i] = s]
    BY <2>1
  <2>3. encoder' \in [Index -> {"none", "running", "encoded", "timed", "ok", "failed"}]
    BY <2>2 DEF LoopsOK
  <2>4. \A j \in Index : encoder'[j] = IF j = i THEN s ELSE encoder[j]
    BY <2>2 DEF LoopsOK
  <2>5. \A j \in Index : encoder[j] \in Ended => encoder'[j] = encoder[j]
    BY <2>1, <2>4 DEF Ended
  <2>6. \A j \in Index : encoder'[j] = "none" <=> encoder[j] = "none"
    BY <2>1, <2>4
  <2> QED
    BY <2>1, <2>3, <2>5, <2>6 DEF LoopsOK
<1>11. CASE UNCHANGED vars
  BY <1>11 DEF vars, LoopsOK, Index
<1> QED
  BY <1>1, <1>2, <1>3, <1>4, <1>5, <1>6, <1>7, <1>8, <1>9, <1>10, <1>11 DEF Next, WorkerStep
-----------------------------------------------------------------------------
(* Outputs and events. *)

LEMMA InjectiveAppend ==
    ASSUME NEW S, NEW s \in Seq(S), NEW x \in S, IsInjective(s),
           \A k \in 1 .. Len(s) : s[k] # x
    PROVE  /\ Append(s, x) \in Seq(S)
           /\ IsInjective(Append(s, x))
           /\ {Append(s, x)[k] : k \in 1 .. Len(Append(s, x))} = {s[k] : k \in 1 .. Len(s)} \cup {x}
<1>1. PICK longer : longer = Append(s, x)
  OBVIOUS
<1>2. /\ longer \in Seq(S) /\ Len(s) \in Nat /\ Len(longer) = Len(s) + 1
      /\ longer[Len(s) + 1] = x /\ \A k \in 1 .. Len(s) : longer[k] = s[k]
  BY <1>1
<1>3. \A a, b \in 1 .. Len(s) : s[a] = s[b] => a = b
  BY DEF IsInjective
<1>4. \A k \in 1 .. Len(longer) : k \in 1 .. Len(s) \/ k = Len(s) + 1
  BY <1>2
<1>5. IsInjective(longer)
  <2>1. \A a, b \in 1 .. Len(longer) : longer[a] = longer[b] => a = b
    BY <1>2, <1>3, <1>4
  <2>2. DOMAIN longer = 1 .. Len(longer)
    BY <1>2
  <2> QED
    BY <2>1, <2>2 DEF IsInjective
<1>6. {longer[k] : k \in 1 .. Len(longer)} = {s[k] : k \in 1 .. Len(s)} \cup {x}
  <2>1. Len(s) + 1 \in 1 .. Len(longer) /\ \A k \in 1 .. Len(s) : k \in 1 .. Len(longer)
    BY <1>2
  <2> QED
    BY <1>2, <1>4, <2>1
<1> QED
  BY <1>1, <1>2, <1>5, <1>6

LEMMA OutputsStep ==
    ASSUME StageOK, LoopsOK, OutputsOK, [Next]_vars
    PROVE  OutputsOK'
<1>0. Index = 1 .. Len(tasks) /\ Len(tasks) \in Nat /\ (tasks = <<>> <=> Len(tasks) = 0)
  BY TasksAreSeq
<1>1. CASE UNCHANGED <<tasks, encoder, outputs, events>>
  BY <1>1 DEF OutputsOK, Index
<1>2. CASE Decode
  <2>1. /\ stage = "decode" /\ encoder' = [i \in 1 .. Len(tasks') |-> "none"]
        /\ outputs' = outputs /\ events' = events
    BY <1>2 DEF Decode, Goto
  <2>2. Index = {}
    BY <1>0, <2>1 DEF StageOK
  <2>3. outputs = {} /\ events = <<>>
    BY <2>2 DEF OutputsOK
  <2>4. \A i \in Index' : encoder'[i] = "none"
    BY <2>1 DEF Index
  <2>5. <<>> \in Seq(Index') /\ Len(<<>>) = 0 /\ DOMAIN <<>> = {}
    OBVIOUS
  <2>6. IsInjective(<<>>)
    BY <2>5 DEF IsInjective
  <2>7. events' = <<>> /\ outputs' = {}
    BY <2>1, <2>3
  <2>8. {events'[k] : k \in 1 .. Len(events')} = {}
    BY <2>5, <2>7
  <2>9. events' \in Seq(Index') /\ IsInjective(events')
    BY <2>5, <2>6, <2>7, Zenon
  <2> QED
    BY <2>4, <2>7, <2>8, <2>9 DEF OutputsOK
<1>3. CASE Start
  <2>1. /\ at \in Index /\ stage = "start" /\ Index' = Index
        /\ encoder' = [encoder EXCEPT ![at] = "running"]
        /\ outputs' = outputs /\ events' = events
    BY <1>3 DEF Start, Index
  <2>2. encoder[at] = "none"
    BY <1>0, <2>1 DEF LoopsOK
  <2>3. \A i \in Index : encoder'[i] = IF i = at THEN "running" ELSE encoder[i]
    BY <2>1 DEF LoopsOK
  <2>4. \A i \in Index : /\ encoder'[i] \in {"encoded", "timed", "ok"} <=> encoder[i] \in {"encoded", "timed", "ok"}
                         /\ encoder'[i] = "ok" <=> encoder[i] = "ok"
    BY <2>2, <2>3
  <2> QED
    BY <2>1, <2>4 DEF OutputsOK
<1>4. ASSUME NEW i \in Index, Encode(i) PROVE OutputsOK'
  <2>1. /\ encoder[i] = "running" /\ Index' = Index
        /\ encoder' = [encoder EXCEPT ![i] = "encoded"]
        /\ outputs' = outputs \cup {i} /\ events' = events
    BY <1>4 DEF Encode, Index
  <2>2. \A j \in Index : encoder'[j] = IF j = i THEN "encoded" ELSE encoder[j]
    BY <2>1 DEF LoopsOK
  <2> QED
    BY <2>1, <2>2 DEF OutputsOK
<1>5. ASSUME NEW i \in Index, EncodeFails(i) PROVE OutputsOK'
  <2>1. /\ encoder[i] = "running" /\ Index' = Index
        /\ encoder' = [encoder EXCEPT ![i] = "failed"]
        /\ outputs' = outputs /\ events' = events
    BY <1>5 DEF EncodeFails, Index
  <2>2. \A j \in Index : encoder'[j] = IF j = i THEN "failed" ELSE encoder[j]
    BY <2>1 DEF LoopsOK
  <2> QED
    BY <2>1, <2>2 DEF OutputsOK
<1>6. ASSUME NEW i \in Index, Record(i) PROVE OutputsOK'
  <2>1. /\ encoder[i] = "encoded" /\ Index' = Index
        /\ encoder' = [encoder EXCEPT ![i] = "timed"]
        /\ outputs' = outputs /\ events' = events
    BY <1>6 DEF Record, Index
  <2>2. \A j \in Index : encoder'[j] = IF j = i THEN "timed" ELSE encoder[j]
    BY <2>1 DEF LoopsOK
  <2> QED
    BY <2>1, <2>2 DEF OutputsOK
<1>7. ASSUME NEW i \in Index, Emit(i) PROVE OutputsOK'
  <2>1. /\ encoder[i] = "timed" /\ Index' = Index
        /\ encoder' = [encoder EXCEPT ![i] = "ok"]
        /\ outputs' = outputs /\ events' = Append(events, i)
    BY <1>7 DEF Emit, Index
  <2>2. \A j \in Index : encoder'[j] = IF j = i THEN "ok" ELSE encoder[j]
    BY <2>1 DEF LoopsOK
  <2>3. events \in Seq(Index) /\ IsInjective(events) /\ \A k \in 1 .. Len(events) : events[k] # i
    BY <2>1 DEF OutputsOK
  <2>4. /\ events' \in Seq(Index) /\ IsInjective(events')
        /\ {events'[k] : k \in 1 .. Len(events')} = {events[k] : k \in 1 .. Len(events)} \cup {i}
    BY <2>1, <2>3, InjectiveAppend
  <2>5. {events'[k] : k \in 1 .. Len(events')} = {j \in Index : encoder'[j] = "ok"}
    BY <2>2, <2>4 DEF OutputsOK
  <2>6. outputs' = {j \in Index : encoder'[j] \in {"encoded", "timed", "ok"}}
    BY <2>1, <2>2 DEF OutputsOK
  <2> QED
    BY <2>1, <2>4, <2>5, <2>6 DEF OutputsOK
<1> QED
  BY <1>1, <1>2, <1>3, <1>4, <1>5, <1>6, <1>7
     DEF Next, WorkerStep, EncoderStep, Accept, Reject, DecodeFails, NothingToRun, Finish,
         StartJoining, Join, Judge, work, vars
-----------------------------------------------------------------------------
(* The verdict. *)

LEMMA VerdictStep ==
    ASSUME StageOK, LoopsOK, VerdictOK, [Next]_vars
    PROVE  VerdictOK'
<1>0. Index = 1 .. Len(tasks) /\ Len(tasks) \in Nat /\ (tasks = <<>> <=> Len(tasks) = 0)
  BY TasksAreSeq
<1>1. CASE stage' # "done" /\ stage # "done" /\ UNCHANGED verdict
  BY <1>1 DEF VerdictOK, verdict
<1>2. CASE DecodeFails
  <2>1. stage = "decode" /\ tasks' = tasks /\ status' = -1 /\ count' = 0 /\ stage' = "done"
    BY <1>2 DEF DecodeFails, Finish, Goto
  <2> QED
    BY <2>1 DEF StageOK, VerdictOK
<1>3. CASE NothingToRun
  <2>1. tasks = <<>> /\ tasks' = tasks /\ status' = -6 /\ count' = 0 /\ stage' = "done"
    BY <1>3 DEF NothingToRun, Finish, Goto
  <2> QED
    BY <2>1 DEF VerdictOK
<1>4. CASE Judge
  <2>1. /\ stage = "join" /\ stage' = "done" /\ at > Len(tasks) /\ tasks # <<>>
        /\ UNCHANGED <<tasks, encoder>> /\ Index' = Index
    BY <1>4 DEF Judge, Finish, Goto, Index, StageOK
  <2>2. \A i \in Index : encoder[i] \in Ended
    <3>1. \A i \in Index : i < at
      BY <1>0, <2>1 DEF LoopsOK
    <3> QED
      BY <2>1, <3>1 DEF LoopsOK
  <2>3. CASE {i \in Index : encoder[i] = "failed"} = {} /\ status' = 0 /\ count' = Len(tasks)
    <3>1. \A i \in Index : encoder[i] = "ok"
      BY <2>2, <2>3 DEF Ended
    <3> QED
      BY <2>1, <2>3, <3>1 DEF VerdictOK
  <2>4. ASSUME NEW i \in {i \in Index : encoder[i] = "failed"},
               \A j \in {j \in Index : encoder[j] = "failed"} : i <= j,
               status' = tasks[i].failure, count' = 0
        PROVE  VerdictOK'
    <3>1. \A j \in Index : j < i => encoder[j] = "ok"
      <4>1. \A j \in Index : j < i => ~ (i <= j)
        BY <1>0
      <4> QED
        BY <2>2, <2>4, <4>1 DEF Ended
    <3> QED
      BY <2>1, <2>4, <3>1 DEF VerdictOK
  <2> QED
    BY <1>4, <2>3, <2>4 DEF Judge, Finish
<1>5. CASE UNCHANGED vars
  BY <1>5 DEF vars, verdict, VerdictOK, Index
<1>6. ASSUME NEW i \in Index, EncoderStep(i) PROVE VerdictOK'
  <2>1. /\ encoder[i] \in {"running", "encoded", "timed"}
        /\ stage' = stage /\ UNCHANGED verdict
    BY <1>6 DEF EncoderStep, Encode, EncodeFails, Record, Emit, result
  <2>2. stage # "done"
    BY <2>1 DEF LoopsOK, Ended
  <2> QED
    BY <1>1, <2>1, <2>2
<1>7. Accept \/ Reject \/ Decode \/ Start \/ StartJoining \/ Join =>
        stage' # "done" /\ stage # "done" /\ UNCHANGED verdict
  BY DEF Accept, Reject, Decode, Start, StartJoining, Join, Goto, result
<1> QED
  BY <1>1, <1>2, <1>3, <1>4, <1>5, <1>6, <1>7 DEF Next, WorkerStep
-----------------------------------------------------------------------------
(* The ETA table. *)

TablesOver(keys) == [EtaIndex -> [key : keys, own : Nat, foreign : Nat]]

LEMMA AddTyped ==
    ASSUME NEW keys, NEW table \in TablesOver(keys), NEW i \in EtaIndex, NEW key \in keys
    PROVE  AddTo(table, i, key) \in TablesOver(keys)
<1>1. PICK e \in [key : keys, own : Nat, foreign : Nat] : e = table[i]
  BY DEF TablesOver
<1>2. WithSample(e, key) \in [key : keys, own : Nat, foreign : Nat]
  BY DEF WithSample
<1>3. PICK w \in [key : keys, own : Nat, foreign : Nat] : w = WithSample(e, key)
  BY <1>2
<1>4. AddTo(table, i, key) = [table EXCEPT ![i] = w]
  BY <1>1, <1>3 DEF AddTo
<1> QED
  BY <1>4 DEF TablesOver

LEMMA SlotsFacts ==
    ASSUME NEW table, NEW key
    PROVE  /\ SlotsFor(table, key) # {} => Min(SlotsFor(table, key)) \in EtaIndex
           /\ 1 \in EtaIndex
<1>1. SlotsFor(table, key) \in SUBSET Nat /\ SlotsFor(table, key) \subseteq EtaIndex
  BY EtaAssumption DEF SlotsFor, EntriesOf, FreeEntries, EtaIndex
<1>2. PICK slots : slots = SlotsFor(table, key)
  OBVIOUS
<1>3. slots # {} => Min(slots) \in slots
  BY <1>1, <1>2, MinIsLeast
<1>4. 1 \in EtaIndex
  BY EtaAssumption DEF EtaIndex
<1> QED
  BY <1>1, <1>2, <1>3, <1>4

LEMMA LineTyped ==
    ASSUME NEW keys, NEW table \in TablesOver(keys), NEW key \in keys
    PROVE  /\ LoadLine(table, key) \in TablesOver(keys)
           /\ Recorded(table, key) \in TablesOver(keys)
<1>1. PICK i : i = IF SlotsFor(table, key) = {} THEN 1 ELSE Min(SlotsFor(table, key))
  OBVIOUS
<1>2. i \in EtaIndex
  BY <1>1, SlotsFacts
<1>3. AddTo(table, i, key) \in TablesOver(keys)
  BY <1>2, AddTyped
<1>4. Recorded(table, key) = AddTo(table, i, key)
  BY <1>1 DEF Recorded
<1>5. LoadLine(table, key) = table \/ LoadLine(table, key) = AddTo(table, i, key)
  BY <1>1 DEF LoadLine
<1> QED
  BY <1>3, <1>4, <1>5, Zenon

(* A table loaded has no keys but those of the file, whether there is room *)
(* for them or not.                                                        *)
LEMMA LoadedTyped ==
    ASSUME NEW K, NEW file \in Seq(K)
    PROVE  Loaded(file) \in TablesOver({NoKey} \cup KeysIn(file))
<1>1. PICK N \in Nat : N = Len(file)
  OBVIOUS
<1>2. PICK keys : keys = {NoKey} \cup KeysIn(file)
  OBVIOUS
<1>3. PICK f : /\ Loaded(file) = f[N]
               /\ f[0] = EmptyTable
               /\ \A n \in 1 .. N : f[n] = LoadLine(f[n - 1], file[n])
  BY <1>1, LoadedSteps
<1> DEFINE T == {n \in 0 .. N : f[n] \in TablesOver(keys)}
<1>4. 0 \in T
  <2>1. EmptyTable \in TablesOver(keys)
    BY <1>2 DEF EmptyTable, FreeEntry, TablesOver
  <2>2. f[0] \in TablesOver(keys) /\ 0 \in 0 .. N
    BY <1>3, <2>1
  <2> QED
    BY <2>2
<1>5. ASSUME NEW n \in 0 .. N, n + 1 <= N, n \in T PROVE n + 1 \in T
  <2>1. n + 1 \in 0 .. N /\ n + 1 \in 1 .. N /\ (n + 1) - 1 = n
    BY <1>5
  <2>2. PICK key, table : key = file[n + 1] /\ table = f[n]
    OBVIOUS
  <2>3. key \in keys
    BY <1>1, <1>2, <2>1, <2>2 DEF KeysIn
  <2>4. table \in TablesOver(keys)
    BY <1>5, <2>2
  <2>5. LoadLine(table, key) \in TablesOver(keys)
    BY <2>3, <2>4, LineTyped
  <2>6. f[n + 1] = LoadLine(table, key)
    BY <1>3, <2>1, <2>2
  <2>7. f[n + 1] \in TablesOver(keys)
    BY <2>5, <2>6, Zenon
  <2> QED
    BY <2>1, <2>7
<1>6. T = 0 .. N
  <2>1. T \in SUBSET (0 .. N)
    OBVIOUS
  <2> HIDE DEF T
  <2> QED
    BY <1>4, <1>5, <2>1, UpTo
<1>7. f[N] \in TablesOver(keys)
  BY <1>6
<1> QED
  BY <1>2, <1>3, <1>7, Zenon

(* A sample that fits is a line more in the file, and the table is the one *)
(* that file gives.                                                        *)
LEMMA RecordedIsLoaded ==
    ASSUME NEW K, NEW file \in Seq(K), NEW key \in K,
           Cardinality(KeysIn(file) \cup {key}) <= EtaSlots
    PROVE  Recorded(Loaded(file), key) = Loaded(Append(file, key))
<1>1. Cardinality(KeysIn(file)) <= EtaSlots
  <2>1. IsFiniteSet(KeysIn(file)) /\ IsFiniteSet(KeysIn(file) \cup {key})
    BY FileFacts, FS_AddElement
  <2>2. /\ Cardinality(KeysIn(file)) <= Cardinality(KeysIn(file) \cup {key})
        /\ Cardinality(KeysIn(file)) \in Nat /\ Cardinality(KeysIn(file) \cup {key}) \in Nat
    BY <2>1, FS_Subset, FS_CardinalityType
  <2> QED
    BY <2>2, EtaAssumption
<1>2. PICK table : table = Loaded(file)
  OBVIOUS
<1>3. Exact(table, file)
  BY <1>1, <1>2, LoadedIsExact
<1>4. SlotsFor(table, key) # {}
  BY <1>3, RoomForKey
<1>5. Recorded(table, key) = LoadLine(table, key)
  BY <1>4 DEF Recorded, LoadLine
<1> QED
  BY <1>2, <1>5, LoadedAppend

LEMMA EtaStep ==
    ASSUME StageOK, EtaOK, [Next]_vars
    PROVE  EtaOK'
<1>0. Index = 1 .. Len(tasks) /\ Len(tasks) \in Nat /\ (tasks = <<>> <=> Len(tasks) = 0)
  BY TasksAreSeq
<1>1. CASE UNCHANGED <<upload, tasks, report, eta>>
  <2>1. Index' = Index
    BY <1>1 DEF Index
  <2>2. \A i : KeyOf(i)' = KeyOf(i)
    BY <1>1 DEF KeyOf
  <2> QED
    BY <1>1, <2>1, <2>2 DEF EtaOK
<1>2. CASE Decode
  <2>1. /\ UNCHANGED <<upload, eta>> /\ stage = "decode"
        /\ report' = Prepared(upload.picture, upload.ops)
    BY <1>2 DEF Decode, Goto
  <2>2. Index = {}
    BY <1>0, <2>1 DEF StageOK
  <2>3. eta.table \in TablesOver({NoKey} \cup KeysIn(eta.file))
    BY <2>2 DEF EtaOK, TablesOver
  <2>4. eta'.table \in TablesOver({NoKey} \cup KeysIn(eta'.file) \cup {KeyOf(i)' : i \in Index'})
    BY <2>1, <2>3 DEF TablesOver
  <2> QED
    BY <2>1, <2>4 DEF EtaOK, TablesOver
<1>3. ASSUME NEW i \in Index, Record(i) PROVE EtaOK'
  <2>1. /\ UNCHANGED <<upload, tasks, report>> /\ Index' = Index
        /\ eta' = [eta EXCEPT !.table = Recorded(@, KeyOf(i)),
                              !.file = IF eta.writable THEN Append(@, KeyOf(i)) ELSE @]
    BY <1>3 DEF Record, Index, result
  <2>2. \A j : KeyOf(j)' = KeyOf(j)
    BY <2>1 DEF KeyOf
  <2>3. PICK table, file, key : table = eta.table /\ file = eta.file /\ key = KeyOf(i)
    OBVIOUS
  <2>4. PICK own : own = {KeyOf(j) : j \in Index}
    OBVIOUS
  <2>5. /\ eta'.table = Recorded(table, key) /\ eta'.writable = eta.writable
        /\ eta'.file = IF eta.writable THEN Append(file, key) ELSE file
        /\ eta' = [table |-> eta'.table, file |-> eta'.file, writable |-> eta'.writable]
    BY <2>1, <2>3 DEF EtaOK
  <2>6. /\ file \in Seq(KeysIn(file)) /\ key \in own
        /\ table \in TablesOver({NoKey} \cup KeysIn(file) \cup own)
        /\ eta.writable /\ Cardinality(KeysIn(file)) <= EtaSlots => table = Loaded(file)
    BY <2>3, <2>4 DEF EtaOK, TablesOver
  <2>7. PICK K : K = KeysIn(file) \cup {key}
    OBVIOUS
  <2>8. file \in Seq(K) /\ key \in K
    BY <2>6, <2>7
  <2>9. Append(file, key) \in Seq(K) /\ KeysIn(Append(file, key)) = K
    BY <2>7, <2>8, AppendFacts
  <2>10. eta'.file \in Seq(KeysIn(eta'.file)) /\ KeysIn(file) \subseteq KeysIn(eta'.file)
    BY <2>5, <2>6, <2>7, <2>9
  <2>11. eta'.table \in TablesOver({NoKey} \cup KeysIn(eta'.file) \cup own)
    <3>1. PICK keys : keys = {NoKey} \cup KeysIn(file) \cup own
      OBVIOUS
    <3>2. Recorded(table, key) \in TablesOver(keys)
      BY <2>6, <3>1, LineTyped
    <3>3. keys \subseteq {NoKey} \cup KeysIn(eta'.file) \cup own
      BY <2>10, <3>1
    <3>4. PICK after : after = Recorded(table, key)
      OBVIOUS
    <3> QED
      BY <2>5, <3>2, <3>3, <3>4 DEF TablesOver
  <2>12. ASSUME eta'.writable, Cardinality(KeysIn(eta'.file)) <= EtaSlots
         PROVE  eta'.table = Loaded(eta'.file)
    <3>1. eta.writable /\ eta'.file = Append(file, key) /\ Cardinality(K) <= EtaSlots
      BY <2>5, <2>9, <2>12
    <3>2. Cardinality(KeysIn(file)) <= EtaSlots
      <4>1. IsFiniteSet(KeysIn(file)) /\ IsFiniteSet(K)
        BY <2>7, <2>8, FileFacts, FS_AddElement
      <4>2. /\ Cardinality(KeysIn(file)) <= Cardinality(K)
            /\ Cardinality(KeysIn(file)) \in Nat /\ Cardinality(K) \in Nat
        BY <2>7, <4>1, FS_Subset, FS_CardinalityType
      <4> QED
        BY <3>1, <4>2, EtaAssumption
    <3>3. table = Loaded(file)
      BY <2>6, <3>1, <3>2
    <3>4. Recorded(Loaded(file), key) = Loaded(Append(file, key))
      BY <2>7, <2>8, <3>1, RecordedIsLoaded
    <3> QED
      BY <2>5, <3>1, <3>3, <3>4, Zenon
  <2>13. own = {KeyOf(j)' : j \in Index'}
    BY <2>1, <2>2, <2>4
  <2>14. eta'.table \in TablesOver({NoKey} \cup KeysIn(eta'.file) \cup {KeyOf(j)' : j \in Index'})
    BY <2>11, <2>13
  <2>15. report' \in {Report(Decoded(upload'.picture)), Prepared(upload'.picture, upload'.ops)}
    BY <2>1 DEF EtaOK
  <2>16. eta'.writable \in BOOLEAN
    BY <2>5 DEF EtaOK
  <2> QED
    BY <2>5, <2>10, <2>12, <2>14, <2>15, <2>16 DEF EtaOK, TablesOver
<1> QED
  BY <1>1, <1>2, <1>3
     DEF Next, WorkerStep, EncoderStep, Accept, Reject, DecodeFails, NothingToRun, Finish, Start,
         StartJoining, Join, Judge, Encode, EncodeFails, Emit, work, result, verdict, vars
-----------------------------------------------------------------------------
(* JobInv is inductive. *)

LEMMA JobInvInit == Init => JobInv
<1> SUFFICES ASSUME Init PROVE JobInv
  OBVIOUS
<1>1. Len(<<>>) = 0 /\ <<>> \in Seq({}) /\ DOMAIN <<>> = {}
  OBVIOUS
<1>2. Index = {} /\ Len(tasks) = 0
  BY <1>1 DEF Index, Init
<1>3. StageOK
  BY DEF Init, StageOK
<1>4. LoopsOK
  <2>1. encoder = <<>> /\ inline = {} /\ at = 1 /\ stage = "arrived"
    BY DEF Init
  <2>2. encoder \in [Index -> {"none", "running", "encoded", "timed", "ok", "failed"}]
    BY <1>2, <2>1
  <2> QED
    BY <1>2, <2>1, <2>2 DEF LoopsOK
<1>5. OutputsOK
  <2>1. events = <<>> /\ outputs = {}
    BY DEF Init
  <2>2. IsInjective(<<>>)
    BY <1>1 DEF IsInjective
  <2>3. {events[k] : k \in 1 .. Len(events)} = {}
    BY <1>1, <2>1
  <2>4. events \in Seq(Index) /\ IsInjective(events)
    BY <1>1, <1>2, <2>1, <2>2, Zenon
  <2> QED
    BY <1>2, <2>1, <2>3, <2>4 DEF OutputsOK
<1>6. VerdictOK
  BY DEF Init, VerdictOK
<1>7. EtaOK
  <2>1. PICK file \in EtaFiles, writable \in BOOLEAN :
          eta = [table |-> Loaded(file), file |-> file, writable |-> writable]
    BY DEF Init
  <2>2. file \in Seq(Range(file))
    BY JobAssumption
  <2>3. Range(file) = KeysIn(file)
    <3>1. DOMAIN file = 1 .. Len(file)
      BY <2>2
    <3> QED
      BY <3>1 DEF Range, KeysIn
  <2>4. file \in Seq(KeysIn(file))
    BY <2>2, <2>3, Zenon
  <2>5. PICK table : table = Loaded(file)
    OBVIOUS
  <2>6. table \in TablesOver({NoKey} \cup KeysIn(file))
    BY <2>4, <2>5, LoadedTyped
  <2>7. table \in TablesOver({NoKey} \cup KeysIn(file) \cup {KeyOf(i) : i \in Index})
    BY <1>2, <2>6 DEF TablesOver
  <2>8. eta.table = table /\ eta.file = file /\ eta.writable = writable
    BY <2>1, <2>5
  <2>9. report = Report(Decoded(upload.picture))
    BY DEF Init
  <2> QED
    BY <2>1, <2>4, <2>5, <2>7, <2>8, <2>9 DEF EtaOK, TablesOver
<1> QED
  BY <1>3, <1>4, <1>5, <1>6, <1>7 DEF JobInv

LEMMA JobInvStep == JobInv /\ [Next]_vars => JobInv'
BY StageStep, LoopsStep, OutputsStep, VerdictStep, EtaStep DEF JobInv

LEMMA JobInvHolds == Spec => []JobInv
BY JobInvInit, JobInvStep, PTL DEF Spec
-----------------------------------------------------------------------------
(* Types of the state. *)
LEMMA JobTypes == JobInv => TypeOK
<1> SUFFICES ASSUME JobInv PROVE TypeOK
  OBVIOUS
<1>1. StageOK /\ LoopsOK /\ OutputsOK /\ VerdictOK /\ EtaOK
  BY DEF JobInv
<1>2. /\ Index = 1 .. Len(tasks) /\ Len(tasks) \in Nat /\ (tasks = <<>> <=> Len(tasks) = 0)
      /\ \A i \in Index : tasks[i] \in AnEncoder
  BY <1>1, TasksAreSeq
<1>3. tasks \in {<<>>} \cup {TasksFor(u) : u \in Uploads}
  BY <1>1 DEF StageOK
<1>4. outputs \subseteq Index /\ events \in Seq(Index)
  BY <1>1 DEF OutputsOK
<1>5. status \in -6 .. 0 /\ count \in 0 .. Len(tasks)
  <2>1. \A i \in Index : tasks[i].failure \in -5 .. -2
    BY <1>2, EncodersFacts
  <2> QED
    BY <1>1, <1>2, <2>1 DEF VerdictOK
<1>6. memory \subseteq {"image", "job"}
  BY <1>1 DEF StageOK
<1>7. eta.table \in [EtaIndex -> [key : {NoKey} \cup {eta.file[n] : n \in 1 .. Len(eta.file)}
                                            \cup {KeyOf(i) : i \in Index},
                                  own : Nat, foreign : Nat]]
  BY <1>1 DEF EtaOK, KeysIn
<1> QED
  BY <1>1, <1>3, <1>4, <1>5, <1>6, <1>7 DEF TypeOK, StageOK, LoopsOK, EtaOK

(* The image, and the job whose channel gets the events, are not freed     *)
(* under an encoder: the worker frees them past a join of every thread it  *)
(* started.                                                                *)
THEOREM NothingFreedInUse == Spec => []EncodersOutlived
<1>1. JobInv => EncodersOutlived
  <2> SUFFICES ASSUME JobInv, NEW i \in Index, encoder[i] \in {"running", "encoded", "timed"}
               PROVE  memory = {"image", "job"}
    BY DEF EncodersOutlived
  <2>1. StageOK /\ LoopsOK
    BY DEF JobInv
  <2>2. tasks # <<>>
    BY <2>1, TasksAreSeq
  <2>3. stage \in {"start", "join", "done"}
    BY <2>1, <2>2 DEF StageOK
  <2>4. stage # "done"
    BY <2>1 DEF LoopsOK, Ended
  <2> QED
    BY <2>1, <2>3, <2>4 DEF StageOK
<1> QED
  BY <1>1, JobInvHolds, PTL

(* The state has its types; no output is emitted twice, a failed task      *)
(* emits nothing, and a job reported "ok" has all the outputs it counts,   *)
(* every one of them emitted.                                              *)
THEOREM StreamTellsTheResult == Spec => []StreamMatchesResult
<1>1. JobInv => StreamMatchesResult
  <2> SUFFICES ASSUME JobInv PROVE StreamMatchesResult
    OBVIOUS
  <2>1. StageOK /\ LoopsOK /\ OutputsOK /\ VerdictOK
    BY DEF JobInv
  <2>2. /\ Index = 1 .. Len(tasks) /\ Len(tasks) \in Nat /\ (tasks = <<>> <=> Len(tasks) = 0)
        /\ \A i \in Index : tasks[i] \in AnEncoder
    BY <2>1, TasksAreSeq
  <2>3. \A k \in 1 .. Len(events) : events[k] \in outputs
    BY <2>1 DEF OutputsOK
  <2>4. ASSUME stage = "done", status = 0
        PROVE  /\ count = Len(tasks) /\ count > 0
               /\ outputs = 1 .. count
               /\ {events[k] : k \in 1 .. Len(events)} = outputs
    <3>1. \A i \in Index : tasks[i].failure # 0
      BY <2>2, EncodersFacts
    <3>2. tasks # <<>> /\ count = Len(tasks) /\ \A i \in Index : encoder[i] = "ok"
      BY <2>1, <2>4, <3>1 DEF VerdictOK
    <3>3. outputs = Index /\ {events[k] : k \in 1 .. Len(events)} = Index
      BY <2>1, <3>2 DEF OutputsOK
    <3> QED
      BY <2>2, <3>2, <3>3
  <2> QED
    BY <2>1, <2>3, <2>4, JobTypes DEF StreamMatchesResult, OutputsOK
<1> QED
  BY <1>1, JobInvHolds, PTL

(* Whatever the order in which the encoders end, the verdict is that of    *)
(* the first of the list that failed, and outputs are left uncounted only  *)
(* in a result that tells of a failure.                                    *)
THEOREM VerdictIsTheFirstFailure == Spec => []VerdictIgnoresTiming
<1>1. JobInv => VerdictIgnoresTiming
  <2> SUFFICES ASSUME JobInv, stage = "done", tasks # <<>>
               PROVE  /\ status = 0 => \A i \in Index : encoder[i] = "ok"
                      /\ \A i \in Index :
                           /\ encoder[i] = "failed"
                           /\ \A j \in 1 .. (i - 1) : encoder[j] = "ok"
                           => status = tasks[i].failure
                      /\ \A i \in outputs : i > count => status # 0
    BY DEF VerdictIgnoresTiming
  <2>1. StageOK /\ LoopsOK /\ OutputsOK /\ VerdictOK
    BY DEF JobInv
  <2>2. /\ Index = 1 .. Len(tasks) /\ Len(tasks) \in Nat
        /\ \A i \in Index : tasks[i] \in AnEncoder
    BY <2>1, TasksAreSeq
  <2>3. \A i \in Index : tasks[i].failure # 0
    BY <2>2, EncodersFacts
  <2>4. CASE status = 0 /\ count = Len(tasks) /\ \A i \in Index : encoder[i] = "ok"
    <3>1. \A i \in outputs : ~ (i > count)
      BY <2>1, <2>2, <2>4 DEF OutputsOK
    <3> QED
      BY <2>4, <3>1
  <2>5. ASSUME NEW f \in Index, encoder[f] = "failed", status = tasks[f].failure,
               \A j \in Index : j < f => encoder[j] = "ok"
        PROVE  /\ status # 0
               /\ \A i \in Index :
                    /\ encoder[i] = "failed"
                    /\ \A j \in 1 .. (i - 1) : encoder[j] = "ok"
                    => i = f
    <3>1. ASSUME NEW i \in Index, encoder[i] = "failed",
                 \A j \in 1 .. (i - 1) : encoder[j] = "ok"
          PROVE  i = f
      <4>1. ~ (i < f)
        BY <2>5, <3>1
      <4>2. ~ (f < i)
        <5>1. f < i => f \in 1 .. (i - 1)
          BY <2>2
        <5> QED
          BY <2>5, <3>1, <5>1
      <4> QED
        BY <2>2, <4>1, <4>2
    <3> QED
      BY <2>3, <2>5, <3>1
  <2> QED
    BY <2>1, <2>4, <2>5 DEF VerdictOK
<1> QED
  BY <1>1, JobInvHolds, PTL

(* Server and worker agree on what a target is: a tune request let through *)
(* runs exactly the encoder it names, never none.                          *)
THEOREM TuneRequestsRun == Spec => []AcceptedTuneRuns
<1>1. JobInv => AcceptedTuneRuns
  <2> SUFFICES ASSUME JobInv, stage \in {"start", "join"}, Checked(upload)
               PROVE  /\ Len(tasks) = 1
                      /\ tasks[1].format = upload.format /\ tasks[1].label = upload.label
    BY DEF AcceptedTuneRuns
  <2>1. KnownTarget(upload) /\ tasks = TasksFor(upload)
    BY DEF JobInv, StageOK
  <2>2. /\ Len(TasksFor(upload)) = 1 /\ TasksFor(upload)[1].format = upload.format
        /\ TasksFor(upload)[1].label = upload.label
    BY <2>1, TuneTasks
  <2> QED
    BY <2>1, <2>2
<1> QED
  BY <1>1, JobInvHolds, PTL

(* A restart loses nothing of the ETA table, and no sample is booked under *)
(* another's key: for any number of entries, as long as there is one for   *)
(* every key and the file can be written.                                  *)
THEOREM RestartKeepsTheTable == Spec => []EtaSurvivesRestart
<1>1. JobInv => EtaSurvivesRestart
  <2>1. ASSUME JobInv, eta.writable,
               Cardinality({eta.file[n] : n \in 1 .. Len(eta.file)}) <= EtaSlots
        PROVE  /\ eta.table = Loaded(eta.file)
               /\ \A key \in {eta.file[n] : n \in 1 .. Len(eta.file)} :
                    \E i \in EtaIndex :
                       /\ EntriesOf(eta.table, key) = {i}
                       /\ eta.table[i].own =
                            Cardinality({n \in 1 .. Len(eta.file) : eta.file[n] = key})
               /\ \A i \in EtaIndex : eta.table[i].foreign = 0
    <3>1. /\ eta.file \in Seq(KeysIn(eta.file))
          /\ Cardinality(KeysIn(eta.file)) <= EtaSlots
          /\ eta.table = Loaded(eta.file)
      BY <2>1 DEF JobInv, EtaOK, KeysIn
    <3>2. PICK file, table : file = eta.file /\ table = eta.table
      OBVIOUS
    <3>3. Exact(table, file)
      BY <3>1, <3>2, LoadedIsExact
    <3>4. \A i \in EtaIndex : table[i].foreign = 0
      BY <3>3 DEF Exact
    <3>5. \A key \in KeysIn(file) :
            \E i \in EtaIndex : /\ EntriesOf(table, key) = {i}
                                /\ table[i].own = Cardinality(LinesOf(file, key))
      BY <3>3 DEF Exact
    <3>6. ASSUME NEW key \in {eta.file[n] : n \in 1 .. Len(eta.file)}
          PROVE  \E i \in EtaIndex :
                   /\ EntriesOf(eta.table, key) = {i}
                   /\ eta.table[i].own = Cardinality({n \in 1 .. Len(eta.file) : eta.file[n] = key})
      <4>1. key \in KeysIn(file)
        BY <3>2 DEF KeysIn
      <4>2. PICK i \in EtaIndex : /\ EntriesOf(table, key) = {i}
                                  /\ table[i].own = Cardinality(LinesOf(file, key))
        BY <3>5, <4>1
      <4>3. {n \in 1 .. Len(eta.file) : eta.file[n] = key} = LinesOf(file, key)
        BY <3>2 DEF LinesOf
      <4> QED
        BY <3>2, <4>2, <4>3
    <3> QED
      BY <3>1, <3>2, <3>4, <3>6
  <2> QED
    BY <2>1 DEF EtaSurvivesRestart
<1> QED
  BY <1>1, JobInvHolds, PTL
-----------------------------------------------------------------------------
(* Rows of pixels *)

LEMMA ProductGrows ==
    ASSUME NEW a \in Nat, NEW b \in Nat, NEW w \in Nat, a <= b
    PROVE  a * w <= b * w /\ a * w \in Nat /\ b * w \in Nat
<1>1. (b - a) * w \in Nat
  OBVIOUS
<1>2. b * w = a * w + (b - a) * w
  OBVIOUS
<1> QED
  BY <1>1, <1>2

LEMMA Quotient ==
    ASSUME NEW w \in Int, w > 0
    PROVE  \A n \in Nat : /\ n \div w \in Nat /\ n % w \in 0 .. w - 1
                          /\ n = w * (n \div w) + (n % w)
OBVIOUS

LEMMA QuotientUnique ==
    ASSUME NEW w \in Nat \ {0}, NEW q \in Nat, NEW i \in 0 .. w - 1, NEW p \in Nat, NEW j \in 0 .. w - 1,
           w * q + i = w * p + j
    PROVE  q = p /\ i = j
<1>1. ~ q < p
  <2>1. SUFFICES ASSUME q < p PROVE FALSE
    OBVIOUS
  <2>2. q + 1 \in Nat /\ q + 1 <= p /\ (q + 1) * w = q * w + w
    BY <2>1
  <2>3. (q + 1) * w <= p * w /\ q * w \in Nat /\ p * w \in Nat
    BY <2>2, ProductGrows
  <2> QED
    BY <2>2, <2>3
<1>2. ~ p < q
  <2>1. SUFFICES ASSUME p < q PROVE FALSE
    OBVIOUS
  <2>2. p + 1 \in Nat /\ p + 1 <= q /\ (p + 1) * w = p * w + w
    BY <2>1
  <2>3. (p + 1) * w <= q * w /\ q * w \in Nat /\ p * w \in Nat
    BY <2>2, ProductGrows
  <2> QED
    BY <2>2, <2>3
<1>3. q = p
  BY <1>1, <1>2
<1> QED
  BY <1>3

(* The place of column i of row j in a buffer of h rows of w pixels. *)
LEMMA PlaceOf ==
    ASSUME NEW w \in Nat \ {0}, NEW h \in Nat \ {0}, NEW i \in 0 .. w - 1, NEW j \in 0 .. h - 1
    PROVE  /\ j * w + i \in Nat /\ j * w + i + 1 \in 1 .. w * h /\ w * h \in Nat
           /\ (j * w + i + 1) - 1 = j * w + i
           /\ (j * w + i) % w = i /\ (j * w + i) \div w = j
<1>1. j \in Nat /\ j + 1 \in Nat /\ h \in Nat /\ w \in Nat /\ j + 1 <= h /\ (j + 1) * w = j * w + w
  OBVIOUS
<1>2. (j + 1) * w <= h * w /\ j * w \in Nat /\ h * w \in Nat /\ h * w = w * h
  <2>1. (j + 1) * w <= h * w /\ (j + 1) * w \in Nat /\ h * w \in Nat
    BY <1>1, ProductGrows
  <2>2. j * w \in Nat /\ h * w = w * h
    BY <1>1
  <2> QED
    BY <2>1, <2>2
<1> DEFINE n == j * w + i
<1>3. /\ n \in Nat /\ n + 1 \in 1 .. w * h /\ w * h \in Nat /\ (n + 1) - 1 = n
  BY <1>1, <1>2
<1>4. n \div w \in Nat /\ n % w \in 0 .. w - 1 /\ n = w * (n \div w) + (n % w)
  <2>1. w \in Int /\ w > 0
    OBVIOUS
  <2>2. \A m \in Nat : /\ m \div w \in Nat /\ m % w \in 0 .. w - 1
                       /\ m = w * (m \div w) + (m % w)
    BY <2>1, Quotient
  <2>3. n \in Nat
    BY <1>3
  <2> HIDE DEF n
  <2> QED
    BY <2>2, <2>3, Zenon
<1>5. n \div w = j /\ n % w = i
  <2>1. PICK q, r : q = n \div w /\ r = n % w
    OBVIOUS
  <2>2. q \in Nat /\ r \in 0 .. w - 1 /\ w * q + r = w * j + i
    BY <1>4, <2>1
  <2>3. q = j /\ r = i
    BY <1>1, <2>2, QuotientUnique
  <2> QED
    BY <2>1, <2>3
<1> QED
  BY <1>3, <1>5

(* Every place of the buffer lies in a row. *)
LEMMA RowOf ==
    ASSUME NEW w \in Nat \ {0}, NEW h \in Nat \ {0}, NEW k \in 1 .. w * h
    PROVE  (k - 1) % w \in 0 .. w - 1 /\ (k - 1) \div w \in 0 .. h - 1
<1>1. w * h \in Nat /\ w * h = h * w /\ k - 1 \in Nat /\ k - 1 < h * w /\ w \in Nat /\ h \in Nat
  OBVIOUS
<1>2. PICK q, r : q = (k - 1) \div w /\ r = (k - 1) % w
  OBVIOUS
<1>3. q \in Nat /\ r \in 0 .. w - 1 /\ k - 1 = w * q + r /\ w * q = q * w
  BY <1>1, <1>2, Quotient
<1>4. q < h
  <2>1. SUFFICES ASSUME h <= q PROVE FALSE
    BY <1>1, <1>3
  <2>2. h * w <= q * w /\ q * w \in Nat /\ h * w \in Nat
    BY <1>1, <1>3, <2>1, ProductGrows
  <2> QED
    BY <1>1, <1>3, <2>2
<1> QED
  BY <1>1, <1>2, <1>3, <1>4
-----------------------------------------------------------------------------
(* Images that show a rectangle of the upload *)

Rect(x, y, w, h) == (x .. x + w - 1) \X (y .. y + h - 1)

Shows(img, x, y) ==
    /\ img.width \in Nat \ {0} /\ img.height \in Nat \ {0}
    /\ Len(img.pixels) = img.width * img.height
    /\ \A i \in 0 .. img.width - 1, j \in 0 .. img.height - 1 :
         img.pixels[j * img.width + i + 1] = <<x + i, y + j>>

(* A buffer filled place by place shows what it was filled with. *)
LEMMA Filled ==
    ASSUME NEW w \in Nat \ {0}, NEW h \in Nat \ {0}, NEW x \in Int, NEW y \in Int,
           NEW f, f = [k \in 1 .. w * h |-> f[k]],
           \A i \in 0 .. w - 1, j \in 0 .. h - 1 : f[j * w + i + 1] = <<x + i, y + j>>
    PROVE  Shows([width |-> w, height |-> h, pixels |-> f], x, y)
<1>1. PICK n \in Nat : n = w * h
  OBVIOUS
<1>2. DOMAIN f = 1 .. n
  BY <1>1
<1>3. Len(f) = n
  BY <1>2
<1>4. PICK img : img = [width |-> w, height |-> h, pixels |-> f]
  OBVIOUS
<1>5. img.width = w /\ img.height = h /\ img.pixels = f
  BY <1>4
<1>6. Shows(img, x, y)
  BY <1>1, <1>3, <1>5 DEF Shows
<1> QED
  BY <1>4, <1>6

LEMMA LeastOfRange == ASSUME NEW a \in Int, NEW b \in Int, a <= b PROVE Min(a .. b) = a
BY DEF Min

LEMMA RectOrigin ==
    ASSUME NEW x \in Int, NEW y \in Int, NEW w \in Nat \ {0}, NEW h \in Nat \ {0}
    PROVE  Origin(Rect(x, y, w, h)) = <<x, y>>
<1>1. x \in x .. x + w - 1 /\ y \in y .. y + h - 1
  OBVIOUS
<1>2. {p[1] : p \in Rect(x, y, w, h)} = x .. x + w - 1
  <2>1. ASSUME NEW p \in Rect(x, y, w, h) PROVE p[1] \in x .. x + w - 1
    BY DEF Rect
  <2>2. ASSUME NEW n \in x .. x + w - 1 PROVE \E p \in Rect(x, y, w, h) : p[1] = n
    <3>1. <<n, y>> \in Rect(x, y, w, h)
      BY <1>1 DEF Rect
    <3>2. <<n, y>>[1] = n
      OBVIOUS
    <3> QED
      BY <3>1, <3>2
  <2> QED
    BY <2>1, <2>2
<1>3. {p[2] : p \in Rect(x, y, w, h)} = y .. y + h - 1
  <2>1. ASSUME NEW p \in Rect(x, y, w, h) PROVE p[2] \in y .. y + h - 1
    BY DEF Rect
  <2>2. ASSUME NEW n \in y .. y + h - 1 PROVE \E p \in Rect(x, y, w, h) : p[2] = n
    <3>1. <<x, n>> \in Rect(x, y, w, h)
      BY <1>1 DEF Rect
    <3>2. <<x, n>>[2] = n
      OBVIOUS
    <3> QED
      BY <3>1, <3>2
  <2> QED
    BY <2>1, <2>2
<1>4. Min(x .. x + w - 1) = x /\ Min(y .. y + h - 1) = y
  BY LeastOfRange
<1> QED
  BY <1>2, <1>3, <1>4 DEF Origin

LEMMA RectSize ==
    ASSUME NEW x \in Int, NEW y \in Int, NEW w \in Nat \ {0}, NEW h \in Nat \ {0}
    PROVE  Cardinality(Rect(x, y, w, h)) = w * h
<1>1. /\ IsFiniteSet(x .. x + w - 1) /\ Cardinality(x .. x + w - 1) = w
      /\ IsFiniteSet(y .. y + h - 1) /\ Cardinality(y .. y + h - 1) = h
  <2>1. /\ x + w - 1 \in Int /\ x <= x + w - 1 /\ (x + w - 1) - x + 1 = w
        /\ y + h - 1 \in Int /\ y <= y + h - 1 /\ (y + h - 1) - y + 1 = h
    OBVIOUS
  <2> QED
    BY <2>1, FS_Interval
<1> QED
  BY <1>1, FS_Product DEF Rect

(* The pixel of a column and a row. *)
LEMMA PixelShown ==
    ASSUME NEW img, NEW x \in Int, NEW y \in Int, Shows(img, x, y),
           NEW i \in 0 .. img.width - 1, NEW j \in 0 .. img.height - 1
    PROVE  PixelAt(img, i, j) = <<x + i, y + j>>
<1>1. img.width \in Nat \ {0} /\ img.height \in Nat \ {0}
  BY DEF Shows
<1>2. j * img.width + i + 1 \in 1 .. img.width * img.height
  BY <1>1, PlaceOf
<1>3. Len(img.pixels) = img.width * img.height /\ img.pixels[j * img.width + i + 1] = <<x + i, y + j>>
  BY DEF Shows
<1> QED
  BY <1>2, <1>3, Zenon DEF PixelAt

LEMMA ShownInPlace ==
    ASSUME NEW img, NEW x \in Int, NEW y \in Int, Shows(img, x, y)
    PROVE  InPlace(img, Rect(x, y, img.width, img.height))
<1> DEFINE left == Rect(x, y, img.width, img.height)
<1>1. img.width \in Nat \ {0} /\ img.height \in Nat \ {0} /\ Len(img.pixels) = img.width * img.height
  BY DEF Shows
<1>2. Origin(left) = <<x, y>>
  BY <1>1, RectOrigin
<1>3. Cardinality(left) = img.width * img.height
  BY <1>1, RectSize
<1>4. left = {<<x + p[1], y + p[2]>> : p \in Points(img.width, img.height)}
  <2>1. PICK w, h : w = img.width /\ h = img.height
    OBVIOUS
  <2>2. w \in Nat \ {0} /\ h \in Nat \ {0}
    BY <1>1, <2>1
  <2>3. ASSUME NEW q \in Rect(x, y, w, h)
        PROVE  q \in {<<x + p[1], y + p[2]>> : p \in Points(w, h)}
    <3>1. /\ q[1] \in x .. x + w - 1 /\ q[2] \in y .. y + h - 1 /\ q = <<q[1], q[2]>>
      BY DEF Rect
    <3>2. <<q[1] - x, q[2] - y>> \in Points(w, h) /\ x + (q[1] - x) = q[1] /\ y + (q[2] - y) = q[2]
      BY <2>2, <3>1 DEF Points
    <3> QED
      BY <3>1, <3>2
  <2>4. ASSUME NEW p \in Points(w, h)
        PROVE  <<x + p[1], y + p[2]>> \in Rect(x, y, w, h)
    BY <2>2 DEF Points, Rect
  <2>5. Rect(x, y, w, h) = {<<x + p[1], y + p[2]>> : p \in Points(w, h)}
    BY <2>3, <2>4
  <2> QED
    BY <2>1, <2>5
<1>5. ASSUME NEW p \in Points(img.width, img.height)
      PROVE  PixelAt(img, p[1], p[2]) = <<x + p[1], y + p[2]>>
  <2>1. p[1] \in 0 .. img.width - 1 /\ p[2] \in 0 .. img.height - 1
    BY DEF Points
  <2> QED
    BY <2>1, PixelShown
<1>6. Origin(left)[1] = x /\ Origin(left)[2] = y
  BY <1>2
<1> QED
  BY <1>1, <1>3, <1>4, <1>5, <1>6 DEF InPlace
-----------------------------------------------------------------------------
(* Decoding and cropping *)

LEMMA DecodedShown ==
    ASSUME NEW p, p.width \in Nat \ {0}, p.height \in Nat \ {0}
    PROVE  /\ Shows(Decoded(p), 0, 0)
           /\ Decoded(p).width = p.width /\ Decoded(p).height = p.height
<1>1. PICK w \in Nat \ {0}, h \in Nat \ {0} : w = p.width /\ h = p.height
  OBVIOUS
<1>2. PICK f : f = [k \in 1 .. w * h |-> <<(k - 1) % w, (k - 1) \div w>>]
  OBVIOUS
<1>3. f = [k \in 1 .. w * h |-> f[k]]
  BY <1>2
<1>4. ASSUME NEW i \in 0 .. w - 1, NEW j \in 0 .. h - 1
      PROVE  f[j * w + i + 1] = <<0 + i, 0 + j>>
  <2>1. PICK k : k = j * w + i + 1
    OBVIOUS
  <2>2. k \in 1 .. w * h /\ (k - 1) % w = i /\ (k - 1) \div w = j
    <3>1. /\ j * w + i + 1 \in 1 .. w * h /\ (j * w + i + 1) - 1 = j * w + i
          /\ (j * w + i) % w = i /\ (j * w + i) \div w = j
      BY PlaceOf
    <3> QED
      BY <2>1, <3>1, Zenon
  <2>3. f[k] = <<(k - 1) % w, (k - 1) \div w>>
    BY <1>2, <2>2, Zenon
  <2>4. f[k] = <<i, j>>
    BY <2>2, <2>3, Zenon
  <2>5. 0 + i = i /\ 0 + j = j
    OBVIOUS
  <2> QED
    BY <2>1, <2>4, <2>5, Zenon
<1>5. Shows([width |-> w, height |-> h, pixels |-> f], 0, 0)
  <2>1. 0 \in Int
    OBVIOUS
  <2> QED
    BY <1>3, <1>4, <2>1, Filled
<1>6. Decoded(p) = [width |-> w, height |-> h, pixels |-> f]
  BY <1>1, <1>2, Zenon DEF Decoded
<1> QED
  BY <1>1, <1>5, <1>6

IsReport(r) ==
    r = [image |-> r.image, inputWidth |-> r.inputWidth, inputHeight |-> r.inputHeight,
         trimmed |-> r.trimmed, cropped |-> r.cropped]

IsRectangle(c) == c.x \in Int /\ c.y \in Int /\ c.width \in Int /\ c.height \in Int

LEMMA SeedOf ==
    ASSUME NEW r, IsReport(r)
    PROVE  /\ IsReport(Seed(r)) /\ Seed(r).image = r.image /\ Seed(r).trimmed = r.trimmed
           /\ Seed(r).inputWidth = r.image.width /\ Seed(r).inputHeight = r.image.height
<1>1. PICK img, a, b, t, c :
        r = [image |-> img, inputWidth |-> a, inputHeight |-> b, trimmed |-> t, cropped |-> c]
  BY Zenon DEF IsReport
<1>2. Seed(r) = [image |-> img, inputWidth |-> img.width, inputHeight |-> img.height,
                 trimmed |-> t, cropped |-> c]
  <2>1. PICK s : s = [r EXCEPT !.inputWidth = r.image.width]
    OBVIOUS
  <2>2. Seed(r) = [s EXCEPT !.inputHeight = r.image.height]
    BY <2>1, Zenon DEF Seed
  <2>3. r.image = img
    BY <1>1
  <2>4. s = [image |-> img, inputWidth |-> img.width, inputHeight |-> b,
             trimmed |-> t, cropped |-> c]
    BY <1>1, <2>1, <2>3
  <2> QED
    BY <2>2, <2>3, <2>4
<1> QED
  BY <1>1, <1>2 DEF IsReport

LEMMA AtLeastZeroIs == \A n \in Int : AtLeastZero(n) \in Nat /\ AtLeastZero(n) = Max({n, 0})
BY DEF AtLeastZero, Max

(* The sides of the rectangle that is left, for an extent from at on. *)
LEMMA CutOffIs ==
    ASSUME NEW from \in Nat, NEW extent \in Nat \ {0}, NEW limit \in Nat, from < limit,
           from + extent <= IntMax
    PROVE  /\ CutOff(from, extent, limit) \in Nat \ {0}
           /\ from + CutOff(from, extent, limit) <= limit
           /\ CutOff(from, extent, limit) <= extent
           /\ CutOff(from, extent, limit) = extent \/ from + CutOff(from, extent, limit) = limit
<1>1. Plus(from, extent) = from + extent
  BY ImageOpsAssumption DEF Plus
<1> QED
  BY <1>1 DEF CutOff

(* What cropping does to the numbers of a report. *)
LEMMA CropReports ==
    ASSUME NEW r, IsReport(r), NEW c
    PROVE  /\ IsReport(Crop(r, c)) /\ Crop(r, c).trimmed = r.trimmed
           /\ \/ /\ Crop(r, c).inputWidth = r.inputWidth /\ Crop(r, c).inputHeight = r.inputHeight
                 /\ c.width <= 0 \/ c.height <= 0
              \/ /\ Crop(r, c).inputWidth = r.image.width
                 /\ Crop(r, c).inputHeight = r.image.height
<1>1. CASE c.width <= 0 \/ c.height <= 0
  <2>1. Crop(r, c) = r
    BY <1>1, Zenon DEF Crop
  <2> QED
    BY <1>1, <2>1
<1>2. CASE ~ (c.width <= 0 \/ c.height <= 0)
  <2>1. PICK img, a, b, t, d :
          Seed(r) = [image |-> img, inputWidth |-> a, inputHeight |-> b, trimmed |-> t, cropped |-> d]
    <3>1. IsReport(Seed(r))
      BY SeedOf
    <3> QED
      BY <3>1, Zenon DEF IsReport
  <2>2. a = r.image.width /\ b = r.image.height /\ t = r.trimmed
    BY <2>1, SeedOf
  <2>3. \/ Crop(r, c) = Seed(r)
        \/ \E new : Crop(r, c) = [Seed(r) EXCEPT !.image = new, !.cropped = TRUE]
    BY <1>2, Zenon DEF Crop
  <2>4. CASE Crop(r, c) = Seed(r)
    BY <2>4, SeedOf
  <2>5. ASSUME NEW new, Crop(r, c) = [Seed(r) EXCEPT !.image = new, !.cropped = TRUE]
        PROVE  /\ IsReport(Crop(r, c)) /\ Crop(r, c).trimmed = t
               /\ Crop(r, c).inputWidth = a /\ Crop(r, c).inputHeight = b
    <3>1. Crop(r, c) = [image |-> new, inputWidth |-> a, inputHeight |-> b,
                        trimmed |-> t, cropped |-> TRUE]
      <4>1. PICK s : s = [Seed(r) EXCEPT !.image = new]
        OBVIOUS
      <4>2. Crop(r, c) = [s EXCEPT !.cropped = TRUE]
        BY <2>5, <4>1, Zenon
      <4>3. s = [image |-> new, inputWidth |-> a, inputHeight |-> b, trimmed |-> t, cropped |-> d]
        BY <2>1, <4>1
      <4> QED
        BY <4>2, <4>3
    <3> QED
      BY <3>1 DEF IsReport
  <2> QED
    BY <2>2, <2>3, <2>4, <2>5
<1> QED
  BY <1>1, <1>2

(* The rectangle asked for misses the image, or what is left of it. *)
Misses(img, c) ==
    \/ c.width <= 0 \/ c.height <= 0
    \/ AtLeastZero(c.x) >= img.width \/ AtLeastZero(c.y) >= img.height

LEMMA CropMisses ==
    ASSUME NEW r, IsReport(r), NEW c, Misses(r.image, c)
    PROVE  Crop(r, c).image = r.image
<1>1. CASE c.width <= 0 \/ c.height <= 0
  BY <1>1, Zenon DEF Crop
<1>2. CASE ~ (c.width <= 0 \/ c.height <= 0)
  <2>1. AtLeastZero(c.x) >= r.image.width \/ AtLeastZero(c.y) >= r.image.height
    BY <1>2, Zenon DEF Misses
  <2>2. Crop(r, c) = Seed(r)
    BY <1>2, <2>1, Zenon DEF Crop
  <2> QED
    BY <2>2, SeedOf, Zenon
<1> QED
  BY <1>1, <1>2

LEMMA CropHits ==
    ASSUME NEW r, IsReport(r), NEW x \in Int, NEW y \in Int, Shows(r.image, x, y),
           NEW c, IsRectangle(c), WithinInt(c), ~ Misses(r.image, c)
    PROVE  /\ Shows(Crop(r, c).image, x + AtLeastZero(c.x), y + AtLeastZero(c.y))
           /\ Crop(r, c).image.width = CutOff(AtLeastZero(c.x), c.width, r.image.width)
           /\ Crop(r, c).image.height = CutOff(AtLeastZero(c.y), c.height, r.image.height)
<1>0. PICK w, h : /\ w = CutOff(AtLeastZero(c.x), c.width, r.image.width)
                  /\ h = CutOff(AtLeastZero(c.y), c.height, r.image.height)
  OBVIOUS
<1>1. PICK a, b, img : a = AtLeastZero(c.x) /\ b = AtLeastZero(c.y) /\ img = r.image
  OBVIOUS
<1>2. /\ a \in Nat /\ b \in Nat /\ c.width \in Nat \ {0} /\ c.height \in Nat \ {0}
      /\ img.width \in Nat \ {0} /\ img.height \in Nat \ {0}
      /\ a < img.width /\ b < img.height
      /\ a + c.width <= IntMax /\ b + c.height <= IntMax
  <2>1. a \in Nat /\ b \in Nat /\ a = Max({c.x, 0}) /\ b = Max({c.y, 0})
    BY <1>1, AtLeastZeroIs DEF IsRectangle
  <2>2. img.width \in Nat \ {0} /\ img.height \in Nat \ {0}
    BY <1>1 DEF Shows
  <2> QED
    BY <1>1, <2>1, <2>2 DEF Misses, WithinInt, IsRectangle
<1>3. /\ w \in Nat \ {0} /\ a + w <= img.width
      /\ h \in Nat \ {0} /\ b + h <= img.height
  <2>1. w = CutOff(a, c.width, img.width) /\ h = CutOff(b, c.height, img.height)
    BY <1>0, <1>1
  <2> QED
    <3>1. PICK m, n, d, e : m = img.width /\ n = img.height /\ d = c.width /\ e = c.height
      OBVIOUS
    <3>2. /\ a \in Nat /\ d \in Nat \ {0} /\ m \in Nat /\ a < m /\ a + d <= IntMax
          /\ b \in Nat /\ e \in Nat \ {0} /\ n \in Nat /\ b < n /\ b + e <= IntMax
      BY <1>2, <3>1
    <3>3. CutOff(a, d, m) \in Nat \ {0} /\ a + CutOff(a, d, m) <= m
      BY <3>2, CutOffIs
    <3>4. CutOff(b, e, n) \in Nat \ {0} /\ b + CutOff(b, e, n) <= n
      BY <3>2, CutOffIs
    <3> QED
      BY <2>1, <3>1, <3>3, <3>4
<1>4. PICK f : f = [k \in 1 .. w * h |-> PixelAt(img, a + ((k - 1) % w), b + ((k - 1) \div w))]
  OBVIOUS
<1>5. f = [k \in 1 .. w * h |-> f[k]]
  BY <1>4
<1>6. ASSUME NEW i \in 0 .. w - 1, NEW j \in 0 .. h - 1
      PROVE  f[j * w + i + 1] = <<(x + a) + i, (y + b) + j>>
  <2>1. PICK k : k = j * w + i + 1
    OBVIOUS
  <2>2. k \in 1 .. w * h /\ (k - 1) % w = i /\ (k - 1) \div w = j
    <3>1. /\ j * w + i + 1 \in 1 .. w * h /\ (j * w + i + 1) - 1 = j * w + i
          /\ (j * w + i) % w = i /\ (j * w + i) \div w = j
      <4>1. w \in Nat \ {0} /\ h \in Nat \ {0}
        BY <1>3
      <4> QED
        BY <4>1, PlaceOf
    <3> QED
      BY <2>1, <3>1, Zenon
  <2>3. f[k] = PixelAt(img, a + ((k - 1) % w), b + ((k - 1) \div w))
    BY <1>4, <2>2, Zenon
  <2>4. f[k] = PixelAt(img, a + i, b + j)
    BY <2>2, <2>3, Zenon
  <2>5. a + i \in 0 .. img.width - 1 /\ b + j \in 0 .. img.height - 1
    BY <1>2, <1>3
  <2>6. PixelAt(img, a + i, b + j) = <<x + (a + i), y + (b + j)>>
    BY <1>1, <2>5, PixelShown
  <2>7. x + (a + i) = (x + a) + i /\ y + (b + j) = (y + b) + j
    BY <1>2
  <2> QED
    BY <2>1, <2>4, <2>6, <2>7, Zenon
<1>7. Shows([width |-> w, height |-> h, pixels |-> f], x + a, y + b)
  <2>1. x + a \in Int /\ y + b \in Int
    BY <1>2
  <2> QED
    BY <1>3, <1>5, <1>6, <2>1, Filled
<1>8. Crop(r, c).image = [width |-> w, height |-> h, pixels |-> f]
  <2>1. ~ (c.width <= 0 \/ c.height <= 0)
    BY Zenon DEF Misses
  <2>2. ~ (a >= img.width \/ b >= img.height)
    BY <1>1, Zenon DEF Misses
  <2>3. Crop(r, c) = [Seed(r) EXCEPT
                        !.image = [width |-> w, height |-> h,
                                   pixels |-> [k \in 1 .. w * h |->
                                      PixelAt(img, a + ((k - 1) % w), b + ((k - 1) \div w))]],
                        !.cropped = TRUE]
    BY <1>0, <1>1, <2>1, <2>2, Zenon DEF Crop
  <2>4. Crop(r, c) = [Seed(r) EXCEPT
                        !.image = [width |-> w, height |-> h, pixels |-> f], !.cropped = TRUE]
    BY <1>4, <2>3, Zenon
  <2>5. IsReport(Seed(r))
    BY SeedOf
  <2> QED
    BY <2>4, <2>5 DEF IsReport
<1> QED
  BY <1>0, <1>1, <1>7, <1>8

(* Cropping a buffer leaves what cropping the rectangle it shows leaves. *)
LEMMA CropLeavesMissed ==
    ASSUME NEW img, NEW x \in Int, NEW y \in Int, Shows(img, x, y),
           NEW c, IsRectangle(c), Misses(img, c)
    PROVE  CropLeaves(Rect(x, y, img.width, img.height), c) = Rect(x, y, img.width, img.height)
<1>1. PICK a, b, w, h : /\ a = AtLeastZero(c.x) /\ b = AtLeastZero(c.y)
                        /\ w = img.width /\ h = img.height
  OBVIOUS
<1>2. /\ a \in Nat /\ a = Max({c.x, 0}) /\ b \in Nat /\ b = Max({c.y, 0})
      /\ w \in Nat \ {0} /\ h \in Nat \ {0} /\ c.width \in Int /\ c.height \in Int
  BY <1>1, AtLeastZeroIs DEF IsRectangle, Shows
<1>3. Origin(Rect(x, y, w, h))[1] = x /\ Origin(Rect(x, y, w, h))[2] = y
  <2>1. w \in Nat \ {0} /\ h \in Nat \ {0}
    BY <1>2
  <2>2. Origin(Rect(x, y, w, h)) = <<x, y>>
    BY <2>1, RectOrigin
  <2> QED
    BY <2>2
<1>4. ASSUME NEW q \in Rect(x, y, w, h),
             Between(x + a, q[1], x + a + c.width - 1), Between(y + b, q[2], y + b + c.height - 1)
      PROVE  FALSE
  <2>1. q[1] \in x .. x + w - 1 /\ q[2] \in y .. y + h - 1
    BY <1>4 DEF Rect
  <2>2. /\ x + a <= q[1] /\ q[1] <= x + a + c.width - 1
        /\ y + b <= q[2] /\ q[2] <= y + b + c.height - 1
    BY <1>4 DEF Between
  <2>3. c.width <= 0 \/ c.height <= 0 \/ a >= w \/ b >= h
    BY <1>1 DEF Misses
  <2> QED
    BY <1>2, <2>1, <2>2, <2>3
<1>5. {q \in Rect(x, y, w, h) : /\ Between(x + Max({c.x, 0}), q[1], x + Max({c.x, 0}) + c.width - 1)
                                /\ Between(y + Max({c.y, 0}), q[2], y + Max({c.y, 0}) + c.height - 1)}
      = {}
  BY <1>2, <1>4
<1>6. CropLeaves(Rect(x, y, w, h), c) = Rect(x, y, w, h)
  BY <1>3, <1>5, Zenon DEF CropLeaves
<1> QED
  BY <1>1, <1>6

LEMMA CropLeavesHit ==
    ASSUME NEW img, NEW x \in Int, NEW y \in Int, Shows(img, x, y),
           NEW c, IsRectangle(c), WithinInt(c), ~ Misses(img, c)
    PROVE  /\ CropLeaves(Rect(x, y, img.width, img.height), c)
                = Rect(x + AtLeastZero(c.x), y + AtLeastZero(c.y),
                       CutOff(AtLeastZero(c.x), c.width, img.width),
                       CutOff(AtLeastZero(c.y), c.height, img.height))
           /\ CutOff(AtLeastZero(c.x), c.width, img.width) <= img.width
           /\ CutOff(AtLeastZero(c.y), c.height, img.height) <= img.height
<1>1. PICK a, b, w, h, d, e : /\ a = AtLeastZero(c.x) /\ b = AtLeastZero(c.y)
                              /\ w = img.width /\ h = img.height
                              /\ d = c.width /\ e = c.height
  OBVIOUS
<1>2. PICK m, n : m = CutOff(a, d, w) /\ n = CutOff(b, e, h)
  OBVIOUS
<1>3. /\ a \in Nat /\ a = Max({c.x, 0}) /\ b \in Nat /\ b = Max({c.y, 0})
      /\ w \in Nat \ {0} /\ h \in Nat \ {0} /\ d \in Int /\ e \in Int
  BY <1>1, AtLeastZeroIs DEF IsRectangle, Shows
<1>4. d > 0 /\ e > 0 /\ a < w /\ b < h /\ a + d <= IntMax /\ b + e <= IntMax
  BY <1>1, <1>3 DEF Misses, WithinInt
<1>5. /\ m \in Nat \ {0} /\ a + m <= w /\ m <= d /\ (m = d \/ a + m = w)
      /\ n \in Nat \ {0} /\ b + n <= h /\ n <= e /\ (n = e \/ b + n = h)
  <2>1. /\ d \in Nat \ {0} /\ e \in Nat \ {0} /\ w \in Nat /\ h \in Nat
    BY <1>3, <1>4
  <2>2. m \in Nat \ {0} /\ a + m <= w /\ m <= d /\ (m = d \/ a + m = w)
    BY <1>2, <1>3, <1>4, <2>1, CutOffIs
  <2>3. n \in Nat \ {0} /\ b + n <= h /\ n <= e /\ (n = e \/ b + n = h)
    BY <1>2, <1>3, <1>4, <2>1, CutOffIs
  <2> QED
    BY <2>2, <2>3
<1>6. Origin(Rect(x, y, w, h))[1] = x /\ Origin(Rect(x, y, w, h))[2] = y
  <2>1. w \in Nat \ {0} /\ h \in Nat \ {0}
    BY <1>3
  <2>2. Origin(Rect(x, y, w, h)) = <<x, y>>
    BY <2>1, RectOrigin
  <2> QED
    BY <2>2
<1> DEFINE inside == {q \in Rect(x, y, w, h) : /\ Between(x + a, q[1], x + a + d - 1)
                                               /\ Between(y + b, q[2], y + b + e - 1)}
<1>7. ASSUME NEW q PROVE q \in inside <=> q \in Rect(x + a, y + b, m, n)
  <2>1. ASSUME q \in inside PROVE q \in Rect(x + a, y + b, m, n)
    <3>1. /\ q[1] \in x .. x + w - 1 /\ q[2] \in y .. y + h - 1 /\ q = <<q[1], q[2]>>
      BY <2>1 DEF Rect
    <3>2. /\ x + a <= q[1] /\ q[1] <= x + a + d - 1
          /\ y + b <= q[2] /\ q[2] <= y + b + e - 1
      BY <2>1 DEF Between
    <3>3. q[1] \in (x + a) .. (x + a) + m - 1 /\ q[2] \in (y + b) .. (y + b) + n - 1
      BY <1>3, <1>5, <3>1, <3>2
    <3> QED
      BY <3>1, <3>3 DEF Rect
  <2>2. ASSUME q \in Rect(x + a, y + b, m, n) PROVE q \in inside
    <3>1. /\ q[1] \in (x + a) .. (x + a) + m - 1 /\ q[2] \in (y + b) .. (y + b) + n - 1
          /\ q = <<q[1], q[2]>>
      BY <2>2 DEF Rect
    <3>2. q[1] \in x .. x + w - 1 /\ q[2] \in y .. y + h - 1
      BY <1>3, <1>5, <3>1
    <3>3. /\ x + a <= q[1] /\ q[1] <= x + a + d - 1
          /\ y + b <= q[2] /\ q[2] <= y + b + e - 1
      BY <1>3, <1>5, <3>1
    <3> QED
      BY <3>1, <3>2, <3>3 DEF Rect, Between
  <2> QED
    BY <2>1, <2>2
<1>8. inside = Rect(x + a, y + b, m, n)
  <2> HIDE DEF inside
  <2>1. inside \subseteq Rect(x + a, y + b, m, n) /\ Rect(x + a, y + b, m, n) \subseteq inside
    BY <1>7
  <2> QED
    BY <2>1
<1>9. Rect(x + a, y + b, m, n) # {}
  <2>1. <<x + a, y + b>> \in Rect(x + a, y + b, m, n)
    BY <1>3, <1>5 DEF Rect
  <2> QED
    BY <2>1
<1>10. CropLeaves(Rect(x, y, w, h), c) = Rect(x + a, y + b, m, n)
  <2>1. inside = {q \in Rect(x, y, w, h) :
                    /\ Between(x + Max({c.x, 0}), q[1], x + Max({c.x, 0}) + c.width - 1)
                    /\ Between(y + Max({c.y, 0}), q[2], y + Max({c.y, 0}) + c.height - 1)}
    BY <1>1, <1>3
  <2> HIDE DEF inside
  <2> QED
    BY <1>6, <1>8, <1>9, <2>1, Zenon DEF CropLeaves
<1>11. m <= w /\ n <= h
  BY <1>3, <1>5
<1> QED
  BY <1>1, <1>2, <1>10, <1>11, Zenon

LEMMA CropKeeps ==
    ASSUME NEW r, IsReport(r), NEW x \in Int, NEW y \in Int, Shows(r.image, x, y),
           NEW c, IsRectangle(c), WithinInt(c)
    PROVE  \E u, v \in Int :
             /\ Shows(Crop(r, c).image, u, v)
             /\ Rect(u, v, Crop(r, c).image.width, Crop(r, c).image.height)
                  = CropLeaves(Rect(x, y, r.image.width, r.image.height), c)
<1>1. CASE Misses(r.image, c)
  <2>1. Crop(r, c).image = r.image
    BY <1>1, CropMisses
  <2>2. CropLeaves(Rect(x, y, r.image.width, r.image.height), c) = Rect(x, y, r.image.width, r.image.height)
    BY <1>1, CropLeavesMissed
  <2> QED
    BY <2>1, <2>2, Zenon
<1>2. CASE ~ Misses(r.image, c)
  <2>1. /\ Shows(Crop(r, c).image, x + AtLeastZero(c.x), y + AtLeastZero(c.y))
        /\ Crop(r, c).image.width = CutOff(AtLeastZero(c.x), c.width, r.image.width)
        /\ Crop(r, c).image.height = CutOff(AtLeastZero(c.y), c.height, r.image.height)
    BY <1>2, CropHits
  <2>2. CropLeaves(Rect(x, y, r.image.width, r.image.height), c)
          = Rect(x + AtLeastZero(c.x), y + AtLeastZero(c.y),
                 CutOff(AtLeastZero(c.x), c.width, r.image.width),
                 CutOff(AtLeastZero(c.y), c.height, r.image.height))
    BY <1>2, CropLeavesHit
  <2>3. x + AtLeastZero(c.x) \in Int /\ y + AtLeastZero(c.y) \in Int
    <3>1. c.x \in Int /\ c.y \in Int
      BY DEF IsRectangle
    <3>2. AtLeastZero(c.x) \in Nat /\ AtLeastZero(c.y) \in Nat
      BY <3>1, AtLeastZeroIs
    <3> QED
      BY <3>2
  <2> QED
    BY <2>1, <2>2, <2>3, Zenon
<1> QED
  BY <1>1, <1>2
-----------------------------------------------------------------------------
(* Trimming *)

LEMMA MaxIsGreatest ==
    ASSUME NEW N \in Nat, NEW T \in SUBSET (0 .. N), T # {}
    PROVE  Max(T) \in T /\ \A n \in T : n <= Max(T)
<1> DEFINE D == {n \in Nat : N - n \in T}
<1>1. D \in SUBSET Nat /\ D # {}
  <2>1. PICK n \in T : TRUE
    OBVIOUS
  <2>2. N - n \in D
    OBVIOUS
  <2> QED
    BY <2>2
<1>2. PICK m \in D : \A n \in D : m <= n
  <2> HIDE DEF D
  <2> QED
    BY <1>1, Least
<1>3. N - m \in T /\ \A n \in T : N - m >= n
  <2>1. ASSUME NEW n \in T PROVE N - m >= n
    <3>1. N - n \in D
      OBVIOUS
    <3> QED
      BY <1>2, <3>1
  <2> QED
    BY <1>2, <2>1
<1> QED
  BY <1>3 DEF Max

(* The least and the greatest column of a set of points of a picture. *)
LEMMA SpanOf ==
    ASSUME NEW N \in Nat, NEW T \in SUBSET (0 .. N), T # {}
    PROVE  /\ Min(T) \in T /\ Max(T) \in T /\ Min(T) <= Max(T)
           /\ \A n \in Nat : (\E a, b \in T : Between(a, n, b)) <=> Between(Min(T), n, Max(T))
<1>1. Min(T) \in T /\ \A n \in T : Min(T) <= n
  <2>1. T \in SUBSET Nat
    OBVIOUS
  <2> QED
    BY <2>1, MinIsLeast
<1>2. Max(T) \in T /\ \A n \in T : n <= Max(T)
  BY MaxIsGreatest
<1>3. PICK least, most : least = Min(T) /\ most = Max(T)
  OBVIOUS
<1>4. /\ least \in T /\ most \in T /\ least \in Nat /\ most \in Nat /\ least <= most
      /\ \A n \in T : n \in Nat /\ least <= n /\ n <= most
  <2>1. least \in T /\ most \in T
    BY <1>1, <1>2, <1>3
  <2>2. \A n \in T : least <= n
    BY <1>1, <1>3, Zenon
  <2>3. \A n \in T : n <= most
    BY <1>2, <1>3, Zenon
  <2> QED
    BY <2>1, <2>2, <2>3
<1>5. ASSUME NEW n \in Nat
      PROVE  (\E a, b \in T : Between(a, n, b)) <=> Between(least, n, most)
  BY <1>4 DEF Between
<1> QED
  BY <1>3, <1>4, <1>5

Spanned(w, h, seen) ==
    IF seen = {} THEN {<<0, 0>>}
    ELSE {q \in Points(w, h) : /\ \E a, b \in seen : Between(a[1], q[1], b[1])
                               /\ \E a, b \in seen : Between(a[2], q[2], b[2])}

LEMMA BoxOf ==
    ASSUME NEW w \in Nat \ {0}, NEW h \in Nat \ {0}, NEW seen \in SUBSET Points(w, h),
           NEW box, box = BoundingBox(seen)
    PROVE  /\ box.x \in Nat /\ box.width \in Nat \ {0} /\ box.x + box.width <= w
           /\ box.y \in Nat /\ box.height \in Nat \ {0} /\ box.y + box.height <= h
           /\ Rect(box.x, box.y, box.width, box.height) = Spanned(w, h, seen)
<1>1. CASE seen = {}
  <2>1. box.x = 0 /\ box.y = 0 /\ box.width = 1 /\ box.height = 1
    BY <1>1 DEF BoundingBox
  <2>2. 0 .. 0 + 1 - 1 = {0}
    OBVIOUS
  <2>3. Rect(0, 0, 1, 1) = {<<0, 0>>}
    BY <2>2 DEF Rect
  <2> QED
    BY <1>1, <2>1, <2>3 DEF Spanned
<1>2. CASE seen # {}
  <2>1. PICK xs, ys : xs = {p[1] : p \in seen} /\ ys = {p[2] : p \in seen}
    OBVIOUS
  <2>2. xs \in SUBSET (0 .. w - 1) /\ xs # {} /\ ys \in SUBSET (0 .. h - 1) /\ ys # {}
    BY <1>2, <2>1 DEF Points
  <2>3. PICK l, r, t, b : l = Min(xs) /\ r = Max(xs) /\ t = Min(ys) /\ b = Max(ys)
    OBVIOUS
  <2>4. w - 1 \in Nat /\ h - 1 \in Nat
    OBVIOUS
  <2>5. /\ l \in xs /\ r \in xs /\ l <= r
        /\ \A n \in Nat : (\E a, c \in xs : Between(a, n, c)) <=> Between(l, n, r)
    BY <2>2, <2>3, <2>4, SpanOf
  <2>6. /\ t \in ys /\ b \in ys /\ t <= b
        /\ \A n \in Nat : (\E a, c \in ys : Between(a, n, c)) <=> Between(t, n, b)
    BY <2>2, <2>3, <2>4, SpanOf
  <2>7. box.x = l /\ box.y = t /\ box.width = r - l + 1 /\ box.height = b - t + 1
    <3>1. BoundingBox(seen) = [x |-> l, y |-> t, width |-> r - l + 1, height |-> b - t + 1]
      BY <1>2, <2>1, <2>3, Zenon DEF BoundingBox
    <3> QED
      BY <3>1
  <2>8. /\ l \in 0 .. w - 1 /\ r \in 0 .. w - 1 /\ l <= r
        /\ t \in 0 .. h - 1 /\ b \in 0 .. h - 1 /\ t <= b
    BY <2>2, <2>5, <2>6
  <2>9. ASSUME NEW q \in Points(w, h)
        PROVE  q \in Spanned(w, h, seen) <=> Between(l, q[1], r) /\ Between(t, q[2], b)
    <3>1. q[1] \in Nat /\ q[2] \in Nat
      BY DEF Points
    <3>2. (\E a, c \in seen : Between(a[1], q[1], c[1])) <=> (\E a, c \in xs : Between(a, q[1], c))
      BY <2>1
    <3>3. (\E a, c \in seen : Between(a[2], q[2], c[2])) <=> (\E a, c \in ys : Between(a, q[2], c))
      BY <2>1
    <3>4. (\E a, c \in xs : Between(a, q[1], c)) <=> Between(l, q[1], r)
      BY <2>5, <3>1
    <3>5. (\E a, c \in ys : Between(a, q[2], c)) <=> Between(t, q[2], b)
      BY <2>6, <3>1
    <3> QED
      BY <1>2, <3>2, <3>3, <3>4, <3>5 DEF Spanned
  <2>10. Spanned(w, h, seen) \subseteq Points(w, h)
    BY <1>2 DEF Spanned
  <2>11. ASSUME NEW q PROVE q \in Rect(l, t, r - l + 1, b - t + 1) <=> q \in Spanned(w, h, seen)
    <3>1. ASSUME q \in Rect(l, t, r - l + 1, b - t + 1) PROVE q \in Spanned(w, h, seen)
      <4>1. /\ q[1] \in l .. l + (r - l + 1) - 1 /\ q[2] \in t .. t + (b - t + 1) - 1
            /\ q = <<q[1], q[2]>>
        BY <3>1 DEF Rect
      <4>2. /\ q[1] \in 0 .. w - 1 /\ q[2] \in 0 .. h - 1
            /\ l <= q[1] /\ q[1] <= r /\ t <= q[2] /\ q[2] <= b
        BY <2>8, <4>1
      <4>3. q \in Points(w, h)
        BY <4>1, <4>2 DEF Points
      <4> QED
        BY <2>9, <4>2, <4>3 DEF Between
    <3>2. ASSUME q \in Spanned(w, h, seen) PROVE q \in Rect(l, t, r - l + 1, b - t + 1)
      <4>1. q \in Points(w, h)
        BY <2>10, <3>2
      <4>2. l <= q[1] /\ q[1] <= r /\ t <= q[2] /\ q[2] <= b
        BY <2>9, <3>2, <4>1 DEF Between
      <4>3. q[1] \in 0 .. w - 1 /\ q[2] \in 0 .. h - 1 /\ q = <<q[1], q[2]>>
        BY <4>1 DEF Points
      <4>4. q[1] \in l .. l + (r - l + 1) - 1 /\ q[2] \in t .. t + (b - t + 1) - 1
        BY <2>8, <4>2, <4>3
      <4> QED
        BY <4>3, <4>4 DEF Rect
    <3> QED
      BY <3>1, <3>2
  <2>12. Rect(l, t, r - l + 1, b - t + 1) = Spanned(w, h, seen)
    <3>1. /\ Rect(l, t, r - l + 1, b - t + 1) \subseteq Spanned(w, h, seen)
          /\ Spanned(w, h, seen) \subseteq Rect(l, t, r - l + 1, b - t + 1)
      BY <2>11
    <3> QED
      BY <3>1
  <2>13. /\ l \in Nat /\ r - l + 1 \in Nat \ {0} /\ l + (r - l + 1) <= w
         /\ t \in Nat /\ b - t + 1 \in Nat \ {0} /\ t + (b - t + 1) <= h
    BY <2>8
  <2> QED
    BY <2>7, <2>12, <2>13, Zenon
<1> QED
  BY <1>1, <1>2

(* Trimming compares with the tolerance asked for. *)
Tolerance(t) == IF t <= 0 THEN SomeAlpha ELSE t

Threshold(t) == IF t <= 0 THEN SomeAlpha ELSE Min({t, MaxAlpha})

LEMMA ThresholdUsed ==
    ASSUME NEW t \in Int
    PROVE  (IF Tolerance(t) > MaxAlpha THEN MaxAlpha ELSE AtLeastZero(Tolerance(t))) = Threshold(t)
<1>1. SomeAlpha \in Int /\ 0 <= SomeAlpha /\ SomeAlpha <= MaxAlpha /\ MaxAlpha \in Nat
  BY ImageOpsAssumption
<1>2. Min({t, MaxAlpha}) = IF t > MaxAlpha THEN MaxAlpha ELSE t
  BY <1>1 DEF Min
<1>3. CASE t <= 0
  BY <1>1, <1>3 DEF Tolerance, Threshold, AtLeastZero
<1>4. CASE ~ t <= 0
  BY <1>1, <1>2, <1>4 DEF Tolerance, Threshold, AtLeastZero
<1> QED
  BY <1>3, <1>4

TrimmedRight(s, p, t) ==
    /\ IsReport(s) /\ s.inputWidth = p.width /\ s.inputHeight = p.height
    /\ \E u, v \in Int :
         /\ Shows(s.image, u, v)
         /\ Rect(u, v, s.image.width, s.image.height) = TrimLeaves(p, t)
    /\ s.trimmed \/ (s.image.width = p.width /\ s.image.height = p.height)

LEMMA TrimKeeps ==
    ASSUME NEW r, IsReport(r), NEW p, p.width \in 1 .. IntMax, p.height \in 1 .. IntMax,
           Shows(r.image, 0, 0), r.image.width = p.width, r.image.height = p.height,
           NEW t \in Int
    PROVE  TrimmedRight(Trim(r, p, Tolerance(t)), p, t)
<1>0. PICK s : s = Trim(r, p, Tolerance(t))
  OBVIOUS
<1>1. PICK w, h, seen, box :
        /\ w = p.width /\ h = p.height
        /\ seen = {q \in Points(w, h) : p.alpha[q] > Threshold(t)}
        /\ box = BoundingBox(seen)
  OBVIOUS
<1>2. w \in Nat \ {0} /\ h \in Nat \ {0} /\ w <= IntMax /\ h <= IntMax
  BY <1>1, ImageOpsAssumption
<1>3. /\ box.x \in Nat /\ box.width \in Nat \ {0} /\ box.x + box.width <= w
      /\ box.y \in Nat /\ box.height \in Nat \ {0} /\ box.y + box.height <= h
      /\ Rect(box.x, box.y, box.width, box.height) = Spanned(w, h, seen)
  <2>1. seen \in SUBSET Points(w, h)
    BY <1>1
  <2> QED
    <3>1. box = BoundingBox(seen) /\ w \in Nat \ {0} /\ h \in Nat \ {0}
      BY <1>1, <1>2
    <3> QED
      BY <2>1, <3>1, BoxOf
<1>4. TrimLeaves(p, t) = Spanned(w, h, seen)
  BY <1>1, Zenon DEF TrimLeaves, Threshold, Spanned
<1>5. s = IF box.width = r.image.width /\ box.height = r.image.height THEN Seed(r)
          ELSE [Crop(Seed(r), box) EXCEPT !.trimmed = TRUE]
  BY <1>0, <1>1, ThresholdUsed, Zenon DEF Trim
<1>6. /\ IsReport(Seed(r)) /\ Seed(r).image = r.image
      /\ Seed(r).inputWidth = w /\ Seed(r).inputHeight = h
  BY <1>1, SeedOf
<1>7. CASE box.width = r.image.width /\ box.height = r.image.height
  <2>1. s = Seed(r)
    BY <1>5, <1>7
  <2>2. box.width = w /\ box.height = h
    BY <1>1, <1>7
  <2>3. box.x = 0 /\ box.y = 0
    BY <1>2, <1>3, <2>2
  <2>4. Rect(0, 0, s.image.width, s.image.height) = TrimLeaves(p, t)
    BY <1>3, <1>4, <1>6, <1>7, <2>1, <2>3, Zenon
  <2>5. 0 \in Int
    OBVIOUS
  <2>6. Shows(s.image, 0, 0)
    BY <1>6, <2>1
  <2> QED
    BY <1>0, <1>1, <1>6, <2>1, <2>4, <2>5, <2>6, Zenon DEF TrimmedRight
<1>8. CASE ~ (box.width = r.image.width /\ box.height = r.image.height)
  <2>1. s = [Crop(Seed(r), box) EXCEPT !.trimmed = TRUE]
    BY <1>5, <1>8
  <2>2. PICK x, y, bw, bh : /\ x = box.x /\ y = box.y /\ bw = box.width /\ bh = box.height
    OBVIOUS
  <2>3. /\ x \in Nat /\ bw \in Nat \ {0} /\ x + bw <= w /\ w <= IntMax /\ w \in Nat
        /\ y \in Nat /\ bh \in Nat \ {0} /\ y + bh <= h /\ h <= IntMax /\ h \in Nat
    BY <1>2, <1>3, <2>2
  <2>4. AtLeastZero(x) = x /\ AtLeastZero(y) = y
    BY <2>3 DEF AtLeastZero
  <2>5. Max({x, 0}) = x /\ Max({y, 0}) = y
    BY <2>3, <2>4, AtLeastZeroIs
  <2>6. x + bw <= IntMax /\ y + bh <= IntMax /\ IntMax \in Nat
    BY <2>3, ImageOpsAssumption
  <2>7. CutOff(x, bw, w) = bw /\ CutOff(y, bh, h) = bh
    <3>1. Plus(x, bw) = x + bw /\ Plus(y, bh) = y + bh
      BY <2>3, <2>6 DEF Plus
    <3> QED
      BY <2>3, <3>1 DEF CutOff
  <2>8. IsRectangle(box)
    <3>1. x \in Int /\ y \in Int /\ bw \in Int /\ bh \in Int
      BY <2>3
    <3> QED
      BY <2>2, <3>1 DEF IsRectangle
  <2>9. WithinInt(box)
    BY <2>2, <2>5, <2>6 DEF WithinInt
  <2>10. ~ Misses(Seed(r).image, box)
    <3>1. ~ (bw <= 0 \/ bh <= 0 \/ x >= w \/ y >= h)
      BY <2>3
    <3> QED
      BY <1>1, <1>6, <2>2, <2>4, <3>1 DEF Misses
  <2>11. PICK c : c = Crop(Seed(r), box)
    OBVIOUS
  <2>12. /\ Shows(c.image, 0 + AtLeastZero(box.x), 0 + AtLeastZero(box.y))
         /\ c.image.width = CutOff(AtLeastZero(box.x), box.width, Seed(r).image.width)
         /\ c.image.height = CutOff(AtLeastZero(box.y), box.height, Seed(r).image.height)
    <3>1. 0 \in Int /\ Shows(Seed(r).image, 0, 0)
      BY <1>6
    <3> QED
      BY <1>6, <2>8, <2>9, <2>10, <2>11, <3>1, CropHits
  <2>13. c.image.width = bw /\ c.image.height = bh
    BY <1>1, <1>6, <2>2, <2>4, <2>7, <2>12
  <2>14. Shows(c.image, x, y)
    <3>1. 0 + x = x /\ 0 + y = y
      BY <2>3
    <3> QED
      BY <2>2, <2>4, <2>12, <3>1
  <2>15. IsReport(c) /\ c.inputWidth = w /\ c.inputHeight = h
    <3>1. Seed(r).inputWidth = Seed(r).image.width /\ Seed(r).inputHeight = Seed(r).image.height
      BY <1>1, <1>6
    <3>2. /\ IsReport(c)
          /\ \/ c.inputWidth = Seed(r).inputWidth /\ c.inputHeight = Seed(r).inputHeight
             \/ c.inputWidth = Seed(r).image.width /\ c.inputHeight = Seed(r).image.height
      BY <1>6, <2>11, CropReports
    <3> QED
      BY <1>6, <3>1, <3>2
  <2>16. /\ s.image = c.image /\ s.inputWidth = w /\ s.inputHeight = h /\ s.trimmed = TRUE
         /\ IsReport(s)
    <3>1. PICK img, a, b, d, e :
            c = [image |-> img, inputWidth |-> a, inputHeight |-> b, trimmed |-> d, cropped |-> e]
      BY <2>15, Zenon DEF IsReport
    <3>2. s = [image |-> img, inputWidth |-> a, inputHeight |-> b, trimmed |-> TRUE, cropped |-> e]
      <4>1. s = [c EXCEPT !.trimmed = TRUE]
        BY <2>1, <2>11, Zenon
      <4> QED
        BY <3>1, <4>1
    <3>3. a = w /\ b = h
      BY <2>15, <3>1
    <3> QED
      BY <3>1, <3>2, <3>3 DEF IsReport
  <2>17. x \in Int /\ y \in Int
    BY <2>3
  <2>18. Rect(x, y, s.image.width, s.image.height) = TrimLeaves(p, t)
    BY <1>3, <1>4, <2>2, <2>13, <2>16
  <2> QED
    BY <1>0, <1>1, <2>14, <2>16, <2>17, <2>18, Zenon DEF TrimmedRight
<1> QED
  BY <1>7, <1>8
-----------------------------------------------------------------------------
(* What a picture is prepared to *)

LEMMA PreparedInPlace ==
    ASSUME NEW p, p.width \in 1 .. IntMax, p.height \in 1 .. IntMax,
           NEW ops, ops.trim \in BOOLEAN, ops.crop \in BOOLEAN, ops.tolerance \in Int,
           IsRectangle(ops.rectangle), WithinInt(ops.rectangle),
           NEW r, r = Prepared(p, ops)
    PROVE  /\ InPlace(r.image, Left(p, ops))
           /\ ~ (r.trimmed /\ ops.crop) => r.inputWidth = p.width /\ r.inputHeight = p.height
<1>1. PICK w, h, whole, c : /\ w = p.width /\ h = p.height /\ whole = Report(Decoded(p))
                            /\ c = ops.rectangle
  OBVIOUS
<1>2. w \in Nat \ {0} /\ h \in Nat \ {0}
  BY <1>1, ImageOpsAssumption
<1>3. /\ IsReport(whole) /\ Shows(whole.image, 0, 0)
      /\ whole.image.width = w /\ whole.image.height = h
      /\ whole.inputWidth = w /\ whole.inputHeight = h
  <2>1. Shows(Decoded(p), 0, 0) /\ Decoded(p).width = w /\ Decoded(p).height = h
    BY <1>1, <1>2, DecodedShown
  <2>2. whole = [image |-> Decoded(p), inputWidth |-> Decoded(p).width,
                 inputHeight |-> Decoded(p).height, trimmed |-> FALSE, cropped |-> FALSE]
    BY <1>1 DEF Report
  <2> QED
    BY <2>1, <2>2 DEF IsReport
<1>4. PICK s, points :
        /\ s = IF ops.trim THEN Trim(whole, p, Tolerance(ops.tolerance)) ELSE whole
        /\ points = IF ops.trim THEN TrimLeaves(p, ops.tolerance) ELSE Points(w, h)
  OBVIOUS
<1>5. /\ IsReport(s) /\ s.inputWidth = w /\ s.inputHeight = h
      /\ \E u, v \in Int : Shows(s.image, u, v) /\ Rect(u, v, s.image.width, s.image.height) = points
      /\ s.trimmed \/ (s.image.width = w /\ s.image.height = h)
  <2>1. CASE ops.trim
    <3>1. s = Trim(whole, p, Tolerance(ops.tolerance)) /\ points = TrimLeaves(p, ops.tolerance)
      BY <1>4, <2>1
    <3>2. /\ IsReport(whole) /\ Shows(whole.image, 0, 0)
          /\ whole.image.width = p.width /\ whole.image.height = p.height
      BY <1>1, <1>3
    <3>3. /\ IsReport(s) /\ s.inputWidth = p.width /\ s.inputHeight = p.height
          /\ \E u, v \in Int :
               /\ Shows(s.image, u, v)
               /\ Rect(u, v, s.image.width, s.image.height) = TrimLeaves(p, ops.tolerance)
          /\ s.trimmed \/ (s.image.width = p.width /\ s.image.height = p.height)
      <4>1. TrimmedRight(Trim(whole, p, Tolerance(ops.tolerance)), p, ops.tolerance)
        BY <3>2, TrimKeeps
      <4> QED
        BY <3>1, <4>1, Zenon DEF TrimmedRight
    <3> QED
      BY <1>1, <3>1, <3>3, Zenon
  <2>2. CASE ~ ops.trim
    <3>1. s = whole /\ points = Points(w, h)
      BY <1>4, <2>2
    <3>2. Rect(0, 0, w, h) = Points(w, h)
      <4>1. 0 + w - 1 = w - 1 /\ 0 + h - 1 = h - 1
        BY <1>2
      <4> QED
        BY <4>1, Zenon DEF Rect, Points
    <3>3. 0 \in Int
      OBVIOUS
    <3> QED
      BY <1>3, <3>1, <3>2, <3>3, Zenon
  <2> QED
    BY <2>1, <2>2
<1>6. PICK x \in Int, y \in Int :
        Shows(s.image, x, y) /\ Rect(x, y, s.image.width, s.image.height) = points
  BY <1>5
<1>7. r = IF ops.crop THEN Crop(s, c) ELSE s
  BY <1>1, <1>4, Zenon DEF Prepared, Tolerance
<1>8. Left(p, ops) = IF ops.crop THEN CropLeaves(points, c) ELSE points
  BY <1>1, <1>4, Zenon DEF Left
<1>9. \E u, v \in Int : /\ Shows(r.image, u, v)
                        /\ Rect(u, v, r.image.width, r.image.height) = Left(p, ops)
  <2>1. CASE ops.crop
    <3>1. r = Crop(s, c) /\ Left(p, ops) = CropLeaves(points, c)
      BY <1>7, <1>8, <2>1
    <3>2. IsReport(s) /\ IsRectangle(c) /\ WithinInt(c)
      BY <1>1, <1>5
    <3>3. \E u, v \in Int :
             /\ Shows(Crop(s, c).image, u, v)
             /\ Rect(u, v, Crop(s, c).image.width, Crop(s, c).image.height)
                  = CropLeaves(Rect(x, y, s.image.width, s.image.height), c)
      BY <1>6, <3>2, CropKeeps
    <3> QED
      BY <1>6, <3>1, <3>3, Zenon
  <2>2. CASE ~ ops.crop
    BY <1>6, <1>7, <1>8, <2>2, Zenon
  <2> QED
    BY <2>1, <2>2
<1>10. InPlace(r.image, Left(p, ops))
  <2>1. PICK u \in Int, v \in Int : /\ Shows(r.image, u, v)
                                    /\ Rect(u, v, r.image.width, r.image.height) = Left(p, ops)
    BY <1>9
  <2>2. InPlace(r.image, Rect(u, v, r.image.width, r.image.height))
    BY <2>1, ShownInPlace
  <2> QED
    BY <2>1, <2>2
<1>11. ASSUME ~ (r.trimmed /\ ops.crop) PROVE r.inputWidth = w /\ r.inputHeight = h
  <2>1. CASE ops.crop
    <3>1. r = Crop(s, c) /\ ~ r.trimmed
      BY <1>7, <1>11, <2>1
    <3>2. /\ Crop(s, c).trimmed = s.trimmed
          /\ \/ Crop(s, c).inputWidth = s.inputWidth /\ Crop(s, c).inputHeight = s.inputHeight
             \/ Crop(s, c).inputWidth = s.image.width /\ Crop(s, c).inputHeight = s.image.height
      BY <1>5, CropReports
    <3> QED
      BY <1>5, <3>1, <3>2
  <2>2. CASE ~ ops.crop
    BY <1>5, <1>7, <2>2
  <2> QED
    BY <2>1, <2>2
<1> QED
  BY <1>1, <1>10, <1>11

(* Whatever the picture and the rectangle, trimming and cropping leave in  *)
(* the buffer exactly the points they should, each at its place, as long   *)
(* as the rectangle's corner is an int; and the result tells the picture's *)
(* own size unless it was trimmed before it was cropped.                   *)
THEOREM PicturesArePrepared == Spec => []PreparedAsAsked
<1>1. Misprepared = {}
  <2>1. ASSUME NEW p \in Pictures, NEW ops \in Operations, WithinInt(ops.rectangle)
        PROVE  /\ InPlace(Prepared(p, ops).image, Left(p, ops))
               /\ ~ (Prepared(p, ops).trimmed /\ ops.crop) =>
                    /\ Prepared(p, ops).inputWidth = p.width
                    /\ Prepared(p, ops).inputHeight = p.height
    <3>1. p.width \in 1 .. IntMax /\ p.height \in 1 .. IntMax
      BY PreparationAssumption
    <3>2. ops.trim \in BOOLEAN /\ ops.crop \in BOOLEAN /\ ops.tolerance \in Int
      BY PreparationAssumption
    <3>3. ops.rectangle \in [x : Int, y : Int, width : Int, height : Int]
      BY PreparationAssumption
    <3>4. IsRectangle(ops.rectangle)
      BY <3>3 DEF IsRectangle
    <3> QED
      BY <2>1, <3>1, <3>2, <3>4, PreparedInPlace
  <2>2. ASSUME NEW c \in Pictures \X Operations, WithinInt(c[2].rectangle)
        PROVE  /\ InPlace(Prepared(c[1], c[2]).image, Left(c[1], c[2]))
               /\ ~ (Prepared(c[1], c[2]).trimmed /\ c[2].crop) =>
                    /\ Prepared(c[1], c[2]).inputWidth = c[1].width
                    /\ Prepared(c[1], c[2]).inputHeight = c[1].height
    <3>1. c[1] \in Pictures /\ c[2] \in Operations
      OBVIOUS
    <3> QED
      BY <2>1, <2>2, <3>1, Zenon
  <2> QED
    BY <2>2, Zenon DEF Misprepared
<1>2. PreparedAsAsked
  BY <1>1 DEF PreparedAsAsked
<1> QED
  BY <1>2, PTL
=============================================================================
