------------------------ MODULE ConnectionRender_proofs ------------------------
(***************************************************************************)
(* Proofs about ConnectionRender, for all contents of the operator's       *)
(* files, any number of edits and any order of resolve and render.         *)
(***************************************************************************)
EXTENDS ConnectionRender, TLAPS, SequenceTheorems, FiniteSetTheorems, FunctionTheorems

(***************************************************************************)
(* Sequences: their elements, concatenation and sorting                    *)
(***************************************************************************)

(* The elements of a sequence are those at its positions.                  *)
LEMMA Elements ==
  ASSUME NEW T, NEW s \in Seq(T)
  PROVE  /\ DOMAIN s = 1..Len(s) /\ Len(s) \in Nat
         /\ ToSet(s) \subseteq T
         /\ \A i \in DOMAIN s : s[i] \in ToSet(s)
         /\ \A x \in ToSet(s) : \E i \in DOMAIN s : x = s[i]
<1>1. DOMAIN s = 1..Len(s) /\ Len(s) \in Nat  BY LenProperties
<1>2. \A i \in DOMAIN s : s[i] \in T  BY <1>1, ElementOfSeq
<1> QED  BY <1>1, <1>2 DEF ToSet

(* A sequence without repetitions is one whose positions differ.           *)
LEMMA DistinctOf ==
  ASSUME NEW s
  PROVE  Distinct(s) <=> \A i, j \in DOMAIN s : s[i] = s[j] => i = j
BY DEF Distinct, IsInjective

(* A concatenation has the elements of both parts, and none twice if       *)
(* neither part has and they share none.                                   *)
LEMMA Joined ==
  ASSUME NEW T, NEW s \in Seq(T), NEW t \in Seq(T)
  PROVE  /\ s \o t \in Seq(T)
         /\ Len(s \o t) = Len(s) + Len(t)
         /\ ToSet(s \o t) = ToSet(s) \cup ToSet(t)
         /\ Distinct(s \o t) <=>
              /\ Distinct(s) /\ Distinct(t)
              /\ ToSet(s) \cap ToSet(t) = {}
<1> DEFINE m == Len(s)
           n == Len(t)
           u == s \o t
<1>1. /\ u \in Seq(T) /\ Len(u) = m + n
      /\ \A i \in 1..(m + n) : u[i] = IF i <= m THEN s[i] ELSE t[i - m]
  BY ConcatProperties
<1>2. /\ m \in Nat /\ n \in Nat
      /\ DOMAIN s = 1..m /\ DOMAIN t = 1..n /\ DOMAIN u = 1..(m + n)
  BY <1>1, LenProperties
<1>3. /\ \A i \in 1..m : i \in DOMAIN u /\ u[i] = s[i]
      /\ \A j \in 1..n : j + m \in DOMAIN u /\ u[j + m] = t[j]
  BY <1>1, <1>2
<1>4. \A i \in DOMAIN u : i \in 1..m \/ \E j \in 1..n : i = j + m
  <2> SUFFICES ASSUME NEW i \in DOMAIN u, i \notin 1..m  PROVE  \E j \in 1..n : i = j + m
    OBVIOUS
  <2>1. i - m \in 1..n /\ i = (i - m) + m  BY <1>2
  <2> QED  BY <2>1
<1> HIDE DEF m, n, u
<1>5. ToSet(u) = ToSet(s) \cup ToSet(t)
  <2>1. ASSUME NEW x \in ToSet(u)  PROVE  x \in ToSet(s) \cup ToSet(t)
    <3>1. PICK i \in DOMAIN u : x = u[i]  BY DEF ToSet
    <3> QED  BY <3>1, <1>2, <1>3, <1>4 DEF ToSet
  <2>2. ASSUME NEW x \in ToSet(s) \cup ToSet(t)  PROVE  x \in ToSet(u)
    <3>1. CASE x \in ToSet(s)  BY <3>1, <1>2, <1>3 DEF ToSet
    <3>2. CASE x \in ToSet(t)
      <4>1. PICK j \in 1..n : x = t[j]  BY <3>2, <1>2 DEF ToSet
      <4> QED  BY <4>1, <1>3 DEF ToSet
    <3> QED  BY <3>1, <3>2
  <2> QED  BY <2>1, <2>2
<1>6. ASSUME Distinct(u)
      PROVE  Distinct(s) /\ Distinct(t) /\ ToSet(s) \cap ToSet(t) = {}
  <2>1. \A i, j \in DOMAIN u : u[i] = u[j] => i = j  BY <1>6, DistinctOf
  <2>2. Distinct(s)
    <3>1. \A i, j \in 1..m : s[i] = s[j] => i = j  BY <1>3, <2>1
    <3> QED  BY <3>1, <1>2, DistinctOf
  <2>3. Distinct(t)
    <3>1. \A i, j \in 1..n : t[i] = t[j] => i + m = j + m  BY <1>3, <2>1
    <3>2. \A i, j \in 1..n : i + m = j + m => i = j  BY <1>2
    <3> QED  BY <3>1, <3>2, <1>2, DistinctOf
  <2>4. ToSet(s) \cap ToSet(t) = {}
    <3> SUFFICES ASSUME NEW i \in 1..m, NEW j \in 1..n, s[i] = t[j]  PROVE  FALSE
      BY <1>2 DEF ToSet
    <3>1. i = j + m  BY <1>3, <2>1
    <3> QED  BY <3>1, <1>2
  <2> QED  BY <2>2, <2>3, <2>4
<1>7. ASSUME Distinct(s), Distinct(t), ToSet(s) \cap ToSet(t) = {}
      PROVE  Distinct(u)
  <2>1. /\ \A i, j \in 1..m : s[i] = s[j] => i = j
        /\ \A i, j \in 1..n : t[i] = t[j] => i = j
        /\ \A i \in 1..m, j \in 1..n : s[i] # t[j]
    <3>1. Distinct(s) => \A i, j \in DOMAIN s : s[i] = s[j] => i = j  BY DistinctOf
    <3>2. Distinct(t) => \A i, j \in DOMAIN t : t[i] = t[j] => i = j  BY DistinctOf
    <3>3. \A i \in 1..m, j \in 1..n : s[i] \in ToSet(s) /\ t[j] \in ToSet(t)
      BY <1>2 DEF ToSet
    <3> QED  BY <3>1, <3>2, <3>3, <1>7, <1>2
  <2> SUFFICES ASSUME NEW i \in DOMAIN u, NEW j \in DOMAIN u, u[i] = u[j]  PROVE  i = j
    BY DistinctOf
  <2>2. CASE i \in 1..m /\ j \in 1..m  BY <2>2, <2>1, <1>3
  <2>3. CASE i \in 1..m /\ j \notin 1..m
    <3>1. PICK k \in 1..n : j = k + m  BY <2>3, <1>4
    <3>2. t[k] = u[j] /\ u[i] = s[i]  BY <3>1, <2>3, <1>3
    <3> QED  BY <3>2, <2>1, <2>3
  <2>4. CASE i \notin 1..m /\ j \in 1..m
    <3>1. PICK k \in 1..n : i = k + m  BY <2>4, <1>4
    <3>2. t[k] = u[i] /\ u[j] = s[j]  BY <3>1, <2>4, <1>3
    <3> QED  BY <3>2, <2>1, <2>4
  <2>5. CASE i \notin 1..m /\ j \notin 1..m
    <3>1. PICK k \in 1..n : i = k + m  BY <2>5, <1>4
    <3>2. PICK l \in 1..n : j = l + m  BY <2>5, <1>4
    <3>3. t[k] = t[l]  BY <3>1, <3>2, <1>3
    <3> QED  BY <3>1, <3>2, <3>3, <2>1
  <2> QED  BY <2>2, <2>3, <2>4, <2>5
<1> QED  BY <1>1, <1>5, <1>6, <1>7 DEF u, m, n

(* Singletons.                                                             *)
LEMMA Single ==
  ASSUME NEW T, NEW x \in T
  PROVE  /\ <<x>> \in Seq(T) /\ Len(<<x>>) = 1
         /\ ToSet(<<x>>) = {x}
         /\ Distinct(<<x>>)
BY DEF ToSet, Distinct, IsInjective

(* The elements of a sequence are finitely many.                           *)
LEMMA FiniteElements ==
  ASSUME NEW T, NEW s \in Seq(T)
  PROVE  IsFiniteSet(ToSet(s))
<1>1. Len(s) \in Nat /\ s \in [1..Len(s) -> T]  BY LenProperties
<1>2. IsFiniteSet(1..Len(s))  BY <1>1, FS_Interval
<1>3. s \in Surjection(1..Len(s), ToSet(s))  BY <1>1, Fun_IsSurj DEF ToSet
<1> QED  BY <1>2, <1>3, FS_Surjection

(* A finite set with a key that tells its elements apart can be sorted: an *)
(* element goes to the position given by the number of smaller ones.       *)
LEMMA SortingExists ==
  ASSUME NEW S, IsFiniteSet(S), NEW key \in [S -> Int],
         \A x, y \in S : key[x] = key[y] => x = y
  PROVE  \E s \in SetToSeqs(S) : \A i, j \in DOMAIN s : i < j => key[s[i]] <= key[s[j]]
<1> DEFINE n == Cardinality(S)
           Below(x) == {y \in S : key[y] < key[x]}
           rank == [x \in S |-> Cardinality(Below(x)) + 1]
           s == Inverse(rank, S, 1..n)
<1>1. n \in Nat  BY FS_CardinalityType
<1>2. \A x \in S : /\ IsFiniteSet(Below(x)) /\ Cardinality(Below(x)) \in Nat
                   /\ Cardinality(Below(x)) < n
  <2> SUFFICES ASSUME NEW x \in S
               PROVE  /\ IsFiniteSet(Below(x)) /\ Cardinality(Below(x)) \in Nat
                      /\ Cardinality(Below(x)) < n
    OBVIOUS
  <2>1. Below(x) \in SUBSET S /\ x \notin Below(x)  OBVIOUS
  <2>2. Below(x) # S  BY <2>1
  <2>3. IsFiniteSet(Below(x)) /\ Cardinality(Below(x)) <= n
        /\ (Cardinality(Below(x)) = n => Below(x) = S)
    BY <2>1, FS_Subset
  <2>4. Cardinality(Below(x)) \in Nat  BY <2>3, FS_CardinalityType
  <2> QED  BY <2>2, <2>3, <2>4, <1>1
<1>3. \A x, y \in S : key[x] < key[y] => rank[x] < rank[y]
  <2> SUFFICES ASSUME NEW x \in S, NEW y \in S, key[x] < key[y]  PROVE  rank[x] < rank[y]
    OBVIOUS
  <2>1. Below(x) \in SUBSET Below(y) /\ x \in Below(y) /\ x \notin Below(x)  OBVIOUS
  <2>2. Below(x) # Below(y)  BY <2>1
  <2>3. Cardinality(Below(x)) <= Cardinality(Below(y))
        /\ (Cardinality(Below(x)) = Cardinality(Below(y)) => Below(x) = Below(y))
    BY <2>1, <1>2, FS_Subset
  <2>4. Cardinality(Below(x)) \in Nat /\ Cardinality(Below(y)) \in Nat  BY <1>2
  <2> HIDE DEF Below
  <2> QED  BY <2>2, <2>3, <2>4
<1>4. rank \in [S -> 1..n]
  <2> HIDE DEF Below
  <2> QED  BY <1>1, <1>2
<1> HIDE DEF rank, Below
<1>5. \A x, y \in S : rank[x] = rank[y] => x = y
  <2> SUFFICES ASSUME NEW x \in S, NEW y \in S, rank[x] = rank[y]  PROVE  x = y
    OBVIOUS
  <2>1. key[x] \in Int /\ key[y] \in Int /\ rank[x] \in Int /\ rank[y] \in Int  BY <1>4, <1>1
  <2>2. ~(key[x] < key[y]) /\ ~(key[y] < key[x])  BY <2>1, <1>3
  <2> QED  BY <2>1, <2>2
<1>6. rank \in Injection(S, 1..n)  BY <1>4, <1>5, Fun_IsInj
<1>7. IsFiniteSet(1..n) /\ Cardinality(1..n) = n
  BY <1>1, FS_Interval
<1>8. rank \in Surjection(S, 1..n)  BY <1>6, <1>7, FS_Injection
<1>9. rank \in Bijection(S, 1..n)  BY <1>6, <1>8, Fun_IsBij
<1>10. s \in Bijection(1..n, S) /\ \A i \in 1..n : rank[s[i]] = i
  <2>1. s \in Bijection(1..n, S)  BY <1>9, Fun_BijInverse
  <2>2. Range(rank) = 1..n  BY <1>8, Fun_SurjectionProperties
  <2> QED  BY <2>1, <2>2, <1>4, Fun_InverseProperties
<1> HIDE DEF s
<1>11. s \in [1..n -> S] /\ \A i, j \in 1..n : s[i] = s[j] => i = j
  BY <1>10, Fun_BijectionProperties
<1>12. s \in SetToSeqs(S)  BY <1>11 DEF SetToSeqs
<1>13. \A i, j \in DOMAIN s : i < j => key[s[i]] <= key[s[j]]
  <2> SUFFICES ASSUME NEW i \in 1..n, NEW j \in 1..n, i < j  PROVE  key[s[i]] <= key[s[j]]
    BY <1>11
  <2>1. s[i] \in S /\ s[j] \in S /\ key[s[i]] \in Int /\ key[s[j]] \in Int  BY <1>11
  <2>2. rank[s[i]] = i /\ rank[s[j]] = j  BY <1>10
  <2>3. ~(key[s[j]] < key[s[i]])  BY <2>1, <2>2, <1>3, <1>1
  <2> QED  BY <2>1, <2>3
<1> QED  BY <1>12, <1>13

(* Sorted returns the elements of the set, each once and in order.         *)
LEMMA SortedElements ==
  ASSUME NEW S, IsFiniteSet(S), NEW key \in [S -> Int],
         \A x, y \in S : key[x] = key[y] => x = y
  PROVE  /\ Sorted(S, key) \in Seq(S)
         /\ ToSet(Sorted(S, key)) = S
         /\ Distinct(Sorted(S, key))
         /\ \A i, j \in DOMAIN Sorted(S, key) :
              i < j => key[Sorted(S, key)[i]] < key[Sorted(S, key)[j]]
<1> DEFINE n == Cardinality(S)
           s == Sorted(S, key)
<1>1. /\ s \in SetToSeqs(S)
      /\ \A i, j \in DOMAIN s : i < j => key[s[i]] <= key[s[j]]
  BY SortingExists DEF Sorted
<1> HIDE DEF s
<1>2. n \in Nat  BY FS_CardinalityType
<1>3. s \in [1..n -> S] /\ \A i, j \in 1..n : i # j => s[i] # s[j]
  BY <1>1 DEF SetToSeqs
<1>4. s \in Seq(S)  BY <1>2, <1>3
<1>5. s \in Injection(1..n, S)  BY <1>3, Fun_IsInj
<1>6. IsFiniteSet(1..n) /\ Cardinality(1..n) = n  BY <1>2, FS_Interval
<1>7. s \in Surjection(1..n, S)  BY <1>5, <1>6, FS_Injection
<1>8. ToSet(s) = S
  <2>1. \A x \in S : \E i \in 1..n : s[i] = x  BY <1>7 DEF Surjection
  <2>2. DOMAIN s = 1..n /\ \A i \in 1..n : s[i] \in S  BY <1>3
  <2> QED  BY <2>1, <2>2 DEF ToSet
<1>9. Distinct(s)  BY <1>3, DistinctOf
<1>10. \A i, j \in DOMAIN s : i < j => key[s[i]] < key[s[j]]
  <2> SUFFICES ASSUME NEW i \in 1..n, NEW j \in 1..n, i < j  PROVE  key[s[i]] < key[s[j]]
    BY <1>3
  <2>1. s[i] \in S /\ s[j] \in S /\ s[i] # s[j]  BY <1>3
  <2>2. key[s[i]] <= key[s[j]] /\ key[s[i]] # key[s[j]]  BY <2>1, <1>1, <1>3
  <2> QED  BY <2>1, <2>2
<1> QED  BY <1>4, <1>8, <1>9, <1>10 DEF s

(* u has the elements of s, each once.                                     *)
Resorts(T, s, u) == u \in Seq(T) /\ ToSet(u) = ToSet(s) /\ Distinct(u)

(* Sorting a sequence by a key that tells its elements apart keeps them.   *)
LEMMA Resorted ==
  ASSUME NEW T, NEW s \in Seq(T), NEW key \in [ToSet(s) -> Int],
         \A x, y \in ToSet(s) : key[x] = key[y] => x = y
  PROVE  Resorts(T, s, Sorted(ToSet(s), key))
<1> DEFINE S == ToSet(s)
           u == Sorted(S, key)
<1>1. S \subseteq T  BY Elements
<1>2. IsFiniteSet(S)  BY FiniteElements
<1> HIDE DEF S
<1>3. u \in Seq(S) /\ ToSet(u) = S /\ Distinct(u)  BY <1>2, SortedElements DEF S
<1> HIDE DEF u
<1>4. u \in Seq(T)  BY <1>1, <1>3, SeqMonotonic
<1> QED  BY <1>3, <1>4 DEF u, S, Resorts

(* m holds the images of the elements of s: none twice if s has none twice *)
(* and f tells them apart.                                                 *)
Images(s, f, m) ==
  /\ \A x \in ToSet(s) : f[x] \in ToSet(m)
  /\ \A y \in ToSet(m) : \E x \in ToSet(s) : y = f[x]
  /\ Distinct(m) <=>
       /\ Distinct(s)
       /\ \A x, y \in ToSet(s) : f[x] = f[y] => x = y

(* A sequence that is computed element by element holds the images.        *)
LEMMA Mapped ==
  ASSUME NEW T, NEW U, NEW s \in Seq(T), NEW f \in [T -> U],
         NEW m \in [DOMAIN s -> U], \A i \in DOMAIN s : m[i] = f[s[i]]
  PROVE  Images(s, f, m)
<1> DEFINE n == Len(s)
<1>1. n \in Nat /\ DOMAIN s = 1..n /\ \A i \in 1..n : s[i] \in T
  BY LenProperties, ElementOfSeq
<1>2. m \in [1..n -> U] /\ \A i \in 1..n : m[i] = f[s[i]]  BY <1>1
<1> HIDE DEF n
<1>3. DOMAIN m = 1..n  BY <1>1, <1>2
<1>4. \A i \in 1..n : m[i] = f[s[i]] /\ s[i] \in ToSet(s)  BY <1>1, <1>2 DEF ToSet
<1>5. \A x \in ToSet(s) : \E i \in 1..n : x = s[i]  BY <1>1 DEF ToSet
<1>6. /\ \A x \in ToSet(s) : f[x] \in ToSet(m)
      /\ \A y \in ToSet(m) : \E x \in ToSet(s) : y = f[x]
  <2>1. \A y \in ToSet(m) : \E i \in 1..n : y = m[i]  BY <1>3 DEF ToSet
  <2>2. \A i \in 1..n : m[i] \in ToSet(m)  BY <1>3 DEF ToSet
  <2>3. ASSUME NEW y \in ToSet(m)  PROVE  \E x \in ToSet(s) : y = f[x]
    <3>1. PICK i \in 1..n : y = m[i]  BY <2>1
    <3> QED  BY <3>1, <1>4
  <2>4. ASSUME NEW x \in ToSet(s)  PROVE  f[x] \in ToSet(m)
    <3>1. PICK i \in 1..n : x = s[i]  BY <1>5
    <3> QED  BY <3>1, <1>4, <2>2
  <2> QED  BY <2>3, <2>4
<1>7. ASSUME Distinct(m)
      PROVE  Distinct(s) /\ \A x, y \in ToSet(s) : f[x] = f[y] => x = y
  <2>1. \A i, j \in 1..n : m[i] = m[j] => i = j  BY <1>7, <1>3, DistinctOf
  <2>2. Distinct(s)  BY <2>1, <1>1, <1>4, DistinctOf
  <2>3. ASSUME NEW x \in ToSet(s), NEW y \in ToSet(s), f[x] = f[y]  PROVE  x = y
    <3>1. PICK i \in 1..n : x = s[i]  BY <1>5
    <3>2. PICK j \in 1..n : y = s[j]  BY <1>5
    <3> QED  BY <2>1, <2>3, <3>1, <3>2, <1>4
  <2> QED  BY <2>2, <2>3
<1>8. ASSUME Distinct(s), \A x, y \in ToSet(s) : f[x] = f[y] => x = y
      PROVE  Distinct(m)
  <2>1. \A i, j \in 1..n : s[i] = s[j] => i = j  BY <1>8, <1>1, DistinctOf
  <2>2. ASSUME NEW i \in 1..n, NEW j \in 1..n, m[i] = m[j]  PROVE  i = j
    <3>1. f[s[i]] = f[s[j]] /\ s[i] \in ToSet(s) /\ s[j] \in ToSet(s)  BY <1>4, <2>2
    <3>2. s[i] = s[j]  BY <3>1, <1>8
    <3> QED  BY <3>2, <2>1
  <2> QED  BY <2>2, <1>3, DistinctOf
<1> QED  BY <1>3, <1>6, <1>7, <1>8 DEF n, Images

(***************************************************************************)
(* Routes: names that Caddy serves                                         *)
(***************************************************************************)
(* The addresses of the homepage, and the pair every project has.          *)
Homes(r) == <<r.homepage>> \o r.aliases
FirstPair(r) == [scratch |-> r.scratch, wirescope |-> r.wirescope]

(* No two uses of a name that Caddy serves.                                *)
Apart(r) ==
  /\ Distinct(Homes(r)) /\ Distinct(WebPairs(r))
  /\ \A p, q \in ToSet(WebPairs(r)) :
       /\ p.scratch = q.scratch => p = q
       /\ p.wirescope = q.wirescope => p = q
       /\ p.scratch # q.wirescope
  /\ \A p \in ToSet(WebPairs(r)) :
       /\ p.scratch \in Name /\ p.scratch # r.bridge /\ p.wirescope # r.bridge
       /\ p.scratch \notin ToSet(Homes(r)) /\ p.wirescope \notin ToSet(Homes(r))
  /\ r.bridge \notin ToSet(Homes(r))

(* The fields of the routes, as the YAML gives them.                       *)
LEMMA RouteTypes ==
  ASSUME NEW r \in Routes
  PROVE  /\ r.homepage \in Nat /\ r.aliases \in Seq(Nat) /\ r.scratch \in Nat
         /\ r.bridge \in Nat /\ r.minecraft \in Nat /\ r.wirescope \in Nat
         /\ ExtraPairs(r) \in Seq(WebPair) /\ FirstPair(r) \in WebPair
         /\ r.pairs = None \/ r.pairs \in Seq(WebPair)
BY DEF Routes, ExtraPairs, FirstPair, WebPair

(* The pairs are the primary one and the extra ones.                       *)
LEMMA PairsJoined ==
  ASSUME NEW r \in Routes
  PROVE  /\ WebPairs(r) \in Seq(WebPair)
         /\ Len(WebPairs(r)) = 1 + Len(ExtraPairs(r))
         /\ WebPairs(r)[1] = FirstPair(r)
         /\ ToSet(WebPairs(r)) = {FirstPair(r)} \cup ToSet(ExtraPairs(r))
         /\ Distinct(WebPairs(r)) <=>
              Distinct(ExtraPairs(r)) /\ FirstPair(r) \notin ToSet(ExtraPairs(r))
<1>1. FirstPair(r) \in WebPair /\ ExtraPairs(r) \in Seq(WebPair)  BY RouteTypes
<1>2. WebPairs(r) = <<FirstPair(r)>> \o ExtraPairs(r)  BY DEF WebPairs, FirstPair
<1>3. /\ <<FirstPair(r)>> \in Seq(WebPair) /\ Len(<<FirstPair(r)>>) = 1
      /\ ToSet(<<FirstPair(r)>>) = {FirstPair(r)} /\ Distinct(<<FirstPair(r)>>)
  BY <1>1, Single
<1>4. WebPairs(r)[1] = FirstPair(r)
  <2> DEFINE s == <<FirstPair(r)>>
             t == ExtraPairs(r)
  <2>1. \A i \in 1..(Len(s) + Len(t)) : (s \o t)[i] = IF i <= Len(s) THEN s[i] ELSE t[i - Len(s)]
    BY <1>1, <1>3, ConcatProperties
  <2>2. Len(t) \in Nat /\ Len(s) = 1 /\ s[1] = FirstPair(r)  BY <1>1, <1>3
  <2> HIDE DEF s, t
  <2>3. (s \o t)[1] = s[1]  BY <2>1, <2>2
  <2> QED  BY <2>2, <2>3, <1>2 DEF s, t
<1>5. ASSUME NEW s, s = <<FirstPair(r)>>, NEW t, t = ExtraPairs(r)
      PROVE  /\ s \o t \in Seq(WebPair)
             /\ Len(s \o t) = Len(s) + Len(t)
             /\ ToSet(s \o t) = ToSet(s) \cup ToSet(t)
             /\ Distinct(s \o t) <=>
                  Distinct(s) /\ Distinct(t) /\ ToSet(s) \cap ToSet(t) = {}
  <2>1. s \in Seq(WebPair) /\ t \in Seq(WebPair)  BY <1>1, <1>3, <1>5
  <2> QED  BY ONLY <2>1, Joined
<1> QED  BY <1>2, <1>3, <1>4, <1>5

(* The names of extra pairs are their fields.                              *)
LEMMA PairNamesOf ==
  ASSUME NEW s \in Seq(WebPair)
  PROVE  /\ PairNames(s) \in Seq(Nat)
         /\ ToSet(PairNames(s)) = {p.scratch : p \in ToSet(s)} \cup {p.wirescope : p \in ToSet(s)}
         /\ Distinct(PairNames(s)) =>
              /\ Distinct(s)
              /\ \A p, q \in ToSet(s) :
                   /\ p.scratch = q.scratch => p = q
                   /\ p.wirescope = q.wirescope => p = q
                   /\ p.scratch # q.wirescope
<1> DEFINE a == [i \in DOMAIN s |-> s[i].scratch]
           b == [i \in DOMAIN s |-> s[i].wirescope]
           f == [p \in WebPair |-> p.scratch]
           g == [p \in WebPair |-> p.wirescope]
<1>1. /\ DOMAIN s = 1..Len(s) /\ ToSet(s) \subseteq WebPair
      /\ \A i \in DOMAIN s : s[i] \in WebPair
  BY Elements, LenProperties, ElementOfSeq
<1>2. f \in [WebPair -> Nat] /\ g \in [WebPair -> Nat]  BY DEF WebPair
<1>3. /\ a \in [DOMAIN s -> Nat] /\ \A i \in DOMAIN s : a[i] = f[s[i]]
      /\ b \in [DOMAIN s -> Nat] /\ \A i \in DOMAIN s : b[i] = g[s[i]]
  BY <1>1 DEF WebPair
<1>4. \A p \in ToSet(s) : f[p] = p.scratch /\ g[p] = p.wirescope
  BY <1>1
<1>5. PairNames(s) = a \o b  BY DEF PairNames
<1> HIDE DEF a, b, f, g
<1>6. /\ a \in Seq(Nat) /\ \A p \in ToSet(s) : f[p] \in ToSet(a)
      /\ \A y \in ToSet(a) : \E p \in ToSet(s) : y = f[p]
      /\ Distinct(a) <=> Distinct(s) /\ \A x, y \in ToSet(s) : f[x] = f[y] => x = y
  <2>1. Images(s, f, a)  BY <1>2, <1>3, Mapped
  <2>2. a \in Seq(Nat)  BY <1>1, <1>3, LenProperties
  <2> QED  BY <2>1, <2>2 DEF Images
<1>7. /\ b \in Seq(Nat) /\ \A p \in ToSet(s) : g[p] \in ToSet(b)
      /\ \A y \in ToSet(b) : \E p \in ToSet(s) : y = g[p]
      /\ Distinct(b) <=> Distinct(s) /\ \A x, y \in ToSet(s) : g[x] = g[y] => x = y
  <2>1. Images(s, g, b)  BY <1>2, <1>3, Mapped
  <2>2. b \in Seq(Nat)  BY <1>1, <1>3, LenProperties
  <2> QED  BY <2>1, <2>2 DEF Images
<1>8. /\ a \o b \in Seq(Nat) /\ ToSet(a \o b) = ToSet(a) \cup ToSet(b)
      /\ Distinct(a \o b) <=> Distinct(a) /\ Distinct(b) /\ ToSet(a) \cap ToSet(b) = {}
  BY <1>6, <1>7, Joined
<1>9. ASSUME Distinct(PairNames(s)), NEW p \in ToSet(s), NEW q \in ToSet(s)
      PROVE  /\ p.scratch = q.scratch => p = q
             /\ p.wirescope = q.wirescope => p = q
             /\ p.scratch # q.wirescope
  <2>1. f[p] = p.scratch /\ f[q] = q.scratch /\ g[p] = p.wirescope /\ g[q] = q.wirescope
    BY <1>4
  <2>2. f[p] \in ToSet(a) /\ g[q] \in ToSet(b) /\ ToSet(a) \cap ToSet(b) = {}
    BY <1>5, <1>6, <1>7, <1>8, <1>9
  <2>3. (f[p] = f[q] => p = q) /\ (g[p] = g[q] => p = q)
    BY <1>5, <1>6, <1>7, <1>8, <1>9
  <2> QED  BY <2>1, <2>2, <2>3
<1>10. ToSet(a) = {p.scratch : p \in ToSet(s)}  BY <1>4, <1>6
<1>11. ToSet(b) = {p.wirescope : p \in ToSet(s)}  BY <1>4, <1>7
<1> QED  BY <1>5, <1>6, <1>8, <1>9, <1>10, <1>11

(* Four names in a row.                                                    *)
LEMMA Four ==
  ASSUME NEW T, NEW a \in T, NEW b \in T, NEW c \in T, NEW d \in T
  PROVE  /\ <<a, b, c, d>> \in Seq(T)
         /\ ToSet(<<a, b, c, d>>) = {a, b, c, d}
         /\ Distinct(<<a, b, c, d>>) => a # c /\ a # d /\ c # d
<1> DEFINE s == <<a, b, c, d>>
<1>1. DOMAIN s = 1..4 /\ s[1] = a /\ s[2] = b /\ s[3] = c /\ s[4] = d  OBVIOUS
<1>2. s \in Seq(T)  OBVIOUS
<1> HIDE DEF s
<1>3. 1..4 = {1, 2, 3, 4}  OBVIOUS
<1>4. ToSet(s) = {a, b, c, d}  BY <1>1, <1>3 DEF ToSet
<1>5. Distinct(s) => \A i, j \in DOMAIN s : s[i] = s[j] => i = j  BY DistinctOf
<1>6. Distinct(s) => a # c /\ a # d /\ c # d  BY <1>1, <1>3, <1>5
<1> QED  BY <1>2, <1>4, <1>6 DEF s

(* The check of all names in a row keeps apart those that Caddy serves.    *)
LEMMA AcceptedApart ==
  ASSUME NEW r \in Routes, NEW revision, RoutesAccepted(r, revision)
  PROVE  /\ Apart(r) /\ Distinct(r.aliases) /\ Distinct(ExtraPairs(r))
         /\ r.pairs # None <=> revision \in WebPairRevisions
<1> DEFINE h == <<r.homepage>>
           a == r.aliases
           m == <<r.bridge, r.minecraft, r.scratch, r.wirescope>>
           e == ExtraPairs(r)
           n == PairNames(e)
<1>1. /\ r.homepage \in Nat /\ a \in Seq(Nat) /\ e \in Seq(WebPair)
      /\ r.bridge \in Nat /\ r.minecraft \in Nat /\ r.scratch \in Nat /\ r.wirescope \in Nat
      /\ FirstPair(r) \in WebPair
  BY RouteTypes
<1>2. h \in Seq(Nat) /\ ToSet(h) = {r.homepage} /\ Distinct(h)  BY <1>1, Single
<1>3. /\ m \in Seq(Nat) /\ ToSet(m) = {r.bridge, r.minecraft, r.scratch, r.wirescope}
      /\ Distinct(m) => /\ r.bridge # r.scratch /\ r.bridge # r.wirescope
                        /\ r.scratch # r.wirescope
  BY <1>1, Four
<1>4. /\ n \in Seq(Nat)
      /\ ToSet(n) = {p.scratch : p \in ToSet(e)} \cup {p.wirescope : p \in ToSet(e)}
      /\ Distinct(n) =>
           /\ Distinct(e)
           /\ \A p, q \in ToSet(e) :
                /\ p.scratch = q.scratch => p = q
                /\ p.wirescope = q.wirescope => p = q
                /\ p.scratch # q.wirescope
  BY <1>1, PairNamesOf
<1>5. /\ ToSet(((h \o a) \o m) \o n) \subseteq Name /\ Distinct(((h \o a) \o m) \o n)
      /\ r.pairs # None <=> revision \in WebPairRevisions
  BY DEF RoutesAccepted, RouteNames
<1>6. FirstPair(r).scratch = r.scratch /\ FirstPair(r).wirescope = r.wirescope
  BY DEF FirstPair
<1>7. Homes(r) = h \o a  BY DEF Homes
<1> HIDE DEF h, a, m, e, n
<1>8. /\ h \o a \in Seq(Nat) /\ ToSet(h \o a) = ToSet(h) \cup ToSet(a)
      /\ Distinct(h \o a) <=> Distinct(h) /\ Distinct(a) /\ ToSet(h) \cap ToSet(a) = {}
  BY <1>1, <1>2, Joined DEF a
<1> DEFINE u == h \o a
<1> HIDE DEF u
<1>9. /\ u \o m \in Seq(Nat) /\ ToSet(u \o m) = ToSet(u) \cup ToSet(m)
      /\ Distinct(u \o m) <=> Distinct(u) /\ Distinct(m) /\ ToSet(u) \cap ToSet(m) = {}
  BY <1>3, <1>8, Joined DEF u
<1> DEFINE v == u \o m
<1> HIDE DEF v
<1>10. /\ ToSet(v \o n) = ToSet(v) \cup ToSet(n)
       /\ Distinct(v \o n) <=> Distinct(v) /\ Distinct(n) /\ ToSet(v) \cap ToSet(n) = {}
  BY <1>4, <1>9, Joined DEF v
<1>11. /\ Distinct(u) /\ Distinct(m) /\ Distinct(n) /\ Distinct(a)
       /\ ToSet(u) \cap ToSet(m) = {}
       /\ ToSet(u) \cap ToSet(n) = {} /\ ToSet(m) \cap ToSet(n) = {}
       /\ ToSet(m) \subseteq Name /\ ToSet(n) \subseteq Name
  BY <1>5, <1>8, <1>9, <1>10 DEF u, v
<1>12. /\ Distinct(e)
       /\ \A p \in ToSet(e) : p.scratch \in ToSet(n) /\ p.wirescope \in ToSet(n)
       /\ r.bridge \in ToSet(m) /\ r.scratch \in ToSet(m) /\ r.wirescope \in ToSet(m)
  BY <1>3, <1>4, <1>11
<1>13. /\ ToSet(WebPairs(r)) = {FirstPair(r)} \cup ToSet(e)
       /\ Distinct(WebPairs(r)) <=> Distinct(e) /\ FirstPair(r) \notin ToSet(e)
  BY PairsJoined DEF e
<1>14. \A p, q \in ToSet(WebPairs(r)) :
         /\ p.scratch = q.scratch => p = q
         /\ p.wirescope = q.wirescope => p = q
         /\ p.scratch # q.wirescope
  <2> SUFFICES ASSUME NEW p \in {FirstPair(r)} \cup ToSet(e), NEW q \in {FirstPair(r)} \cup ToSet(e)
               PROVE  /\ p.scratch = q.scratch => p = q
                      /\ p.wirescope = q.wirescope => p = q
                      /\ p.scratch # q.wirescope
    BY <1>13
  <2>1. CASE p \in ToSet(e) /\ q \in ToSet(e)  BY <2>1, <1>4, <1>11
  <2>2. CASE p = FirstPair(r) /\ q \in ToSet(e)  BY <2>2, <1>6, <1>11, <1>12
  <2>3. CASE p \in ToSet(e) /\ q = FirstPair(r)  BY <2>3, <1>6, <1>11, <1>12
  <2>4. CASE p = FirstPair(r) /\ q = FirstPair(r)  BY <2>4, <1>3, <1>6, <1>11
  <2> QED  BY <2>1, <2>2, <2>3, <2>4
<1>15. FirstPair(r) \notin ToSet(e)  BY <1>6, <1>11, <1>12
<1>16. \A p \in ToSet(WebPairs(r)) :
         /\ p.scratch \in Name /\ p.scratch # r.bridge /\ p.wirescope # r.bridge
         /\ p.scratch \notin ToSet(u) /\ p.wirescope \notin ToSet(u)
  <2> SUFFICES ASSUME NEW p \in {FirstPair(r)} \cup ToSet(e)
               PROVE  /\ p.scratch \in Name /\ p.scratch # r.bridge /\ p.wirescope # r.bridge
                      /\ p.scratch \notin ToSet(u) /\ p.wirescope \notin ToSet(u)
    BY <1>13
  <2>1. CASE p \in ToSet(e)  BY <2>1, <1>11, <1>12
  <2>2. CASE p = FirstPair(r)  BY <2>2, <1>3, <1>6, <1>11, <1>12
  <2> QED  BY <2>1, <2>2
<1>17. r.bridge \notin ToSet(u)  BY <1>11, <1>12
<1>18. Apart(r)
  BY <1>7, <1>11, <1>12, <1>13, <1>14, <1>15, <1>16, <1>17 DEF Apart, u
<1> QED  BY <1>5, <1>11, <1>12, <1>18 DEF a, e

(* The canonical form of the routes uses the same names.                   *)
LEMMA CanonicalRoutes ==
  ASSUME NEW r \in Routes, Apart(r), Distinct(r.aliases)
  PROVE  /\ RoutesSemantic(r) \in Routes /\ Apart(RoutesSemantic(r))
         /\ RoutesSemantic(r).minecraft = r.minecraft
         /\ RoutesSemantic(r).pairs = None <=> r.pairs = None
         /\ ToSet(RoutesSemantic(r).aliases) = ToSet(r.aliases)
         /\ r.pairs # None => ToSet(RoutesSemantic(r).pairs) = ToSet(r.pairs)
<1> DEFINE q == RoutesSemantic(r)
           a == Sorted(ToSet(r.aliases), [x \in ToSet(r.aliases) |-> x])
           e == Sorted(ToSet(r.pairs), [p \in ToSet(r.pairs) |-> p.scratch])
<1>1. q = [r EXCEPT !.aliases = a, !.pairs = IF r.pairs = None THEN None ELSE e]
  BY DEF RoutesSemantic, By
<1>2. Resorts(Nat, r.aliases, a)
  <2> DEFINE key == [x \in ToSet(r.aliases) |-> x]
  <2>1. r.aliases \in Seq(Nat)  BY RouteTypes
  <2>2. ToSet(r.aliases) \subseteq Nat  BY <2>1, Elements
  <2>3. key \in [ToSet(r.aliases) -> Int]  BY <2>2
  <2>4. \A x, y \in ToSet(r.aliases) : key[x] = key[y] => x = y  OBVIOUS
  <2> HIDE DEF key
  <2>5. Resorts(Nat, r.aliases, Sorted(ToSet(r.aliases), key))  BY <2>1, <2>3, <2>4, Resorted
  <2> QED  BY <2>5 DEF key
<1>3. ASSUME r.pairs # None  PROVE  Resorts(WebPair, r.pairs, e)
  <2> DEFINE key == [p \in ToSet(r.pairs) |-> p.scratch]
  <2>1. r.pairs \in Seq(WebPair) /\ ExtraPairs(r) = r.pairs  BY <1>3, RouteTypes DEF ExtraPairs
  <2>2. ToSet(r.pairs) \subseteq WebPair  BY <2>1, Elements
  <2>3. key \in [ToSet(r.pairs) -> Int]  BY <2>2 DEF WebPair
  <2>4. ToSet(r.pairs) \subseteq ToSet(WebPairs(r))  BY <2>1, PairsJoined
  <2>5. \A x, y \in ToSet(r.pairs) : key[x] = key[y] => x = y  BY <2>4 DEF Apart
  <2> HIDE DEF key
  <2>6. Resorts(WebPair, r.pairs, Sorted(ToSet(r.pairs), key))
    BY <2>1, <2>3, <2>5, Resorted
  <2> QED  BY <2>6 DEF key
<1> HIDE DEF a, e
<1>4. /\ q.homepage = r.homepage /\ q.scratch = r.scratch /\ q.bridge = r.bridge
      /\ q.minecraft = r.minecraft /\ q.wirescope = r.wirescope /\ q.aliases = a
      /\ q.pairs = IF r.pairs = None THEN None ELSE e
  BY <1>1 DEF Routes
<1>5. q.pairs = None <=> r.pairs = None
  BY <1>3, <1>4, RenderAssumption DEF Resorts
<1>6. q \in Routes
  BY <1>1, <1>2, <1>3 DEF Routes, Resorts
<1> HIDE DEF q
<1>7. ToSet(ExtraPairs(q)) = ToSet(ExtraPairs(r)) /\ Distinct(ExtraPairs(q))
  <2>1. CASE r.pairs = None
    <3>1. ExtraPairs(q) = <<>> /\ ExtraPairs(r) = <<>>  BY <2>1, <1>5 DEF ExtraPairs
    <3>2. Distinct(<<>>)  BY DEF Distinct, IsInjective
    <3> QED  BY <3>1, <3>2
  <2>2. CASE r.pairs # None  BY <2>2, <1>3, <1>4, <1>5 DEF ExtraPairs, Resorts
  <2> QED  BY <2>1, <2>2
<1>8. FirstPair(q) = FirstPair(r)  BY <1>4 DEF FirstPair
<1>9. ToSet(WebPairs(q)) = ToSet(WebPairs(r)) /\ Distinct(WebPairs(q))
  <2>1. /\ ToSet(WebPairs(q)) = {FirstPair(q)} \cup ToSet(ExtraPairs(q))
        /\ Distinct(WebPairs(q)) <=>
             Distinct(ExtraPairs(q)) /\ FirstPair(q) \notin ToSet(ExtraPairs(q))
    BY <1>6, PairsJoined
  <2>2. /\ ToSet(WebPairs(r)) = {FirstPair(r)} \cup ToSet(ExtraPairs(r))
        /\ Distinct(WebPairs(r)) <=>
             Distinct(ExtraPairs(r)) /\ FirstPair(r) \notin ToSet(ExtraPairs(r))
    BY PairsJoined
  <2>3. Distinct(WebPairs(r))  BY DEF Apart
  <2> QED  BY <2>1, <2>2, <2>3, <1>7, <1>8
<1>10. ToSet(Homes(q)) = ToSet(Homes(r)) /\ Distinct(Homes(q))
  <2> DEFINE h == <<r.homepage>>
  <2>1. r.homepage \in Nat /\ r.aliases \in Seq(Nat)  BY RouteTypes
  <2>2. h \in Seq(Nat) /\ ToSet(h) = {r.homepage} /\ Distinct(h)  BY <2>1, Single
  <2>3. Homes(q) = h \o a /\ Homes(r) = h \o r.aliases  BY <1>4 DEF Homes
  <2> HIDE DEF h
  <2>4. /\ ToSet(h \o a) = ToSet(h) \cup ToSet(a)
        /\ Distinct(h \o a) <=> Distinct(h) /\ Distinct(a) /\ ToSet(h) \cap ToSet(a) = {}
    BY <2>2, <1>2, Joined DEF Resorts
  <2>5. /\ ToSet(h \o r.aliases) = ToSet(h) \cup ToSet(r.aliases)
        /\ Distinct(h \o r.aliases) <=>
             Distinct(h) /\ Distinct(r.aliases) /\ ToSet(h) \cap ToSet(r.aliases) = {}
    BY <2>1, <2>2, Joined
  <2>6. Distinct(Homes(r))  BY DEF Apart
  <2> QED  BY <2>2, <2>3, <2>4, <2>5, <2>6, <1>2 DEF Resorts
<1>11. Apart(q)  BY <1>4, <1>9, <1>10 DEF Apart
<1> QED  BY <1>2, <1>3, <1>4, <1>5, <1>6, <1>11 DEF q, Resorts

(***************************************************************************)
(* Targets and selections: what a page offers                              *)
(***************************************************************************)
Target == [id : Nat, sandbox : Nat]

(* Targets that can be told apart by id and by sandbox.                    *)
LEMMA TargetFields ==
  ASSUME NEW t \in Seq(Target)
  PROVE  /\ \A x \in ToSet(t) : x.id \in ToSet(Ids(t)) /\ x.sandbox \in ToSet(Sandboxes(t))
         /\ \A n \in ToSet(Ids(t)) : \E x \in ToSet(t) : n = x.id
         /\ \A n \in ToSet(Sandboxes(t)) : \E x \in ToSet(t) : n = x.sandbox
         /\ Distinct(Ids(t)) <=>
              Distinct(t) /\ \A x, y \in ToSet(t) : x.id = y.id => x = y
         /\ Distinct(Sandboxes(t)) <=>
              Distinct(t) /\ \A x, y \in ToSet(t) : x.sandbox = y.sandbox => x = y
<1> DEFINE f == [x \in Target |-> x.id]
           g == [x \in Target |-> x.sandbox]
<1>1. /\ DOMAIN t = 1..Len(t) /\ ToSet(t) \subseteq Target
      /\ \A i \in DOMAIN t : t[i] \in Target
  BY Elements, LenProperties, ElementOfSeq
<1>2. f \in [Target -> Nat] /\ g \in [Target -> Nat]  BY DEF Target
<1>3. /\ Ids(t) \in [DOMAIN t -> Nat] /\ \A i \in DOMAIN t : Ids(t)[i] = f[t[i]]
      /\ Sandboxes(t) \in [DOMAIN t -> Nat] /\ \A i \in DOMAIN t : Sandboxes(t)[i] = g[t[i]]
  BY <1>1 DEF Target, Ids, Sandboxes
<1>4. \A x \in ToSet(t) : f[x] = x.id /\ g[x] = x.sandbox  BY <1>1
<1> HIDE DEF f, g
<1>5. Images(t, f, Ids(t))  BY <1>2, <1>3, Mapped
<1>6. Images(t, g, Sandboxes(t))  BY <1>2, <1>3, Mapped
<1> QED  BY <1>4, <1>5, <1>6 DEF Images

(* What the renderer relies on when it reads the connection targets.       *)
Usable(c, revision) ==
  /\ c.targets \in Seq(Target) /\ Len(c.targets) >= 1
  /\ Distinct(Ids(c.targets)) /\ Distinct(Sandboxes(c.targets))
  /\ "half" \notin ToSet(c.notices)
  /\ revision \in PerOriginRevisions =>
       \A s \in ToSet(c.selections) :
         s \in Selection /\ SelectionAccepted(s, ToSet(Ids(c.targets)))

(* The canonical form of the targets has the same selections.              *)
LEMMA CanonicalConnections ==
  ASSUME NEW c \in Connections, NEW revision, ConnectionsAccepted(c, revision)
  PROVE  /\ Usable(ConnectionsSemantic(c), revision)
         /\ ConnectionsSemantic(c).selections = None <=> c.selections = None
         /\ c.selections # None =>
              ToSet(ConnectionsSemantic(c).selections) = ToSet(c.selections)
         /\ c.selections # None <=> revision \in PerOriginRevisions
         /\ ConnectionsSemantic(c) \in Connections
<1> DEFINE q == ConnectionsSemantic(c)
           e == Sorted(ToSet(c.selections), [x \in ToSet(c.selections) |-> x.scratch])
<1>1. q = IF c.selections = None THEN c ELSE [c EXCEPT !.selections = e]
  BY DEF ConnectionsSemantic, By
<1>2. ASSUME c.selections # None  PROVE  Resorts(Selection, c.selections, e)
  <2> DEFINE key == [x \in ToSet(c.selections) |-> x.scratch]
             m == [i \in DOMAIN c.selections |-> c.selections[i].scratch]
             f == [x \in Selection |-> x.scratch]
  <2>1. c.selections \in Seq(Selection)  BY <1>2 DEF Connections
  <2>2. ToSet(c.selections) \subseteq Selection  BY <2>1, Elements
  <2>3. key \in [ToSet(c.selections) -> Int]  BY <2>2 DEF Selection
  <2>4. Distinct(m)  BY <1>2 DEF ConnectionsAccepted
  <2>5. f \in [Selection -> Nat]  BY DEF Selection
  <2>6. /\ m \in [DOMAIN c.selections -> Nat]
        /\ \A i \in DOMAIN c.selections : m[i] = f[c.selections[i]]
    <3>1. \A i \in DOMAIN c.selections : c.selections[i] \in Selection
      BY <2>1, LenProperties, ElementOfSeq
    <3> QED  BY <3>1 DEF Selection
  <2>7. \A x \in ToSet(c.selections) : f[x] = key[x]  BY <2>2
  <2> HIDE DEF key, m, f
  <2>8. Images(c.selections, f, m)  BY <2>1, <2>5, <2>6, Mapped
  <2>9. \A x, y \in ToSet(c.selections) : key[x] = key[y] => x = y
    BY <2>4, <2>7, <2>8 DEF Images
  <2>10. Resorts(Selection, c.selections, Sorted(ToSet(c.selections), key))
    BY <2>1, <2>3, <2>9, Resorted
  <2> QED  BY <2>10 DEF key
<1> HIDE DEF e
<1>3. /\ q.targets = c.targets /\ q.notices = c.notices
      /\ q.selections = IF c.selections = None THEN None ELSE e
  BY <1>1 DEF Connections
<1>4. q.selections = None <=> c.selections = None
  BY <1>2, <1>3, RenderAssumption DEF Resorts
<1>5. q \in Connections  BY <1>1, <1>2 DEF Connections, Resorts
<1> HIDE DEF q
<1>6. c.selections # None => ToSet(q.selections) = ToSet(c.selections)
  BY <1>2, <1>3 DEF Resorts
<1>7. c.selections # None <=> revision \in PerOriginRevisions
  BY DEF ConnectionsAccepted
<1>8. ASSUME revision \in PerOriginRevisions, NEW s \in ToSet(q.selections)
      PROVE  s \in Selection /\ SelectionAccepted(s, ToSet(Ids(q.targets)))
  <2>1. c.selections # None /\ s \in ToSet(c.selections)  BY <1>6, <1>7, <1>8
  <2>2. c.selections \in Seq(Selection)  BY <2>1 DEF Connections
  <2>3. PICK i \in DOMAIN c.selections : s = c.selections[i]  BY <2>1 DEF ToSet
  <2>4. SelectionAccepted(c.selections[i], ToSet(Ids(c.targets)))
    BY <2>1 DEF ConnectionsAccepted
  <2>5. s \in Selection  BY <2>1, <2>2, Elements
  <2> QED  BY <2>3, <2>4, <2>5, <1>3
<1>9. /\ q.targets \in Seq(Target) /\ Len(q.targets) >= 1
      /\ Distinct(Ids(q.targets)) /\ Distinct(Sandboxes(q.targets))
  <2>1. c.targets \in Seq(Target)  BY DEF Connections, Target
  <2>2. /\ Len(c.targets) \in 1..MaxTargets
        /\ Distinct(Ids(c.targets)) /\ Distinct(Sandboxes(c.targets))
    BY DEF ConnectionsAccepted, TargetsAccepted
  <2>3. \A n \in 1..MaxTargets : n >= 1  BY DEF MaxTargets
  <2>4. Len(c.targets) >= 1  BY ONLY <2>2, <2>3
  <2> QED  BY <2>1, <2>2, <2>4, <1>3
<1>10. "half" \notin ToSet(q.notices)
  <2>1. "half" \notin ToSet(c.notices)  BY DEF ConnectionsAccepted, NoticesAccepted
  <2> QED  BY <2>1, <1>3
<1>11. Usable(q, revision)  BY <1>8, <1>9, <1>10 DEF Usable
<1> QED  BY <1>4, <1>5, <1>6, <1>7, <1>11 DEF q

(***************************************************************************)
(* A public lock and what is rendered from it                              *)
(***************************************************************************)
PublicReady(l) ==
  /\ l.family = "public" /\ l.routes \in Routes /\ Apart(l.routes)
  /\ Usable(l.connections, l.revision)
  /\ PublicRenderable(l)

(* A page that can do what it says.                                        *)
GoodPage(c) ==
  /\ c.targets # <<>>
  /\ Distinct(Ids(c.targets)) /\ Distinct(Sandboxes(c.targets))
  /\ c.default \in Offered(c)
  /\ "half" \notin ToSet(c.notices)

(* The targets of a selection are there, each once, its default among      *)
(* them.                                                                   *)
LEMMA SelectedTargets ==
  ASSUME NEW c, NEW t \in Seq(Target), c.targets = t,
         Distinct(Ids(t)), Distinct(Sandboxes(t)),
         NEW s \in Selection, SelectionAccepted(s, ToSet(Ids(t))), NEW tt,
         tt = [i \in DOMAIN s.ids |-> TargetOf(c, s.ids[i])]
  PROVE  /\ tt # <<>> /\ Distinct(Ids(tt)) /\ Distinct(Sandboxes(tt))
         /\ TargetOf(c, s.default).sandbox \in ToSet(Sandboxes(tt))
<1> DEFINE ids == s.ids
<1>1. ids \in Seq(Nat)  BY DEF Selection
<1>2. DOMAIN ids = 1..Len(ids) /\ Len(ids) \in Nat  BY <1>1, Elements
<1>3. /\ ids # <<>> /\ Distinct(ids) /\ ToSet(ids) \subseteq ToSet(Ids(t))
      /\ s.default \in ToSet(ids)
  BY DEF SelectionAccepted
<1>4. \A id \in ToSet(Ids(t)) : TargetOf(c, id) \in ToSet(t) /\ TargetOf(c, id).id = id
  <2> SUFFICES ASSUME NEW id \in ToSet(Ids(t))
               PROVE  TargetOf(c, id) \in ToSet(t) /\ TargetOf(c, id).id = id
    OBVIOUS
  <2>1. \E x \in ToSet(t) : x.id = id  BY TargetFields
  <2> QED  BY <2>1 DEF TargetOf
<1>5. DOMAIN tt = DOMAIN ids /\ \A i \in DOMAIN ids : tt[i] = TargetOf(c, ids[i])
  OBVIOUS
<1>6. \A i \in DOMAIN ids : ids[i] \in ToSet(Ids(t)) /\ ids[i] \in ToSet(ids)
  BY <1>3 DEF ToSet
<1> HIDE DEF ids
<1>7. /\ DOMAIN Ids(tt) = DOMAIN ids /\ \A i \in DOMAIN ids : Ids(tt)[i] = ids[i]
      /\ DOMAIN Sandboxes(tt) = DOMAIN ids
      /\ \A i \in DOMAIN ids : Sandboxes(tt)[i] = TargetOf(c, ids[i]).sandbox
  BY <1>4, <1>5, <1>6 DEF Ids, Sandboxes
<1>8. \A i, j \in DOMAIN ids : ids[i] = ids[j] => i = j  BY <1>3, DistinctOf
<1>9. Distinct(Ids(tt))  BY <1>7, <1>8, DistinctOf
<1>10. Distinct(Sandboxes(tt))
  <2> SUFFICES ASSUME NEW i \in DOMAIN ids, NEW j \in DOMAIN ids,
                      TargetOf(c, ids[i]).sandbox = TargetOf(c, ids[j]).sandbox
               PROVE  i = j
    BY <1>7, DistinctOf
  <2>1. TargetOf(c, ids[i]) = TargetOf(c, ids[j])  BY <1>4, <1>6, TargetFields
  <2>2. ids[i] = ids[j]  BY <2>1, <1>4, <1>6
  <2> QED  BY <2>2, <1>8
<1>11. tt # <<>>
  <2>1. DOMAIN ids # {}  BY <1>3 DEF ToSet
  <2> QED  BY <2>1, <1>5
<1>12. TargetOf(c, s.default).sandbox \in ToSet(Sandboxes(tt))
  <2>1. PICK i \in DOMAIN ids : s.default = ids[i]  BY <1>3 DEF ToSet
  <2> QED  BY <2>1, <1>7 DEF ToSet
<1> QED  BY <1>9, <1>10, <1>11, <1>12

(* Every page of a public lock is a good one, and starts with the game     *)
(* server's own name where pages do not select.                            *)
LEMMA Pages ==
  ASSUME NEW l, PublicReady(l), NEW p \in ToSet(WebPairs(l.routes))
  PROVE  /\ GoodPage(RuntimeConfig(l, p))
         /\ RuntimeConfig(l, p).bridge = <<l.routes.bridge, Https>>
         /\ RuntimeConfig(l, p).wirescope = <<p.wirescope, Https>>
         /\ l.revision \notin PerOriginRevisions =>
              RuntimeConfig(l, p).default = l.routes.minecraft
<1> DEFINE c == l.connections
           t == c.targets
           s == SelectionOf(c, p.scratch)
           page == RuntimeConfig(l, p)
<1>1. /\ t \in Seq(Target) /\ Len(t) >= 1 /\ Distinct(Ids(t)) /\ Distinct(Sandboxes(t))
      /\ "half" \notin ToSet(c.notices)
  BY DEF PublicReady, Usable
<1>2. /\ page.bridge = <<l.routes.bridge, Https>> /\ page.wirescope = <<p.wirescope, Https>>
      /\ page.notices = c.notices
      /\ page.targets = Selected(l, p.scratch).targets
      /\ page.default = Selected(l, p.scratch).default
  BY DEF RuntimeConfig
<1>3. CASE l.revision \in PerOriginRevisions
  <2>1. s \in ToSet(c.selections)
    <3>1. p.scratch \in Origins(l.routes)  BY DEF Origins
    <3>2. {x.scratch : x \in ToSet(c.selections)} = Origins(l.routes)
      BY <1>3 DEF PublicReady, PublicRenderable
    <3>3. \E x \in ToSet(c.selections) : x.scratch = p.scratch  BY <3>1, <3>2
    <3> QED  BY <3>3 DEF SelectionOf
  <2>2. s \in Selection /\ SelectionAccepted(s, ToSet(Ids(t)))
    BY <2>1, <1>3 DEF PublicReady, Usable
  <2>3. /\ page.targets = [i \in DOMAIN s.ids |-> TargetOf(c, s.ids[i])]
        /\ page.default = TargetOf(c, s.default).sandbox
    BY <1>2, <1>3 DEF Selected
  <2> HIDE DEF s, page, c
  <2>4. /\ page.targets # <<>>
        /\ Distinct(Ids(page.targets)) /\ Distinct(Sandboxes(page.targets))
        /\ TargetOf(c, s.default).sandbox \in ToSet(Sandboxes(page.targets))
    BY <1>1, <2>2, <2>3, SelectedTargets
  <2>5. GoodPage(page)  BY <1>1, <1>2, <2>3, <2>4 DEF GoodPage, Offered
  <2> QED  BY <1>2, <1>3, <2>5 DEF page
<1>4. CASE l.revision \notin PerOriginRevisions
  <2>1. page.targets = t /\ page.default = l.routes.minecraft
    BY <1>2, <1>4 DEF Selected
  <2>2. l.routes.minecraft \in ToSet(Sandboxes(t))
    BY <1>4 DEF PublicReady, PublicRenderable
  <2>3. t # <<>>  BY <1>1
  <2> HIDE DEF page, c
  <2>4. GoodPage(page)  BY <1>1, <1>2, <2>1, <2>2, <2>3 DEF GoodPage, Offered
  <2> QED  BY <1>2, <2>1, <2>4 DEF page
<1> QED  BY <1>3, <1>4

(* The file at which the page of a pair is rendered.                       *)
Path(r, i) == IF i = 1 THEN Primary ELSE WebPairs(r)[i].scratch
SiteType == [at : Nat \X {Https}, serves : {"homepage", "scratch", "bridge", "wirescope"},
             file : {None} \cup Nat]

(* Caddy serves every address once; Scratch at the origin of each pair and *)
(* nowhere else, WireScope at the other name of the pair, and the Bridge.  *)
LEMMA Sites ==
  ASSUME NEW r \in Routes, Apart(r)
  PROVE  /\ Distinct([i \in DOMAIN CaddySites(r) |-> CaddySites(r)[i].at])
         /\ \A s \in ToSet(CaddySites(r)) : s.serves = "scratch" =>
              \E i \in DOMAIN WebPairs(r) :
                s = Site(WebPairs(r)[i].scratch, "scratch", Path(r, i))
         /\ \A i \in DOMAIN WebPairs(r) :
              Site(WebPairs(r)[i].scratch, "scratch", Path(r, i)) \in ToSet(CaddySites(r))
         /\ \A p \in ToSet(WebPairs(r)) :
              Site(p.wirescope, "wirescope", None) \in ToSet(CaddySites(r))
         /\ Site(r.bridge, "bridge", None) \in ToSet(CaddySites(r))
<1> DEFINE homes == Homes(r)
           pairs == WebPairs(r)
           a == [i \in DOMAIN homes |-> Site(homes[i], "homepage", None)]
           b == [i \in DOMAIN pairs |-> Site(pairs[i].scratch, "scratch", Path(r, i))]
           c == <<Site(r.bridge, "bridge", None)>>
           d == [i \in DOMAIN pairs |-> Site(pairs[i].wirescope, "wirescope", None)]
           all == CaddySites(r)
           P == [i \in DOMAIN pairs |-> pairs[i].scratch]
           W == [i \in DOMAIN pairs |-> pairs[i].wirescope]
<1>1. all = ((a \o b) \o c) \o d  BY DEF CaddySites, Homes, Path
<1>2. /\ pairs \in Seq(WebPair) /\ r.bridge \in Nat
      /\ homes \in Seq(Nat)
  <2>1. r.homepage \in Nat /\ r.aliases \in Seq(Nat) /\ r.bridge \in Nat  BY RouteTypes
  <2>2. <<r.homepage>> \in Seq(Nat)  BY <2>1
  <2> QED  BY <2>1, <2>2, PairsJoined, ConcatProperties DEF Homes
<1>3. /\ DOMAIN homes = 1..Len(homes) /\ Len(homes) \in Nat
      /\ \A i \in DOMAIN homes : homes[i] \in Nat /\ homes[i] \in ToSet(homes)
  BY <1>2, Elements, LenProperties, ElementOfSeq
<1>4. /\ DOMAIN pairs = 1..Len(pairs) /\ Len(pairs) \in Nat
      /\ \A i \in DOMAIN pairs : pairs[i] \in WebPair /\ pairs[i] \in ToSet(pairs)
      /\ \A p \in ToSet(pairs) : \E i \in DOMAIN pairs : p = pairs[i]
  BY <1>2, Elements, LenProperties, ElementOfSeq
<1>5. /\ \A i, j \in DOMAIN homes : homes[i] = homes[j] => i = j
      /\ \A i, j \in DOMAIN pairs : pairs[i] = pairs[j] => i = j
  BY DistinctOf DEF Apart
<1>6. /\ \A p, q \in ToSet(pairs) :
           /\ p.scratch = q.scratch => p = q
           /\ p.wirescope = q.wirescope => p = q
           /\ p.scratch # q.wirescope
      /\ \A p \in ToSet(pairs) :
           /\ p.scratch # r.bridge /\ p.wirescope # r.bridge
           /\ p.scratch \notin ToSet(homes) /\ p.wirescope \notin ToSet(homes)
      /\ r.bridge \notin ToSet(homes)
  BY DEF Apart
<1>7. \A i \in DOMAIN pairs :
        pairs[i].scratch \in Nat /\ pairs[i].wirescope \in Nat /\ Path(r, i) \in Nat
  BY <1>4 DEF WebPair, Path, Primary
<1>8. \A i \in DOMAIN pairs : P[i] = pairs[i].scratch /\ W[i] = pairs[i].wirescope
  OBVIOUS
<1> HIDE DEF P, W
<1>9. /\ \A i \in DOMAIN homes :
           homes[i] # r.bridge /\ \A j \in DOMAIN pairs : homes[i] # P[j] /\ homes[i] # W[j]
      /\ \A i \in DOMAIN pairs : r.bridge # P[i] /\ r.bridge # W[i]
  BY <1>3, <1>4, <1>6, <1>8
<1>10. ASSUME NEW i \in DOMAIN pairs, NEW j \in DOMAIN pairs
       PROVE  /\ P[i] = P[j] => i = j
              /\ W[i] = W[j] => i = j
              /\ P[i] # W[j]
  <2>1. pairs[i] \in ToSet(pairs) /\ pairs[j] \in ToSet(pairs)  BY <1>4
  <2>2. pairs[i] = pairs[j] => i = j  BY <1>5
  <2>3. pairs[i].scratch = pairs[j].scratch => pairs[i] = pairs[j]  BY <2>1, <1>6
  <2>4. pairs[i].wirescope = pairs[j].wirescope => pairs[i] = pairs[j]  BY <2>1, <1>6
  <2>5. pairs[i].scratch # pairs[j].wirescope  BY <2>1, <1>6
  <2> QED  BY <2>2, <2>3, <2>4, <2>5, <1>8
<1> HIDE DEF homes, pairs, all
<1>11. /\ DOMAIN a = DOMAIN homes /\ DOMAIN b = DOMAIN pairs
       /\ DOMAIN c = {1} /\ DOMAIN d = DOMAIN pairs
       /\ \A i \in DOMAIN a : a[i] = Site(homes[i], "homepage", None)
       /\ \A i \in DOMAIN b : b[i] = Site(pairs[i].scratch, "scratch", Path(r, i))
       /\ c[1] = Site(r.bridge, "bridge", None)
       /\ \A i \in DOMAIN d : d[i] = Site(pairs[i].wirescope, "wirescope", None)
  OBVIOUS
<1>12. a \in Seq(SiteType) /\ b \in Seq(SiteType) /\ c \in Seq(SiteType) /\ d \in Seq(SiteType)
  <2>1. \A n \in Nat : /\ Site(n, "homepage", None) \in SiteType
                       /\ Site(n, "bridge", None) \in SiteType
                       /\ Site(n, "wirescope", None) \in SiteType
                       /\ \A f \in Nat : Site(n, "scratch", f) \in SiteType
    BY DEF Site, SiteType
  <2>2. a \in Seq(SiteType)  BY <2>1, <1>3
  <2>3. b \in Seq(SiteType)  BY <2>1, <1>4, <1>7
  <2>4. c \in Seq(SiteType)  BY <2>1, <1>2
  <2>5. d \in Seq(SiteType)  BY <2>1, <1>4, <1>7
  <2> QED  BY <2>2, <2>3, <2>4, <2>5
<1> HIDE DEF a, b, c, d
<1>13. /\ \A x \in ToSet(a) : \E i \in DOMAIN homes : x = a[i]
       /\ \A x \in ToSet(b) : \E i \in DOMAIN pairs : x = b[i]
       /\ \A x \in ToSet(c) : x = c[1]
       /\ \A x \in ToSet(d) : \E i \in DOMAIN pairs : x = d[i]
       /\ \A i \in DOMAIN pairs : b[i] \in ToSet(b) /\ d[i] \in ToSet(d)
       /\ c[1] \in ToSet(c)
  BY <1>11 DEF ToSet
<1> DEFINE NameAt(x) == x.at[1]
<1>14. /\ \A i \in DOMAIN homes : NameAt(a[i]) = homes[i] /\ a[i].serves = "homepage"
       /\ \A i \in DOMAIN pairs : NameAt(b[i]) = P[i] /\ b[i].serves = "scratch"
       /\ NameAt(c[1]) = r.bridge /\ c[1].serves = "bridge"
       /\ \A i \in DOMAIN pairs : NameAt(d[i]) = W[i] /\ d[i].serves = "wirescope"
  BY <1>8, <1>11 DEF Site
<1> HIDE DEF NameAt
<1>15. /\ \A x \in ToSet(a) : x.serves = "homepage"
       /\ \A x \in ToSet(b) : x.serves = "scratch"
       /\ \A x \in ToSet(c) : x.serves = "bridge"
       /\ \A x \in ToSet(d) : x.serves = "wirescope"
  BY <1>13, <1>14
<1>16. Distinct(a) /\ Distinct(b) /\ Distinct(c) /\ Distinct(d)
  <2>1. Distinct(a)
    <3> SUFFICES ASSUME NEW i \in DOMAIN homes, NEW j \in DOMAIN homes, a[i] = a[j]
                 PROVE  i = j
      BY <1>11, DistinctOf
    <3>1. homes[i] = homes[j]  BY <1>14
    <3> QED  BY <3>1, <1>5
  <2>2. Distinct(b)
    <3> SUFFICES ASSUME NEW i \in DOMAIN pairs, NEW j \in DOMAIN pairs, b[i] = b[j]
                 PROVE  i = j
      BY <1>11, DistinctOf
    <3>1. P[i] = P[j]  BY <1>14
    <3> QED  BY <3>1, <1>10
  <2>3. Distinct(c)  BY <1>11, DistinctOf
  <2>4. Distinct(d)
    <3> SUFFICES ASSUME NEW i \in DOMAIN pairs, NEW j \in DOMAIN pairs, d[i] = d[j]
                 PROVE  i = j
      BY <1>11, DistinctOf
    <3>1. W[i] = W[j]  BY <1>14
    <3> QED  BY <3>1, <1>10
  <2> QED  BY <2>1, <2>2, <2>3, <2>4
<1> DEFINE ab == a \o b
           abc == ab \o c
<1>17. /\ ab \in Seq(SiteType) /\ ToSet(ab) = ToSet(a) \cup ToSet(b)
       /\ Distinct(ab) <=> Distinct(a) /\ Distinct(b) /\ ToSet(a) \cap ToSet(b) = {}
  BY <1>12, Joined
<1> HIDE DEF ab
<1>18. /\ abc \in Seq(SiteType) /\ ToSet(abc) = ToSet(ab) \cup ToSet(c)
       /\ Distinct(abc) <=> Distinct(ab) /\ Distinct(c) /\ ToSet(ab) \cap ToSet(c) = {}
  BY <1>12, <1>17, Joined
<1>19. all = abc \o d  BY <1>1 DEF ab
<1> HIDE DEF abc
<1>20. /\ abc \o d \in Seq(SiteType) /\ ToSet(abc \o d) = ToSet(abc) \cup ToSet(d)
       /\ Distinct(abc \o d) <=> Distinct(abc) /\ Distinct(d) /\ ToSet(abc) \cap ToSet(d) = {}
  BY <1>12, <1>18, Joined
<1>21. /\ all \in Seq(SiteType)
       /\ ToSet(all) = ((ToSet(a) \cup ToSet(b)) \cup ToSet(c)) \cup ToSet(d)
  BY <1>17, <1>18, <1>19, <1>20
<1>22. Distinct(all)
  <2>1. ToSet(a) \cap ToSet(b) = {}  BY <1>15
  <2>2. (ToSet(a) \cup ToSet(b)) \cap ToSet(c) = {}  BY <1>15
  <2>3. ((ToSet(a) \cup ToSet(b)) \cup ToSet(c)) \cap ToSet(d) = {}  BY <1>15
  <2> QED  BY <2>1, <2>2, <2>3, <1>16, <1>17, <1>18, <1>19, <1>20
<1>23. ASSUME NEW x \in ToSet(all), NEW y \in ToSet(all), NameAt(x) = NameAt(y)  PROVE  x = y
  <2>1. ASSUME NEW u \in ToSet(all)
        PROVE  \/ \E i \in DOMAIN homes : u = a[i] /\ NameAt(u) = homes[i]
               \/ \E i \in DOMAIN pairs : u = b[i] /\ NameAt(u) = P[i]
               \/ u = c[1] /\ NameAt(u) = r.bridge
               \/ \E i \in DOMAIN pairs : u = d[i] /\ NameAt(u) = W[i]
    <3>1. CASE u \in ToSet(a)  BY <3>1, <1>13, <1>14
    <3>2. CASE u \in ToSet(b)  BY <3>2, <1>13, <1>14
    <3>3. CASE u \in ToSet(c)  BY <3>3, <1>13, <1>14
    <3>4. CASE u \in ToSet(d)  BY <3>4, <1>13, <1>14
    <3> QED  BY <3>1, <3>2, <3>3, <3>4, <1>21
  <2>2. \/ \E i \in DOMAIN homes : y = a[i] /\ NameAt(y) = homes[i]
        \/ \E i \in DOMAIN pairs : y = b[i] /\ NameAt(y) = P[i]
        \/ y = c[1] /\ NameAt(y) = r.bridge
        \/ \E i \in DOMAIN pairs : y = d[i] /\ NameAt(y) = W[i]
    BY <2>1
  <2>3. CASE \E i \in DOMAIN homes : x = a[i] /\ NameAt(x) = homes[i]
    <3>1. PICK i \in DOMAIN homes : x = a[i] /\ NameAt(x) = homes[i]  BY <2>3
    <3>2. NameAt(y) # r.bridge /\ \A j \in DOMAIN pairs : NameAt(y) # P[j] /\ NameAt(y) # W[j]
      BY <3>1, <1>9, <1>23
    <3>3. PICK j \in DOMAIN homes : y = a[j] /\ NameAt(y) = homes[j]  BY <2>2, <3>2
    <3> QED  BY <3>1, <3>3, <1>5, <1>23
  <2>4. CASE \E i \in DOMAIN pairs : x = b[i] /\ NameAt(x) = P[i]
    <3>1. PICK i \in DOMAIN pairs : x = b[i] /\ NameAt(x) = P[i]  BY <2>4
    <3>2. /\ NameAt(y) # r.bridge /\ \A j \in DOMAIN homes : NameAt(y) # homes[j]
          /\ \A j \in DOMAIN pairs : NameAt(y) # W[j]
      BY <3>1, <1>9, <1>10, <1>23
    <3>3. PICK j \in DOMAIN pairs : y = b[j] /\ NameAt(y) = P[j]  BY <2>2, <3>2
    <3>4. i = j  BY <3>1, <3>3, <1>10, <1>23
    <3> QED  BY <3>1, <3>3, <3>4
  <2>5. CASE x = c[1] /\ NameAt(x) = r.bridge
    <3>1. /\ \A j \in DOMAIN homes : NameAt(y) # homes[j]
          /\ \A j \in DOMAIN pairs : NameAt(y) # P[j] /\ NameAt(y) # W[j]
      BY <2>5, <1>9, <1>23
    <3> QED  BY <2>2, <2>5, <3>1
  <2>6. CASE \E i \in DOMAIN pairs : x = d[i] /\ NameAt(x) = W[i]
    <3>1. PICK i \in DOMAIN pairs : x = d[i] /\ NameAt(x) = W[i]  BY <2>6
    <3>2. /\ NameAt(y) # r.bridge /\ \A j \in DOMAIN homes : NameAt(y) # homes[j]
          /\ \A j \in DOMAIN pairs : NameAt(y) # P[j]
      BY <3>1, <1>9, <1>10, <1>23
    <3>3. PICK j \in DOMAIN pairs : y = d[j] /\ NameAt(y) = W[j]  BY <2>2, <3>2
    <3>4. i = j  BY <3>1, <3>3, <1>10, <1>23
    <3> QED  BY <3>1, <3>3, <3>4
  <2> QED  BY <2>1, <2>3, <2>4, <2>5, <2>6
<1>24. Distinct([i \in DOMAIN all |-> all[i].at])
  <2>1. \A i \in DOMAIN all : all[i] \in ToSet(all)  BY DEF ToSet
  <2>2. \A i, j \in DOMAIN all : all[i] = all[j] => i = j  BY <1>22, DistinctOf
  <2>3. \A i, j \in DOMAIN all : all[i].at = all[j].at => i = j
    BY <2>1, <2>2, <1>23 DEF NameAt
  <2> QED  BY <2>3, DistinctOf
<1>25. \A x \in ToSet(all) : x.serves = "scratch" =>
         \E i \in DOMAIN pairs : x = Site(pairs[i].scratch, "scratch", Path(r, i))
  <2> SUFFICES ASSUME NEW x \in ToSet(all), x.serves = "scratch"
               PROVE  \E i \in DOMAIN pairs : x = Site(pairs[i].scratch, "scratch", Path(r, i))
    OBVIOUS
  <2>1. x \in ToSet(b)  BY <1>15, <1>21
  <2> QED  BY <2>1, <1>11, <1>13
<1>26. \A i \in DOMAIN pairs : /\ Site(pairs[i].scratch, "scratch", Path(r, i)) \in ToSet(all)
                               /\ Site(pairs[i].wirescope, "wirescope", None) \in ToSet(all)
  BY <1>11, <1>13, <1>21
<1>27. \A p \in ToSet(pairs) : Site(p.wirescope, "wirescope", None) \in ToSet(all)
  BY <1>4, <1>26
<1>28. Site(r.bridge, "bridge", None) \in ToSet(all)
  BY <1>11, <1>13, <1>21
<1> QED  BY <1>24, <1>25, <1>26, <1>27, <1>28 DEF all, pairs

(* The file at the path of a pair is the one rendered for that pair.       *)
LEMMA FileOfPair ==
  ASSUME NEW l, l.routes \in Routes, Apart(l.routes), NEW i \in DOMAIN WebPairs(l.routes)
  PROVE  ConfigFiles(l)[Path(l.routes, i)] = RuntimeConfig(l, WebPairs(l.routes)[i])
<1> DEFINE r == l.routes
           pairs == WebPairs(r)
           extra == ToSet(ExtraPairs(r))
           Of(file) == IF file = Primary THEN pairs[1]
                       ELSE CHOOSE p \in extra : p.scratch = file
<1>1. ConfigFiles(l) = [file \in {Primary} \cup {p.scratch : p \in extra} |->
                          RuntimeConfig(l, Of(file))]
  BY DEF ConfigFiles
<1>2. /\ pairs \in Seq(WebPair) /\ pairs[1] = FirstPair(r)
      /\ ToSet(pairs) = {FirstPair(r)} \cup extra
  BY PairsJoined
<1>3. /\ \A j, k \in DOMAIN pairs : pairs[j] = pairs[k] => j = k
      /\ DOMAIN pairs = 1..Len(pairs) /\ Len(pairs) \in Nat
      /\ pairs[i] \in ToSet(pairs)
  <2>1. Distinct(pairs)  BY DEF Apart
  <2> QED  BY <2>1, <1>2, DistinctOf, Elements
<1>4. pairs[i].scratch # Primary /\ \A p \in extra : p.scratch = pairs[i].scratch => p = pairs[i]
  BY <1>2, <1>3, RenderAssumption DEF Apart
<1> HIDE DEF Of
<1>5. CASE i = 1
  <2>1. Path(r, i) = Primary  BY <1>5 DEF Path
  <2>2. Of(Primary) = pairs[i]  BY <1>5 DEF Of
  <2> HIDE DEF pairs, extra, r
  <2> QED  BY <2>1, <2>2, <1>1 DEF r, pairs
<1>6. CASE i # 1
  <2>1. Path(r, i) = pairs[i].scratch  BY <1>6 DEF Path
  <2>2. pairs[i] # FirstPair(r)
    <3>1. 1 \in DOMAIN pairs  BY <1>3
    <3> QED  BY <3>1, <1>2, <1>3, <1>6
  <2>3. pairs[i] \in extra  BY <2>2, <1>2, <1>3
  <2>4. Of(pairs[i].scratch) = pairs[i]  BY <2>3, <1>4 DEF Of
  <2> HIDE DEF pairs, extra, r
  <2> QED  BY <2>1, <2>3, <2>4, <1>1 DEF r, pairs
<1> QED  BY <1>5, <1>6

(* What Scratch serves is the page of every pair, at its own origin.       *)
LEMMA Served ==
  ASSUME NEW l, l.routes \in Routes, Apart(l.routes), NEW out, out = PublicOutput(l)
  PROVE  /\ \A s \in Scratches(out) : \E p \in ToSet(WebPairs(l.routes)) :
              s.at = <<p.scratch, Https>> /\ Fetched(out, s) = RuntimeConfig(l, p)
         /\ \A i \in DOMAIN WebPairs(l.routes) :
              /\ out.configs[Path(l.routes, i)] = RuntimeConfig(l, WebPairs(l.routes)[i])
              /\ \E s \in Scratches(out) :
                   /\ s.at = <<WebPairs(l.routes)[i].scratch, Https>>
                   /\ Fetched(out, s) = RuntimeConfig(l, WebPairs(l.routes)[i])
<1> DEFINE r == l.routes
           pairs == WebPairs(r)
           At(i) == Site(pairs[i].scratch, "scratch", Path(r, i))
<1>1. out.sites = CaddySites(r) /\ out.configs = ConfigFiles(l)  BY DEF PublicOutput
<1>2. \A i \in DOMAIN pairs : out.configs[Path(r, i)] = RuntimeConfig(l, pairs[i])
  BY <1>1, FileOfPair
<1>3. \A i \in DOMAIN pairs : pairs[i] \in ToSet(pairs)  BY DEF ToSet
<1>4. /\ \A s \in ToSet(CaddySites(r)) : s.serves = "scratch" => \E i \in DOMAIN pairs : s = At(i)
      /\ \A i \in DOMAIN pairs : At(i) \in ToSet(CaddySites(r))
  BY Sites
<1>5. \A i \in DOMAIN pairs :
        /\ At(i).at = <<pairs[i].scratch, Https>> /\ At(i).serves = "scratch"
        /\ At(i).file = Path(r, i)
  BY DEF Site
<1> HIDE DEF At, pairs, r
<1>6. \A i \in DOMAIN pairs : Fetched(out, At(i)) = RuntimeConfig(l, pairs[i])
  BY <1>2, <1>5 DEF Fetched
<1>7. ASSUME NEW s \in Scratches(out)
      PROVE  \E p \in ToSet(pairs) :
               s.at = <<p.scratch, Https>> /\ Fetched(out, s) = RuntimeConfig(l, p)
  <2>1. PICK i \in DOMAIN pairs : s = At(i)  BY <1>1, <1>4 DEF Scratches
  <2> QED  BY <2>1, <1>3, <1>5, <1>6
<1>8. ASSUME NEW i \in DOMAIN pairs
      PROVE  \E s \in Scratches(out) :
               s.at = <<pairs[i].scratch, Https>> /\ Fetched(out, s) = RuntimeConfig(l, pairs[i])
  <2>1. At(i) \in Scratches(out)  BY <1>1, <1>4, <1>5 DEF Scratches
  <2> QED  BY <2>1, <1>5, <1>6
<1> QED  BY <1>2, <1>7, <1>8 DEF pairs, r

(***************************************************************************)
(* What the outputs of the three families promise                          *)
(***************************************************************************)
(* EveryOfferWorks, of one output.                                         *)
OffersWork(out) ==
  LET pages == {Fetched(out, s) : s \in Scratches(out)}
  IN  /\ PlainOrigin(out.lock) =>
           out.bridge.origins = {Origin(s.at) : s \in Scratches(out)}
      /\ out.bridge.sandboxes = UNION {Offered(c) : c \in pages}
      /\ out.bridge.default \in out.bridge.sandboxes
      /\ \A c \in pages :
           /\ c.default \in Offered(c) \cap out.aliases
           /\ out.lock.family # "public" \/ out.lock.revision \in WebPairRevisions
              => Offered(c) \subseteq out.aliases

(* EveryLinkIsServed, of one output.                                       *)
LinksServed(out) ==
  /\ Distinct([i \in DOMAIN out.sites |-> out.sites[i].at])
  /\ \A s \in Scratches(out) :
       LET c == Fetched(out, s)
       IN  /\ \E t \in ToSet(out.sites) : t.serves = "bridge" /\ t.at = c.bridge
           /\ out.lock.family = "public" =>
                /\ \E t \in ToSet(out.sites) : t.serves = "wirescope" /\ t.at = c.wirescope
                /\ [scratch |-> s.at[1], wirescope |-> c.wirescope[1]]
                     \in ToSet(WebPairs(out.lock.routes))

(* The Bridge of a public lock lets in what the pages offer.               *)
LEMMA PublicOffers ==
  ASSUME NEW l, PublicReady(l), NEW out, out = PublicOutput(l)
  PROVE  OffersWork(out)
<1> DEFINE r == l.routes
           pairs == WebPairs(r)
           Page(p) == RuntimeConfig(l, p)
           pages == {Fetched(out, s) : s \in Scratches(out)}
<1>1. r \in Routes /\ Apart(r)  BY DEF PublicReady
<1>2. /\ out.lock = l /\ out.bridge = BridgeEnvironment(l) /\ out.aliases = MinecraftAliases(l)
  BY DEF PublicOutput
<1>3. /\ \A s \in Scratches(out) : \E p \in ToSet(pairs) :
           s.at = <<p.scratch, Https>> /\ Fetched(out, s) = Page(p)
      /\ \A i \in DOMAIN pairs : \E s \in Scratches(out) :
           s.at = <<pairs[i].scratch, Https>> /\ Fetched(out, s) = Page(pairs[i])
  BY <1>1, Served
<1>4. /\ \A p \in ToSet(pairs) : \E i \in DOMAIN pairs : p = pairs[i]
      /\ pairs[1] \in ToSet(pairs)
  <2>1. pairs \in Seq(WebPair) /\ pairs[1] = FirstPair(r) /\ FirstPair(r) \in ToSet(pairs)
    BY <1>1, PairsJoined
  <2> QED  BY <2>1, Elements
<1>5. \A p \in ToSet(pairs) : \E s \in Scratches(out) :
        s.at = <<p.scratch, Https>> /\ Fetched(out, s) = Page(p)
  BY <1>3, <1>4
<1>6. \A p \in ToSet(pairs) :
        /\ GoodPage(Page(p))
        /\ l.revision \notin PerOriginRevisions => Page(p).default = r.minecraft
  BY Pages
<1>7. /\ out.bridge.origins = {<<n, Unwritten>> : n \in Origins(r)}
      /\ out.bridge.sandboxes = Allowlist(l)
      /\ out.bridge.default = Page(pairs[1]).default
  BY <1>2 DEF BridgeEnvironment
<1>8. Origins(r) = {p.scratch : p \in ToSet(pairs)}  BY DEF Origins
<1>9. Allowlist(l) = UNION {Offered(c) : c \in PairConfigs(l)}  BY DEF Allowlist, Offered
<1>10. PairConfigs(l) = {Page(p) : p \in ToSet(pairs)}  BY DEF PairConfigs
<1>11. out.aliases = IF l.revision \in WebPairRevisions THEN Allowlist(l) ELSE {r.minecraft}
  BY <1>2 DEF MinecraftAliases
<1> HIDE DEF r, pairs, Page
<1>12. pages = PairConfigs(l)
  <2>1. \A c \in pages : c \in PairConfigs(l)  BY <1>3, <1>10
  <2>2. \A c \in PairConfigs(l) : c \in pages  BY <1>5, <1>10
  <2> QED  BY <2>1, <2>2
<1>13. out.bridge.origins = {Origin(s.at) : s \in Scratches(out)}
  <2>1. out.bridge.origins = {<<p.scratch, Unwritten>> : p \in ToSet(pairs)}  BY <1>7, <1>8
  <2>2. \A n : Origin(<<n, Https>>) = <<n, Unwritten>>  BY DEF Origin
  <2>3. \A s \in Scratches(out) : Origin(s.at) \in out.bridge.origins  BY <2>1, <2>2, <1>3
  <2>4. \A x \in out.bridge.origins : \E s \in Scratches(out) : x = Origin(s.at)
    BY <2>1, <2>2, <1>5
  <2> QED  BY <2>3, <2>4
<1>14. \A c \in pages : Offered(c) \subseteq Allowlist(l) /\ c.default \in Offered(c)
  <2> HIDE DEF pages
  <2>1. \A c \in pages : \E p \in ToSet(pairs) : c = Page(p)  BY <1>10, <1>12
  <2>2. \A c \in pages : Offered(c) \subseteq Allowlist(l)  BY <1>9, <1>12
  <2> QED  BY <2>1, <2>2, <1>6 DEF GoodPage
<1>15. out.bridge.default \in out.bridge.sandboxes
  <2>1. Page(pairs[1]) \in pages  BY <1>4, <1>10, <1>12
  <2> QED  BY <2>1, <1>7, <1>14
<1>16. ASSUME NEW c \in pages
       PROVE  /\ c.default \in Offered(c) \cap out.aliases
              /\ l.revision \in WebPairRevisions => Offered(c) \subseteq out.aliases
  <2>1. PICK p \in ToSet(pairs) : c = Page(p)  BY <1>10, <1>12
  <2>2. CASE l.revision \in WebPairRevisions  BY <2>2, <1>11, <1>14
  <2>3. CASE l.revision \notin WebPairRevisions
    <3>1. l.revision \notin PerOriginRevisions
      BY <2>3 DEF WebPairRevisions, PerOriginRevisions
    <3>2. c.default = r.minecraft  BY <2>1, <3>1, <1>6
    <3> QED  BY <2>3, <3>2, <1>11, <1>14
  <2> QED  BY <2>2, <2>3
<1>17. l.family = "public"  BY DEF PublicReady
<1>18. out.bridge.sandboxes = UNION {Offered(c) : c \in pages}  BY <1>7, <1>9, <1>12
<1> QED  BY <1>2, <1>13, <1>15, <1>16, <1>17, <1>18 DEF OffersWork

(* Its pages link to the Bridge and to the WireScope of their own pair.    *)
LEMMA PublicLinks ==
  ASSUME NEW l, PublicReady(l), NEW out, out = PublicOutput(l)
  PROVE  LinksServed(out)
<1> DEFINE r == l.routes
           pairs == WebPairs(r)
<1>1. r \in Routes /\ Apart(r)  BY DEF PublicReady
<1>2. out.lock = l /\ out.sites = CaddySites(r)  BY DEF PublicOutput
<1>3. \A s \in Scratches(out) : \E p \in ToSet(pairs) :
        s.at = <<p.scratch, Https>> /\ Fetched(out, s) = RuntimeConfig(l, p)
  BY <1>1, Served
<1>4. /\ Distinct([i \in DOMAIN CaddySites(r) |-> CaddySites(r)[i].at])
      /\ \A p \in ToSet(pairs) : Site(p.wirescope, "wirescope", None) \in ToSet(CaddySites(r))
      /\ Site(r.bridge, "bridge", None) \in ToSet(CaddySites(r))
  BY <1>1, Sites
<1>5. \A p \in ToSet(pairs) : /\ RuntimeConfig(l, p).bridge = <<r.bridge, Https>>
                              /\ RuntimeConfig(l, p).wirescope = <<p.wirescope, Https>>
  BY Pages
<1>6. ToSet(pairs) \subseteq WebPair  BY <1>1, PairsJoined, Elements
<1> HIDE DEF pairs, r
<1>7. ASSUME NEW s \in Scratches(out)
      PROVE  LET c == Fetched(out, s)
             IN  /\ \E t \in ToSet(out.sites) : t.serves = "bridge" /\ t.at = c.bridge
                 /\ \E t \in ToSet(out.sites) : t.serves = "wirescope" /\ t.at = c.wirescope
                 /\ [scratch |-> s.at[1], wirescope |-> c.wirescope[1]] \in ToSet(pairs)
  <2> DEFINE c == Fetched(out, s)
  <2>1. PICK p \in ToSet(pairs) : s.at = <<p.scratch, Https>> /\ c = RuntimeConfig(l, p)
    BY <1>3
  <2>2. c.bridge = <<r.bridge, Https>> /\ c.wirescope = <<p.wirescope, Https>>  BY <2>1, <1>5
  <2> HIDE DEF c
  <2>3. \E t \in ToSet(out.sites) : t.serves = "bridge" /\ t.at = c.bridge
    <3>1. Site(r.bridge, "bridge", None) \in ToSet(out.sites)  BY <1>2, <1>4
    <3> QED  BY <3>1, <2>2 DEF Site
  <2>4. \E t \in ToSet(out.sites) : t.serves = "wirescope" /\ t.at = c.wirescope
    <3>1. Site(p.wirescope, "wirescope", None) \in ToSet(out.sites)  BY <1>2, <1>4
    <3> QED  BY <3>1, <2>2 DEF Site
  <2>5. [scratch |-> s.at[1], wirescope |-> c.wirescope[1]] \in ToSet(pairs)
    <3>1. s.at[1] = p.scratch /\ c.wirescope[1] = p.wirescope  BY <2>1, <2>2
    <3>2. p = [scratch |-> p.scratch, wirescope |-> p.wirescope]  BY <1>6 DEF WebPair
    <3> QED  BY <3>1, <3>2
  <2> QED  BY <2>3, <2>4, <2>5 DEF c
<1>8. \A s \in Scratches(out) :
        LET c == Fetched(out, s)
        IN  /\ \E t \in ToSet(out.sites) : t.serves = "bridge" /\ t.at = c.bridge
            /\ out.lock.family = "public" =>
                 /\ \E t \in ToSet(out.sites) : t.serves = "wirescope" /\ t.at = c.wirescope
                 /\ [scratch |-> s.at[1], wirescope |-> c.wirescope[1]]
                      \in ToSet(WebPairs(out.lock.routes))
  BY <1>2, <1>7 DEF pairs, r
<1>9. Distinct([i \in DOMAIN out.sites |-> out.sites[i].at])  BY <1>2, <1>4
<1> QED  BY <1>8, <1>9 DEF LinksServed

(* Doctor finds each page at the path it works out, and accepts it.        *)
LEMMA PublicDoctor ==
  ASSUME NEW l, PublicReady(l), NEW out, out = PublicOutput(l)
  PROVE  DoctorPasses(out)
<1> DEFINE r == l.routes
           pairs == WebPairs(r)
<1>1. l.family = "public" /\ r \in Routes /\ Apart(r)  BY DEF PublicReady
<1>2. out.lock = l  BY DEF PublicOutput
<1>3. \A i \in DOMAIN pairs :
        /\ out.configs[Path(r, i)] = RuntimeConfig(l, pairs[i])
        /\ \E s \in Scratches(out) :
             s.at = <<pairs[i].scratch, Https>> /\ Fetched(out, s) = RuntimeConfig(l, pairs[i])
  BY <1>1, Served
<1>4. \A i \in DOMAIN pairs :
        /\ GoodPage(RuntimeConfig(l, pairs[i]))
        /\ RuntimeConfig(l, pairs[i]).wirescope = <<pairs[i].wirescope, Https>>
  <2>1. \A i \in DOMAIN pairs : pairs[i] \in ToSet(pairs)  BY DEF ToSet
  <2> QED  BY <2>1, Pages
<1>5. \A i \in DOMAIN pairs : Path(r, i) = IF i = 1 THEN Primary ELSE pairs[i].scratch
  BY DEF Path
<1> HIDE DEF pairs, r
<1>6. ASSUME NEW i \in DOMAIN pairs
      PROVE  \E s \in Scratches(out) :
               /\ s.at = <<pairs[i].scratch, Https>>
               /\ ConfigAccepted(Fetched(out, s), out.configs[Path(r, i)])
               /\ out.configs[Path(r, i)].wirescope = <<pairs[i].wirescope, Https>>
  <2>1. PICK s \in Scratches(out) :
          s.at = <<pairs[i].scratch, Https>> /\ Fetched(out, s) = RuntimeConfig(l, pairs[i])
    BY <1>3
  <2>2. ConfigAccepted(Fetched(out, s), out.configs[Path(r, i)])
    BY <2>1, <1>3, <1>4 DEF ConfigAccepted, GoodPage
  <2> QED  BY <2>1, <2>2, <1>3, <1>4
<1>7. PublicPairsPass(out)
  BY <1>2, <1>5, <1>6 DEF PublicPairsPass, pairs, r
<1> QED  BY <1>1, <1>2, <1>7 DEF DoctorPasses

(* Two sites, of which the first is Scratch's.                             *)
LEMMA TwoSites ==
  ASSUME NEW out, NEW a, NEW b, out.sites = <<a, b>>,
         a.serves = "scratch", b.serves = "bridge"
  PROVE  Scratches(out) = {a} /\ ToSet(out.sites) = {a, b}
<1>1. DOMAIN <<a, b>> = {1, 2} /\ <<a, b>>[1] = a /\ <<a, b>>[2] = b  OBVIOUS
<1>2. ToSet(<<a, b>>) = {a, b}  BY <1>1 DEF ToSet
<1> QED  BY <1>2 DEF Scratches

(* The home set: one page, which offers the one host.                      *)
LEMMA HomePromises ==
  ASSUME NEW l \in HomeFiles, LanAccepted(l.lan), NEW out, out = HomeOutput(l)
  PROVE  OffersWork(out) /\ LinksServed(out) /\ DoctorPasses(out)
<1> DEFINE h == l.lan.hostname
           a == [at |-> <<h, l.lan.scratchPort>>, serves |-> "scratch", file |-> Primary]
           b == [at |-> <<h, l.lan.bridgePort>>, serves |-> "bridge", file |-> None]
           c == HomeConfig(l)
<1>1. /\ out.lock = l /\ out.sites = <<a, b>> /\ out.configs[Primary] = c
      /\ out.bridge.origins = {<<h, l.lan.scratchPort>>}
      /\ out.bridge.sandboxes = {h} /\ out.bridge.default = h /\ out.aliases = {h}
  BY DEF HomeOutput
<1>2. l.family = "home" /\ l.lan.scratchPort # l.lan.bridgePort
  BY DEF HomeFiles, LanAccepted
<1>3. /\ a.at = <<h, l.lan.scratchPort>> /\ a.serves = "scratch" /\ a.file = Primary
      /\ b.at = <<h, l.lan.bridgePort>> /\ b.serves = "bridge"
  OBVIOUS
<1>4. /\ c.bridge = <<h, l.lan.bridgePort>> /\ c.default = h
      /\ c.targets = <<[id |-> 0, sandbox |-> h]>>
  BY DEF HomeConfig
<1>5. Offered(c) = {h}
  <2>1. DOMAIN Sandboxes(c.targets) = {1} /\ Sandboxes(c.targets)[1] = h
    BY <1>4 DEF Sandboxes
  <2> HIDE DEF c
  <2> QED  BY <2>1 DEF Offered, ToSet
<1> HIDE DEF a, b, c, h
<1>6. Scratches(out) = {a} /\ ToSet(out.sites) = {a, b}  BY <1>1, <1>3, TwoSites
<1>7. Fetched(out, a) = c  BY <1>1, <1>3 DEF Fetched
<1>8. {Fetched(out, s) : s \in Scratches(out)} = {c}  BY <1>6, <1>7
<1>10. OffersWork(out)
  <2>0. PlainOrigin(out.lock) => out.bridge.origins = {Origin(s.at) : s \in Scratches(out)}
    <3>1. {Origin(s.at) : s \in Scratches(out)} = {Origin(<<h, l.lan.scratchPort>>)}
      BY <1>3, <1>6
    <3>2. l.lan.scratchPort # Https
            => Origin(<<h, l.lan.scratchPort>>) = <<h, l.lan.scratchPort>>
      BY DEF Origin
    <3> QED  BY <3>1, <3>2, <1>1, <1>2 DEF PlainOrigin
  <2>1. out.bridge.sandboxes = UNION {Offered(x) : x \in {c}}  BY <1>1, <1>5
  <2>2. c.default \in Offered(c) \cap out.aliases /\ Offered(c) \subseteq out.aliases
    BY <1>1, <1>4, <1>5
  <2> QED  BY <2>0, <2>1, <2>2, <1>1, <1>8 DEF OffersWork
<1>11. LinksServed(out)
  <2>1. Distinct([i \in DOMAIN out.sites |-> out.sites[i].at])
    <3>1. DOMAIN out.sites = {1, 2} /\ out.sites[1] = a /\ out.sites[2] = b  BY <1>1
    <3>2. a.at # b.at  BY <1>2, <1>3
    <3>3. \A i, j \in DOMAIN out.sites : out.sites[i].at = out.sites[j].at => i = j
      BY <3>1, <3>2
    <3> QED  BY <3>3, DistinctOf
  <2>2. \E t \in ToSet(out.sites) : t.serves = "bridge" /\ t.at = c.bridge
    BY <1>3, <1>4, <1>6
  <2>3. out.lock.family # "public"  BY <1>1, <1>2
  <2> QED  BY <2>1, <2>2, <2>3, <1>6, <1>7 DEF LinksServed
<1>12. DoctorPasses(out)  BY <1>1, <1>2 DEF DoctorPasses
<1> QED  BY <1>10, <1>11, <1>12

(* A one-order deployment: one page, which offers the order's targets.     *)
LEMMA InterfacePromises ==
  ASSUME NEW l \in InterfaceFiles, InterfaceAccepted(l.order), NEW out, out = InterfaceOutput(l)
  PROVE  OffersWork(out) /\ DoctorPasses(out)
<1> DEFINE o == l.order
           t == o.targets
           a == [at |-> Address(o.scratch), serves |-> "scratch", file |-> Primary]
           b == [at |-> Address(o.bridge), serves |-> "bridge", file |-> None]
           c == InterfaceConfig(o)
<1>1. /\ out.lock = l /\ out.sites = <<a, b>> /\ out.configs[Primary] = c
      /\ out.bridge.origins = {o.scratch}
      /\ out.bridge.sandboxes = ToSet(Sandboxes(t))
      /\ out.bridge.default = DefaultOf(t).sandbox
      /\ out.aliases = ToSet(Sandboxes(t))
  BY DEF InterfaceOutput
<1>2. l.family = "interface"  BY DEF InterfaceFiles
<1>3. /\ a.at = Address(o.scratch) /\ a.serves = "scratch" /\ a.file = Primary
      /\ b.serves = "bridge"
  OBVIOUS
<1>4. /\ c.targets = [i \in DOMAIN t |-> [id |-> t[i].id, sandbox |-> t[i].sandbox]]
      /\ c.default = DefaultOf(t).sandbox
  BY DEF InterfaceConfig
<1>5. /\ Distinct(Sandboxes(t))
      /\ \E i \in DOMAIN t : t[i].default
  <2>1. PICK i \in DOMAIN t : \A j \in DOMAIN t : t[j].default <=> i = j
    BY DEF InterfaceAccepted
  <2>2. t[i].default  BY <2>1
  <2> QED  BY <2>2 DEF InterfaceAccepted
<1> HIDE DEF a, b, c, t, o
<1>6. Sandboxes(c.targets) = Sandboxes(t)
  <2>1. DOMAIN c.targets = DOMAIN t /\ \A i \in DOMAIN t : c.targets[i].sandbox = t[i].sandbox
    BY <1>4
  <2>2. Sandboxes(t) = [i \in DOMAIN t |-> t[i].sandbox]  BY DEF Sandboxes
  <2>3. Sandboxes(c.targets) = [i \in DOMAIN c.targets |-> c.targets[i].sandbox]
    BY DEF Sandboxes
  <2> QED  BY <2>1, <2>2, <2>3
<1>7. Offered(c) = ToSet(Sandboxes(t))  BY <1>6 DEF Offered
<1>8. DefaultOf(t).sandbox \in ToSet(Sandboxes(t))
  <2>1. \E x \in ToSet(t) : x.default  BY <1>5 DEF ToSet
  <2>2. DefaultOf(t) \in ToSet(t)  BY <2>1 DEF DefaultOf
  <2>3. PICK i \in DOMAIN t : DefaultOf(t) = t[i]  BY <2>2 DEF ToSet
  <2>4. i \in DOMAIN Sandboxes(t) /\ Sandboxes(t)[i] = DefaultOf(t).sandbox
    BY <2>3 DEF Sandboxes
  <2> QED  BY <2>4 DEF ToSet
<1>9. Scratches(out) = {a} /\ Fetched(out, a) = c
  <2>1. Scratches(out) = {a}  BY <1>1, <1>3, TwoSites
  <2> QED  BY <2>1, <1>1, <1>3 DEF Fetched
<1>10. /\ {Fetched(out, s) : s \in Scratches(out)} = {c}
       /\ {Origin(s.at) : s \in Scratches(out)} = {Origin(Address(o.scratch))}
  BY <1>3, <1>9
<1>11. OffersWork(out)
  <2>0. PlainOrigin(l) => Origin(Address(o.scratch)) = o.scratch
    BY <1>2 DEF PlainOrigin, o
  <2>1. out.bridge.sandboxes = UNION {Offered(x) : x \in {c}}  BY <1>1, <1>7
  <2>2. c.default \in Offered(c) \cap out.aliases /\ Offered(c) \subseteq out.aliases
    BY <1>1, <1>4, <1>7, <1>8
  <2> QED  BY <2>0, <2>1, <2>2, <1>1, <1>8, <1>10 DEF OffersWork
<1>12. InterfaceRuntimePasses(out)
  BY <1>1, <1>4, <1>5, <1>6, <1>7, <1>8 DEF InterfaceRuntimePasses
<1>13. DoctorPasses(out)  BY <1>1, <1>2, <1>12 DEF DoctorPasses
<1> QED  BY <1>11, <1>13

(***************************************************************************)
(* The canonical form of accepted files                                    *)
(***************************************************************************)
(* What acceptance and the canonical form do to public files: the fields   *)
(* of Semantic(f), and the lists it may reorder.                           *)
LEMMA Canonical ==
  ASSUME NEW f \in PublicFiles, Accepted(f), NEW g, g = Semantic(f)
  PROVE  /\ g \in PublicFiles
         /\ g = [f EXCEPT !.routes = RoutesSemantic(f.routes),
                          !.connections = ConnectionsSemantic(f.connections),
                          !.plugins = PluginsSemantic(f.plugins)]
         /\ Apart(g.routes) /\ Usable(g.connections, g.revision)
         /\ g.routes.minecraft = f.routes.minecraft
         /\ ToSet(g.routes.aliases) = ToSet(f.routes.aliases)
         /\ g.routes.pairs = None <=> f.routes.pairs = None
         /\ f.routes.pairs # None => ToSet(g.routes.pairs) = ToSet(f.routes.pairs)
         /\ g.connections.selections = None <=> f.connections.selections = None
         /\ f.connections.selections # None =>
              ToSet(g.connections.selections) = ToSet(f.connections.selections)
         /\ ToSet(g.plugins) = ToSet(f.plugins)
         /\ f.routes.pairs # None <=> f.revision \in WebPairRevisions
         /\ f.connections.selections # None <=> f.revision \in PerOriginRevisions
<1>1. /\ f.family = "public" /\ f.routes \in Routes /\ f.connections \in Connections
      /\ f.plugins \in Plugins
  BY DEF PublicFiles
<1>2. /\ RoutesAccepted(f.routes, f.revision)
      /\ ConnectionsAccepted(f.connections, f.revision)
      /\ PluginsAccepted(f.plugins)
  BY <1>1 DEF Accepted
<1> DEFINE r == RoutesSemantic(f.routes)
           c == ConnectionsSemantic(f.connections)
           p == PluginsSemantic(f.plugins)
<1>3. g = [f EXCEPT !.routes = r, !.connections = c, !.plugins = p]
  BY <1>1 DEF Semantic
<1>4. /\ r \in Routes /\ Apart(r) /\ r.minecraft = f.routes.minecraft
      /\ r.pairs = None <=> f.routes.pairs = None
      /\ ToSet(r.aliases) = ToSet(f.routes.aliases)
      /\ f.routes.pairs # None => ToSet(r.pairs) = ToSet(f.routes.pairs)
  <2>1. Apart(f.routes) /\ Distinct(f.routes.aliases)  BY <1>1, <1>2, AcceptedApart
  <2> QED  BY <1>1, <2>1, CanonicalRoutes
<1>5. f.routes.pairs # None <=> f.revision \in WebPairRevisions
  BY <1>1, <1>2, AcceptedApart
<1>6. /\ Usable(c, f.revision) /\ c \in Connections
      /\ c.selections = None <=> f.connections.selections = None
      /\ f.connections.selections # None => ToSet(c.selections) = ToSet(f.connections.selections)
      /\ f.connections.selections # None <=> f.revision \in PerOriginRevisions
  BY <1>1, <1>2, CanonicalConnections
<1>7. p \in Plugins /\ ToSet(p) = ToSet(f.plugins)
  <2> DEFINE T == [file : Nat, digest : Nat]
             s == f.plugins
             key == [x \in ToSet(s) |-> Fold[x.file]]
             U == [file : File, digest : Nat]
             m == [i \in DOMAIN s |-> Fold[s[i].file]]
             h == [x \in U |-> Fold[x.file]]
  <2>1. s \in Seq(T)  BY <1>1 DEF Plugins
  <2>2. DOMAIN s = 1..Len(s) /\ Len(s) \in Nat /\ \A i \in DOMAIN s : s[i] \in T
    BY <2>1, Elements, ElementOfSeq
  <2>3. (\A i \in DOMAIN s : s[i].file \in File) /\ Distinct(m)
    BY <1>2 DEF PluginsAccepted
  <2>4. \A i \in DOMAIN s : s[i] \in U  BY <2>2, <2>3
  <2>5. s \in Seq(U)
    <3> HIDE DEF U, s
    <3>1. s \in [1..Len(s) -> U]  BY <2>1, <2>2, <2>4, LenProperties
    <3> QED  BY <2>2, <3>1
  <2>6. h \in [U -> Nat]  BY RenderAssumption
  <2>7. m \in [DOMAIN s -> Nat] /\ \A i \in DOMAIN s : m[i] = h[s[i]]
    BY <2>3, <2>4, RenderAssumption
  <2>8. ToSet(s) \subseteq U  BY <2>5, Elements
  <2>9. \A x \in ToSet(s) : h[x] = key[x] /\ key[x] \in Nat
    BY <2>8, RenderAssumption
  <2>10. DOMAIN key = ToSet(s)  OBVIOUS
  <2>11. p = Sorted(ToSet(s), key)  BY DEF PluginsSemantic, By
  <2> HIDE DEF U, T, s, key, m, h
  <2>12. Images(s, h, m)  BY <2>5, <2>6, <2>7, Mapped
  <2>13. \A x, y \in ToSet(s) : key[x] = key[y] => x = y
    BY <2>3, <2>9, <2>12 DEF Images
  <2>14. key \in [ToSet(s) -> Int]
    <3>1. key = [x \in ToSet(s) |-> key[x]]  BY DEF key
    <3> QED  BY <3>1, <2>9
  <2>15. Resorts(T, s, Sorted(ToSet(s), key))  BY <2>1, <2>13, <2>14, Resorted
  <2> QED  BY <2>11, <2>15 DEF Resorts, Plugins, T, s
<1> HIDE DEF r, c, p
<1>8. /\ g.routes = r /\ g.connections = c /\ g.plugins = p /\ g.revision = f.revision
      /\ g \in PublicFiles
  BY <1>3, <1>4, <1>6, <1>7 DEF PublicFiles
<1> QED  BY <1>3, <1>4, <1>5, <1>6, <1>7, <1>8 DEF r, c, p

(* A file of one family is of no other.                                    *)
LEMMA Families ==
  ASSUME NEW f \in Files
  PROVE  /\ f.family = "public" => f \in PublicFiles
         /\ f.family = "home" => f \in HomeFiles
         /\ f.family = "interface" => f \in InterfaceFiles
         /\ f.family \in {"public", "home", "interface"}
BY DEF Files, PublicFiles, HomeFiles, InterfaceFiles

(* What is rendered from accepted files keeps all its promises.            *)
LEMMA Rendered ==
  ASSUME NEW f \in Files, Accepted(f), Renderable(Semantic(f)),
         NEW out, out = Output(Semantic(f))
  PROVE  /\ OffersWork(out) /\ DoctorPasses(out)
         /\ out.lock.family # "interface" => LinksServed(out)
<1> DEFINE g == Semantic(f)
<1>1. CASE f.family = "public"
  <2>1. f \in PublicFiles  BY <1>1, Families
  <2>2. g \in PublicFiles /\ Apart(g.routes) /\ Usable(g.connections, g.revision)
    BY <2>1, Canonical
  <2>3. g.family = "public" /\ g.routes \in Routes  BY <2>2 DEF PublicFiles
  <2>4. PublicReady(g)  BY <2>2, <2>3 DEF PublicReady, Renderable
  <2>5. out = PublicOutput(g)  BY <2>3 DEF Output
  <2> HIDE DEF g
  <2> QED  BY <2>4, <2>5, PublicOffers, PublicLinks, PublicDoctor
<1>2. CASE f.family = "home"
  <2>1. f \in HomeFiles /\ g = f  BY <1>2, Families DEF Semantic
  <2>2. LanAccepted(f.lan)  BY <1>2 DEF Accepted
  <2>3. out = HomeOutput(f)  BY <1>2, <2>1 DEF Output
  <2> QED  BY <2>1, <2>2, <2>3, HomePromises
<1>3. CASE f.family = "interface"
  <2>1. f \in InterfaceFiles /\ g = f  BY <1>3, Families DEF Semantic
  <2>2. InterfaceAccepted(f.order)  BY <1>3 DEF Accepted
  <2>3. out = InterfaceOutput(f)  BY <1>3, <2>1 DEF Output
  <2>4. out.lock = f  BY <2>3 DEF InterfaceOutput
  <2> QED  BY <1>3, <2>1, <2>2, <2>3, <2>4, InterfacePromises
<1> QED  BY <1>1, <1>2, <1>3, Families

(* What public files say, field by field.                                  *)
WrittenRoutes(r) == [r EXCEPT !.aliases = ToSet(r.aliases),
                            !.pairs = IF r.pairs = None THEN None ELSE ToSet(r.pairs)]
WrittenConnections(c) ==
  [c EXCEPT !.selections = IF c.selections = None THEN None ELSE ToSet(c.selections)]

(* Of public files, four lists count as sets.                              *)
LEMMA WrittenOf ==
  ASSUME NEW f \in PublicFiles
  PROVE  Written(f) = [f EXCEPT !.routes = WrittenRoutes(f.routes),
                                !.connections = WrittenConnections(f.connections),
                                !.plugins = ToSet(f.plugins)]
BY DEF Written, WrittenRoutes, WrittenConnections, PublicFiles, Routes, Connections

(* The canonical form says what the files say.                             *)
LEMMA WrittenKept ==
  ASSUME NEW f \in Files, Accepted(f)
  PROVE  Written(Semantic(f)) = Written(f)
<1>1. CASE f.family # "public"  BY <1>1 DEF Semantic, Written
<1>2. CASE f.family = "public"
  <2> DEFINE g == Semantic(f)
             r == f.routes
             c == f.connections
  <2>1. f \in PublicFiles  BY <1>2, Families
  <2>2. /\ g \in PublicFiles
        /\ g = [f EXCEPT !.routes = RoutesSemantic(r), !.connections = ConnectionsSemantic(c),
                         !.plugins = PluginsSemantic(f.plugins)]
        /\ ToSet(g.routes.aliases) = ToSet(r.aliases)
        /\ g.routes.pairs = None <=> r.pairs = None
        /\ r.pairs # None => ToSet(g.routes.pairs) = ToSet(r.pairs)
        /\ g.connections.selections = None <=> c.selections = None
        /\ c.selections # None => ToSet(g.connections.selections) = ToSet(c.selections)
        /\ ToSet(g.plugins) = ToSet(f.plugins)
    BY <2>1, Canonical
  <2>3. g.routes = RoutesSemantic(r) /\ g.connections = ConnectionsSemantic(c)
    BY <2>1, <2>2 DEF PublicFiles
  <2>4. WrittenRoutes(g.routes) = WrittenRoutes(r)
    <3>1. \A q : RoutesSemantic(r) = q =>
            \E a, p : q = [r EXCEPT !.aliases = a, !.pairs = p]
      BY DEF RoutesSemantic
    <3>2. PICK a, p : g.routes = [r EXCEPT !.aliases = a, !.pairs = p]  BY <3>1, <2>3
    <3> HIDE DEF g
    <3> QED  BY <3>2, <2>1, <2>2 DEF WrittenRoutes, PublicFiles, Routes
  <2>5. WrittenConnections(g.connections) = WrittenConnections(c)
    <3>1. \E s : g.connections = [c EXCEPT !.selections = s]
      <4>1. c = [c EXCEPT !.selections = c.selections]  BY <2>1 DEF PublicFiles, Connections
      <4> QED  BY <4>1, <2>3 DEF ConnectionsSemantic
    <3>2. PICK s : g.connections = [c EXCEPT !.selections = s]  BY <3>1
    <3> HIDE DEF g
    <3> QED  BY <3>2, <2>1, <2>2 DEF WrittenConnections, PublicFiles, Connections
  <2>6. Written(g) = [g EXCEPT !.routes = WrittenRoutes(g.routes),
                               !.connections = WrittenConnections(g.connections),
                               !.plugins = ToSet(g.plugins)]
    BY <2>2, WrittenOf
  <2>7. Written(f) = [f EXCEPT !.routes = WrittenRoutes(r),
                               !.connections = WrittenConnections(c),
                               !.plugins = ToSet(f.plugins)]
    BY <2>1, WrittenOf
  <2>8. PICK x, y, z : g = [f EXCEPT !.routes = x, !.connections = y, !.plugins = z]
    BY <2>2
  <2> HIDE DEF g
  <2>9. Written(g) = [g EXCEPT !.routes = WrittenRoutes(r),
                               !.connections = WrittenConnections(c),
                               !.plugins = ToSet(f.plugins)]
    BY <2>2, <2>4, <2>5, <2>6
  <2>10. Written(g) = Written(f)  BY <2>1, <2>7, <2>8, <2>9 DEF PublicFiles
  <2> QED  BY <2>10 DEF g
<1> QED  BY <1>1, <1>2

(* Accepted files that say the same have the same canonical form.          *)
LEMMA WrittenDecides ==
  ASSUME NEW f \in Files, NEW g \in Files, Accepted(f), Accepted(g), Written(f) = Written(g)
  PROVE  Semantic(f) = Semantic(g)
<1>1. \A h \in Files : Written(h).family = h.family
  <2> SUFFICES ASSUME NEW h \in Files  PROVE  Written(h).family = h.family
    OBVIOUS
  <2>1. CASE h.family # "public"  BY <2>1 DEF Written
  <2>2. CASE h.family = "public"
    <3>1. h \in PublicFiles  BY <2>2, Families
    <3> QED  BY <3>1, WrittenOf DEF PublicFiles
  <2> QED  BY <2>1, <2>2
<1>2. f.family = g.family  BY <1>1
<1>3. CASE f.family # "public"
  BY <1>2, <1>3 DEF Semantic, Written
<1>4. CASE f.family = "public"
  <2>1. f \in PublicFiles /\ g \in PublicFiles  BY <1>2, <1>4, Families
  <2>2. [f EXCEPT !.routes = WrittenRoutes(f.routes),
                  !.connections = WrittenConnections(f.connections),
                  !.plugins = ToSet(f.plugins)]
        = [g EXCEPT !.routes = WrittenRoutes(g.routes),
                    !.connections = WrittenConnections(g.connections),
                    !.plugins = ToSet(g.plugins)]
    BY <2>1, WrittenOf
  <2>3. /\ f.revision = g.revision /\ f.roles = g.roles /\ f.volumes = g.volumes
        /\ f.heap = g.heap
        /\ WrittenRoutes(f.routes) = WrittenRoutes(g.routes)
        /\ WrittenConnections(f.connections) = WrittenConnections(g.connections)
        /\ ToSet(f.plugins) = ToSet(g.plugins)
    BY <2>1, <2>2 DEF PublicFiles
  <2>4. /\ f.routes.pairs = None <=> g.routes.pairs = None
        /\ f.connections.selections = None <=> g.connections.selections = None
    BY <2>1, <2>3, Canonical
  <2> DEFINE r == f.routes
             q == g.routes
             c == f.connections
             d == g.connections
  <2>5. r \in Routes /\ q \in Routes /\ c \in Connections /\ d \in Connections
    BY <2>1 DEF PublicFiles
  <2>6. /\ WrittenRoutes(r) = WrittenRoutes(q) /\ WrittenConnections(c) = WrittenConnections(d)
        /\ r.pairs = None <=> q.pairs = None
        /\ c.selections = None <=> d.selections = None
    BY <2>3, <2>4
  <2> HIDE DEF r, q, c, d
  <2>7. /\ ToSet(r.aliases) = ToSet(q.aliases)
        /\ r.pairs # None => ToSet(r.pairs) = ToSet(q.pairs)
        /\ r.homepage = q.homepage /\ r.scratch = q.scratch /\ r.bridge = q.bridge
        /\ r.minecraft = q.minecraft /\ r.wirescope = q.wirescope
    BY <2>5, <2>6 DEF WrittenRoutes, Routes
  <2>8. /\ c.selections # None => ToSet(c.selections) = ToSet(d.selections)
        /\ c.targets = d.targets /\ c.notices = d.notices
    BY <2>5, <2>6 DEF WrittenConnections, Connections
  <2>9. RoutesSemantic(r) = RoutesSemantic(q)
    <3>1. \A a, p : [r EXCEPT !.aliases = a, !.pairs = p] = [q EXCEPT !.aliases = a, !.pairs = p]
      BY <2>5, <2>7 DEF Routes
    <3>2. By(r.aliases, LAMBDA a : a) = By(q.aliases, LAMBDA a : a)  BY <2>7 DEF By
    <3>3. (IF r.pairs = None THEN None ELSE By(r.pairs, LAMBDA p : p.scratch))
          = IF q.pairs = None THEN None ELSE By(q.pairs, LAMBDA p : p.scratch)
      BY <2>6, <2>7 DEF By
    <3> QED  BY <3>1, <3>2, <3>3 DEF RoutesSemantic
  <2>10. ConnectionsSemantic(c) = ConnectionsSemantic(d)
    <3>1. CASE c.selections = None
      <4>1. c = d  BY <3>1, <2>5, <2>6, <2>8 DEF Connections
      <4> QED  BY <4>1
    <3>2. CASE c.selections # None
      <4>1. \A s : [c EXCEPT !.selections = s] = [d EXCEPT !.selections = s]
        BY <2>5, <2>8 DEF Connections
      <4>2. By(c.selections, LAMBDA s : s.scratch) = By(d.selections, LAMBDA s : s.scratch)
        BY <3>2, <2>8 DEF By
      <4> QED  BY <3>2, <4>1, <4>2, <2>6 DEF ConnectionsSemantic
    <3> QED  BY <3>1, <3>2
  <2>11. PluginsSemantic(f.plugins) = PluginsSemantic(g.plugins)
    BY <2>3 DEF PluginsSemantic, By
  <2>12. \A x, y, z : [f EXCEPT !.routes = x, !.connections = y, !.plugins = z]
                      = [g EXCEPT !.routes = x, !.connections = y, !.plugins = z]
    BY <2>1, <2>3 DEF PublicFiles
  <2> QED  BY <1>2, <1>4, <2>9, <2>10, <2>11, <2>12 DEF Semantic, r, q, c, d
<1> QED  BY <1>3, <1>4

(***************************************************************************)
(* The specification                                                       *)
(***************************************************************************)
(* The inductive invariant: the lock is the canonical form of files that   *)
(* were accepted, and so is the lock that the output was rendered from.    *)
FromFiles(l) == \E f \in Files : Accepted(f) /\ l = Semantic(f)

RenderInv ==
  /\ files \in Files
  /\ lock # None => FromFiles(lock)
  /\ output # None => \E l : FromFiles(l) /\ Renderable(l) /\ output = Output(l)

(* An edit leaves something that the files can say.                        *)
LEMMA EditedFiles ==
  ASSUME files \in Files, EditPublic \/ EditHome \/ EditInterface
  PROVE  files' \in Files /\ UNCHANGED <<lock, output, answer>>
<1>1. CASE EditPublic
  <2>1. files.family = "public"  BY <1>1 DEF EditPublic
  <2>2. files \in PublicFiles  BY <2>1, Families
  <2>3. UNCHANGED <<lock, output, answer>>  BY <1>1 DEF EditPublic, Edited
  <2>4. files' \in PublicFiles
    <3>1. CASE \E r \in RouteFiles : files' = [files EXCEPT !.routes = r]
      BY <2>2, <3>1, RenderAssumption DEF PublicFiles
    <3>2. CASE \E c \in ConnectionFiles : files' = [files EXCEPT !.connections = c]
      BY <2>2, <3>2, RenderAssumption DEF PublicFiles
    <3>3. CASE \E p \in PluginFiles : files' = [files EXCEPT !.plugins = p]
      BY <2>2, <3>3, RenderAssumption DEF PublicFiles
    <3>4. CASE \E v \in Revision : files' = [files EXCEPT !.revision = v]
      BY <2>2, <3>4 DEF PublicFiles
    <3>5. CASE \E l \in RoleLists : files' = [files EXCEPT !.roles = l]
      <4>1. PICK l \in Seq(RequiredRoles) : files' = [files EXCEPT !.roles = l]
        <5>1. RoleLists \subseteq Seq(RequiredRoles)  BY ONLY RenderAssumption
        <5> QED  BY ONLY <3>5, <5>1
      <4> QED  BY <2>2, <4>1 DEF PublicFiles
    <3>7. CASE \E l \in VolumeLists : files' = [files EXCEPT !.volumes = l]
      <4>1. PICK l \in Seq(VolumeRoles) : files' = [files EXCEPT !.volumes = l]
        <5>1. VolumeLists \subseteq Seq(VolumeRoles)  BY ONLY RenderAssumption
        <5> QED  BY ONLY <3>7, <5>1
      <4> QED  BY <2>2, <4>1 DEF PublicFiles
    <3>6. CASE files' = [files EXCEPT !.heap = ~files.heap]
      <4>1. PICK b \in BOOLEAN : files' = [files EXCEPT !.heap = b]
        <5>1. (~files.heap) \in BOOLEAN  OBVIOUS
        <5> QED  BY ONLY <3>6, <5>1
      <4> QED  BY <2>2, <4>1 DEF PublicFiles
    <3> QED  BY <1>1, <3>1, <3>2, <3>3, <3>4, <3>5, <3>6, <3>7 DEF EditPublic, Edited
  <2> QED  BY <2>3, <2>4 DEF Files
<1>2. CASE EditHome
  <2>1. files \in HomeFiles  BY <1>2, Families DEF EditHome
  <2>2. PICK l \in LanFiles : files' = [files EXCEPT !.lan = l]  BY <1>2 DEF EditHome, Edited
  <2>3. files' \in HomeFiles  BY <2>1, <2>2, RenderAssumption DEF HomeFiles
  <2> QED  BY <1>2, <2>3 DEF Files, EditHome, Edited
<1>3. CASE EditInterface
  <2>1. files \in InterfaceFiles  BY <1>3, Families DEF EditInterface
  <2>2. PICK o \in InterfaceOrders : files' = [files EXCEPT !.order = o]
    BY <1>3 DEF EditInterface, Edited
  <2>3. files' \in InterfaceFiles  BY <2>1, <2>2, RenderAssumption DEF InterfaceFiles
  <2> QED  BY <1>3, <2>3 DEF Files, EditInterface, Edited
<1> QED  BY <1>1, <1>2, <1>3

(* A one-order deployment is its own canonical form.                       *)
LEMMA Prepared ==
  ASSUME files \in Files, Prepare, Accepted(files)
  PROVE  FromFiles(files) /\ Renderable(files)
<1>1. files.family = "interface"  BY DEF Prepare
<1>2. Semantic(files) = files  BY <1>1 DEF Semantic
<1> QED  BY <1>1, <1>2 DEF FromFiles, Renderable

(* The invariant holds at first.                                           *)
LEMMA RenderInit == Init => RenderInv
BY RenderAssumption DEF Init, RenderInv

(* Every step keeps the invariant.                                         *)
LEMMA RenderNext == RenderInv /\ [Next]_vars => RenderInv'
<1> SUFFICES ASSUME RenderInv, [Next]_vars  PROVE  RenderInv'
  OBVIOUS
<1> USE DEF RenderInv
<1>1. CASE EditPublic \/ EditHome \/ EditInterface
  BY <1>1, EditedFiles
<1>2. CASE Resolve
  <2>1. UNCHANGED <<files, output>>  BY <1>2 DEF Resolve
  <2>2. lock' # None => FromFiles(lock')  BY <1>2 DEF Resolve, FromFiles
  <2> QED  BY <2>1, <2>2
<1>3. CASE Render
  <2>1. UNCHANGED <<files, lock>>  BY <1>3 DEF Render
  <2>2. CASE output' = output  BY <2>1, <2>2
  <2>3. CASE output' # output
    <3>1. lock # None /\ Renderable(lock) /\ output' = Output(lock)  BY <1>3, <2>3 DEF Render
    <3> QED  BY <2>1, <3>1
  <2> QED  BY <2>2, <2>3
<1>4. CASE Prepare
  <2>1. UNCHANGED files  BY <1>4 DEF Prepare
  <2>2. CASE Accepted(files)
    <3>1. lock' = files /\ output' = Output(files)  BY <1>4, <2>2 DEF Prepare
    <3>2. FromFiles(files) /\ Renderable(files)  BY <1>4, <2>2, Prepared
    <3> QED  BY <2>1, <3>1, <3>2
  <2>3. CASE ~Accepted(files)
    <3>1. UNCHANGED <<lock, output>>  BY <1>4, <2>3 DEF Prepare
    <3> QED  BY <2>1, <3>1
  <2> QED  BY <2>2, <2>3
<1>5. CASE UNCHANGED vars  BY <1>5 DEF vars
<1> QED  BY <1>1, <1>2, <1>3, <1>4, <1>5 DEF Next

(* Whatever the files say and in whatever order they are edited, resolved  *)
(* and rendered, lock and output come from files that were accepted        *)
(* (resolve_operator_inputs, _build_candidate, _compose_public).           *)
THEOREM RenderInvariant == Spec => []RenderInv
<1>1. Init => RenderInv  BY RenderInit
<1>2. RenderInv /\ [Next]_vars => RenderInv'  BY RenderNext
<1> QED  BY <1>1, <1>2, PTL DEF Spec

(* Every output keeps the promises of its family.                          *)
LEMMA OutputPromises ==
  ASSUME RenderInv, output # None
  PROVE  /\ OffersWork(output) /\ DoctorPasses(output)
         /\ output.lock.family # "interface" => LinksServed(output)
<1>1. PICK l : FromFiles(l) /\ Renderable(l) /\ output = Output(l)  BY DEF RenderInv
<1>2. PICK f \in Files : Accepted(f) /\ l = Semantic(f)  BY <1>1 DEF FromFiles
<1> QED  BY <1>1, <1>2, Rendered

(* The Bridge lets in exactly what the Scratch pages offer, from exactly   *)
(* their origins, and the game server answers to it: for every number of   *)
(* pairs, targets and selections (_compose_public, _compose_v14, _render). *)
THEOREM OffersWorkAlways == Spec => []EveryOfferWorks
<1>1. RenderInv => EveryOfferWorks
  BY OutputPromises DEF EveryOfferWorks, OffersWork
<1> QED  BY <1>1, RenderInvariant, PTL

(* Caddy serves every address once, and the links of a page lead to the    *)
(* Bridge and to the WireScope of its own pair (render.py).                *)
THEOREM LinksServedAlways == Spec => []EveryLinkIsServed
<1>1. RenderInv => EveryLinkIsServed
  BY OutputPromises DEF EveryLinkIsServed, LinksServed
<1> QED  BY <1>1, RenderInvariant, PTL

(* Doctor accepts all that is rendered (doctor.py, _validate_runtime).     *)
THEOREM RenderedPassesAlways == Spec => []RenderedPassesDoctor
<1>1. RenderInv => RenderedPassesDoctor
  BY OutputPromises DEF RenderedPassesDoctor
<1> QED  BY <1>1, RenderInvariant, PTL

(* A new lock says what the files say, and not what the old one said.      *)
LEMMA LockStep ==
  ASSUME RenderInv, Next
  PROVE  /\ lock' # lock => /\ Written(lock') = Written(files)
                            /\ lock # None => Written(lock') # Written(lock)
         /\ answer' = "unchanged" /\ answer # answer' => Written(lock) = Written(files)
<1>1. files \in Files  BY DEF RenderInv
<1>2. ASSUME Accepted(files), Semantic(files) # lock, lock # None
      PROVE  Written(Semantic(files)) # Written(lock)
  <2>1. PICK g \in Files : Accepted(g) /\ lock = Semantic(g)
    BY <1>2 DEF RenderInv, FromFiles
  <2>2. Written(lock) = Written(g) /\ Written(Semantic(files)) = Written(files)
    BY <1>1, <1>2, <2>1, WrittenKept
  <2>3. Written(files) # Written(g)  BY <1>1, <1>2, <2>1, WrittenDecides
  <2> QED  BY <2>2, <2>3
<1>3. CASE EditPublic \/ EditHome \/ EditInterface
  <2>1. UNCHANGED <<lock, answer>>  BY <1>1, <1>3, EditedFiles
  <2> QED  BY <2>1
<1>4. CASE Resolve
  <2>1. CASE lock' # lock
    <3>1. Accepted(files) /\ lock' = Semantic(files) /\ answer' = "resolved"
      BY <1>4, <2>1 DEF Resolve
    <3> QED  BY <1>1, <1>2, <2>1, <3>1, WrittenKept
  <2>2. CASE lock' = lock
    <3>1. answer' = "unchanged" => Accepted(files) /\ lock = Semantic(files)
      BY <1>4, <2>2 DEF Resolve
    <3> QED  BY <1>1, <2>2, <3>1, WrittenKept
  <2> QED  BY <2>1, <2>2
<1>5. CASE Render
  <2>1. lock' = lock /\ answer' # "unchanged"  BY <1>5 DEF Render
  <2> QED  BY <2>1
<1>6. CASE Prepare
  <2>1. answer' # "unchanged" /\ Semantic(files) = files  BY <1>6 DEF Prepare, Semantic
  <2>2. lock' # lock => Accepted(files) /\ lock' = files  BY <1>6 DEF Prepare
  <2> QED  BY <1>2, <2>1, <2>2
<1> QED  BY <1>3, <1>4, <1>5, <1>6 DEF Next

(* A lock is replaced exactly when the files have come to say something    *)
(* else, the order aside of the four lists that a resolve sorts: their     *)
(* canonical form, which decides, is a function of what they say           *)
(* (resolver.py, operator_inputs.py).                                      *)
THEOREM SameLockForSameInputs == Spec => SameInputsSameLock
<1>1. RenderInv /\ [Next]_vars =>
        [/\ lock' # lock => /\ Written(lock') = Written(files)
                            /\ lock # None => Written(lock') # Written(lock)
         /\ answer' = "unchanged" /\ answer # answer' => Written(lock) = Written(files)]_vars
  BY LockStep
<1> QED  BY <1>1, RenderInvariant, PTL DEF Spec, SameInputsSameLock
=============================================================================
