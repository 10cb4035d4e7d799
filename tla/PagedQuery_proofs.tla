-------------------------- MODULE PagedQuery_proofs --------------------------
(***************************************************************************)
(* Proofs about PagedQuery: for every number of entries, every page size   *)
(* and every number of changes between the pages, what a list query has    *)
(* collected, that nothing is in it twice, and when it throws.             *)
(*                                                                         *)
(* The first part is about the operators: ids in ascending order, pages,   *)
(* and what a removal leaves.  The second part is the invariant, which     *)
(* says for each way of reading what a loop knows between two calls.       *)
(***************************************************************************)
EXTENDS PagedQuery, FiniteSetTheorems, SequenceTheorems, TLAPS

StrictlyInc(s) == \A j, k \in DOMAIN s : j < k => s[j] < s[k]

\* The ids of s that were there at the start are in pool.
OldIn(s, pool) == \A a \in ToSet(s) : a <= MaxStart => a \in pool

ByKey == {"getPools", "approveForAll", "allTokens", "allPositions"}
Chunked == {"allPositions", "getAllLiquidityTicks"}

-----------------------------------------------------------------------------
(***************************************************************************)
(* The invariant.  The list of the contract:                               *)
(***************************************************************************)
ListInv ==
  /\ IsInjective(entries)
  /\ method \notin ByOffset => StrictlyInc(entries)
  /\ method \in Nfts \cup ByOffset => \A a \in ToSet(entries) : a <= born
  /\ born <= MaxStart + changes
  /\ always \subseteq ToSet(entries) /\ \A a \in always : a <= MaxStart
  /\ ~removed /\ method \in Nfts \cup ByOffset =>
       \A a \in ToSet(entries) : a <= MaxStart => a \in always

\* What holds where the query is: no other method gets there.
PcInv ==
  /\ pc = "start" => /\ always = ToSet(entries) /\ result = <<>> /\ todo = <<>>
                     /\ i = 0 /\ count = 0 /\ ~removed
                     /\ \A a \in ToSet(entries) : a <= MaxStart
  /\ pc = "page" => method \in UntilShort
  /\ pc = "counted" => method \in Counted
  /\ pc \in {"chunks", "failed"} => method \in Chunked

\* Reading by offset: the place up to which the list has been read, and that
\* nothing behind it has been returned.  While nothing is removed, everything
\* before it has been.
ReadTo == IF method = "getPositions" THEN Len(result) ELSE i
OffsetInv ==
  method \in ByOffset =>
    /\ \A k \in DOMAIN entries : k > ReadTo => entries[k] \notin ToSet(result)
    /\ \A a \in ToSet(result) : a <= born
    /\ ~removed /\ method = "getPositions" /\ pc = "page" =>
         /\ Len(result) <= Len(entries)
         /\ \A k \in 1..Len(result) : entries[k] \in ToSet(result)
    /\ ~removed /\ method = "getPositionTicks" /\ pc = "counted" =>
         /\ count <= Len(entries)
         /\ \A k \in 1..count : k <= i => entries[k] \in ToSet(result)
         /\ \A a \in always : \E k \in 1..count : entries[k] = a

\* Reading by key: the keys ascend, and no old entry has been passed over.
KeyInv ==
  method \in ByKey /\ pc \in {"page", "counted"} =>
    /\ StrictlyInc(result)
    /\ \A a \in always : a <= LastKey => a \in ToSet(result)

\* tokens: the loop variable is taken for a token id.
OwnerInv ==
  method = "tokens" /\ pc = "counted" =>
    \A a \in always \cap mine : a <= i => a \in ToSet(result)

\* While no token goes, as many are there throughout as were counted.
CountInv ==
  method \in Nfts /\ pc = "counted" /\ ~removed => Cardinality(always) = count

\* allTokens: the old tokens that are, or were, there, of which there are as
\* many as were counted.
PoolInv ==
  method \in {"allTokens", "allPositions"} /\ pc = "counted" =>
    \E pool \in SUBSET (1..MaxStart) :
      /\ Cardinality(pool) = count
      /\ always \subseteq pool
      /\ OldIn(entries, pool) /\ OldIn(result, pool)

\* Chunks: what has been asked about and what has not are the list read before.
ChunkInv ==
  /\ method = "allPositions" /\ pc = "counted" /\ ~removed => ToSet(result) \subseteq ToSet(entries)
  /\ pc = "chunks" =>
       /\ IsInjective(result \o todo)
       /\ always \subseteq ToSet(result \o todo)
       /\ ~removed => ToSet(todo) \subseteq ToSet(entries)

IInv ==
  /\ TypeOK /\ count <= MaxStart /\ (method # "tokens" => mine = Ids)
  /\ ListInv /\ PcInv /\ OffsetInv /\ KeyInv /\ OwnerInv /\ CountInv /\ PoolInv /\ ChunkInv
  /\ NoneMissed /\ NoDuplicates /\ FailsOnlyWhenRemoved

-----------------------------------------------------------------------------
(***************************************************************************)
(* Ids in ascending order.                                                 *)
(***************************************************************************)
\* How many of S are below x.
Below(S, x) == {y \in S : y < x}

LEMMA BelowFacts ==
  ASSUME NEW S \in SUBSET Nat, IsFiniteSet(S)
  PROVE  /\ Cardinality(S) \in Nat
         /\ \A x \in S : Cardinality(Below(S, x)) \in 0..(Cardinality(S) - 1)
         /\ \A x, y \in S : x < y => Cardinality(Below(S, x)) < Cardinality(Below(S, y))
<1>1. Cardinality(S) \in Nat
  BY FS_CardinalityType
<1>2. \A x : IsFiniteSet(Below(S, x)) /\ Cardinality(Below(S, x)) \in Nat
  <2> TAKE x
  <2>1. Below(S, x) \in SUBSET S
    BY DEF Below
  <2> QED  BY <2>1, FS_Subset, FS_CardinalityType
<1>3. ASSUME NEW x \in S  PROVE Cardinality(Below(S, x)) < Cardinality(S)
  <2>1. Below(S, x) \in SUBSET S /\ x \notin Below(S, x)
    BY DEF Below
  <2>2. Cardinality(Below(S, x)) <= Cardinality(S) /\ Cardinality(Below(S, x)) # Cardinality(S)
    BY <2>1, FS_Subset
  <2> QED  BY <1>1, <1>2, <2>2
<1>4. ASSUME NEW x \in S, NEW y \in S, x < y
      PROVE  Cardinality(Below(S, x)) < Cardinality(Below(S, y))
  <2>1. \A z \in S : z \in Nat
    OBVIOUS
  <2>2. ~(x < x) /\ \A z \in S : z < x => z < y
    BY <1>4, <2>1
  <2>3. x \in Below(S, y) /\ x \notin Below(S, x)
    BY <1>4, <2>2 DEF Below
  <2>4. \A z : z \in Below(S, x) => z \in Below(S, y)
    BY <2>2 DEF Below
  <2>5. Below(S, x) \in SUBSET Below(S, y) /\ x \in Below(S, y) /\ x \notin Below(S, x)
    BY <2>3, <2>4
  <2>6. /\ Cardinality(Below(S, x)) <= Cardinality(Below(S, y))
        /\ Cardinality(Below(S, x)) # Cardinality(Below(S, y))
    BY <1>2, <2>5, FS_Subset
  <2> QED  BY <1>2, <2>6
<1> QED  BY <1>1, <1>2, <1>3, <1>4

\* Every place below the number of elements is somebody's.
LEMMA PlaceTaken ==
  ASSUME NEW S \in SUBSET Nat, IsFiniteSet(S), NEW k \in 1..Cardinality(S)
  PROVE  \E x \in S : Cardinality(Below(S, x)) = k - 1
<1> DEFINE n == Cardinality(S)
           T == 0..(n - 1)
           rank == [x \in S |-> Cardinality(Below(S, x))]
<1>1. n \in Nat /\ rank \in [S -> T]
  BY BelowFacts
<1>2. \A x, y \in S : rank[x] = rank[y] => x = y
  <2> SUFFICES ASSUME NEW x \in S, NEW y \in S, rank[x] = rank[y]  PROVE x = y
    OBVIOUS
  <2>1. x \in Nat /\ y \in Nat /\ rank[x] \in Nat /\ rank[y] \in Nat
    BY <1>1
  <2>2. (x < y => rank[x] < rank[y]) /\ (y < x => rank[y] < rank[x])
    BY BelowFacts
  <2> HIDE DEF rank
  <2> QED  BY <2>1, <2>2
<1>3. IsFiniteSet(T) /\ Cardinality(T) = n
  <2>1. n \in Nat
    BY <1>1
  <2> HIDE DEF n
  <2>2. IsFiniteSet(0..(n - 1)) /\ Cardinality(0..(n - 1)) = IF 0 > n - 1 THEN 0 ELSE (n - 1) - 0 + 1
    BY <2>1, FS_Interval
  <2> QED  BY <2>1, <2>2
<1>4. rank \in Injection(S, T)
  BY <1>1, <1>2 DEF Injection, IsInjective
<1>5. rank \in Surjection(S, T)
  BY <1>3, <1>4, FS_Injection
<1>6. k - 1 \in T
  BY <1>1
<1>7. \E x \in S : rank[x] = k - 1
  BY <1>5, <1>6 DEF Surjection
<1> QED  BY <1>7

LEMMA SortedFacts ==
  ASSUME NEW S \in SUBSET Nat, IsFiniteSet(S)
  PROVE  /\ Cardinality(S) \in Nat
         /\ SortedOf(S) \in Seq(S)
         /\ Len(SortedOf(S)) = Cardinality(S)
         /\ StrictlyInc(SortedOf(S))
         /\ ToSet(SortedOf(S)) = S
         /\ \A x \in S : SortedOf(S)[Cardinality(Below(S, x)) + 1] = x
<1> DEFINE n == Cardinality(S)
           s == SortedOf(S)
<1>1. n \in Nat
  BY FS_CardinalityType
<1>2. \A k \in 1..n : s[k] \in S /\ Cardinality(Below(S, s[k])) = k - 1
  BY PlaceTaken DEF SortedOf, Below
<1>3. s \in Seq(S) /\ Len(s) = n /\ DOMAIN s = 1..n
  <2>1. DOMAIN s = 1..n /\ s = [k \in 1..n |-> s[k]]
    BY DEF SortedOf
  <2>2. s \in [1..n -> S]
    BY <1>2, <2>1
  <2> HIDE DEF s, n
  <2> QED  BY <1>1, <2>1, <2>2
<1>4. StrictlyInc(s)
  <2> SUFFICES ASSUME NEW j \in 1..n, NEW k \in 1..n, j < k  PROVE s[j] < s[k]
    BY <1>3 DEF StrictlyInc
  <2>1. s[j] \in Nat /\ s[k] \in Nat
    BY <1>2
  <2>2. Cardinality(Below(S, s[j])) = j - 1 /\ Cardinality(Below(S, s[k])) = k - 1
    BY <1>2
  <2>3. s[k] < s[j] => Cardinality(Below(S, s[k])) < Cardinality(Below(S, s[j]))
    BY <1>2, BelowFacts
  <2>4. s[k] # s[j]
    BY <1>1, <2>2
  <2>5. ~(s[k] < s[j])
    BY <1>1, <2>2, <2>3
  <2> QED  BY <2>1, <2>4, <2>5
<1>5. ASSUME NEW x \in S
      PROVE  Cardinality(Below(S, x)) + 1 \in 1..n /\ s[Cardinality(Below(S, x)) + 1] = x
  <2> DEFINE k == Cardinality(Below(S, x)) + 1
  <2>1. k \in 1..n /\ Cardinality(Below(S, x)) = k - 1
    BY <1>1, BelowFacts
  <2>2. s[k] \in S /\ Cardinality(Below(S, s[k])) = Cardinality(Below(S, x))
    BY <1>2, <2>1
  <2>3. x \in Nat /\ s[k] \in Nat /\ Cardinality(Below(S, x)) \in Nat
    <3>1. Cardinality(Below(S, x)) \in 0..(n - 1)
      BY BelowFacts
    <3>2. Cardinality(Below(S, x)) \in Nat
      BY <1>1, <3>1
    <3> QED  BY <2>2, <3>2
  <2>4. /\ s[k] < x => Cardinality(Below(S, s[k])) < Cardinality(Below(S, x))
        /\ x < s[k] => Cardinality(Below(S, x)) < Cardinality(Below(S, s[k]))
    BY <2>2, BelowFacts
  <2>5. s[k] = x
    <3> HIDE DEF k
    <3> QED  BY <2>2, <2>3, <2>4
  <2> QED  BY <2>1, <2>5
<1>6. ToSet(s) = S
  BY <1>2, <1>3, <1>5 DEF ToSet
<1> HIDE DEF s
<1> QED  BY <1>1, <1>3, <1>4, <1>5, <1>6 DEF s

-----------------------------------------------------------------------------
(***************************************************************************)
(* Sequences of ids.                                                       *)
(***************************************************************************)
LEMMA FirstFacts ==
  ASSUME NEW T, NEW s \in Seq(T), NEW n \in Nat
  PROVE  /\ First(s, n) \in Seq(T)
         /\ Len(First(s, n)) <= n /\ Len(First(s, n)) <= Len(s)
         /\ Len(First(s, n)) < n => Len(First(s, n)) = Len(s)
         /\ \A k \in 1..Len(First(s, n)) : First(s, n)[k] = s[k]
<1> DEFINE m == IF Len(s) < n THEN Len(s) ELSE n
<1>1. m \in Nat /\ m <= n /\ m <= Len(s) /\ (m < n => m = Len(s))
  OBVIOUS
<1> HIDE DEF m
<1>2. SubSeq(s, 1, m) \in Seq(T) /\ Len(SubSeq(s, 1, m)) = m
  BY <1>1
<1>3. \A k \in 1..m : SubSeq(s, 1, m)[k] = s[k]
  BY <1>1
<1>4. First(s, n) = SubSeq(s, 1, m)
  BY DEF First, m
<1> QED  BY <1>1, <1>2, <1>3, <1>4

LEMMA MemberOf ==
  ASSUME NEW T, NEW s \in Seq(T)
  PROVE  /\ ToSet(s) \subseteq T
         /\ \A k \in 1..Len(s) : s[k] \in ToSet(s)
         /\ \A a \in ToSet(s) : \E k \in 1..Len(s) : s[k] = a
  BY DEF ToSet

LEMMA ConcatFacts ==
  ASSUME NEW T, NEW s \in Seq(T), NEW t \in Seq(T)
  PROVE  /\ s \o t \in Seq(T) /\ Len(s \o t) = Len(s) + Len(t)
         /\ \A k \in 1..Len(s) : (s \o t)[k] = s[k]
         /\ \A k \in 1..Len(t) : (s \o t)[Len(s) + k] = t[k]
         /\ \A k \in 1..Len(s \o t) : k \in 1..Len(s) \/ k - Len(s) \in 1..Len(t)
         /\ ToSet(s \o t) = ToSet(s) \cup ToSet(t)
<1>1. s \o t \in Seq(T) /\ Len(s \o t) = Len(s) + Len(t)
  OBVIOUS
<1>2. /\ \A k \in 1..Len(s) : (s \o t)[k] = s[k] /\ k \in 1..Len(s \o t)
      /\ \A k \in 1..Len(t) : (s \o t)[Len(s) + k] = t[k] /\ Len(s) + k \in 1..Len(s \o t)
  OBVIOUS
<1>3. \A k \in 1..Len(s \o t) : k \in 1..Len(s) \/ k - Len(s) \in 1..Len(t)
  BY <1>1
<1>4. ASSUME NEW a \in ToSet(s \o t)  PROVE a \in ToSet(s) \cup ToSet(t)
  <2>1. PICK k \in 1..Len(s \o t) : (s \o t)[k] = a
    BY <1>1, MemberOf
  <2>2. CASE k \in 1..Len(s)
    BY <1>2, <2>1, <2>2, MemberOf
  <2>3. CASE k - Len(s) \in 1..Len(t)
    <3> DEFINE j == k - Len(s)
    <3>1. j \in 1..Len(t) /\ Len(s) + j = k
      BY <1>1, <2>3
    <3> HIDE DEF j
    <3>2. t[j] = a
      BY <1>2, <2>1, <3>1
    <3> QED  BY <3>1, <3>2, MemberOf
  <2> QED  BY <1>3, <2>2, <2>3
<1>5. ASSUME NEW a \in ToSet(s)  PROVE a \in ToSet(s \o t)
  <2>1. PICK k \in 1..Len(s) : s[k] = a
    BY MemberOf
  <2> QED  BY <1>1, <1>2, <2>1, MemberOf
<1>6. ASSUME NEW a \in ToSet(t)  PROVE a \in ToSet(s \o t)
  <2>1. PICK k \in 1..Len(t) : t[k] = a
    BY MemberOf
  <2> QED  BY <1>1, <1>2, <2>1, MemberOf
<1> QED  BY <1>1, <1>2, <1>3, <1>4, <1>5, <1>6

LEMMA ConcatIncreasing ==
  ASSUME NEW s \in Seq(Nat), NEW t \in Seq(Nat), StrictlyInc(s), StrictlyInc(t),
         \A a \in ToSet(s), b \in ToSet(t) : a < b
  PROVE  StrictlyInc(s \o t)
<1>1. /\ s \o t \in Seq(Nat)
      /\ \A k \in 1..Len(s) : (s \o t)[k] = s[k]
      /\ \A k \in 1..Len(s \o t) : k \in 1..Len(s) \/ k - Len(s) \in 1..Len(t)
  BY ConcatFacts
<1>2. ASSUME NEW k \in 1..Len(s \o t), k - Len(s) \in 1..Len(t)
      PROVE  (s \o t)[k] = t[k - Len(s)]
  BY <1>2
<1> SUFFICES ASSUME NEW j \in 1..Len(s \o t), NEW k \in 1..Len(s \o t), j < k
             PROVE  (s \o t)[j] < (s \o t)[k]
  BY <1>1 DEF StrictlyInc
<1>3. CASE j \in 1..Len(s) /\ k \in 1..Len(s)
  BY <1>1, <1>3 DEF StrictlyInc
<1>4. CASE j \in 1..Len(s) /\ k - Len(s) \in 1..Len(t)
  BY <1>1, <1>2, <1>4, MemberOf
<1>5. CASE j - Len(s) \in 1..Len(t) /\ k - Len(s) \in 1..Len(t)
  <2> DEFINE p == j - Len(s)
             q == k - Len(s)
  <2>1. p \in 1..Len(t) /\ q \in 1..Len(t) /\ p < q
    BY <1>5
  <2>2. (s \o t)[j] = t[p] /\ (s \o t)[k] = t[q]
    BY <1>2, <1>5
  <2> HIDE DEF p, q
  <2> QED  BY <2>1, <2>2 DEF StrictlyInc
<1>6. ~(j - Len(s) \in 1..Len(t) /\ k \in 1..Len(s))
  OBVIOUS
<1> QED  BY <1>1, <1>3, <1>4, <1>5, <1>6

LEMMA ConcatInjective ==
  ASSUME NEW T, NEW s \in Seq(T), NEW t \in Seq(T), IsInjective(s), IsInjective(t),
         \A a \in ToSet(t) : a \notin ToSet(s)
  PROVE  IsInjective(s \o t)
<1>1. /\ s \o t \in Seq(T)
      /\ \A k \in 1..Len(s) : (s \o t)[k] = s[k] /\ s[k] \in ToSet(s)
      /\ \A k \in 1..Len(s \o t) : k \in 1..Len(s) \/ k - Len(s) \in 1..Len(t)
  BY ConcatFacts, MemberOf
<1>2. ASSUME NEW k \in 1..Len(s \o t), k - Len(s) \in 1..Len(t)
      PROVE  (s \o t)[k] = t[k - Len(s)] /\ t[k - Len(s)] \in ToSet(t)
  <2>1. (s \o t)[k] = t[k - Len(s)]
    BY <1>2
  <2> QED  BY <1>2, <2>1, MemberOf
<1> SUFFICES ASSUME NEW j \in 1..Len(s \o t), NEW k \in 1..Len(s \o t), (s \o t)[j] = (s \o t)[k]
             PROVE  j = k
  BY <1>1 DEF IsInjective
<1>3. CASE j \in 1..Len(s) /\ k \in 1..Len(s)
  BY <1>1, <1>3 DEF IsInjective
<1>4. CASE j \in 1..Len(s) /\ k - Len(s) \in 1..Len(t)
  BY <1>1, <1>2, <1>4
<1>5. CASE k \in 1..Len(s) /\ j - Len(s) \in 1..Len(t)
  BY <1>1, <1>2, <1>5
<1>6. CASE j - Len(s) \in 1..Len(t) /\ k - Len(s) \in 1..Len(t)
  <2> DEFINE p == j - Len(s)
             q == k - Len(s)
  <2>1. p \in 1..Len(t) /\ q \in 1..Len(t) /\ t[p] = t[q]
    BY <1>2, <1>6
  <2>2. p = q
    <3> HIDE DEF p, q
    <3> QED  BY <2>1 DEF IsInjective
  <2>3. j \in Nat /\ k \in Nat /\ Len(s) \in Nat
    OBVIOUS
  <2> QED  BY <2>2, <2>3
<1> QED  BY <1>1, <1>3, <1>4, <1>5, <1>6

LEMMA IncreasingInjective ==
  ASSUME NEW s \in Seq(Nat), StrictlyInc(s)
  PROVE  IsInjective(s)
<1> SUFFICES ASSUME NEW j \in 1..Len(s), NEW k \in 1..Len(s), s[j] = s[k]
             PROVE  j = k
  BY DEF IsInjective
<1>1. s[j] \in Nat /\ s[k] \in Nat /\ ~(s[j] < s[k]) /\ ~(s[k] < s[j])
  OBVIOUS
<1>2. ~(j < k) /\ ~(k < j)
  BY <1>1 DEF StrictlyInc
<1> QED  BY <1>2

\* The last of an ascending list is the highest of it.
LEMMA LastHighest ==
  ASSUME NEW s \in Seq(Nat), StrictlyInc(s), s # <<>>
  PROVE  Last(s) \in ToSet(s) /\ \A a \in ToSet(s) : a <= Last(s)
<1>1. Len(s) \in 1..Len(s)
  OBVIOUS
<1>2. Last(s) \in ToSet(s) /\ Last(s) \in Nat
  BY <1>1, MemberOf DEF Last
<1>3. ASSUME NEW a \in ToSet(s)  PROVE a <= Last(s)
  <2>1. PICK k \in 1..Len(s) : s[k] = a
    BY MemberOf
  <2>2. k = Len(s) \/ s[k] < s[Len(s)]
    BY <1>1 DEF StrictlyInc
  <2>3. s[k] \in Nat
    OBVIOUS
  <2> QED  BY <1>2, <2>1, <2>2, <2>3 DEF Last
<1> QED  BY <1>2, <1>3

\* A list without duplicates is as long as the set of its entries is large.
LEMMA LengthOfInjective ==
  ASSUME NEW T, NEW s \in Seq(T), IsInjective(s)
  PROVE  IsFiniteSet(ToSet(s)) /\ Cardinality(ToSet(s)) = Len(s)
<1> DEFINE n == Len(s)
<1>1. n \in Nat /\ DOMAIN s = 1..n
  OBVIOUS
<1>2. s \in [1..n -> ToSet(s)]
  <2>1. s \in [1..n -> T]
    OBVIOUS
  <2> QED  BY <1>1, <2>1, MemberOf
<1>3. s \in Surjection(1..n, ToSet(s)) /\ s \in Injection(1..n, ToSet(s))
  BY <1>2, MemberOf DEF Surjection, Injection
<1> HIDE DEF n
<1>4. IsFiniteSet(1..n) /\ Cardinality(1..n) = n
  BY <1>1, FS_Interval
<1>5. IsFiniteSet(ToSet(s)) /\ Cardinality(ToSet(s)) = Cardinality(1..n)
  BY <1>3, <1>4, FS_Surjection
<1> QED  BY <1>4, <1>5 DEF n

LEMMA IntervalFacts ==
  ASSUME NEW n \in Nat, NEW S \in SUBSET (1..n)
  PROVE  /\ S \in SUBSET Nat /\ IsFiniteSet(S) /\ Cardinality(S) \in 0..n
<1>1. IsFiniteSet(1..n) /\ Cardinality(1..n) = n
  BY FS_Interval
<1>2. IsFiniteSet(S) /\ Cardinality(S) <= n /\ Cardinality(S) \in Nat
  BY <1>1, FS_Subset, FS_CardinalityType
<1>3. S \in SUBSET Nat
  OBVIOUS
<1> QED  BY <1>2, <1>3

LEMMA FrontInjective ==
  ASSUME NEW T, NEW s \in Seq(T), NEW t \in Seq(T), IsInjective(s \o t)
  PROVE  IsInjective(s)
<1>1. /\ s \o t \in Seq(T) /\ Len(s \o t) = Len(s) + Len(t)
      /\ \A k \in 1..Len(s) : (s \o t)[k] = s[k]
  BY ConcatFacts
<1>2. Len(s) \in Nat /\ Len(t) \in Nat
  OBVIOUS
<1>3. \A k \in 1..Len(s) : k \in 1..Len(s \o t)
  BY <1>1, <1>2
<1> QED  BY <1>1, <1>3 DEF IsInjective

-----------------------------------------------------------------------------
(***************************************************************************)
(* Pages.                                                                  *)
(***************************************************************************)
\* A page of the ids S: they ascend, none below an id of the page is left
\* out, a short page has all of S, and so has it all ids with fewer than n
\* below them.
LEMMA PageFacts ==
  ASSUME NEW S \in SUBSET Nat, IsFiniteSet(S), NEW n \in Nat
  PROVE  LET page == First(SortedOf(S), n) IN
         /\ page \in Seq(S) /\ page \in Seq(Nat) /\ ToSet(page) \subseteq S
         /\ StrictlyInc(page)
         /\ Len(page) < n => ToSet(page) = S
         /\ \A x \in S : x \notin ToSet(page) => \A y \in ToSet(page) : y < x
         /\ \A x \in S : Cardinality(Below(S, x)) < n => x \in ToSet(page)
<1> DEFINE s == SortedOf(S)
           page == First(s, n)
<1>1. /\ s \in Seq(S) /\ s \in Seq(Nat) /\ StrictlyInc(s) /\ ToSet(s) = S
      /\ Len(s) = Cardinality(S)
      /\ \A x \in S : s[Cardinality(Below(S, x)) + 1] = x
  <2>1. s \in Seq(S)
    BY SortedFacts
  <2>2. s \in Seq(Nat)
    BY <2>1, SeqMonotonic
  <2> QED  BY <2>2, SortedFacts
<1>2. \A x \in S : Cardinality(Below(S, x)) + 1 \in 1..Len(s)
  BY <1>1, BelowFacts
<1> HIDE DEF s
<1>0. \A j, k \in 1..Len(s) : j < k => s[j] < s[k]
  BY <1>1 DEF StrictlyInc
<1>3. /\ page \in Seq(S) /\ page \in Seq(Nat)
      /\ Len(page) <= n /\ Len(page) <= Len(s)
      /\ Len(page) < n => Len(page) = Len(s)
      /\ \A k \in 1..Len(page) : page[k] = s[k]
  BY <1>1, FirstFacts
<1> HIDE DEF page
<1>4. ToSet(page) \subseteq S
  BY <1>3, MemberOf
<1>5. StrictlyInc(page)
  <2>1. \A k \in 1..Len(page) : k \in 1..Len(s)
    BY <1>1, <1>3
  <2>2. \A j, k \in 1..Len(page) : j < k => page[j] < page[k]
    BY <1>3, <1>0, <2>1
  <2> QED  BY <1>3, <2>2 DEF StrictlyInc
<1>6. ASSUME NEW k \in 1..Len(s), k <= Len(page)  PROVE s[k] \in ToSet(page)
  <2>1. k \in 1..Len(page)
    BY <1>3, <1>6
  <2> QED  BY <1>3, <2>1, MemberOf
<1>7. ASSUME Len(page) < n  PROVE ToSet(page) = S
  <2>1. ASSUME NEW x \in S  PROVE x \in ToSet(page)
    <3>1. PICK k \in 1..Len(s) : s[k] = x
      BY <1>1, MemberOf
    <3>2. k <= Len(page)
      BY <1>3, <1>7
    <3> QED  BY <1>6, <3>1, <3>2
  <2> QED  BY <1>4, <2>1
<1>8. ASSUME NEW x \in S, x \notin ToSet(page), NEW y \in ToSet(page)  PROVE y < x
  <2>1. PICK k \in 1..Len(s) : s[k] = x
    BY <1>1, MemberOf
  <2>2. PICK j \in 1..Len(page) : page[j] = y
    BY <1>3, MemberOf
  <2>3. ~(k <= Len(page))
    BY <1>6, <1>8, <2>1
  <2>4. j \in 1..Len(s) /\ j < k
    BY <1>3, <2>3
  <2> QED  BY <1>3, <1>0, <2>1, <2>2, <2>4
<1>9. ASSUME NEW x \in S, Cardinality(Below(S, x)) < n  PROVE x \in ToSet(page)
  <2> DEFINE k == Cardinality(Below(S, x)) + 1
  <2>1. k \in 1..Len(s) /\ s[k] = x
    BY <1>1, <1>2
  <2>2. k <= n
    <3> DEFINE b == Cardinality(Below(S, x))
    <3>1. b + 1 \in 1..Len(s) /\ b < n /\ b \in Nat
      BY <1>2, <1>9, BelowFacts
    <3> HIDE DEF b
    <3>2. b + 1 <= n
      BY <3>1
    <3> QED  BY <3>2 DEF b
  <2> HIDE DEF k
  <2>3. k <= Len(page)
    BY <1>3, <2>1, <2>2
  <2> QED  BY <1>6, <2>1, <2>3
<1> QED  BY <1>3, <1>4, <1>5, <1>7, <1>8, <1>9 DEF page, s

\* A page from a place of a list s.
LEMMA OffsetFacts ==
  ASSUME NEW T, NEW s \in Seq(T), NEW offset \in Nat, NEW n \in Nat
  PROVE  LET page == First(SubSeq(s, offset + 1, Len(s)), n) IN
         /\ page \in Seq(T) /\ Len(page) <= n
         /\ \A k \in 1..Len(page) : offset + k \in 1..Len(s) /\ page[k] = s[offset + k]
         /\ \A k \in 1..Len(s) : offset < k /\ k <= offset + n => s[k] \in ToSet(page)
         /\ Len(page) < n => \A k \in 1..Len(s) : offset < k => s[k] \in ToSet(page)
<1> DEFINE rest == SubSeq(s, offset + 1, Len(s))
           page == First(rest, n)
<1>1. /\ rest \in Seq(T)
      /\ Len(rest) = IF offset < Len(s) THEN Len(s) - offset ELSE 0
  OBVIOUS
<1>2. \A k \in 1..Len(rest) : offset + k \in 1..Len(s) /\ rest[k] = s[offset + k]
  OBVIOUS
<1> HIDE DEF rest
<1>3. /\ page \in Seq(T) /\ Len(page) <= n /\ Len(page) <= Len(rest)
      /\ Len(page) < n => Len(page) = Len(rest)
      /\ \A k \in 1..Len(page) : page[k] = rest[k]
  BY <1>1, FirstFacts
<1> HIDE DEF page
<1>4. \A k \in 1..Len(page) : k \in 1..Len(rest)
  BY <1>1, <1>3
<1>5. ASSUME NEW k \in 1..Len(s), offset < k, k - offset <= Len(page)
      PROVE  s[k] \in ToSet(page)
  <2> DEFINE j == k - offset
  <2>1. j \in 1..Len(page) /\ offset + j = k
    BY <1>3, <1>5
  <2> HIDE DEF j
  <2>2. page[j] = s[k]
    BY <1>2, <1>3, <1>4, <2>1
  <2> QED  BY <1>3, <2>1, <2>2, MemberOf
<1>6. ASSUME NEW k \in 1..Len(s), offset < k, k <= offset + n \/ Len(page) < n
      PROVE  s[k] \in ToSet(page)
  <2>1. offset < Len(s) /\ Len(rest) = Len(s) - offset
    BY <1>1, <1>6
  <2>2. k - offset <= Len(page)
    BY <1>3, <1>6, <2>1
  <2> QED  BY <1>5, <1>6, <2>2
<1> QED  BY <1>2, <1>3, <1>4, <1>6 DEF page, rest

\* A page takes up where what has been returned ends: what is in front of a
\* list and what is left of it.
LEMMA ChunkFacts ==
  ASSUME NEW T, NEW s \in Seq(T), NEW n \in Nat
  PROVE  LET chunk == First(s, n)
             rest == SubSeq(s, Len(chunk) + 1, Len(s)) IN
         /\ chunk \in Seq(T) /\ rest \in Seq(T) /\ chunk \o rest = s
         /\ ToSet(chunk) \subseteq ToSet(s) /\ ToSet(rest) \subseteq ToSet(s)
<1> DEFINE chunk == First(s, n)
           rest == SubSeq(s, Len(chunk) + 1, Len(s))
<1>1. /\ chunk \in Seq(T) /\ Len(chunk) <= Len(s)
      /\ \A k \in 1..Len(chunk) : chunk[k] = s[k]
  BY FirstFacts
<1> HIDE DEF chunk
<1>2. rest \in Seq(T) /\ Len(rest) = Len(s) - Len(chunk)
  BY <1>1
<1>3. \A k \in 1..Len(rest) : rest[k] = s[Len(chunk) + k]
  BY <1>1
<1> HIDE DEF rest
<1>4. chunk \o rest \in Seq(T) /\ Len(chunk \o rest) = Len(s)
  BY <1>1, <1>2
<1>5. ASSUME NEW k \in 1..Len(s)  PROVE (chunk \o rest)[k] = s[k]
  <2>1. CASE k \in 1..Len(chunk)
    BY <1>1, <1>2, <2>1
  <2>2. CASE ~(k \in 1..Len(chunk))
    <3> DEFINE j == k - Len(chunk)
    <3>1. j \in 1..Len(rest) /\ k = Len(chunk) + j
      BY <1>1, <1>2, <2>2
    <3> HIDE DEF j
    <3>2. (chunk \o rest)[Len(chunk) + j] = rest[j]
      BY <1>1, <1>2, <3>1
    <3> QED  BY <1>3, <3>1, <3>2
  <2> QED  BY <2>1, <2>2
<1>6. chunk \o rest = s
  BY <1>4, <1>5, SeqEqual
<1>7. ToSet(s) = ToSet(chunk) \cup ToSet(rest)
  BY <1>1, <1>2, <1>6, ConcatFacts
<1> QED  BY <1>1, <1>2, <1>6, <1>7 DEF chunk, rest

-----------------------------------------------------------------------------
(***************************************************************************)
(* What the transactions of others leave of the list.                      *)
(***************************************************************************)
\* Each entry of t is an entry of s at the same place or behind it, all of s
\* but the entry at k is in t.
LeftOf(s, k, t) ==
  /\ Len(t) = Len(s) - 1
  /\ IsInjective(t)
  /\ \A j \in 1..Len(t) : \E g \in 1..Len(s) : j <= g /\ t[j] = s[g]
  /\ \A a \in ToSet(s) \ {s[k]} : a \in ToSet(t)

LEMMA RemoveAtFacts ==
  ASSUME NEW T, NEW s \in Seq(T), IsInjective(s), NEW k \in 1..Len(s)
  PROVE  /\ RemoveAt(s, k) \in Seq(T)
         /\ LeftOf(s, k, RemoveAt(s, k))
         /\ T \subseteq Nat /\ StrictlyInc(s) => StrictlyInc(RemoveAt(s, k))
<1> DEFINE u == SubSeq(s, 1, k - 1)
           v == SubSeq(s, k + 1, Len(s))
           t == RemoveAt(s, k)
           from(j) == IF j < k THEN j ELSE j + 1
<1>1. /\ u \in Seq(T) /\ Len(u) = k - 1
      /\ v \in Seq(T) /\ Len(v) = Len(s) - k
  OBVIOUS
<1>2. /\ \A j \in 1..(k - 1) : u[j] = s[j]
      /\ \A j \in 1..(Len(s) - k) : v[j] = s[k + j]
  OBVIOUS
<1>3. t = u \o v
  BY DEF RemoveAt
<1> HIDE DEF u, v, t
<1>4. t \in Seq(T) /\ Len(t) = Len(s) - 1
  <2>1. u \o v \in Seq(T) /\ Len(u \o v) = Len(u) + Len(v)
    BY <1>1
  <2> QED  BY <1>1, <1>3, <2>1
<1>5. ASSUME NEW j \in 1..Len(t)
      PROVE  from(j) \in 1..Len(s) /\ j <= from(j) /\ from(j) # k /\ t[j] = s[from(j)]
  <2>1. CASE j < k
    <3>1. j \in 1..Len(u) /\ j \in 1..(k - 1)
      BY <1>1, <2>1
    <3>2. (u \o v)[j] = u[j]
      BY <1>1, <3>1
    <3> QED  BY <1>2, <1>3, <2>1, <3>1, <3>2
  <2>2. CASE ~(j < k)
    <3> DEFINE g == j - (k - 1)
    <3>1. g \in 1..Len(v) /\ g \in 1..(Len(s) - k) /\ Len(u) + g = j /\ k + g = j + 1
      BY <1>1, <1>4, <2>2
    <3> HIDE DEF g
    <3>2. (u \o v)[Len(u) + g] = v[g]
      BY <1>1, <3>1, ConcatFacts
    <3>3. t[j] = s[j + 1]
      BY <1>2, <1>3, <3>1, <3>2
    <3> QED  BY <1>4, <2>2, <3>3
  <2> QED  BY <2>1, <2>2
<1>6. \A i1, i2 \in 1..Len(t) : i1 < i2 => from(i1) < from(i2)
  BY <1>4
<1>7. IsInjective(t)
  <2> SUFFICES ASSUME NEW i1 \in 1..Len(t), NEW i2 \in 1..Len(t), t[i1] = t[i2]  PROVE i1 = i2
    BY <1>4 DEF IsInjective
  <2>1. s[from(i1)] = s[from(i2)] /\ from(i1) \in 1..Len(s) /\ from(i2) \in 1..Len(s)
    BY <1>5
  <2>2. from(i1) = from(i2)
    <3> HIDE DEF from
    <3> QED  BY <2>1 DEF IsInjective
  <2>3. i1 \in Nat /\ i2 \in Nat
    BY <1>4
  <2> QED  BY <2>2, <2>3
<1>8. ASSUME NEW a \in ToSet(s) \ {s[k]}  PROVE a \in ToSet(t)
  <2>1. PICK g \in 1..Len(s) : s[g] = a
    BY MemberOf
  <2> DEFINE j == IF g < k THEN g ELSE g - 1
  <2>2. g # k
    BY <2>1
  <2>3. j \in 1..Len(t) /\ from(j) = g
    BY <1>4, <2>2
  <2> HIDE DEF j, from
  <2>4. t[j] = a
    BY <1>5, <2>1, <2>3
  <2> QED  BY <1>4, <2>3, <2>4, MemberOf
<1>9. ASSUME StrictlyInc(s)  PROVE StrictlyInc(t)
  <2> SUFFICES ASSUME NEW i1 \in 1..Len(t), NEW i2 \in 1..Len(t), i1 < i2  PROVE t[i1] < t[i2]
    BY <1>4 DEF StrictlyInc
  <2>1. /\ t[i1] = s[from(i1)] /\ t[i2] = s[from(i2)] /\ from(i1) < from(i2)
        /\ from(i1) \in 1..Len(s) /\ from(i2) \in 1..Len(s)
    BY <1>5, <1>6
  <2> HIDE DEF from
  <2> QED  BY <1>9, <2>1 DEF StrictlyInc
<1>10. LeftOf(s, k, t)
  BY <1>4, <1>5, <1>7, <1>8 DEF LeftOf
<1> QED  BY <1>4, <1>9, <1>10 DEF t

LEMMA MoveLastFacts ==
  ASSUME NEW T, NEW s \in Seq(T), IsInjective(s), NEW k \in 1..Len(s)
  PROVE  LET t == Front([s EXCEPT ![k] = Last(s)]) IN
         t \in Seq(T) /\ LeftOf(s, k, t)
<1> DEFINE w == [s EXCEPT ![k] = s[Len(s)]]
           t == SubSeq(w, 1, Len(w) - 1)
           from(j) == IF j = k THEN Len(s) ELSE j
<1>1. w \in Seq(T) /\ Len(w) = Len(s) /\ \A j \in 1..Len(s) : w[j] = s[from(j)]
  <2>1. Len(s) \in 1..Len(s)
    OBVIOUS
  <2> QED  BY <2>1, ExceptSeq
<1>2. t = Front([s EXCEPT ![k] = Last(s)])
  BY DEF Front, Last
<1> HIDE DEF w
<1>3. t \in Seq(T) /\ Len(t) = Len(s) - 1
  BY <1>1
<1>4. \A j \in 1..Len(t) : t[j] = w[j] /\ j \in 1..Len(s)
  BY <1>1
<1> HIDE DEF t
<1>5. ASSUME NEW j \in 1..Len(t)
      PROVE  from(j) \in 1..Len(s) /\ j <= from(j) /\ t[j] = s[from(j)]
  <2>1. from(j) \in 1..Len(s) /\ j <= from(j)
    BY <1>3
  <2> QED  BY <1>1, <1>4, <2>1
<1>6. IsInjective(t)
  <2> SUFFICES ASSUME NEW i1 \in 1..Len(t), NEW i2 \in 1..Len(t), t[i1] = t[i2]  PROVE i1 = i2
    BY <1>3 DEF IsInjective
  <2>1. s[from(i1)] = s[from(i2)] /\ from(i1) \in 1..Len(s) /\ from(i2) \in 1..Len(s)
    BY <1>5
  <2>2. from(i1) = from(i2)
    <3> HIDE DEF from
    <3> QED  BY <2>1 DEF IsInjective
  <2>3. i1 \in Nat /\ i2 \in Nat /\ i1 < Len(s) /\ i2 < Len(s)
    BY <1>3
  <2> QED  BY <2>2, <2>3
<1>7. ASSUME NEW a \in ToSet(s) \ {s[k]}  PROVE a \in ToSet(t)
  <2>1. PICK g \in 1..Len(s) : s[g] = a
    BY MemberOf
  <2>2. g # k
    BY <2>1
  <2> DEFINE j == IF g = Len(s) THEN k ELSE g
  <2>3. j \in 1..Len(t) /\ from(j) = g
    BY <1>3, <2>2
  <2> HIDE DEF j, from
  <2>4. t[j] = a
    BY <1>5, <2>1, <2>3
  <2> QED  BY <1>3, <2>3, <2>4, MemberOf
<1>8. LeftOf(s, k, t)
  BY <1>3, <1>5, <1>6, <1>7 DEF LeftOf
<1> QED  BY <1>2, <1>3, <1>8

LEMMA AppendFacts ==
  ASSUME NEW T, NEW s \in Seq(T), NEW e \in T
  PROVE  /\ Append(s, e) \in Seq(T) /\ Len(Append(s, e)) = Len(s) + 1
         /\ \A k \in 1..Len(s) : Append(s, e)[k] = s[k]
         /\ Append(s, e)[Len(s) + 1] = e
         /\ ToSet(Append(s, e)) = ToSet(s) \cup {e}
         /\ IsInjective(s) /\ e \notin ToSet(s) => IsInjective(Append(s, e))
<1> DEFINE t == Append(s, e)
<1>1. t \in Seq(T) /\ Len(t) = Len(s) + 1 /\ t[Len(s) + 1] = e
  OBVIOUS
<1>2. \A k \in 1..Len(s) : t[k] = s[k]
  OBVIOUS
<1> HIDE DEF t
<1>3. \A k \in 1..Len(t) : k \in 1..Len(s) \/ k = Len(s) + 1
  BY <1>1
<1>4. \A k \in 1..Len(s) : k \in 1..Len(t)
  BY <1>1
<1>5. Len(s) + 1 \in 1..Len(t)
  BY <1>1
<1>6. ToSet(t) = ToSet(s) \cup {e}
  <2>1. ASSUME NEW a \in ToSet(t)  PROVE a \in ToSet(s) \cup {e}
    <3>1. PICK k \in 1..Len(t) : t[k] = a
      BY <1>1, MemberOf
    <3> QED  BY <1>1, <1>2, <1>3, <3>1, MemberOf
  <2>2. ASSUME NEW a \in ToSet(s)  PROVE a \in ToSet(t)
    <3>1. PICK k \in 1..Len(s) : s[k] = a
      BY MemberOf
    <3> QED  BY <1>1, <1>2, <1>4, <3>1, MemberOf
  <2>3. e \in ToSet(t)
    BY <1>1, <1>5, MemberOf
  <2> QED  BY <2>1, <2>2, <2>3
<1>7. ASSUME IsInjective(s), e \notin ToSet(s)  PROVE IsInjective(t)
  <2> SUFFICES ASSUME NEW j \in 1..Len(t), NEW k \in 1..Len(t), t[j] = t[k]  PROVE j = k
    BY <1>1 DEF IsInjective
  <2>1. \A g \in 1..Len(s) : s[g] # e
    BY <1>7, MemberOf
  <2>2. \A g, h \in 1..Len(s) : s[g] = s[h] => g = h
    BY <1>7 DEF IsInjective
  <2> QED  BY <1>1, <1>2, <1>3, <2>1, <2>2
<1> QED  BY <1>1, <1>2, <1>6, <1>7 DEF t

-----------------------------------------------------------------------------
(***************************************************************************)
(* The invariant holds at the start, and each action keeps it.             *)
(***************************************************************************)
LEMMA Sizes ==
  /\ MaxStart \in Nat /\ MaxChanges \in Nat
  /\ CHUNK_QUERY \in Nat \ {0} /\ POSITION_TICKS_LIMIT \in Nat \ {0}
  /\ LIQUIDITY_TICKS_LIMIT \in Nat \ {0} /\ Multicall \in Nat \ {0}
  /\ Step \in Nat \ {0} /\ ChunkSize \in Nat \ {0}
  /\ Ids \subseteq Nat /\ \A a \in Ids : 1 <= a
<1>1. /\ MaxStart \in Nat /\ MaxChanges \in Nat
      /\ CHUNK_QUERY \in Nat \ {0} /\ POSITION_TICKS_LIMIT \in Nat \ {0}
      /\ LIQUIDITY_TICKS_LIMIT \in Nat \ {0} /\ Multicall \in Nat \ {0}
  BY PagesAssumption
<1>2. Ids \subseteq Nat /\ \A a \in Ids : 1 <= a
  BY <1>1 DEF Ids
<1> QED  BY <1>1, <1>2 DEF Step, ChunkSize

LEMMA MethodNames ==
  ASSUME method \in Methods
  PROVE  method \in {"getPositions", "getPools", "approveForAll", "getPositionTicks",
                     "tokens", "allTokens", "allPositions", "getAllLiquidityTicks"}
  BY PagesAssumption DEF UntilShort, Counted

LEMMA EmptyList == ToSet(<<>>) = {} /\ IsInjective(<<>>) /\ StrictlyInc(<<>>)
  BY DEF ToSet, IsInjective, StrictlyInc

LEMMA IdsAscending ==
  ASSUME NEW S \in SUBSET Ids
  PROVE  /\ S \in SUBSET Nat /\ IsFiniteSet(S)
         /\ SortedOf(S) \in Seq(Ids) /\ StrictlyInc(SortedOf(S))
         /\ IsInjective(SortedOf(S)) /\ ToSet(SortedOf(S)) = S
<1>1. S \in SUBSET Nat /\ IsFiniteSet(S)
  <2> DEFINE n == MaxStart + MaxChanges
  <2>1. n \in Nat
    BY Sizes
  <2>2. S \in SUBSET (1..n)
    BY DEF Ids
  <2> HIDE DEF n
  <2> QED  BY <2>1, <2>2, IntervalFacts
<1>2. SortedOf(S) \in Seq(S)
  BY <1>1, SortedFacts
<1>3. SortedOf(S) \in Seq(Nat) /\ SortedOf(S) \in Seq(Ids)
  BY <1>1, <1>2, SeqMonotonic
<1>4. StrictlyInc(SortedOf(S)) /\ ToSet(SortedOf(S)) = S
  BY <1>1, SortedFacts
<1> QED  BY <1>1, <1>3, <1>4, IncreasingInjective

LEMMA InitInv == Init => IInv
<1> SUFFICES ASSUME Init  PROVE IInv
  OBVIOUS
<1> USE DEF Init
<1>1. PICK S \in SUBSET (1..MaxStart) : entries = SortedOf(S)
  OBVIOUS
<1>2. S \in SUBSET Ids
  BY Sizes DEF Ids
<1>3. /\ entries \in Seq(Ids) /\ StrictlyInc(entries) /\ IsInjective(entries)
      /\ ToSet(entries) = S
  BY <1>1, <1>2, IdsAscending
<1>4. mine \subseteq Ids /\ (method # "tokens" => mine = Ids)
  OBVIOUS
<1>5. \A a \in S : a <= MaxStart
  BY Sizes
<1> HIDE DEF Init
<1>6. /\ method \in Methods /\ born = MaxStart /\ changes = 0 /\ pc = "start"
      /\ count = 0 /\ i = 0 /\ todo = <<>> /\ result = <<>>
      /\ always = ToSet(entries) /\ removed = FALSE
  BY DEF Init
<1>7. TypeOK /\ count <= MaxStart
  <2>1. born \in MaxStart..(MaxStart + MaxChanges) /\ changes \in 0..MaxChanges
    BY <1>6, Sizes
  <2>2. count \in 0..(MaxStart + MaxChanges) /\ i \in 0..(count + Step) /\ count <= MaxStart
    BY <1>6, Sizes
  <2>3. todo \in Seq(Ids) /\ result \in Seq(Ids)
    BY <1>6
  <2> QED  BY <1>2, <1>3, <1>4, <1>6, <2>1, <2>2, <2>3 DEF TypeOK
<1>8. ListInv
  <2>1. born <= MaxStart + changes
    BY <1>6, Sizes
  <2> QED  BY <1>3, <1>5, <1>6, <2>1 DEF ListInv
<1>9. PcInv
  BY <1>3, <1>5, <1>6 DEF PcInv
<1>10. OffsetInv
  BY <1>6, EmptyList DEF OffsetInv
<1>11. KeyInv /\ OwnerInv /\ CountInv /\ PoolInv
  BY <1>6 DEF KeyInv, OwnerInv, CountInv, PoolInv
<1>12. ChunkInv
  BY <1>6 DEF ChunkInv
<1>13. NoneMissed /\ NoDuplicates /\ FailsOnlyWhenRemoved
  BY <1>6, EmptyList DEF NoneMissed, NoDuplicates, FailsOnlyWhenRemoved
<1> QED  BY <1>4, <1>7, <1>8, <1>9, <1>10, <1>11, <1>12, <1>13 DEF IInv

\* What the steps of a query leave alone, and what is known before each.
LEMMA QueryKeeps ==
  ASSUME IInv, UNCHANGED listVars
  PROVE  /\ method' = method /\ mine' = mine /\ entries' = entries /\ born' = born
         /\ changes' = changes /\ always' = always /\ removed' = removed
         /\ ListInv' /\ Step' = Step
         /\ method' # "tokens" => mine' = Ids
         /\ i \in 0..(count + Step) /\ count \in Nat /\ count <= MaxStart
         /\ TypeOK' <=> /\ todo' \in Seq(Ids) /\ result' \in Seq(Ids)
                        /\ pc' \in {"start", "page", "counted", "chunks", "done", "failed"}
                        /\ count' \in 0..(MaxStart + MaxChanges)
                        /\ i' \in 0..(count' + Step)
<1>1. /\ method' = method /\ mine' = mine /\ entries' = entries /\ born' = born
      /\ changes' = changes /\ always' = always /\ removed' = removed
  BY DEF listVars
<1>2. Step' = Step
  BY <1>1 DEF Step
<1>3. ListInv'
  BY <1>1 DEF IInv, ListInv
<1>4. i \in 0..(count + Step) /\ count \in Nat /\ count <= MaxStart
  BY DEF IInv, TypeOK
<1> QED  BY <1>1, <1>2, <1>3, <1>4 DEF IInv, TypeOK

LEMMA ListFacts ==
  ASSUME IInv
  PROVE  /\ entries \in Seq(Ids) /\ entries \in Seq(Nat)
         /\ result \in Seq(Ids) /\ result \in Seq(Nat)
         /\ todo \in Seq(Ids)
         /\ ToSet(entries) \subseteq Ids /\ ToSet(result) \subseteq Ids
         /\ IsFiniteSet(ToSet(entries)) /\ Cardinality(ToSet(entries)) = Len(entries)
         /\ always \subseteq ToSet(entries) /\ always \subseteq Ids
<1>1. entries \in Seq(Ids) /\ result \in Seq(Ids) /\ todo \in Seq(Ids) /\ IsInjective(entries)
  BY DEF IInv, TypeOK, ListInv
<1>2. entries \in Seq(Nat) /\ result \in Seq(Nat)
  BY <1>1, Sizes, SeqMonotonic
<1>3. ToSet(entries) \subseteq Ids /\ ToSet(result) \subseteq Ids
  BY <1>1, MemberOf
<1>4. IsFiniteSet(ToSet(entries)) /\ Cardinality(ToSet(entries)) = Len(entries)
  BY <1>1, LengthOfInjective
<1>5. always \subseteq ToSet(entries)
  BY DEF IInv, ListInv
<1> QED  BY <1>1, <1>2, <1>3, <1>4, <1>5

LEMMA StartInv == IInv /\ Start => IInv'
<1> SUFFICES ASSUME IInv, Start  PROVE IInv'
  OBVIOUS
<1>1. /\ pc = "start" /\ UNCHANGED listVars /\ i' = i /\ result' = result
      /\ pc' = IF method \in UntilShort THEN "page"
               ELSE IF method \in Counted THEN "counted" ELSE "chunks"
      /\ count' = IF method \in Counted THEN Len(entries) ELSE 0
      /\ todo' = IF method = "getAllLiquidityTicks" THEN entries ELSE <<>>
  BY DEF Start
<1>2. /\ always = ToSet(entries) /\ result = <<>> /\ i = 0 /\ ~removed
      /\ \A a \in ToSet(entries) : a <= MaxStart
  BY <1>1 DEF IInv, PcInv
<1>3. /\ method' = method /\ mine' = mine /\ entries' = entries /\ born' = born
      /\ always' = always /\ removed' = removed
      /\ result' = <<>> /\ i' = 0
  BY <1>1, <1>2, QueryKeeps
<1>4. /\ entries \in Seq(Ids) /\ ToSet(entries) \subseteq Ids
      /\ IsInjective(entries) /\ method \in Methods
      /\ Cardinality(ToSet(entries)) = Len(entries)
  BY ListFacts DEF IInv, ListInv, TypeOK
<1>5. ToSet(entries) \in SUBSET (1..MaxStart)
  <2>1. \A a \in ToSet(entries) : a \in Nat /\ 1 <= a /\ a <= MaxStart
    BY <1>2, <1>4, Sizes
  <2> QED  BY <2>1, Sizes
<1>6. Len(entries) \in 0..MaxStart
  BY <1>4, <1>5, Sizes, IntervalFacts
<1>7. TypeOK' /\ count' <= MaxStart
  <2>1. count' \in 0..(MaxStart + MaxChanges) /\ count' <= MaxStart /\ i' \in 0..(count' + Step)
    BY <1>1, <1>3, <1>6, Sizes
  <2>2. todo' \in Seq(Ids) /\ result' \in Seq(Ids)
    BY <1>1, <1>3, <1>4
  <2>3. pc' \in {"start", "page", "counted", "chunks", "done", "failed"}
    BY <1>1
  <2> QED  BY <1>1, <2>1, <2>2, <2>3, QueryKeeps
<1>8. PcInv'
  BY <1>1, <1>3, <1>4, MethodNames DEF PcInv, UntilShort, Counted, Chunked
<1>9. OffsetInv'
  <2>1. ASSUME method' = "getPositionTicks", pc' = "counted"
        PROVE  /\ count' = Len(entries)
               /\ \A a \in always : \E k \in 1..count' : entries[k] = a
    <3>1. count' = Len(entries)
      BY <1>1, <1>3, <2>1 DEF Counted
    <3> QED  BY <1>2, <1>4, <3>1, MemberOf
  <2>2. /\ ToSet(result') = {} /\ Len(result') = 0 /\ i' = 0
    BY <1>3, EmptyList
  <2>3. /\ Len(result') <= Len(entries)
        /\ \A k \in 1..Len(result') : entries[k] \in ToSet(result')
        /\ \A k \in 1..count' : ~(k <= i')
    BY <1>6, <2>2
  <2>4. count' = Len(entries) => count' <= Len(entries)
    BY <1>6
  <2> QED  BY <1>3, <2>1, <2>2, <2>3, <2>4 DEF OffsetInv
<1>10. \A a \in always : ~(a <= 0)
  <2>1. \A a \in always : a \in Nat /\ 1 <= a
    BY <1>2, <1>4, Sizes
  <2> QED  BY <2>1
<1>11. KeyInv'
  BY <1>3, <1>10, EmptyList DEF KeyInv, LastKey
<1>12. OwnerInv' /\ CountInv'
  <2>1. OwnerInv'
    BY <1>3, <1>10 DEF OwnerInv
  <2>2. CountInv'
    BY <1>1, <1>2, <1>3, <1>4 DEF CountInv, Counted
  <2> QED  BY <2>1, <2>2
<1>13. PoolInv'
  <2> SUFFICES ASSUME method \in {"allTokens", "allPositions"}  PROVE PoolInv'
    BY <1>3 DEF PoolInv
  <2> DEFINE pool == ToSet(entries)
  <2>1. /\ Cardinality(pool) = count' /\ always' \subseteq pool
        /\ OldIn(entries', pool) /\ OldIn(result', pool)
    BY <1>1, <1>2, <1>3, <1>4, EmptyList DEF OldIn, Counted
  <2> QED  BY <1>5, <2>1 DEF PoolInv
<1>14. ChunkInv'
  <2>1. pc' = "chunks" => todo' = entries
    BY <1>1, <1>4, MethodNames DEF UntilShort, Counted
  <2>2. <<>> \o entries = entries
    BY <1>4
  <2> QED  BY <1>2, <1>3, <1>4, <2>1, <2>2, EmptyList DEF ChunkInv
<1>15. NoneMissed' /\ NoDuplicates' /\ FailsOnlyWhenRemoved'
  BY <1>1, <1>3, EmptyList DEF NoneMissed, NoDuplicates, FailsOnlyWhenRemoved
<1>16. ListInv' /\ (method' # "tokens" => mine' = Ids)
  BY <1>1, QueryKeeps
<1> QED  BY <1>7, <1>8, <1>9, <1>11, <1>12, <1>13, <1>14, <1>15, <1>16 DEF IInv

-----------------------------------------------------------------------------
(***************************************************************************)
(* The next page after the last key.                                       *)
(***************************************************************************)
LEMMA KeyStep ==
  ASSUME IInv, method \in ByKey, pc \in {"page", "counted"}
  PROVE  LET page == PageAfter(LastKey, CHUNK_QUERY)
             next == result \o page
             lastKey == IF next = <<>> THEN 0 ELSE Last(next) IN
         /\ next \in Seq(Ids) /\ StrictlyInc(next) /\ IsInjective(next)
         /\ ToSet(next) = ToSet(result) \cup ToSet(page)
         /\ ToSet(page) \subseteq ToSet(entries)
         /\ \A a \in always : a <= lastKey => a \in ToSet(next)
         /\ Len(page) < CHUNK_QUERY => always \subseteq ToSet(next)
<1> DEFINE S == {id \in ToSet(entries) : id > LastKey}
           page == First(SortedOf(S), CHUNK_QUERY)
           next == result \o page
           lastKey == IF next = <<>> THEN 0 ELSE Last(next)
<1>1. page = PageAfter(LastKey, CHUNK_QUERY)
  BY DEF PageAfter
<1>2. StrictlyInc(result) /\ \A a \in always : a <= LastKey => a \in ToSet(result)
  BY DEF IInv, KeyInv
<1>3. /\ result \in Seq(Ids) /\ result \in Seq(Nat) /\ ToSet(entries) \subseteq Ids
      /\ always \subseteq ToSet(entries) /\ ToSet(result) \subseteq Ids
  BY ListFacts
<1>4. LastKey \in Nat /\ \A a \in ToSet(result) : a <= LastKey
  <2>1. CASE result = <<>>
    BY <2>1, EmptyList DEF LastKey
  <2>2. CASE result # <<>>
    <3>1. Last(result) \in ToSet(result) /\ \A a \in ToSet(result) : a <= Last(result)
      BY <1>2, <1>3, <2>2, LastHighest
    <3> QED  BY <1>3, <2>2, <3>1, Sizes DEF LastKey
  <2> QED  BY <2>1, <2>2
<1>5. S \in SUBSET Ids /\ S \in SUBSET Nat /\ IsFiniteSet(S)
  <2>1. S \in SUBSET Ids
    BY <1>3
  <2> HIDE DEF S
  <2> QED  BY <2>1, IdsAscending
<1>6. \A a \in S : LastKey < a
  BY <1>4, <1>5
<1>7. \A a \in always : a \notin ToSet(result) => a \in S
  <2> SUFFICES ASSUME NEW a \in always, a \notin ToSet(result)  PROVE a \in S
    OBVIOUS
  <2>1. a \in Nat /\ ~(a <= LastKey)
    BY <1>2, <1>3, Sizes
  <2> QED  BY <1>3, <1>4, <2>1
<1> HIDE DEF S
<1>8. CHUNK_QUERY \in Nat
  BY Sizes
<1>9. /\ page \in Seq(S) /\ page \in Seq(Nat) /\ ToSet(page) \subseteq S
      /\ StrictlyInc(page)
      /\ Len(page) < CHUNK_QUERY => ToSet(page) = S
      /\ \A x \in S : x \notin ToSet(page) => \A y \in ToSet(page) : y < x
  BY <1>5, <1>8, PageFacts
<1> HIDE DEF page
<1>10. page \in Seq(Ids)
  BY <1>5, <1>9, SeqMonotonic
<1>11. \A a \in ToSet(result), b \in ToSet(page) : a < b
  <2> SUFFICES ASSUME NEW a \in ToSet(result), NEW b \in ToSet(page)  PROVE a < b
    OBVIOUS
  <2>1. a \in Nat /\ a <= LastKey
    BY <1>3, <1>4, Sizes
  <2>2. b \in Nat /\ LastKey < b
    BY <1>5, <1>6, <1>9
  <2> QED  BY <1>4, <2>1, <2>2
<1>12. /\ next \in Seq(Ids) /\ next \in Seq(Nat)
       /\ Len(next) = Len(result) + Len(page)
       /\ \A k \in 1..Len(page) : next[Len(result) + k] = page[k]
       /\ ToSet(next) = ToSet(result) \cup ToSet(page)
  BY <1>3, <1>9, <1>10, ConcatFacts
<1>13. StrictlyInc(next)
  BY <1>2, <1>3, <1>9, <1>11, ConcatIncreasing
<1>14. IsInjective(next)
  BY <1>12, <1>13, IncreasingInjective
<1>15. ASSUME NEW a \in always, a \notin ToSet(next)  PROVE ~(a <= lastKey)
  <2>1. a \in S /\ a \notin ToSet(page) /\ a \in Nat /\ 1 <= a
    BY <1>3, <1>7, <1>12, <1>15, Sizes
  <2>2. CASE page = <<>>
    <3>1. next = result
      BY <1>3, <2>2
    <3>2. lastKey = LastKey
      BY <3>1 DEF LastKey
    <3> QED  BY <1>4, <1>6, <2>1, <3>2
  <2>3. CASE page # <<>>
    <3>1. Last(page) \in ToSet(page)
      BY <1>9, <2>3, LastHighest
    <3>2. Len(page) \in 1..Len(page) /\ Len(result) \in Nat /\ Len(page) \in Nat
      BY <1>3, <1>9, <2>3
    <3>3. next # <<>> /\ Last(next) = Last(page)
      BY <1>12, <3>2 DEF Last
    <3>4. Last(page) < a /\ Last(page) \in Nat
      BY <1>5, <1>9, <2>1, <3>1
    <3> QED  BY <2>1, <3>3, <3>4
  <2> QED  BY <2>2, <2>3
<1>16. Len(page) < CHUNK_QUERY => always \subseteq ToSet(next)
  BY <1>7, <1>9, <1>12
<1>17. ToSet(page) \subseteq ToSet(entries)
  BY <1>9 DEF S
<1> HIDE DEF next
<1>18. \A a \in always : a <= lastKey => a \in ToSet(next)
  BY <1>15
<1> QED  BY <1>1, <1>12, <1>13, <1>14, <1>16, <1>17, <1>18 DEF next

LEMMA QueryPageInv == IInv /\ QueryPage => IInv'
<1> SUFFICES ASSUME IInv, QueryPage  PROVE IInv'
  OBVIOUS
<1> DEFINE page == NextPage
           next == result \o page
<1>1. /\ pc = "page" /\ UNCHANGED listVars /\ result' = next
      /\ pc' = IF Len(page) < CHUNK_QUERY THEN "done" ELSE "page"
      /\ count' = count /\ i' = i /\ todo' = todo
  BY DEF QueryPage
<1>2. /\ method' = method /\ mine' = mine /\ entries' = entries /\ born' = born
      /\ always' = always /\ removed' = removed
      /\ ListInv' /\ (method' # "tokens" => mine' = Ids)
  BY <1>1, QueryKeeps
<1>3. method \in UntilShort /\ method \notin {"tokens", "getPositionTicks", "allTokens", "allPositions"}
  BY <1>1 DEF IInv, PcInv, UntilShort
<1>4. /\ entries \in Seq(Ids) /\ result \in Seq(Ids) /\ todo \in Seq(Ids)
      /\ always \subseteq ToSet(entries) /\ IsInjective(entries) /\ IsInjective(result)
  BY <1>3, ListFacts DEF IInv, ListInv, NoDuplicates
<1>5. CHUNK_QUERY \in Nat /\ Len(result) \in Nat
  BY <1>4, Sizes
\* By offset.
<1>6. ASSUME method = "getPositions"
      PROVE  /\ next \in Seq(Ids) /\ IsInjective(next) /\ OffsetInv'
             /\ Len(page) < CHUNK_QUERY /\ ~removed => always \subseteq ToSet(next)
  <2>1. page = First(SubSeq(entries, Len(result) + 1, Len(entries)), CHUNK_QUERY)
    BY <1>6 DEF NextPage, PageFrom
  <2> HIDE DEF page
  <2>2. /\ page \in Seq(Ids)
        /\ \A k \in 1..Len(page) : Len(result) + k \in 1..Len(entries)
                                   /\ page[k] = entries[Len(result) + k]
        /\ Len(page) < CHUNK_QUERY =>
             \A k \in 1..Len(entries) : Len(result) < k => entries[k] \in ToSet(page)
    BY <1>4, <1>5, <2>1, OffsetFacts
  <2>3. /\ \A k \in 1..Len(entries) : k > Len(result) => entries[k] \notin ToSet(result)
        /\ \A a \in ToSet(result) : a <= born
        /\ \A a \in ToSet(entries) : a <= born
        /\ ~removed => /\ Len(result) <= Len(entries)
                       /\ \A k \in 1..Len(result) : entries[k] \in ToSet(result)
    BY <1>1, <1>4, <1>6 DEF IInv, OffsetInv, ListInv, ByOffset, ReadTo
  <2>4. /\ next \in Seq(Ids) /\ Len(next) = Len(result) + Len(page)
        /\ ToSet(next) = ToSet(result) \cup ToSet(page)
    BY <1>4, <2>2, ConcatFacts
  <2>5. \A a \in ToSet(page) : \E k \in 1..Len(page) : a = entries[Len(result) + k]
    BY <2>2, MemberOf
  <2>6. \A g, h \in 1..Len(entries) : entries[g] = entries[h] => g = h
    BY <1>4 DEF IsInjective
  <2>7. IsInjective(page)
    <3> SUFFICES ASSUME NEW j \in 1..Len(page), NEW k \in 1..Len(page), page[j] = page[k]
                 PROVE  j = k
      BY <2>2 DEF IsInjective
    <3>1. Len(result) + j = Len(result) + k
      BY <2>2, <2>6
    <3> QED  BY <1>5, <3>1
  <2>8. \A a \in ToSet(page) : a \notin ToSet(result) /\ a \in ToSet(entries)
    <3> SUFFICES ASSUME NEW a \in ToSet(page)  PROVE a \notin ToSet(result) /\ a \in ToSet(entries)
      OBVIOUS
    <3>1. PICK k \in 1..Len(page) : a = entries[Len(result) + k]
      BY <2>5
    <3>2. Len(result) + k \in 1..Len(entries) /\ Len(result) + k > Len(result)
      BY <1>5, <2>2
    <3> QED  BY <1>4, <2>3, <3>1, <3>2, MemberOf
  <2>9. IsInjective(next)
    BY <1>4, <2>2, <2>7, <2>8, ConcatInjective
  <2>10. ASSUME NEW k \in 1..Len(entries), k > Len(next)  PROVE entries[k] \notin ToSet(next)
    <3>1. k > Len(result)
      BY <1>5, <2>2, <2>4, <2>10
    <3>2. ASSUME entries[k] \in ToSet(page)  PROVE FALSE
      <4>1. PICK j \in 1..Len(page) : entries[k] = entries[Len(result) + j]
        BY <2>5, <3>2
      <4>2. k = Len(result) + j
        BY <2>2, <2>6, <4>1
      <4> QED  BY <1>5, <2>4, <2>10, <4>2
    <3> QED  BY <2>3, <2>4, <3>1, <3>2
  <2>11. \A a \in ToSet(next) : a <= born
    BY <2>3, <2>4, <2>8
  <2>12. ASSUME ~removed
         PROVE  /\ Len(next) <= Len(entries)
                /\ \A k \in 1..Len(next) : entries[k] \in ToSet(next)
    <3>1. Len(next) <= Len(entries)
      <4>1. Len(page) = 0 \/ Len(page) \in 1..Len(page)
        BY <2>2
      <4>2. Len(page) \in 1..Len(page) => Len(result) + Len(page) <= Len(entries)
        BY <2>2
      <4> QED  BY <1>4, <1>5, <2>3, <2>4, <2>12, <4>1, <4>2
    <3>2. ASSUME NEW k \in 1..Len(next)  PROVE entries[k] \in ToSet(next)
      <4>1. CASE k \in 1..Len(result)
        BY <2>3, <2>4, <2>12, <4>1
      <4>2. CASE ~(k \in 1..Len(result))
        <5> DEFINE j == k - Len(result)
        <5>1. j \in 1..Len(page) /\ Len(result) + j = k
          BY <1>5, <2>2, <2>4, <4>2
        <5> HIDE DEF j
        <5>2. page[j] = entries[k]
          BY <2>2, <5>1
        <5> QED  BY <2>2, <2>4, <5>1, <5>2, MemberOf
      <4> QED  BY <4>1, <4>2
    <3> QED  BY <3>1, <3>2
  <2>13. OffsetInv'
    <3> HIDE DEF next
    <3>1. DOMAIN entries = 1..Len(entries)
      BY <1>4
    <3>2. method' # "getPositionTicks"
      BY <1>2, <1>6
    <3> QED  BY <1>1, <1>2, <1>6, <2>10, <2>11, <2>12, <3>1, <3>2 DEF OffsetInv, ReadTo
  <2>14. ASSUME Len(page) < CHUNK_QUERY, ~removed  PROVE always \subseteq ToSet(next)
    <3> SUFFICES ASSUME NEW a \in ToSet(entries)  PROVE a \in ToSet(next)
      BY <1>4
    <3>1. PICK k \in 1..Len(entries) : entries[k] = a
      BY <1>4, MemberOf
    <3>2. k \in 1..Len(result) \/ Len(result) < k
      BY <1>5
    <3> QED  BY <2>2, <2>3, <2>4, <2>14, <3>1, <3>2
  <2> QED  BY <2>4, <2>9, <2>13, <2>14
\* By key.
<1>7. ASSUME method # "getPositions"
      PROVE  /\ next \in Seq(Ids) /\ IsInjective(next) /\ OffsetInv' /\ KeyInv'
             /\ Len(page) < CHUNK_QUERY => always \subseteq ToSet(next)
  <2>1. method \in ByKey /\ page = PageAfter(LastKey, CHUNK_QUERY) /\ method \notin ByOffset
    BY <1>3, <1>7 DEF NextPage, ByKey, UntilShort, ByOffset
  <2> DEFINE lastKey == IF next = <<>> THEN 0 ELSE Last(next)
  <2>2. /\ next \in Seq(Ids) /\ StrictlyInc(next) /\ IsInjective(next)
        /\ \A a \in always : a <= lastKey => a \in ToSet(next)
        /\ Len(page) < CHUNK_QUERY => always \subseteq ToSet(next)
    BY <1>1, <2>1, KeyStep
  <2> HIDE DEF page, next
  <2>3. LastKey' = lastKey
    BY <1>1 DEF LastKey
  <2>4. KeyInv'
    BY <1>1, <1>2, <2>2, <2>3 DEF KeyInv
  <2>5. OffsetInv'
    BY <1>2, <2>1 DEF OffsetInv
  <2> QED  BY <2>2, <2>4, <2>5
<1> HIDE DEF page, next
<1>8. /\ next \in Seq(Ids) /\ IsInjective(next) /\ OffsetInv'
      /\ Len(page) < CHUNK_QUERY /\ (method = "getPositions" => ~removed) =>
           always \subseteq ToSet(next)
  BY <1>6, <1>7
<1>9. KeyInv'
  BY <1>2, <1>7 DEF KeyInv, ByKey
<1>10. TypeOK' /\ count' <= MaxStart
  <2>1. pc' \in {"start", "page", "counted", "chunks", "done", "failed"}
    BY <1>1
  <2>2. count' \in 0..(MaxStart + MaxChanges) /\ i' \in 0..(count' + Step) /\ count' <= MaxStart
    BY <1>1, QueryKeeps DEF IInv, TypeOK
  <2> QED  BY <1>1, <1>4, <1>8, <2>1, <2>2, QueryKeeps
<1>11. PcInv'
  BY <1>1, <1>2, <1>3 DEF PcInv
<1>12. OwnerInv' /\ CountInv' /\ PoolInv' /\ ChunkInv'
  BY <1>1, <1>2, <1>3 DEF OwnerInv, CountInv, PoolInv, ChunkInv, Nfts
<1>13. NoneMissed'
  <2> SUFFICES ASSUME pc' = "done", method \in ByOffset => ~removed
               PROVE  always \cap mine \subseteq ToSet(next)
    BY <1>1, <1>2 DEF NoneMissed
  <2> QED  BY <1>1, <1>8 DEF ByOffset
<1>14. NoDuplicates' /\ FailsOnlyWhenRemoved'
  BY <1>1, <1>8 DEF NoDuplicates, FailsOnlyWhenRemoved
<1> QED  BY <1>2, <1>8, <1>9, <1>10, <1>11, <1>12, <1>13, <1>14 DEF IInv

\* tokens: a page after i has every id of the owner from i + 1 to i + n, as
\* there are at most n of them.
LEMMA OwnerStep ==
  ASSUME IInv, method = "tokens"
  PROVE  LET page == First(SortedOf({id \in ToSet(entries) : id > i /\ id \in mine}), CHUNK_QUERY) IN
         /\ page \in Seq(Ids)
         /\ \A a \in always \cap mine : i < a /\ a <= i + CHUNK_QUERY => a \in ToSet(page)
<1> DEFINE S == {id \in ToSet(entries) : id > i /\ id \in mine}
           page == First(SortedOf(S), CHUNK_QUERY)
<1>1. ToSet(entries) \subseteq Ids /\ always \subseteq ToSet(entries) /\ i \in Nat
  <2>1. i \in 0..(count + Step) /\ count \in Nat
    BY DEF IInv, TypeOK
  <2> QED  BY <2>1, ListFacts, Sizes
<1>2. S \in SUBSET Ids /\ S \in SUBSET Nat /\ IsFiniteSet(S)
  <2>1. S \in SUBSET Ids
    BY <1>1
  <2> HIDE DEF S
  <2> QED  BY <2>1, IdsAscending
<1>3. \A x \in S : i < x
  <2>1. \A x \in S : x > i /\ x \in Nat
    BY <1>2
  <2> QED  BY <1>1, <2>1
<1>4. ASSUME NEW a \in always \cap mine, i < a  PROVE a \in S
  BY <1>1, <1>4, Sizes
<1> HIDE DEF S
<1>5. CHUNK_QUERY \in Nat
  BY Sizes
<1>6. /\ page \in Seq(S)
      /\ \A x \in S : Cardinality(Below(S, x)) < CHUNK_QUERY => x \in ToSet(page)
  BY <1>2, <1>5, PageFacts
<1>7. page \in Seq(Ids)
  BY <1>2, <1>6, SeqMonotonic
<1>8. ASSUME NEW a \in always \cap mine, i < a, a <= i + CHUNK_QUERY  PROVE a \in ToSet(page)
  <2>1. a \in S /\ a \in Nat
    BY <1>2, <1>4, <1>8
  <2>2. Below(S, a) \in SUBSET ((i + 1)..(a - 1))
    <3>1. ASSUME NEW x \in S, x < a  PROVE x \in (i + 1)..(a - 1)
      <4>1. x \in Nat /\ i < x
        BY <1>2, <1>3
      <4> QED  BY <1>1, <2>1, <3>1, <4>1
    <3> QED  BY <3>1 DEF Below
  <2>3. /\ IsFiniteSet((i + 1)..(a - 1))
        /\ Cardinality((i + 1)..(a - 1)) = IF i + 1 > a - 1 THEN 0 ELSE (a - 1) - (i + 1) + 1
    BY <1>1, <2>1, FS_Interval
  <2>4. Cardinality((i + 1)..(a - 1)) = a - 1 - i
    BY <1>1, <1>8, <2>1, <2>3
  <2>5. /\ Cardinality(Below(S, a)) <= Cardinality((i + 1)..(a - 1))
        /\ IsFiniteSet(Below(S, a))
    BY <2>2, <2>3, FS_Subset
  <2>6. Cardinality(Below(S, a)) \in Nat
    BY <2>5, FS_CardinalityType
  <2>7. Cardinality(Below(S, a)) < CHUNK_QUERY
    BY <1>1, <1>5, <1>8, <2>1, <2>4, <2>5, <2>6
  <2> QED  BY <1>6, <2>1, <2>7
<1> QED  BY <1>7, <1>8 DEF S

LEMMA QueryFromInv == IInv /\ QueryFrom => IInv'
<1> SUFFICES ASSUME IInv, QueryFrom  PROVE IInv'
  OBVIOUS
<1> DEFINE page ==
             IF method = "tokens"
             THEN First(SortedOf({id \in ToSet(entries) : id > i /\ id \in mine}), CHUNK_QUERY)
             ELSE PageFrom(i, POSITION_TICKS_LIMIT)
           next == result \o page
<1>1. /\ pc = "counted" /\ method \in {"getPositionTicks", "tokens"} /\ i < count
      /\ UNCHANGED listVars /\ result' = next /\ i' = i + Step
      /\ pc' = pc /\ count' = count /\ todo' = todo
  BY DEF QueryFrom
<1>2. /\ method' = method /\ mine' = mine /\ entries' = entries /\ born' = born
      /\ always' = always /\ removed' = removed
      /\ ListInv' /\ (method' # "tokens" => mine' = Ids)
  BY <1>1, QueryKeeps
<1>3. /\ entries \in Seq(Ids) /\ result \in Seq(Ids) /\ todo \in Seq(Ids)
      /\ always \subseteq ToSet(entries) /\ always \subseteq Ids /\ IsInjective(entries)
  BY ListFacts DEF IInv, ListInv
<1>4. i \in Nat /\ count \in Nat /\ count <= MaxStart /\ Step \in Nat
  <2>1. i \in 0..(count + Step) /\ count \in Nat /\ count <= MaxStart
    BY DEF IInv, TypeOK
  <2> QED  BY <2>1, Sizes
<1>5. ASSUME method = "tokens"
      PROVE  next \in Seq(Ids) /\ OwnerInv'
  <2>1. /\ page \in Seq(Ids)
        /\ \A a \in always \cap mine : i < a /\ a <= i + CHUNK_QUERY => a \in ToSet(page)
    BY <1>5, OwnerStep
  <2> HIDE DEF page
  <2>2. next \in Seq(Ids) /\ ToSet(next) = ToSet(result) \cup ToSet(page)
    BY <1>3, <2>1, ConcatFacts
  <2>3. \A a \in always \cap mine : a <= i => a \in ToSet(result)
    BY <1>1, <1>5 DEF IInv, OwnerInv
  <2>4. i' = i + CHUNK_QUERY
    BY <1>1, <1>5 DEF Step
  <2> HIDE DEF next
  <2>5. ASSUME NEW a \in always \cap mine, a <= i'  PROVE a \in ToSet(next)
    <3>1. a \in Nat
      BY <1>3, Sizes
    <3>2. a <= i \/ i < a
      BY <1>4, <3>1
    <3> QED  BY <2>1, <2>2, <2>3, <2>4, <2>5, <3>2
  <2> QED  BY <1>1, <1>2, <2>2, <2>3, <2>5 DEF OwnerInv
<1>6. ASSUME method = "getPositionTicks"
      PROVE  next \in Seq(Ids) /\ IsInjective(next) /\ OffsetInv'
  <2>1. page = First(SubSeq(entries, i + 1, Len(entries)), POSITION_TICKS_LIMIT)
    BY <1>6 DEF PageFrom
  <2>2. POSITION_TICKS_LIMIT \in Nat /\ i' = i + POSITION_TICKS_LIMIT
    BY <1>1, <1>6, Sizes DEF Step
  <2> HIDE DEF page
  <2>3. /\ page \in Seq(Ids) /\ Len(page) <= POSITION_TICKS_LIMIT
        /\ \A k \in 1..Len(page) : i + k \in 1..Len(entries) /\ page[k] = entries[i + k]
        /\ \A k \in 1..Len(entries) :
             i < k /\ k <= i + POSITION_TICKS_LIMIT => entries[k] \in ToSet(page)
    <3>1. entries \in Seq(Ids) /\ i \in Nat /\ POSITION_TICKS_LIMIT \in Nat
      BY <1>3, <1>4, <2>2
    <3> QED  BY <2>1, <3>1, OffsetFacts
  <2>4. /\ \A k \in 1..Len(entries) : k > i => entries[k] \notin ToSet(result)
        /\ \A a \in ToSet(result) : a <= born
        /\ \A a \in ToSet(entries) : a <= born
        /\ ~removed => /\ count <= Len(entries)
                       /\ \A k \in 1..count : k <= i => entries[k] \in ToSet(result)
                       /\ \A a \in always : \E k \in 1..count : entries[k] = a
    BY <1>1, <1>3, <1>6 DEF IInv, OffsetInv, ListInv, ByOffset, ReadTo
  <2>5. next \in Seq(Ids) /\ ToSet(next) = ToSet(result) \cup ToSet(page)
    BY <1>3, <2>3, ConcatFacts
  <2>6. \A a \in ToSet(page) : \E k \in 1..Len(page) : a = entries[i + k]
    BY <2>3, MemberOf
  <2>7. \A g, h \in 1..Len(entries) : entries[g] = entries[h] => g = h
    BY <1>3 DEF IsInjective
  <2>8. IsInjective(page)
    <3> SUFFICES ASSUME NEW j \in 1..Len(page), NEW k \in 1..Len(page), page[j] = page[k]
                 PROVE  j = k
      BY <2>3 DEF IsInjective
    <3>1. i + j = i + k
      BY <2>3, <2>7
    <3> QED  BY <1>4, <3>1
  <2>9. \A a \in ToSet(page) : a \notin ToSet(result) /\ a \in ToSet(entries)
    <3> SUFFICES ASSUME NEW a \in ToSet(page)  PROVE a \notin ToSet(result) /\ a \in ToSet(entries)
      OBVIOUS
    <3>1. PICK k \in 1..Len(page) : a = entries[i + k]
      BY <2>6
    <3>2. i + k \in 1..Len(entries) /\ i + k > i
      BY <1>4, <2>3
    <3> QED  BY <1>3, <2>4, <3>1, <3>2, MemberOf
  <2>10. IsInjective(result)
    BY <1>6 DEF IInv, NoDuplicates
  <2>11. IsInjective(next)
    BY <1>3, <2>3, <2>8, <2>9, <2>10, ConcatInjective
  <2>12. ASSUME NEW k \in 1..Len(entries), k > i'  PROVE entries[k] \notin ToSet(next)
    <3>1. k > i
      BY <1>4, <2>2, <2>12
    <3>2. ASSUME entries[k] \in ToSet(page)  PROVE FALSE
      <4>1. PICK j \in 1..Len(page) : entries[k] = entries[i + j]
        BY <2>6, <3>2
      <4>2. k = i + j
        BY <2>3, <2>7, <4>1
      <4>3. j <= POSITION_TICKS_LIMIT /\ j \in Nat
        BY <2>2, <2>3
      <4> QED  BY <1>4, <2>2, <2>12, <4>2, <4>3
    <3> QED  BY <2>4, <2>5, <3>1, <3>2
  <2>13. ASSUME ~removed, NEW k \in 1..count, k <= i'  PROVE entries[k] \in ToSet(next)
    <3>1. k \in 1..Len(entries) /\ (k <= i \/ i < k)
      BY <1>3, <1>4, <2>4, <2>13
    <3> QED  BY <2>2, <2>3, <2>4, <2>5, <2>13, <3>1
  <2>14. \A a \in ToSet(next) : a <= born
    BY <2>4, <2>5, <2>9
  <2>15. OffsetInv'
    <3> HIDE DEF next
    <3>1. DOMAIN entries = 1..Len(entries)
      BY <1>3
    <3>2. method' # "getPositions"
      BY <1>2, <1>6
    <3> QED  BY <1>1, <1>2, <2>4, <2>12, <2>13, <2>14, <3>1, <3>2 DEF OffsetInv, ReadTo
  <2> QED  BY <2>5, <2>11, <2>15
<1> HIDE DEF page, next
<1>7. next \in Seq(Ids) /\ (method # "tokens" => IsInjective(next))
  BY <1>1, <1>5, <1>6
<1>8. OffsetInv'
  BY <1>1, <1>2, <1>6 DEF OffsetInv, ByOffset
<1>9. OwnerInv'
  BY <1>1, <1>2, <1>5 DEF OwnerInv
<1>10. TypeOK' /\ count' <= MaxStart
  <2>1. pc' \in {"start", "page", "counted", "chunks", "done", "failed"}
    BY <1>1
  <2>2. i' \in 0..(count + Step)
    BY <1>1, <1>4
  <2>3. count \in 0..(MaxStart + MaxChanges)
    BY <1>4, Sizes
  <2> QED  BY <1>1, <1>3, <1>4, <1>7, <2>1, <2>2, <2>3, QueryKeeps
<1>11. PcInv'
  BY <1>1, <1>2 DEF PcInv, Counted
<1>12. KeyInv' /\ CountInv' /\ PoolInv' /\ ChunkInv'
  BY <1>1, <1>2 DEF IInv, KeyInv, CountInv, PoolInv, ChunkInv, ByKey
<1>13. NoneMissed' /\ NoDuplicates' /\ FailsOnlyWhenRemoved'
  BY <1>1, <1>2, <1>7 DEF NoneMissed, NoDuplicates, FailsOnlyWhenRemoved
<1> QED  BY <1>2, <1>8, <1>9, <1>10, <1>11, <1>12, <1>13 DEF IInv

LEMMA QueryAllTokensInv == IInv /\ QueryAllTokens => IInv'
<1> SUFFICES ASSUME IInv, QueryAllTokens  PROVE IInv'
  OBVIOUS
<1> DEFINE page == PageAfter(LastKey, CHUNK_QUERY)
           next == result \o page
           lastKey == IF next = <<>> THEN 0 ELSE Last(next)
<1>1. /\ pc = "counted" /\ method \in {"allTokens", "allPositions"}
      /\ UNCHANGED listVars /\ result' = next
      /\ pc' = pc /\ count' = count /\ i' = i /\ todo' = todo
  BY DEF QueryAllTokens
<1>2. /\ method' = method /\ mine' = mine /\ entries' = entries /\ born' = born
      /\ always' = always /\ removed' = removed
      /\ ListInv' /\ (method' # "tokens" => mine' = Ids)
  BY <1>1, QueryKeeps
<1>3. /\ next \in Seq(Ids) /\ StrictlyInc(next) /\ IsInjective(next)
      /\ ToSet(next) = ToSet(result) \cup ToSet(page)
      /\ ToSet(page) \subseteq ToSet(entries)
      /\ \A a \in always : a <= lastKey => a \in ToSet(next)
  BY <1>1, KeyStep DEF ByKey
<1> HIDE DEF page, next
<1>4. LastKey' = lastKey
  BY <1>1 DEF LastKey
<1>5. KeyInv'
  BY <1>1, <1>2, <1>3, <1>4 DEF KeyInv
<1>6. PoolInv'
  <2>1. PICK pool \in SUBSET (1..MaxStart) :
          /\ Cardinality(pool) = count
          /\ always \subseteq pool
          /\ OldIn(entries, pool) /\ OldIn(result, pool)
    BY <1>1 DEF IInv, PoolInv
  <2>2. OldIn(next, pool)
    BY <1>3, <2>1 DEF OldIn
  <2>3. OldIn(entries', pool) /\ OldIn(result', pool)
    BY <1>1, <1>2, <2>1, <2>2
  <2> QED  BY <1>1, <1>2, <2>1, <2>3 DEF PoolInv
<1>7. ChunkInv'
  BY <1>1, <1>2, <1>3 DEF ChunkInv, IInv
<1>8. TypeOK' /\ count' <= MaxStart
  <2>1. pc' \in {"start", "page", "counted", "chunks", "done", "failed"}
    BY <1>1
  <2>2. count' \in 0..(MaxStart + MaxChanges) /\ i' \in 0..(count' + Step) /\ count' <= MaxStart
    BY <1>1, QueryKeeps DEF IInv, TypeOK
  <2> QED  BY <1>1, <1>3, <2>1, <2>2, QueryKeeps, ListFacts
<1>9. PcInv'
  BY <1>1, <1>2 DEF PcInv, Counted
<1>10. OffsetInv' /\ OwnerInv' /\ CountInv'
  BY <1>1, <1>2 DEF IInv, OffsetInv, OwnerInv, CountInv, ByOffset
<1>11. NoneMissed' /\ NoDuplicates' /\ FailsOnlyWhenRemoved'
  BY <1>1, <1>2, <1>3 DEF NoneMissed, NoDuplicates, FailsOnlyWhenRemoved
<1> QED  BY <1>2, <1>5, <1>6, <1>7, <1>8, <1>9, <1>10, <1>11 DEF IInv

-----------------------------------------------------------------------------
(***************************************************************************)
(* The loops over a count, when they end.                                  *)
(***************************************************************************)
\* As many different ids as were counted have been collected: were an old one
\* missing, all of them would be old and below it, which is one too many.
LEMMA PoolRead ==
  ASSUME IInv, method \in {"allTokens", "allPositions"}, pc = "counted", Len(result) >= count
  PROVE  always \subseteq ToSet(result)
<1>1. PICK pool \in SUBSET (1..MaxStart) :
        Cardinality(pool) = count /\ always \subseteq pool /\ OldIn(result, pool)
  BY DEF IInv, PoolInv
<1>2. StrictlyInc(result) /\ \A a \in always : a <= LastKey => a \in ToSet(result)
  BY DEF IInv, KeyInv, ByKey
<1>3. result \in Seq(Nat) /\ result \in Seq(Ids) /\ ToSet(result) \subseteq Ids
  BY ListFacts
<1>4. IsInjective(result)
  BY <1>2, <1>3, IncreasingInjective
<1>5. Cardinality(ToSet(result)) = Len(result) /\ IsFiniteSet(ToSet(result))
  BY <1>3, <1>4, LengthOfInjective
<1>6. IsFiniteSet(pool) /\ Cardinality(pool) \in Nat
  BY Sizes, IntervalFacts, FS_CardinalityType
<1>7. ASSUME NEW a \in always, a \notin ToSet(result)  PROVE FALSE
  <2>1. a \in pool /\ a \in Nat /\ a <= MaxStart
    BY <1>1, Sizes
  <2>2. ~(a <= LastKey)
    BY <1>2, <1>7
  <2>3. ASSUME NEW b \in ToSet(result)  PROVE b \in pool \ {a}
    <3>1. result # <<>>
      BY <2>3, EmptyList
    <3>2. b <= Last(result) /\ Last(result) \in ToSet(result)
      BY <1>2, <1>3, <2>3, <3>1, LastHighest
    <3>3. b \in Nat /\ Last(result) \in Nat /\ LastKey = Last(result)
      BY <1>3, <2>3, <3>1, <3>2, Sizes DEF LastKey
    <3>4. b <= MaxStart
      BY <2>1, <2>2, <3>2, <3>3, Sizes
    <3> QED  BY <1>1, <1>7, <2>3, <3>4 DEF OldIn
  <2>4. IsFiniteSet(pool \ {a}) /\ Cardinality(pool \ {a}) = count - 1
    BY <1>1, <1>6, <2>1, FS_RemoveElement
  <2>5. ToSet(result) \in SUBSET (pool \ {a})
    BY <2>3
  <2>6. Cardinality(ToSet(result)) <= Cardinality(pool \ {a})
    BY <2>4, <2>5, FS_Subset
  <2>7. count \in Nat /\ Len(result) \in Nat
    BY <1>1, <1>3, <1>6
  <2> QED  BY <1>5, <2>4, <2>6, <2>7
<1> QED  BY <1>7

\* While the ids are 1, 2, 3, ... an id that was there at the start is not
\* above the number of tokens that were there.
LEMMA OwnerRead ==
  ASSUME IInv, method = "tokens", pc = "counted", i >= count, ~removed, Dense
  PROVE  always \cap mine \subseteq ToSet(result)
<1>1. /\ \A a \in always \cap mine : a <= i => a \in ToSet(result)
      /\ Cardinality(always) = count
      /\ \A a \in ToSet(entries) : a <= MaxStart => a \in always
      /\ \A a \in always : a <= MaxStart
  BY DEF IInv, OwnerInv, CountInv, ListInv, Nfts
<1>2. /\ always \subseteq ToSet(entries) /\ ToSet(entries) \subseteq Ids
      /\ IsFiniteSet(ToSet(entries)) /\ entries \in Seq(Ids)
  BY ListFacts
<1>3. IsFiniteSet(always)
  BY <1>2, FS_Subset
<1>4. i \in Nat /\ count \in Nat
  <2>1. i \in 0..(count + Step) /\ count \in Nat
    BY DEF IInv, TypeOK
  <2> QED  BY <2>1, Sizes
<1>5. ASSUME NEW a \in always  PROVE a <= count
  <2>1. a \in Nat /\ a \in 1..Len(entries)
    BY <1>2, Sizes DEF Dense
  <2>2. \A x \in 1..a : x \in 1..Len(entries) /\ x <= MaxStart
    BY <1>1, <1>2, <2>1, Sizes
  <2>3. 1..a \in SUBSET always
    BY <1>1, <2>2 DEF Dense
  <2>4. Cardinality(1..a) <= Cardinality(always)
    BY <1>3, <2>3, FS_Subset
  <2>5. Cardinality(1..a) = a
    BY <2>1, FS_Interval
  <2> QED  BY <1>1, <2>4, <2>5
<1>6. ASSUME NEW a \in always  PROVE a <= i
  <2>1. a \in Nat
    BY <1>2, Sizes
  <2> QED  BY <1>4, <1>5, <2>1
<1> QED  BY <1>1, <1>6

LEMMA LoopEndsInv == IInv /\ LoopEnds => IInv'
<1> SUFFICES ASSUME IInv, LoopEnds  PROVE IInv'
  OBVIOUS
<1>1. /\ pc = "counted" /\ UNCHANGED listVars /\ count' = count /\ i' = i
      /\ method \in {"allTokens", "allPositions"} => Len(result) >= count
      /\ method \notin {"allTokens", "allPositions"} => i >= count
      /\ method = "allPositions" => pc' = "chunks" /\ todo' = result /\ result' = <<>>
      /\ method # "allPositions" => pc' = "done" /\ todo' = todo /\ result' = result
  BY DEF LoopEnds
<1>2. /\ method' = method /\ mine' = mine /\ entries' = entries /\ born' = born
      /\ always' = always /\ removed' = removed
      /\ ListInv' /\ (method' # "tokens" => mine' = Ids)
  BY <1>1, QueryKeeps
<1>3. method \in {"getPositionTicks", "tokens", "allTokens", "allPositions"}
  BY <1>1 DEF IInv, PcInv, Counted
<1>4. /\ entries \in Seq(Ids) /\ result \in Seq(Ids) /\ todo \in Seq(Ids)
      /\ IsInjective(result) \/ method = "tokens"
  BY ListFacts DEF IInv, NoDuplicates
<1>5. i \in Nat /\ count \in Nat /\ count <= MaxStart /\ i \in 0..(count + Step)
  <2>1. i \in 0..(count + Step) /\ count \in Nat /\ count <= MaxStart
    BY DEF IInv, TypeOK
  <2> QED  BY <2>1, Sizes
<1>6. ASSUME method = "getPositionTicks", ~removed  PROVE always \subseteq ToSet(result)
  <2>1. /\ \A k \in 1..count : k <= i => entries[k] \in ToSet(result)
        /\ \A a \in always : \E k \in 1..count : entries[k] = a
    BY <1>1, <1>6 DEF IInv, OffsetInv, ByOffset
  <2>2. \A k \in 1..count : k <= i
    BY <1>1, <1>5, <1>6
  <2> QED  BY <2>1, <2>2
<1>7. TypeOK' /\ count' <= MaxStart
  <2>1. pc' \in {"start", "page", "counted", "chunks", "done", "failed"}
    BY <1>1
  <2>2. count \in 0..(MaxStart + MaxChanges)
    BY <1>5, Sizes
  <2>3. todo' \in Seq(Ids) /\ result' \in Seq(Ids)
    <3>1. <<>> \in Seq(Ids)
      OBVIOUS
    <3> QED  BY <1>1, <1>4, <3>1
  <2> QED  BY <1>1, <1>5, <2>1, <2>2, <2>3, QueryKeeps
<1>8. PcInv'
  BY <1>1, <1>2, <1>3 DEF PcInv, Chunked
<1>9. OffsetInv'
  <2>1. ASSUME method \in ByOffset
        PROVE  ReadTo' = ReadTo /\ result' = result /\ pc' = "done"
    BY <1>1, <1>2, <2>1 DEF ReadTo, ByOffset
  <2> QED  BY <1>2, <2>1 DEF IInv, OffsetInv
<1>10. KeyInv' /\ OwnerInv' /\ CountInv' /\ PoolInv'
  BY <1>1, <1>2, <1>3 DEF KeyInv, OwnerInv, CountInv, PoolInv
<1>11. ChunkInv'
  <2> SUFFICES ASSUME method = "allPositions"  PROVE ChunkInv'
    BY <1>1, <1>2 DEF ChunkInv
  <2>1. pc' = "chunks" /\ todo' = result /\ result' = <<>> /\ <<>> \o result = result
    BY <1>1, <1>4
  <2>2. always \subseteq ToSet(result)
    BY <1>1, PoolRead
  <2>3. ~removed => ToSet(result) \subseteq ToSet(entries)
    BY <1>1 DEF IInv, ChunkInv
  <2> QED  BY <1>2, <1>4, <2>1, <2>2, <2>3 DEF ChunkInv
<1>12. NoneMissed'
  <2> SUFFICES ASSUME pc' = "done", method \in ByOffset => ~removed,
                      method = "tokens" => ~removed /\ Dense
               PROVE  always \cap mine \subseteq ToSet(result')
    BY <1>2 DEF NoneMissed, Dense
  <2>1. method # "allPositions" /\ result' = result
    BY <1>1
  <2> QED  BY <1>1, <1>3, <1>6, <2>1, PoolRead, OwnerRead DEF ByOffset
<1>13. NoDuplicates' /\ FailsOnlyWhenRemoved'
  BY <1>1, <1>2, <1>4, EmptyList DEF NoDuplicates, FailsOnlyWhenRemoved
<1> QED  BY <1>2, <1>7, <1>8, <1>9, <1>10, <1>11, <1>12, <1>13 DEF IInv

LEMMA QueryChunkInv == IInv /\ QueryChunk => IInv'
<1> SUFFICES ASSUME IInv, QueryChunk  PROVE IInv'
  OBVIOUS
<1> DEFINE chunk == First(todo, ChunkSize)
           rest == SubSeq(todo, Len(chunk) + 1, Len(todo))
<1>1. /\ pc = "chunks" /\ UNCHANGED listVars /\ count' = count /\ i' = i
      /\ \/ /\ result' = result \o chunk /\ todo' = rest
            /\ pc' = IF rest = <<>> THEN "done" ELSE "chunks"
         \/ /\ ~(ToSet(chunk) \subseteq ToSet(entries))
            /\ pc' = "failed" /\ result' = result /\ todo' = todo
  BY DEF QueryChunk
<1>2. /\ method' = method /\ mine' = mine /\ entries' = entries /\ born' = born
      /\ always' = always /\ removed' = removed
      /\ ListInv' /\ (method' # "tokens" => mine' = Ids)
  BY <1>1, QueryKeeps
<1>3. method \in Chunked
  BY <1>1 DEF IInv, PcInv
<1>4. /\ result \in Seq(Ids) /\ todo \in Seq(Ids)
      /\ IsInjective(result \o todo) /\ always \subseteq ToSet(result \o todo)
      /\ ~removed => ToSet(todo) \subseteq ToSet(entries)
  BY <1>1, ListFacts DEF IInv, ChunkInv
<1>5. /\ chunk \in Seq(Ids) /\ rest \in Seq(Ids) /\ chunk \o rest = todo
      /\ ToSet(chunk) \subseteq ToSet(todo) /\ ToSet(rest) \subseteq ToSet(todo)
  BY <1>4, Sizes, ChunkFacts
<1> HIDE DEF chunk, rest
<1>6. ASSUME result' = result \o chunk, todo' = rest
      PROVE  /\ result' \in Seq(Ids) /\ result' \o todo' = result \o todo
             /\ IsInjective(result')
             /\ rest = <<>> => always \subseteq ToSet(result')
  <2>1. result' \in Seq(Ids)
    <3>1. result \o chunk \in Seq(Ids)
      BY <1>4, <1>5, ConcatProperties
    <3> QED  BY <1>6, <3>1
  <2>2. (result \o chunk) \o rest = result \o (chunk \o rest)
    <3>1. result \in Seq(Ids) /\ chunk \in Seq(Ids) /\ rest \in Seq(Ids)
      BY <1>4, <1>5
    <3> QED  BY ONLY <3>1, ConcatAssociative
  <2>3. (result \o chunk) \o rest = result \o todo /\ result \o chunk \in Seq(Ids)
    BY <1>5, <1>6, <2>1, <2>2
  <2>4. IsInjective(result \o chunk)
    BY <1>4, <1>5, <2>3, FrontInjective
  <2>5. ASSUME rest = <<>>  PROVE always \subseteq ToSet(result \o chunk)
    <3>1. (result \o chunk) \o <<>> = result \o chunk
      BY <2>3
    <3> QED  BY <1>4, <2>3, <2>5, <3>1
  <2> QED  BY <1>6, <2>1, <2>3, <2>4, <2>5
<1>7. result' \in Seq(Ids) /\ todo' \in Seq(Ids) /\ IsInjective(result')
  BY <1>1, <1>3, <1>4, <1>5, <1>6 DEF IInv, NoDuplicates, Chunked
<1>8. TypeOK' /\ count' <= MaxStart
  <2>1. pc' \in {"start", "page", "counted", "chunks", "done", "failed"}
    BY <1>1
  <2>2. count' \in 0..(MaxStart + MaxChanges) /\ i' \in 0..(count' + Step) /\ count' <= MaxStart
    BY <1>1, QueryKeeps DEF IInv, TypeOK
  <2> QED  BY <1>1, <1>7, <2>1, <2>2, QueryKeeps
<1>9. PcInv'
  BY <1>1, <1>2, <1>3 DEF PcInv
<1>10. OffsetInv' /\ KeyInv' /\ OwnerInv' /\ CountInv' /\ PoolInv'
  BY <1>1, <1>2, <1>3 DEF OffsetInv, KeyInv, OwnerInv, CountInv, PoolInv, Chunked, ByOffset
<1>11. ChunkInv'
  BY <1>1, <1>2, <1>4, <1>5, <1>6 DEF ChunkInv
<1>12. NoneMissed'
  BY <1>1, <1>2, <1>6 DEF NoneMissed
<1>13. NoDuplicates'
  BY <1>7 DEF NoDuplicates
<1>14. FailsOnlyWhenRemoved'
  BY <1>1, <1>2, <1>4, <1>5 DEF FailsOnlyWhenRemoved
<1> QED  BY <1>2, <1>8, <1>9, <1>10, <1>11, <1>12, <1>13, <1>14 DEF IInv

-----------------------------------------------------------------------------
(***************************************************************************)
(* The transactions of others.                                             *)
(***************************************************************************)
\* Before any of them the query is under way, and it is not touched.
LEMMA ChangeKeeps ==
  ASSUME IInv, Change, always' \subseteq always, removed' \in BOOLEAN,
         entries' \in Seq(Ids), born' \in MaxStart..(MaxStart + changes')
  PROVE  /\ method' = method /\ mine' = mine /\ pc' = pc /\ count' = count /\ i' = i
         /\ todo' = todo /\ result' = result
         /\ changes \in Nat /\ changes' = changes + 1
         /\ born \in Nat /\ born <= MaxStart + changes
         /\ TypeOK' /\ count' <= MaxStart /\ (method' # "tokens" => mine' = Ids)
         /\ PcInv' /\ NoneMissed' /\ NoDuplicates' /\ FailsOnlyWhenRemoved'
         /\ KeyInv'
<1>1. /\ method' = method /\ mine' = mine /\ pc' = pc /\ count' = count /\ i' = i
      /\ todo' = todo /\ result' = result /\ changes' = changes + 1
      /\ pc \notin {"start", "done", "failed"} /\ changes < MaxChanges
  BY DEF Change
<1>2. TypeOK /\ count <= MaxStart /\ (method # "tokens" => mine = Ids) /\ born <= MaxStart + changes
  BY DEF IInv, ListInv
<1>3. changes \in Nat /\ changes' \in 0..MaxChanges /\ born \in Nat
  <2>1. changes \in 0..MaxChanges /\ born \in MaxStart..(MaxStart + MaxChanges)
    BY <1>2 DEF TypeOK
  <2>2. changes \in Nat /\ changes + 1 \in 0..MaxChanges
    BY <1>1, <2>1, Sizes
  <2>3. born \in Nat
    BY <2>1, Sizes
  <2> QED  BY <1>1, <2>2, <2>3
<1>4. born' \in MaxStart..(MaxStart + MaxChanges)
  <2> DEFINE b == born'
             c == changes'
  <2>1. b \in MaxStart..(MaxStart + c) /\ c \in 0..MaxChanges
    BY <1>3
  <2> HIDE DEF b, c
  <2>2. c \in Nat /\ c <= MaxChanges /\ MaxStart \in Nat /\ MaxChanges \in Nat
    BY <2>1, Sizes
  <2>3. b \in Nat /\ MaxStart <= b /\ b <= MaxStart + c
    BY <2>1, <2>2
  <2>4. b \in MaxStart..(MaxStart + MaxChanges)
    BY <2>2, <2>3
  <2> QED  BY <2>4 DEF b
<1>5. Step' = Step /\ always' \subseteq Ids
  BY <1>1, <1>2 DEF Step, TypeOK
<1>6. TypeOK'
  BY <1>1, <1>2, <1>3, <1>4, <1>5 DEF TypeOK
<1>7. PcInv'
  BY <1>1 DEF IInv, PcInv
<1>8. NoneMissed' /\ NoDuplicates' /\ FailsOnlyWhenRemoved'
  BY <1>1 DEF IInv, NoneMissed, NoDuplicates, FailsOnlyWhenRemoved
<1>9. KeyInv'
  BY <1>1 DEF IInv, KeyInv, LastKey
<1> QED  BY <1>1, <1>2, <1>3, <1>6, <1>7, <1>8, <1>9

LEMMA AddEntryInv == ASSUME NEW id \in Ids  PROVE IInv /\ AddEntry(id) => IInv'
<1> SUFFICES ASSUME IInv, AddEntry(id)  PROVE IInv'
  OBVIOUS
<1>1. /\ Change /\ id \notin ToSet(entries) /\ born' = born + 1
      /\ method \in Nfts \cup ByOffset => id = born + 1
      /\ method \in ByOffset => entries' = Append(entries, id)
      /\ method \notin ByOffset => entries' = SortedOf(ToSet(entries) \cup {id})
      /\ always' = always /\ removed' = removed
  BY DEF AddEntry
<1>2. /\ entries \in Seq(Ids) /\ result \in Seq(Ids) /\ ToSet(entries) \subseteq Ids
      /\ ToSet(result) \subseteq Ids
  BY ListFacts
<1>3. /\ method \in ByOffset => /\ Len(entries') = Len(entries) + 1
                                /\ \A k \in 1..Len(entries) : entries'[k] = entries[k]
                                /\ entries'[Len(entries) + 1] = id
      /\ method \notin ByOffset => StrictlyInc(entries')
      /\ entries' \in Seq(Ids) /\ IsInjective(entries')
      /\ ToSet(entries') = ToSet(entries) \cup {id}
  <2>1. CASE method \in ByOffset
    <3>1. IsInjective(entries)
      BY DEF IInv, ListInv
    <3>2. /\ Append(entries, id) \in Seq(Ids) /\ Len(Append(entries, id)) = Len(entries) + 1
          /\ \A k \in 1..Len(entries) : Append(entries, id)[k] = entries[k]
          /\ Append(entries, id)[Len(entries) + 1] = id
          /\ ToSet(Append(entries, id)) = ToSet(entries) \cup {id}
          /\ IsInjective(Append(entries, id))
      BY <1>1, <1>2, <3>1, AppendFacts
    <3> DEFINE t == Append(entries, id)
    <3>3. entries' = t
      BY <1>1, <2>1
    <3> HIDE DEF t
    <3> QED  BY <2>1, <3>2, <3>3 DEF t
  <2>2. CASE method \notin ByOffset
    <3> DEFINE S == ToSet(entries) \cup {id}
    <3>1. S \in SUBSET Ids
      BY <1>2
    <3> HIDE DEF S
    <3>2. /\ SortedOf(S) \in Seq(Ids) /\ StrictlyInc(SortedOf(S))
          /\ IsInjective(SortedOf(S)) /\ ToSet(SortedOf(S)) = S
      BY <3>1, IdsAscending
    <3>3. entries' = SortedOf(S)
      BY <1>1, <2>2 DEF S
    <3> QED  BY <2>2, <3>2, <3>3 DEF S
  <2> QED  BY <2>1, <2>2
<1>4. born \in MaxStart..(MaxStart + changes) /\ changes \in Nat /\ changes' = changes + 1
  BY <1>1 DEF IInv, TypeOK, ListInv, Change
<1>5. born' \in MaxStart..(MaxStart + changes')
  BY <1>1, <1>4, Sizes
<1>6. /\ method' = method /\ mine' = mine /\ pc' = pc /\ count' = count /\ i' = i
      /\ todo' = todo /\ result' = result
      /\ TypeOK' /\ count' <= MaxStart /\ (method' # "tokens" => mine' = Ids)
      /\ PcInv' /\ NoneMissed' /\ NoDuplicates' /\ FailsOnlyWhenRemoved' /\ KeyInv'
  BY <1>1, <1>3, <1>5, ChangeKeeps DEF IInv, TypeOK
<1>7. born \in Nat /\ MaxStart <= born /\ born' \in Nat
  BY <1>1, <1>4, Sizes
<1>8. method \in Nfts \cup ByOffset => MaxStart < id /\ born < id /\ id <= born'
  BY <1>1, <1>7, Sizes
<1>9. \A a \in Ids : a <= born => a <= born'
  <2> SUFFICES ASSUME NEW a \in Ids, a <= born  PROVE a <= born'
    OBVIOUS
  <2>1. a \in Nat
    BY Sizes
  <2> QED  BY <1>1, <1>7, <2>1
<1>10. \A a \in Ids : ~(MaxStart < a /\ a <= MaxStart) /\ ~(born < a /\ a <= born)
  <2> SUFFICES ASSUME NEW a \in Ids
               PROVE  ~(MaxStart < a /\ a <= MaxStart) /\ ~(born < a /\ a <= born)
    OBVIOUS
  <2>1. a \in Nat
    BY Sizes
  <2> QED  BY <1>7, <2>1, Sizes
<1>11. ListInv'
  <2>1. /\ method \in Nfts \cup ByOffset => \A a \in ToSet(entries) : a <= born
        /\ always \subseteq ToSet(entries) /\ \A a \in always : a <= MaxStart
        /\ ~removed /\ method \in Nfts \cup ByOffset =>
             \A a \in ToSet(entries) : a <= MaxStart => a \in always
    BY DEF IInv, ListInv
  <2>2. method \in Nfts \cup ByOffset => \A a \in ToSet(entries') : a <= born'
    BY <1>2, <1>3, <1>8, <1>9, <2>1
  <2>3. ~removed /\ method \in Nfts \cup ByOffset =>
          \A a \in ToSet(entries') : a <= MaxStart => a \in always
    BY <1>3, <1>8, <1>10, <2>1
  <2>4. born' <= MaxStart + changes'
    BY <1>5, <1>7
  <2> QED  BY <1>1, <1>3, <1>6, <2>1, <2>2, <2>3, <2>4 DEF ListInv
<1>12. OffsetInv'
  <2> SUFFICES ASSUME method \in ByOffset  PROVE OffsetInv'
    BY <1>6 DEF OffsetInv
  <2>1. /\ \A k \in 1..Len(entries) : k > ReadTo => entries[k] \notin ToSet(result)
        /\ \A a \in ToSet(result) : a <= born
        /\ ~removed /\ method = "getPositions" /\ pc = "page" =>
             /\ Len(result) <= Len(entries)
             /\ \A k \in 1..Len(result) : entries[k] \in ToSet(result)
        /\ ~removed /\ method = "getPositionTicks" /\ pc = "counted" =>
             /\ count <= Len(entries)
             /\ \A k \in 1..count : k <= i => entries[k] \in ToSet(result)
             /\ \A a \in always : \E k \in 1..count : entries[k] = a
    BY <1>2 DEF IInv, OffsetInv
  <2>2. /\ Len(entries') = Len(entries) + 1
        /\ \A k \in 1..Len(entries) : entries'[k] = entries[k]
        /\ entries'[Len(entries) + 1] = id
        /\ DOMAIN entries' = 1..Len(entries') /\ Len(entries) \in Nat /\ Len(result) \in Nat
    BY <1>2, <1>3
  <2>3. ReadTo' = ReadTo
    BY <1>6 DEF ReadTo
  <2>4. id \notin ToSet(result)
    BY <1>8, <1>10, <2>1
  <2>5. ASSUME NEW k \in DOMAIN entries', k > ReadTo  PROVE entries'[k] \notin ToSet(result)
    <3>1. k \in 1..Len(entries) \/ k = Len(entries) + 1
      BY <2>2
    <3> QED  BY <2>1, <2>2, <2>4, <2>5, <3>1
  <2>6. \A a \in ToSet(result) : a <= born'
    BY <1>2, <1>9, <2>1
  <2>7. ASSUME ~removed, method = "getPositions", pc = "page"
        PROVE  /\ Len(result) <= Len(entries')
               /\ \A k \in 1..Len(result) : entries'[k] \in ToSet(result)
    <3>1. Len(result) <= Len(entries') /\ \A k \in 1..Len(result) : k \in 1..Len(entries)
      BY <2>1, <2>2, <2>7
    <3> QED  BY <2>1, <2>2, <2>7, <3>1
  <2>8. ASSUME ~removed, method = "getPositionTicks", pc = "counted"
        PROVE  /\ count <= Len(entries')
               /\ \A k \in 1..count : k <= i => entries'[k] \in ToSet(result)
               /\ \A a \in always : \E k \in 1..count : entries'[k] = a
    <3>1. count \in Nat
      BY DEF IInv, TypeOK
    <3>2. count <= Len(entries') /\ \A k \in 1..count : k \in 1..Len(entries)
      BY <2>1, <2>2, <2>8, <3>1
    <3> QED  BY <2>1, <2>2, <2>8, <3>2
  <2> QED  BY <1>1, <1>6, <2>3, <2>5, <2>6, <2>7, <2>8 DEF OffsetInv
<1>13. OwnerInv' /\ CountInv'
  BY <1>1, <1>6 DEF IInv, OwnerInv, CountInv
<1>14. PoolInv'
  <2> SUFFICES ASSUME method \in {"allTokens", "allPositions"}, pc = "counted"  PROVE PoolInv'
    BY <1>6 DEF PoolInv
  <2>1. PICK pool \in SUBSET (1..MaxStart) :
          /\ Cardinality(pool) = count /\ always \subseteq pool
          /\ OldIn(entries, pool) /\ OldIn(result, pool)
    BY DEF IInv, PoolInv
  <2>2. MaxStart < id
    BY <1>8 DEF Nfts
  <2>3. OldIn(entries', pool) /\ OldIn(result', pool)
    BY <1>3, <1>6, <1>10, <2>1, <2>2 DEF OldIn
  <2> QED  BY <1>1, <1>6, <2>1, <2>3 DEF PoolInv
<1>15. ChunkInv'
  BY <1>1, <1>3, <1>6 DEF IInv, ChunkInv
<1> QED  BY <1>6, <1>11, <1>12, <1>13, <1>14, <1>15 DEF IInv

LEMMA RemoveEntryInv == ASSUME NEW k \in DOMAIN entries  PROVE IInv /\ RemoveEntry(k) => IInv'
<1> SUFFICES ASSUME IInv, RemoveEntry(k)  PROVE IInv'
  OBVIOUS
<1>1. /\ Change /\ always' = always \ {entries[k]} /\ removed' = TRUE /\ born' = born
      /\ \/ entries' = RemoveAt(entries, k)
         \/ method \in ByOffset /\ entries' = Front([entries EXCEPT ![k] = Last(entries)])
  BY DEF RemoveEntry
<1>2. /\ entries \in Seq(Ids) /\ result \in Seq(Ids) /\ IsInjective(entries)
      /\ always \subseteq ToSet(entries) /\ ToSet(entries) \subseteq Ids
      /\ k \in 1..Len(entries)
  BY ListFacts DEF IInv, ListInv
<1>3. /\ entries' \in Seq(Ids) /\ LeftOf(entries, k, entries')
      /\ method \notin ByOffset => StrictlyInc(entries')
  <2>1. CASE entries' = RemoveAt(entries, k)
    <3>1. /\ entries' \in Seq(Ids) /\ LeftOf(entries, k, entries')
          /\ StrictlyInc(entries) => StrictlyInc(entries')
      BY <1>2, <2>1, Sizes, RemoveAtFacts
    <3> QED  BY <3>1 DEF IInv, ListInv
  <2>2. CASE method \in ByOffset /\ entries' = Front([entries EXCEPT ![k] = Last(entries)])
    BY <1>2, <2>2, MoveLastFacts
  <2> QED  BY <1>1, <2>1, <2>2
<1>4. /\ Len(entries') = Len(entries) - 1 /\ IsInjective(entries')
      /\ \A j \in 1..Len(entries') : \E g \in 1..Len(entries) : j <= g /\ entries'[j] = entries[g]
      /\ \A a \in ToSet(entries) \ {entries[k]} : a \in ToSet(entries')
  BY <1>3 DEF LeftOf
<1>5. ToSet(entries') \subseteq ToSet(entries)
  <2> SUFFICES ASSUME NEW a \in ToSet(entries')  PROVE a \in ToSet(entries)
    OBVIOUS
  <2>1. PICK j \in 1..Len(entries') : entries'[j] = a
    BY <1>3, MemberOf
  <2>2. PICK g \in 1..Len(entries) : entries'[j] = entries[g]
    BY <1>4
  <2> QED  BY <1>2, <2>1, <2>2, MemberOf
<1>6. born \in MaxStart..(MaxStart + changes) /\ changes \in Nat /\ changes' = changes + 1
  BY <1>1 DEF IInv, TypeOK, ListInv, Change
<1>7. born' \in MaxStart..(MaxStart + changes') /\ born' <= MaxStart + changes'
  BY <1>1, <1>6, Sizes
<1>8. /\ method' = method /\ mine' = mine /\ pc' = pc /\ count' = count /\ i' = i
      /\ todo' = todo /\ result' = result
      /\ TypeOK' /\ count' <= MaxStart /\ (method' # "tokens" => mine' = Ids)
      /\ PcInv' /\ NoneMissed' /\ NoDuplicates' /\ FailsOnlyWhenRemoved' /\ KeyInv'
  BY <1>1, <1>3, <1>7, ChangeKeeps
<1>9. ListInv'
  <2>1. /\ method \in Nfts \cup ByOffset => \A a \in ToSet(entries) : a <= born
        /\ \A a \in always : a <= MaxStart
    BY DEF IInv, ListInv
  <2>2. always' \subseteq ToSet(entries')
    BY <1>1, <1>2, <1>4
  <2> QED  BY <1>1, <1>3, <1>4, <1>5, <1>7, <1>8, <2>1, <2>2 DEF ListInv
<1>10. OffsetInv'
  <2> SUFFICES ASSUME method \in ByOffset  PROVE OffsetInv'
    BY <1>8 DEF OffsetInv
  <2>1. /\ \A g \in 1..Len(entries) : g > ReadTo => entries[g] \notin ToSet(result)
        /\ \A a \in ToSet(result) : a <= born
    BY <1>2 DEF IInv, OffsetInv
  <2>2. ReadTo' = ReadTo /\ ReadTo \in Nat
    <3>1. i \in 0..(count + Step) /\ count \in Nat
      BY DEF IInv, TypeOK
    <3> QED  BY <1>2, <1>8, <3>1, Sizes DEF ReadTo
  <2>3. DOMAIN entries' = 1..Len(entries')
    BY <1>3
  <2>4. ASSUME NEW j \in DOMAIN entries', j > ReadTo  PROVE entries'[j] \notin ToSet(result)
    <3>1. PICK g \in 1..Len(entries) : j <= g /\ entries'[j] = entries[g]
      BY <1>4, <2>3
    <3>2. g > ReadTo
      BY <1>2, <1>3, <2>2, <2>3, <2>4, <3>1
    <3> QED  BY <2>1, <3>1, <3>2
  <2> QED  BY <1>1, <1>8, <2>1, <2>2, <2>4 DEF OffsetInv
<1>11. OwnerInv' /\ CountInv'
  BY <1>1, <1>8 DEF IInv, OwnerInv, CountInv
<1>12. PoolInv'
  <2> SUFFICES ASSUME method \in {"allTokens", "allPositions"}, pc = "counted"  PROVE PoolInv'
    BY <1>8 DEF PoolInv
  <2>1. PICK pool \in SUBSET (1..MaxStart) :
          /\ Cardinality(pool) = count /\ always \subseteq pool
          /\ OldIn(entries, pool) /\ OldIn(result, pool)
    BY DEF IInv, PoolInv
  <2>2. always' \subseteq pool /\ OldIn(entries', pool) /\ OldIn(result', pool)
    BY <1>1, <1>5, <1>8, <2>1 DEF OldIn
  <2> QED  BY <1>8, <2>1, <2>2 DEF PoolInv
<1>13. ChunkInv'
  BY <1>1, <1>8 DEF IInv, ChunkInv
<1> QED  BY <1>8, <1>9, <1>10, <1>11, <1>12, <1>13 DEF IInv

-----------------------------------------------------------------------------
LEMMA StepInv == IInv /\ [Next]_vars => IInv'
<1>1. ASSUME IInv, UNCHANGED vars  PROVE IInv'
  <2>1. UNCHANGED <<method, mine, entries, born, changes, pc, count, i, todo, result,
                    always, removed>>
    BY <1>1 DEF vars
  <2>2. TypeOK' /\ ListInv'
    BY <1>1, <2>1 DEF IInv, TypeOK, ListInv, Step
  <2>3. PcInv' /\ OffsetInv' /\ KeyInv'
    BY <1>1, <2>1 DEF IInv, PcInv, OffsetInv, ReadTo, KeyInv, LastKey
  <2>4. OwnerInv' /\ CountInv' /\ PoolInv' /\ ChunkInv'
    BY <1>1, <2>1 DEF IInv, OwnerInv, CountInv, PoolInv, ChunkInv
  <2>5. NoneMissed' /\ NoDuplicates' /\ FailsOnlyWhenRemoved'
    BY <1>1, <2>1 DEF IInv, NoneMissed, Dense, NoDuplicates, FailsOnlyWhenRemoved
  <2>6. count' <= MaxStart /\ (method' # "tokens" => mine' = Ids)
    BY <1>1, <2>1 DEF IInv
  <2> QED  BY <2>2, <2>3, <2>4, <2>5, <2>6 DEF IInv
<1> QED
  BY <1>1, StartInv, QueryPageInv, QueryFromInv, QueryAllTokensInv, LoopEndsInv, QueryChunkInv,
     AddEntryInv, RemoveEntryInv DEF Next, Query

\* What every query knows between two of its calls.
LEMMA Invariance == Spec => []IInv
BY InitInv, StepInv, PTL DEF Spec

\* The numbers and lists of every query stay what they are: no count is above
\* the entries there were, the loop variable ends at most one page behind it.
THEOREM PageTypes == Spec => []TypeOK
<1>1. IInv => TypeOK
  BY DEF IInv
<1> QED  BY <1>1, Invariance, PTL

\* handler.ts getPositions ... getAllLiquidityTicks: an entry that is there as
\* long as the query goes on is in the list that it returns, whatever else is
\* added or removed between its pages; by offset as long as nothing is removed,
\* for tokens(owner) as long as also the ids are 1, 2, 3, ...
THEOREM NothingMissed == Spec => []NoneMissed
<1>1. IInv => NoneMissed
  BY DEF IInv
<1> QED  BY <1>1, Invariance, PTL

\* handler.ts getPositions ... getAllLiquidityTicks: no list but that of
\* tokens(owner) has an entry twice, whatever moves up or takes the place of
\* another between the pages.
THEOREM NothingTwice == Spec => []NoDuplicates
<1>1. IInv => NoDuplicates
  BY DEF IInv
<1> QED  BY <1>1, Invariance, PTL

\* handler.ts allPositions, liquidityTicks: a chunk fails only when an entry of
\* the list that was read before has been removed since.
THEOREM ThrowsOnlyAfterRemoval == Spec => []FailsOnlyWhenRemoved
<1>1. IInv => FailsOnlyWhenRemoved
  BY DEF IInv
<1> QED  BY <1>1, Invariance, PTL

-----------------------------------------------------------------------------
(***************************************************************************)
(* Why a query ends, as far as it can be said without fairness: as long as *)
(* a loop goes on, each of its calls brings it on, and it can not be       *)
(* brought on for ever.                                                    *)
(***************************************************************************)
\* A call after which the same loop goes on has brought an entry or moved the
\* loop variable; or it is allTokens, and a token has been burned.
GetsOn ==
  changes' = changes /\ pc' = pc =>
    \/ Len(result) < Len(result')
    \/ i < count /\ i < i'
    \/ method \in {"allTokens", "allPositions"} /\ removed

\* There is an end to both.
Bounded ==
  /\ method # "tokens" => Len(result) <= MaxStart + MaxChanges
  /\ i <= count + Step

LEMMA Longer ==
  ASSUME NEW T, NEW s \in Seq(T), NEW t \in Seq(T), t # <<>>
  PROVE  Len(s) < Len(s \o t)
<1>1. Len(s \o t) = Len(s) + Len(t) /\ Len(s) \in Nat /\ Len(t) \in Nat
  BY ConcatFacts
<1>2. Len(t) # 0
  OBVIOUS
<1> QED  BY <1>1, <1>2

\* As long as no token has gone and fewer are collected than were counted, the
\* next page is not empty.
LEMMA MoreTokens ==
  ASSUME IInv, method \in {"allTokens", "allPositions"}, pc = "counted", ~removed,
         Len(result) < count
  PROVE  /\ PageAfter(LastKey, CHUNK_QUERY) \in Seq(Nat)
         /\ PageAfter(LastKey, CHUNK_QUERY) # <<>>
<1> DEFINE S == {id \in ToSet(entries) : id > LastKey}
           page == First(SortedOf(S), CHUNK_QUERY)
<1>1. page = PageAfter(LastKey, CHUNK_QUERY)
  BY DEF PageAfter
<1>2. /\ StrictlyInc(result) /\ \A a \in always : a <= LastKey => a \in ToSet(result)
      /\ Cardinality(always) = count
  BY DEF IInv, KeyInv, CountInv, ByKey, Nfts
<1>3. /\ result \in Seq(Nat) /\ result \in Seq(Ids) /\ ToSet(entries) \subseteq Ids
      /\ always \subseteq ToSet(entries) /\ ToSet(result) \subseteq Ids /\ always \subseteq Ids
  BY ListFacts
<1>4. LastKey \in Nat
  <2>1. CASE result = <<>>
    BY <2>1 DEF LastKey
  <2>2. CASE result # <<>>
    <3>1. Last(result) \in ToSet(result)
      BY <1>2, <1>3, <2>2, LastHighest
    <3> QED  BY <1>3, <2>2, <3>1, Sizes DEF LastKey
  <2> QED  BY <2>1, <2>2
<1>5. IsFiniteSet(ToSet(result)) /\ Cardinality(ToSet(result)) = Len(result)
  BY <1>2, <1>3, IncreasingInjective, LengthOfInjective
<1>6. ~(always \subseteq ToSet(result))
  <2> SUFFICES ASSUME always \subseteq ToSet(result)  PROVE FALSE
    OBVIOUS
  <2>1. Cardinality(always) <= Cardinality(ToSet(result))
    BY <1>5, FS_Subset
  <2>2. count \in Nat /\ Len(result) \in Nat
    BY <1>3 DEF IInv, TypeOK
  <2> QED  BY <1>2, <1>5, <2>1, <2>2
<1>7. S \in SUBSET Ids /\ S \in SUBSET Nat /\ IsFiniteSet(S)
  <2>1. S \in SUBSET Ids
    BY <1>3
  <2> HIDE DEF S
  <2> QED  BY <2>1, IdsAscending
<1>8. S # {}
  <2>1. PICK a \in always : a \notin ToSet(result)
    BY <1>6
  <2>2. a \in Nat /\ ~(a <= LastKey)
    BY <1>2, <1>3, <2>1, Sizes
  <2> QED  BY <1>3, <1>4, <2>1, <2>2
<1> HIDE DEF S
<1>9. CHUNK_QUERY \in Nat \ {0}
  BY Sizes
<1>10. page \in Seq(Nat) /\ (Len(page) < CHUNK_QUERY => ToSet(page) = S)
  BY <1>7, <1>9, PageFacts
<1> HIDE DEF page
<1>11. page # <<>>
  <2> SUFFICES ASSUME page = <<>>  PROVE FALSE
    OBVIOUS
  <2>1. Len(page) < CHUNK_QUERY
    BY <1>9
  <2> QED  BY <1>8, <1>10, <2>1, EmptyList
<1> QED  BY <1>1, <1>10, <1>11

LEMMA StepGetsOn == IInv /\ Next => GetsOn
<1> SUFFICES ASSUME IInv, Next, changes' = changes, pc' = pc,
                    ~(method \in {"allTokens", "allPositions"} /\ removed)
             PROVE  Len(result) < Len(result') \/ (i < count /\ i < i')
  BY DEF GetsOn
<1>1. result \in Seq(Ids) /\ result \in Seq(Nat) /\ entries \in Seq(Ids) /\ todo \in Seq(Ids)
  BY ListFacts
<1>2. CASE Query
  <2>1. ~Start
    BY DEF Start
  <2>2. ~LoopEnds
    BY DEF LoopEnds
  <2>3. CASE QueryPage
    <3>1. /\ result' = result \o NextPage
          /\ pc' = IF Len(NextPage) < CHUNK_QUERY THEN "done" ELSE "page"
          /\ pc = "page"
      BY <2>3 DEF QueryPage
    <3>2. ~(Len(NextPage) < CHUNK_QUERY)
      BY <3>1
    <3>3. NextPage # <<>>
      BY <3>2, Sizes
    <3>4. NextPage \in Seq(Nat)
      <4>1. CASE method = "getPositions"
        <5>1. NextPage = First(SubSeq(entries, Len(result) + 1, Len(entries)), CHUNK_QUERY)
          BY <4>1 DEF NextPage, PageFrom
        <5>2. Len(result) \in Nat /\ CHUNK_QUERY \in Nat
          BY <1>1, Sizes
        <5>3. NextPage \in Seq(Ids)
          BY <1>1, <5>1, <5>2, OffsetFacts
        <5> QED  BY <5>3, Sizes, SeqMonotonic
      <4>2. CASE method # "getPositions"
        <5>1. LastKey \in Nat /\ {id \in ToSet(entries) : id > LastKey} \in SUBSET Ids
          <6>1. {id \in ToSet(entries) : id > LastKey} \in SUBSET Ids
            BY ListFacts
          <6>2. LastKey \in Nat
            <7>1. result # <<>> => Last(result) \in Nat
              BY <1>1 DEF Last
            <7> QED  BY <7>1 DEF LastKey
          <6> QED  BY <6>1, <6>2
        <5> DEFINE S == {id \in ToSet(entries) : id > LastKey}
        <5>2. NextPage = First(SortedOf(S), CHUNK_QUERY)
          BY <4>2 DEF NextPage, PageAfter
        <5>3. S \in SUBSET Ids
          BY <5>1
        <5> HIDE DEF S
        <5>4. S \in SUBSET Nat /\ IsFiniteSet(S) /\ CHUNK_QUERY \in Nat
          BY <5>3, IdsAscending, Sizes
        <5> QED  BY <5>2, <5>4, PageFacts
      <4> QED  BY <4>1, <4>2
    <3>5. Len(result) < Len(result \o NextPage)
      BY <1>1, <3>3, <3>4, Longer
    <3> QED  BY <3>1, <3>5
  <2>4. CASE QueryFrom
    <3>1. i < count /\ i' = i + Step
      BY <2>4 DEF QueryFrom
    <3>2. i \in Nat
      <4>1. i \in 0..(count + Step) /\ count \in Nat
        BY DEF IInv, TypeOK
      <4> QED  BY <4>1, Sizes
    <3> QED  BY <3>1, <3>2, Sizes
  <2>5. CASE QueryAllTokens
    <3>1. /\ pc = "counted" /\ method \in {"allTokens", "allPositions"}
          /\ Len(result) < count /\ ~removed
          /\ result' = result \o PageAfter(LastKey, CHUNK_QUERY)
      BY <2>5 DEF QueryAllTokens
    <3>2. /\ PageAfter(LastKey, CHUNK_QUERY) \in Seq(Nat)
          /\ PageAfter(LastKey, CHUNK_QUERY) # <<>>
      BY <3>1, MoreTokens
    <3>3. Len(result) < Len(result \o PageAfter(LastKey, CHUNK_QUERY))
      BY <1>1, <3>2, Longer
    <3> QED  BY <3>1, <3>3
  <2>6. CASE QueryChunk
    <3> DEFINE chunk == First(todo, ChunkSize)
               rest == SubSeq(todo, Len(chunk) + 1, Len(todo))
    <3>1. rest # <<>> /\ result' = result \o chunk
      BY <2>6 DEF QueryChunk
    <3>2. /\ chunk \in Seq(Ids)
          /\ Len(chunk) < ChunkSize => Len(chunk) = Len(todo)
      BY <1>1, Sizes, FirstFacts
    <3>3. ~(Len(chunk) < ChunkSize)
      <4> SUFFICES ASSUME Len(chunk) = Len(todo)  PROVE FALSE
        BY <3>2
      <4>1. SubSeq(todo, Len(todo) + 1, Len(todo)) = <<>>
        BY <1>1
      <4> QED  BY <3>1, <4>1
    <3> HIDE DEF chunk
    <3>4. chunk # <<>>
      BY <3>3, Sizes
    <3>5. Len(result) < Len(result \o chunk)
      BY <1>1, <3>2, <3>4, Longer
    <3> QED  BY <3>1, <3>5
  <2> QED  BY <1>2, <2>1, <2>2, <2>3, <2>4, <2>5, <2>6 DEF Query
<1>3. ~Change
  <2>1. changes \in Nat
    BY Sizes DEF IInv, TypeOK
  <2> QED  BY <2>1 DEF Change
<1> QED  BY <1>2, <1>3 DEF Next, AddEntry, RemoveEntry

\* handler.ts getPositions ... allPositions: no loop ever asks in vain and goes
\* on, but that of allTokens, and that only after a token has been burned.
THEOREM EveryCallGetsOn == Spec => [][GetsOn]_vars
<1>1. IInv /\ [Next]_vars => [GetsOn]_vars
  BY StepGetsOn
<1> QED  BY <1>1, Invariance, PTL DEF Spec

\* handler.ts getPositions ... allPositions: what is collected and where the
\* loop variable gets have a bound, so that no loop can get on for ever.
THEOREM LoopsAreBounded == Spec => []Bounded
<1>1. IInv => Bounded
  <2> SUFFICES ASSUME IInv  PROVE Bounded
    OBVIOUS
  <2>1. ASSUME method # "tokens"  PROVE Len(result) <= MaxStart + MaxChanges
    <3> DEFINE n == MaxStart + MaxChanges
    <3>1. result \in Seq(Ids) /\ IsInjective(result) /\ ToSet(result) \in SUBSET Ids
      BY <2>1, ListFacts DEF IInv, NoDuplicates
    <3>2. Cardinality(ToSet(result)) = Len(result)
      BY <3>1, LengthOfInjective
    <3>3. n \in Nat /\ ToSet(result) \in SUBSET (1..n)
      BY <3>1, Sizes DEF Ids
    <3> HIDE DEF n
    <3>4. Cardinality(ToSet(result)) \in 0..n
      BY <3>3, IntervalFacts
    <3>5. Cardinality(ToSet(result)) <= n
      BY <3>3, <3>4
    <3> QED  BY <3>2, <3>5 DEF n
  <2>2. i <= count + Step
    <3>1. i \in 0..(count + Step)
      BY DEF IInv, TypeOK
    <3> QED  BY <3>1
  <2> QED  BY <2>1, <2>2 DEF Bounded
<1> QED  BY <1>1, Invariance, PTL

=============================================================================
