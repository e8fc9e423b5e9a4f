----------------------- MODULE ScenarioCompiler_proofs -----------------------
(***************************************************************************)
(* Proofs about ScenarioCompiler: what the compiler accepts is a fixed     *)
(* point of it however its parts are listed, can be built, and a typed     *)
(* change moves only what it names.                                        *)
(*                                                                         *)
(* The first part is about sorting: a list whose names differ has one      *)
(* sorted form, which the ranks of its names give.  The second is about    *)
(* one compilation: what it returns is in canonical form and valid, and    *)
(* any listing of such a Scenario compiles to it.  The invariant says so   *)
(* of every revision of the log.                                           *)
(***************************************************************************)
EXTENDS ScenarioCompiler, FiniteSetTheorems, WellFoundedInduction, TLAPS

Named(s) == \A i \in DOMAIN s : s[i].name \in Nat

-----------------------------------------------------------------------------
(***************************************************************************)
(* Sorting by name.                                                        *)
(***************************************************************************)

\* The number of elements of s whose name is at most that of the i-th.
Below(s, i) == {j \in DOMAIN s : s[j].name <= s[i].name}
Rank(s, i) == Cardinality(Below(s, i))

\* Ranks grow with the names.
LEMMA RanksGrow ==
    ASSUME NEW s, NEW n \in Nat, DOMAIN s = 1..n, Named(s),
           NEW i \in 1..n, NEW j \in 1..n
    PROVE  /\ Rank(s, i) \in 1..n
           /\ s[i].name < s[j].name <=> Rank(s, i) < Rank(s, j)
<1>1. IsFiniteSet(1..n) /\ Cardinality(1..n) = n
  BY FS_Interval
<1>2. ASSUME NEW k \in 1..n
      PROVE  /\ IsFiniteSet(Below(s, k)) /\ k \in Below(s, k)
             /\ Rank(s, k) \in 1..n
  <2>1. Below(s, k) \in SUBSET (1..n)
    BY DEF Below
  <2>2. k \in Below(s, k)
    BY DEF Below, Named
  <2>3. IsFiniteSet(Below(s, k)) /\ Cardinality(Below(s, k)) <= n
    BY <1>1, <2>1, FS_Subset
  <2>4. Cardinality(Below(s, k)) \in Nat /\ Cardinality(Below(s, k)) # 0
    BY <2>2, <2>3, FS_CardinalityType, FS_EmptySet
  <2> QED
    BY <2>2, <2>3, <2>4 DEF Rank
<1>3. ASSUME NEW k \in 1..n, NEW l \in 1..n, s[k].name <= s[l].name
      PROVE  Rank(s, k) <= Rank(s, l)
  <2>1. Below(s, k) \in SUBSET Below(s, l)
    BY <1>3 DEF Below, Named
  <2> QED
    BY <1>2, <2>1, FS_Subset DEF Rank
<1>4. ASSUME NEW k \in 1..n, NEW l \in 1..n, s[k].name < s[l].name
      PROVE  Rank(s, k) < Rank(s, l)
  <2>1. Rank(s, k) <= Rank(s, l)
    BY <1>3, <1>4 DEF Named
  <2>2. Below(s, k) \in SUBSET Below(s, l)
    BY <1>4 DEF Below, Named
  <2>3. l \in Below(s, l) /\ l \notin Below(s, k)
    BY <1>2, <1>4 DEF Below, Named
  <2>4. Rank(s, k) # Rank(s, l)
    BY <1>2, <2>2, <2>3, FS_Subset DEF Rank
  <2> QED
    BY <1>2, <2>1, <2>4
<1>5. s[i].name \in Nat /\ s[j].name \in Nat
  BY DEF Named
<1>6. Rank(s, i) \in 1..n /\ Rank(s, j) \in 1..n
  BY <1>2
<1>7. CASE s[i].name < s[j].name
  BY <1>4, <1>6, <1>7
<1>8. CASE ~(s[i].name < s[j].name)
  <2>1. Rank(s, j) <= Rank(s, i)
    BY <1>3, <1>5, <1>8
  <2> QED
    BY <1>6, <1>8, <2>1
<1> QED
  BY <1>7, <1>8

LEMMA RangesAgree ==
    ASSUME NEW a, NEW b,
           \A i \in DOMAIN a : \E j \in DOMAIN b : a[i] = b[j],
           \A j \in DOMAIN b : \E i \in DOMAIN a : a[i] = b[j]
    PROVE  Range(a) = Range(b)
BY DEF Range

\* The i-th element goes to the place that its rank says.
LEMMA SortedFormExists ==
    ASSUME NEW s, NEW n \in Nat, DOMAIN s = 1..n, Named(s), UniqueNames(s)
    PROVE  \E t \in [DOMAIN s -> Range(s)] : Range(t) = Range(s) /\ Increasing(t)
<1> DEFINE rank == [i \in 1..n |-> Rank(s, i)]
           place == [k \in 1..n |-> CHOOSE i \in 1..n : rank[i] = k]
           t == [k \in 1..n |-> s[place[k]]]
<1>1. \A i, j \in 1..n : /\ rank[i] \in 1..n
                         /\ s[i].name < s[j].name <=> rank[i] < rank[j]
  BY RanksGrow
<1>2. \A i, j \in 1..n : rank[i] = rank[j] => i = j
  <2> SUFFICES ASSUME NEW i \in 1..n, NEW j \in 1..n, rank[i] = rank[j], i # j
               PROVE  FALSE
    OBVIOUS
  <2> HIDE DEF rank
  <2>1. s[i].name \in Nat /\ s[j].name \in Nat /\ s[i].name # s[j].name
    BY DEF Named, UniqueNames
  <2>2. s[i].name < s[j].name \/ s[j].name < s[i].name
    BY <2>1
  <2> QED
    BY <1>1, <2>2
<1>3. \A k \in 1..n : \E i \in 1..n : rank[i] = k
  <2>1. rank \in [1..n -> 1..n]
    BY <1>1
  <2> HIDE DEF rank
  <2>2. rank \in Injection(1..n, 1..n)
    BY <1>2, <2>1 DEF Injection, IsInjective
  <2>3. IsFiniteSet(1..n)
    BY FS_Interval
  <2>4. rank \in Surjection(1..n, 1..n)
    BY <2>2, <2>3, FS_Injection
  <2> QED
    BY <2>4 DEF Surjection
<1> HIDE DEF rank
<1>4. \A k \in 1..n : place[k] \in 1..n /\ rank[place[k]] = k
  BY <1>3
<1>5. \A i \in 1..n : rank[i] \in 1..n /\ place[rank[i]] = i
  BY <1>1, <1>2, <1>4
<1> HIDE DEF place
<1>6. t \in [DOMAIN s -> Range(s)]
  BY <1>4 DEF Range
<1>7. Range(t) = Range(s)
  <2>1. \A i \in 1..n : t[rank[i]] = s[i]
    BY <1>5
  <2>2. DOMAIN t = 1..n /\ \A k \in 1..n : t[k] \in Range(s)
    BY <1>6
  <2> HIDE DEF t
  <2>3. \A k \in DOMAIN t : \E i \in DOMAIN s : t[k] = s[i]
    BY <2>2 DEF Range
  <2>4. \A i \in DOMAIN s : \E k \in DOMAIN t : t[k] = s[i]
    BY <1>5, <2>1, <2>2
  <2> QED
    BY <2>3, <2>4, RangesAgree
<1>8. Increasing(t)
  <2> SUFFICES ASSUME NEW k \in 1..n, NEW l \in 1..n, k < l
               PROVE  s[place[k]].name < s[place[l]].name
    BY DEF Increasing
  <2> QED
    BY <1>1, <1>4
<1> QED
  BY <1>6, <1>7, <1>8

LEMMA ByNameSorts ==
    ASSUME NEW s, NEW n \in Nat, DOMAIN s = 1..n, Named(s), UniqueNames(s)
    PROVE  /\ ByName(s) \in [1..n -> Range(s)]
           /\ Range(ByName(s)) = Range(s) /\ Increasing(ByName(s))
BY SortedFormExists DEF ByName

\* A list that is sorted already is the only sorted form of its elements.
LEMMA SortedFormIsUnique ==
    ASSUME NEW n \in Nat, NEW a, NEW b, DOMAIN a = 1..n, DOMAIN b = 1..n,
           Named(a), Named(b), Range(a) = Range(b), Increasing(a), Increasing(b)
    PROVE  \A i \in 1..n : a[i] = b[i]
<1> DEFINE D == {i \in 1..n : a[i] # b[i]}
<1> SUFFICES ASSUME D # {}
             PROVE  FALSE
  OBVIOUS
<1>1. \E k \in D : \A i \in D : k <= i
  <2> DEFINE R == OpToRel(<, Nat)
  <2>1. D \subseteq Nat
    OBVIOUS
  <2>2. IsWellFoundedOn(R, Nat)
    BY NatLessThanWellFounded
  <2>3. \E k \in D : \A i \in D : <<i, k>> \notin R
    <3> HIDE DEF D, R
    <3> QED
      BY <2>1, <2>2, WFMin
  <2> HIDE DEF D
  <2>4. PICK k \in D : \A i \in D : <<i, k>> \notin R
    BY <2>3
  <2>5. \A i \in D : ~(i < k)
    BY <2>1, <2>4 DEF OpToRel
  <2> QED
    BY <2>1, <2>5
<1>2. PICK k \in 1..n : /\ a[k] # b[k]
                        /\ \A i \in 1..n : i < k => a[i] = b[i]
  BY <1>1
<1> HIDE DEF D
<1>3. ASSUME NEW x, NEW y, DOMAIN x = 1..n, DOMAIN y = 1..n, Named(x), Named(y),
             Range(x) = Range(y), Increasing(x), Increasing(y), x[k] # y[k],
             \A i \in 1..n : i < k => x[i] = y[i]
      PROVE  x[k].name < y[k].name
  <2>1. y[k] \in Range(x)
    BY <1>3 DEF Range
  <2>2. PICK l \in 1..n : x[l] = y[k]
    BY <1>3, <2>1 DEF Range
  <2>3. \A i, j \in 1..n : i < j => x[i].name < x[j].name
    BY <1>3 DEF Increasing
  <2>4. \A i, j \in 1..n : i < j => y[i].name < y[j].name
    BY <1>3 DEF Increasing
  <2>5. y[k].name \in Nat
    BY <1>3 DEF Named
  <2>6. CASE l < k
    <3>1. y[l].name < y[k].name
      BY <2>4, <2>6
    <3>2. y[l] = y[k]
      BY <1>3, <2>2, <2>6
    <3> QED
      BY <2>5, <3>1, <3>2
  <2>7. CASE l = k
    BY <1>3, <2>2, <2>7
  <2>8. CASE k < l
    <3>1. x[k].name < x[l].name
      BY <2>3, <2>8
    <3> QED
      BY <2>2, <3>1
  <2> QED
    BY <2>6, <2>7, <2>8
<1>4. a[k].name < b[k].name
  BY <1>2, <1>3
<1>5. b[k].name < a[k].name
  <2>1. /\ b[k] # a[k] /\ Range(b) = Range(a)
        /\ \A i \in 1..n : i < k => b[i] = a[i]
    BY <1>2
  <2> QED
    BY <1>3, <2>1
<1>6. a[k].name \in Nat /\ b[k].name \in Nat
  BY DEF Named
<1> QED
  BY <1>4, <1>5, <1>6

LEMMA IncreasingIsUnique ==
    ASSUME NEW s, NEW n \in Nat, DOMAIN s = 1..n, Named(s), Increasing(s)
    PROVE  UniqueNames(s)
BY DEF Named, Increasing, UniqueNames

\* So sorting a list of the elements of s gives s, when s is sorted.
LEMMA SortingUndoes ==
    ASSUME NEW n \in Nat, NEW S, NEW s \in [1..n -> S], Named(s), Increasing(s),
           NEW t, DOMAIN t = 1..n, Named(t), UniqueNames(t), Range(t) = Range(s)
    PROVE  ByName(t) = s
<1>1. /\ ByName(t) \in [1..n -> Range(s)]
      /\ Range(ByName(t)) = Range(s) /\ Increasing(ByName(t))
  BY ByNameSorts
<1>2. Named(ByName(t))
  BY <1>1 DEF Named, Range
<1>3. \A i \in 1..n : ByName(t)[i] = s[i]
  BY <1>1, <1>2, SortedFormIsUnique
<1> QED
  BY <1>1, <1>3

-----------------------------------------------------------------------------
(***************************************************************************)
(* The pools of a group: resolved, then written out.                       *)
(***************************************************************************)

Chosen(pool, mode, r) == CHOOSE c \in Candidates(pool, mode, r) : TRUE
ResolvedPool(pool, mode, r) == [pool EXCEPT !.contract = Chosen(pool, mode, r)]
Written(pool, r) == [pool EXCEPT !.healthy = Healthy(pool), !.revision = r]
WrittenPools(group, r) == [i \in DOMAIN group.pools |-> Written(group.pools[i], r)]

\* What the compiler writes out: nothing is left to a default.
Explicit(pool, r) ==
    /\ pool.contract \in DOMAIN Contracts /\ pool.revision = r /\ pool.healthy \in Nat

\* A pool that resolves means one contract of the catalog.
LEMMA OneCandidate ==
    ASSUME NEW pool, NEW mode, NEW r, Resolves(pool, mode, r)
    PROVE  /\ Chosen(pool, mode, r) \in DOMAIN Contracts
           /\ Candidates(pool, mode, r) = {Chosen(pool, mode, r)}
<1>1. Candidates(pool, mode, r) \in SUBSET DOMAIN Contracts
  BY DEF Candidates
<1>2. IsFiniteSet(Candidates(pool, mode, r))
  BY <1>1, CompilerAssumption, FS_Subset
<1>3. PICK c : Candidates(pool, mode, r) = {c}
  BY <1>2, FS_Singleton DEF Resolves
<1> QED
  BY <1>1, <1>3 DEF Chosen

\* A contract that is written is the one that is meant.
LEMMA ExplicitStays ==
    ASSUME NEW pool \in PoolType, NEW mode, NEW r, Explicit(pool, r)
    PROVE  /\ Resolves(pool, mode, r) => ResolvedPool(pool, mode, r) = pool
           /\ Written(pool, r) = pool
<1>1. ASSUME Resolves(pool, mode, r)
      PROVE  ResolvedPool(pool, mode, r) = pool
  <2>1. Chosen(pool, mode, r) \in Candidates(pool, mode, r)
    BY <1>1, OneCandidate
  <2>2. Chosen(pool, mode, r) = pool.contract
    BY <2>1, CompilerAssumption DEF Candidates, Explicit
  <2> QED
    BY <2>2 DEF ResolvedPool, PoolType
<1>2. pool.healthy # Default
  BY CompilerAssumption DEF Explicit
<1>3. Healthy(pool) = pool.healthy
  BY <1>2 DEF Healthy
<1>4. Written(pool, r) = pool
  BY <1>3 DEF Written, Explicit, PoolType
<1> QED
  BY <1>1, <1>4

\* Resolving a pool and writing it out leaves what the checks ask about.
LEMMA PoolIsWritten ==
    ASSUME NEW pool \in PoolType, NEW mode, NEW r \in Nat, Resolves(pool, mode, r),
           NEW q, q = ResolvedPool(pool, mode, r)
    PROVE  /\ q \in PoolType /\ q.name = pool.name
           /\ Written(q, r) \in PoolType /\ Written(q, r).name = q.name
           /\ Explicit(Written(q, r), r) /\ Resolves(Written(q, r), mode, r)
           /\ Offer(Written(q, r), r) = Offer(q, r)
           /\ Healthy(Written(q, r)) = Healthy(q) /\ Written(q, r).count = q.count
<1> DEFINE c == Chosen(pool, mode, r)
<1>1. c \in DOMAIN Contracts /\ Candidates(pool, mode, r) = {c} /\ pool.revision = r
  BY OneCandidate DEF Resolves
<1>2. c \in STRING /\ c # Default
  BY <1>1, CompilerAssumption
<1>3. q = [pool EXCEPT !.contract = c]
  BY DEF ResolvedPool
<1> HIDE DEF c
<1>4. /\ q \in PoolType /\ q.name = pool.name /\ q.contract = c /\ q.model = pool.model
      /\ q.healthy = pool.healthy /\ q.count = pool.count /\ q.revision = r
  BY <1>1, <1>2, <1>3 DEF PoolType
<1> DEFINE w == Written(q, r)
<1>5. Healthy(q) \in Nat /\ Healthy(q) # Default
  BY <1>4, CompilerAssumption DEF Healthy, PoolType
<1>6. w = [q EXCEPT !.healthy = Healthy(q), !.revision = r]
  BY DEF Written
<1> HIDE DEF w
<1>7. /\ w \in PoolType /\ w.name = q.name /\ w.contract = c /\ w.model = q.model
      /\ w.healthy = Healthy(q) /\ w.count = q.count /\ w.revision = r
  BY <1>4, <1>5, <1>6 DEF PoolType
<1>8. Healthy(w) = Healthy(q)
  BY <1>5, <1>7 DEF Healthy
<1>9. Candidates(w, mode, r) = {c}
  <2>1. c \in Candidates(pool, mode, r)
    BY <1>1
  <2> QED
    BY <1>2, <1>4, <1>7, <2>1, CompilerAssumption DEF Candidates
<1>10. Resolves(w, mode, r)
  BY <1>7, <1>9, FS_Singleton DEF Resolves
<1> QED
  BY <1>1, <1>4, <1>5, <1>7, <1>8, <1>10 DEF w, Explicit, Offer

-----------------------------------------------------------------------------
(***************************************************************************)
(* A group.                                                                *)
(***************************************************************************)

\* The canonical form of a group, and what the compiler checks of one.
Stored(group, r) ==
    /\ group.pools # <<>> /\ Increasing(group.pools) /\ Increasing(group.auxiliary)
    /\ \A pool \in Range(group.pools) : Explicit(pool, r)
Resolvable(group, mode, r) == \A pool \in Range(group.pools) : Resolves(pool, mode, r)
Valid(group, mode, r) ==
    /\ Resolvable(group, mode, r)
    /\ ValidPools(group, mode, r) /\ ValidAuxiliary(group, mode, r)

\* h lists what g lists, in some order.
Listing(h, g) ==
    /\ h = [g EXCEPT !.pools = h.pools, !.auxiliary = h.auxiliary]
    /\ DOMAIN h.pools = DOMAIN g.pools /\ Range(h.pools) = Range(g.pools)
    /\ DOMAIN h.auxiliary = DOMAIN g.auxiliary /\ Range(h.auxiliary) = Range(g.auxiliary)
    /\ UniqueNames(h.pools) /\ UniqueNames(h.auxiliary)

LEMMA EmptyLists ==
    ASSUME NEW S, NEW s \in Seq(S)
    PROVE  s # <<>> <=> 1 \in DOMAIN s
OBVIOUS

LEMMA GroupLists ==
    ASSUME NEW g \in GroupType
    PROVE  /\ Len(g.pools) \in Nat /\ DOMAIN g.pools = 1..Len(g.pools)
           /\ Len(g.auxiliary) \in Nat /\ DOMAIN g.auxiliary = 1..Len(g.auxiliary)
           /\ Named(g.pools) /\ Named(g.auxiliary)
           /\ g.pools \in [DOMAIN g.pools -> PoolType]
           /\ g.auxiliary \in [DOMAIN g.auxiliary -> AuxiliaryType]
           /\ \A pool \in Range(g.pools) : pool \in PoolType
           /\ g.pools # <<>> <=> 1 \in DOMAIN g.pools
<1>1. g.pools \in Seq(PoolType) /\ g.auxiliary \in Seq(AuxiliaryType)
  BY DEF GroupType
<1>2. /\ Len(g.pools) \in Nat /\ DOMAIN g.pools = 1..Len(g.pools)
      /\ Len(g.auxiliary) \in Nat /\ DOMAIN g.auxiliary = 1..Len(g.auxiliary)
  BY <1>1
<1>3. /\ g.pools \in [DOMAIN g.pools -> PoolType]
      /\ g.auxiliary \in [DOMAIN g.auxiliary -> AuxiliaryType]
  BY <1>1
<1>4. \A pool \in PoolType : pool.name \in Nat
  BY DEF PoolType
<1>5. \A aux \in AuxiliaryType : aux.name \in Nat
  BY DEF AuxiliaryType
<1>6. g.pools # <<>> <=> 1 \in DOMAIN g.pools
  BY <1>1, EmptyLists
<1> QED
  BY <1>2, <1>3, <1>4, <1>5, <1>6 DEF Named, Range

\* Every listing of a canonical group is compiled to it.
LEMMA ListingIsStored ==
    ASSUME NEW g \in GroupType, NEW h \in GroupType, NEW mode, NEW r,
           Stored(g, r), Listing(h, g)
    PROVE  /\ Resolvable(h, mode, r) <=> Resolvable(g, mode, r)
           /\ Resolvable(h, mode, r) => Resolved(h, mode, r) = h
           /\ CanonicalGroup(h, r) = g
           /\ ValidPools(h, mode, r) <=> ValidPools(g, mode, r)
           /\ ValidAuxiliary(h, mode, r) <=> ValidAuxiliary(g, mode, r)
<1>1. /\ Range(h.pools) = Range(g.pools) /\ DOMAIN h.pools = DOMAIN g.pools
      /\ Range(h.auxiliary) = Range(g.auxiliary) /\ DOMAIN h.auxiliary = DOMAIN g.auxiliary
      /\ UniqueNames(h.pools) /\ UniqueNames(h.auxiliary)
      /\ h.labels = g.labels
  BY DEF Listing, GroupType
<1>2. UniqueNames(g.pools) /\ UniqueNames(g.auxiliary)
  BY GroupLists, IncreasingIsUnique DEF Stored
<1>3. Resolvable(h, mode, r) <=> Resolvable(g, mode, r)
  BY <1>1 DEF Resolvable
<1>4. \A i \in DOMAIN h.pools : h.pools[i] \in PoolType /\ Explicit(h.pools[i], r)
  BY <1>1, GroupLists DEF Stored, Range
<1>5. ASSUME Resolvable(h, mode, r)
      PROVE  Resolved(h, mode, r) = h
  <2>1. \A i \in DOMAIN h.pools : ResolvedPool(h.pools[i], mode, r) = h.pools[i]
    BY <1>4, <1>5, ExplicitStays DEF Resolvable, Range
  <2>2. [i \in DOMAIN h.pools |-> ResolvedPool(h.pools[i], mode, r)] = h.pools
    BY <2>1, GroupLists
  <2>3. Resolved(h, mode, r) =
          [h EXCEPT !.pools = [i \in DOMAIN h.pools |-> ResolvedPool(h.pools[i], mode, r)]]
    BY DEF Resolved, ResolvedPool, Chosen
  <2> QED
    BY <2>2, <2>3 DEF GroupType
<1>6. CanonicalGroup(h, r) = g
  <2>1. \A i \in DOMAIN h.pools : Written(h.pools[i], r) = h.pools[i]
    BY <1>4, ExplicitStays
  <2>2. WrittenPools(h, r) = h.pools
    BY <2>1, GroupLists DEF WrittenPools
  <2>3. ByName(h.pools) = g.pools
    <3>1. /\ Len(g.pools) \in Nat /\ g.pools \in [1..Len(g.pools) -> PoolType]
          /\ Named(g.pools) /\ Increasing(g.pools)
          /\ DOMAIN h.pools = 1..Len(g.pools) /\ Named(h.pools)
      BY <1>1, GroupLists DEF Stored
    <3> QED
      BY <1>1, <3>1, SortingUndoes
  <2>4. ByName(h.auxiliary) = g.auxiliary
    <3>1. /\ Len(g.auxiliary) \in Nat
          /\ g.auxiliary \in [1..Len(g.auxiliary) -> AuxiliaryType]
          /\ Named(g.auxiliary) /\ Increasing(g.auxiliary)
          /\ DOMAIN h.auxiliary = 1..Len(g.auxiliary) /\ Named(h.auxiliary)
      BY <1>1, GroupLists DEF Stored
    <3> QED
      BY <1>1, <3>1, SortingUndoes
  <2>5. CanonicalGroup(h, r) = [h EXCEPT !.pools = ByName(WrittenPools(h, r)),
                                         !.auxiliary = ByName(h.auxiliary)]
    BY DEF CanonicalGroup, WrittenPools, Written
  <2>6. CanonicalGroup(h, r) = [h EXCEPT !.pools = g.pools, !.auxiliary = g.auxiliary]
    BY <2>2, <2>3, <2>4, <2>5
  <2> QED
    BY <2>6 DEF Listing, GroupType
<1>7. h.pools # <<>> /\ g.pools # <<>>
  <2>1. g.pools # <<>>
    BY DEF Stored
  <2>2. 1 \in DOMAIN h.pools
    BY <1>1, <2>1, GroupLists
  <2> QED
    BY <2>1, <2>2, GroupLists
<1>8. ValidPools(h, mode, r) <=> ValidPools(g, mode, r)
  BY <1>1, <1>2, <1>7 DEF ValidPools
<1>9. ValidAuxiliary(h, mode, r) <=> ValidAuxiliary(g, mode, r)
  BY <1>1, <1>2 DEF ValidAuxiliary
<1> QED
  BY <1>3, <1>5, <1>6, <1>8, <1>9

\* What is compiled from any group that is accepted is canonical and valid.
LEMMA GroupIsCompiled ==
    ASSUME NEW g \in GroupType, NEW mode, NEW r \in 1..Releases, Resolvable(g, mode, r),
           NEW h, h = Resolved(g, mode, r),
           ValidPools(h, mode, r), ValidAuxiliary(h, mode, r)
    PROVE  LET k == CanonicalGroup(h, r)
           IN  /\ k \in GroupType /\ Stored(k, r) /\ Valid(k, mode, r)
               /\ k.name = g.name /\ h.name = g.name
<1> DEFINE n == Len(g.pools)
           m == Len(g.auxiliary)
           k == CanonicalGroup(h, r)
           w == WrittenPools(h, r)
<1>1. /\ n \in Nat /\ DOMAIN g.pools = 1..n /\ m \in Nat /\ DOMAIN g.auxiliary = 1..m
      /\ g.pools \in [1..n -> PoolType] /\ g.auxiliary \in [1..m -> AuxiliaryType]
      /\ Named(g.auxiliary)
  BY GroupLists
<1>2. h = [g EXCEPT !.pools = [i \in 1..n |-> ResolvedPool(g.pools[i], mode, r)]]
  BY <1>1 DEF Resolved, ResolvedPool, Chosen
<1>3. /\ h.pools = [i \in 1..n |-> ResolvedPool(g.pools[i], mode, r)]
      /\ h.name = g.name /\ h.labels = g.labels /\ h.auxiliary = g.auxiliary
      /\ h.replicas = g.replicas /\ h.discovery = g.discovery
      /\ \A p, a : [h EXCEPT !.pools = p, !.auxiliary = a]
                    = [g EXCEPT !.pools = p, !.auxiliary = a]
  BY <1>2 DEF GroupType
<1> HIDE DEF n, m
<1>4. r \in Nat
  BY CompilerAssumption
<1>5. ASSUME NEW i \in 1..n
      PROVE  LET q == h.pools[i]
             IN  /\ q \in PoolType /\ w[i] = Written(q, r) /\ w[i] \in PoolType
                 /\ w[i].name = q.name /\ Explicit(w[i], r) /\ Resolves(w[i], mode, r)
                 /\ Offer(w[i], r) = Offer(q, r)
                 /\ Healthy(w[i]) = Healthy(q) /\ w[i].count = q.count
  <2>1. g.pools[i] \in PoolType /\ Resolves(g.pools[i], mode, r)
    BY <1>1 DEF Resolvable, Range
  <2>2. h.pools[i] = ResolvedPool(g.pools[i], mode, r) /\ i \in DOMAIN h.pools
    BY <1>3
  <2>3. w[i] = Written(h.pools[i], r)
    BY <2>2 DEF WrittenPools
  <2> QED
    BY <1>4, <2>1, <2>2, <2>3, PoolIsWritten
<1>6. DOMAIN w = 1..n /\ DOMAIN h.pools = 1..n
  BY <1>3 DEF WrittenPools
<1> HIDE DEF w
<1>7. Named(w) /\ UniqueNames(w) /\ UniqueNames(g.auxiliary) /\ h.pools # <<>>
  <2>1. UniqueNames(h.pools) /\ UniqueNames(h.auxiliary) /\ h.pools # <<>>
    BY DEF ValidPools, ValidAuxiliary
  <2>2. UniqueNames(w)
    BY <1>5, <1>6, <2>1 DEF UniqueNames
  <2>3. Named(w)
    <3>1. \A pool \in PoolType : pool.name \in Nat
      BY DEF PoolType
    <3> QED
      BY <1>5, <1>6, <3>1 DEF Named
  <2> QED
    BY <1>3, <2>1, <2>2, <2>3
<1>8. /\ ByName(w) \in [1..n -> Range(w)] /\ Range(ByName(w)) = Range(w)
      /\ Increasing(ByName(w))
  BY <1>1, <1>6, <1>7, ByNameSorts
<1>9. /\ ByName(g.auxiliary) \in [1..m -> Range(g.auxiliary)]
      /\ Range(ByName(g.auxiliary)) = Range(g.auxiliary)
      /\ Increasing(ByName(g.auxiliary))
  BY <1>1, <1>7, ByNameSorts
<1>10. k = [g EXCEPT !.pools = ByName(w), !.auxiliary = ByName(g.auxiliary)]
  <2>1. k = [h EXCEPT !.pools = ByName(w), !.auxiliary = ByName(h.auxiliary)]
    BY DEF CanonicalGroup, w, WrittenPools, Written
  <2> QED
    BY <1>3, <2>1
<1> HIDE DEF k
<1>11. /\ k.name = g.name /\ k.labels = g.labels /\ k.pools = ByName(w)
       /\ k.auxiliary = ByName(g.auxiliary)
  BY <1>10 DEF GroupType
<1>12. \A pool \in Range(w) : pool \in PoolType /\ Explicit(pool, r) /\ Resolves(pool, mode, r)
  BY <1>5, <1>6 DEF Range
<1>13. k \in GroupType
  <2>1. ByName(w) \in Seq(PoolType)
    <3>1. ByName(w) \in [1..n -> PoolType]
      BY <1>8, <1>12
    <3> QED
      BY <1>1, <3>1
  <2>2. ByName(g.auxiliary) \in Seq(AuxiliaryType)
    <3>1. Range(g.auxiliary) \subseteq AuxiliaryType
      BY <1>1 DEF Range
    <3>2. ByName(g.auxiliary) \in [1..m -> AuxiliaryType]
      BY <1>9, <3>1
    <3> QED
      BY <1>1, <3>2
  <2> QED
    BY <1>10, <2>1, <2>2 DEF GroupType
<1>14. k.pools # <<>>
  <2>1. h.pools \in Seq(PoolType)
    <3>1. h.pools \in [1..n -> PoolType]
      BY <1>3, <1>5
    <3> QED
      BY <1>1, <3>1
  <2>2. 1 \in 1..n
    BY <1>6, <1>7, <2>1, EmptyLists
  <2> QED
    BY <1>8, <1>11, <1>13, <2>2, GroupLists
<1>15. Stored(k, r)
  BY <1>8, <1>9, <1>11, <1>12, <1>14 DEF Stored
<1>16. UniqueNames(k.pools) /\ UniqueNames(k.auxiliary)
  BY <1>13, <1>15, GroupLists, IncreasingIsUnique DEF Stored
<1>17. Resolvable(k, mode, r)
  BY <1>8, <1>11, <1>12 DEF Resolvable
<1>18. Range(k.pools) = Range(w) /\ Range(k.auxiliary) = Range(h.auxiliary)
  BY <1>3, <1>8, <1>9, <1>11
<1>19. \A pool \in Range(w) : \E q \in Range(h.pools) :
         /\ pool = Written(q, r) /\ pool.name = q.name /\ Offer(pool, r) = Offer(q, r)
         /\ Healthy(pool) = Healthy(q) /\ pool.count = q.count
  BY <1>5, <1>6 DEF Range
<1>20. \A q \in Range(h.pools) : \E pool \in Range(w) : pool.name = q.name
  BY <1>5, <1>6 DEF Range
<1>21. ValidPools(k, mode, r)
  <2>1. ASSUME NEW pool \in Range(w)
        PROVE  /\ Healthy(pool) <= pool.count
               /\ k.labels \cap Keys(Offer(pool, r).identity) = {}
    <3>1. PICK q \in Range(h.pools) : /\ Offer(pool, r) = Offer(q, r)
                                      /\ Healthy(pool) = Healthy(q) /\ pool.count = q.count
      BY <1>19
    <3>2. Healthy(q) <= q.count /\ h.labels \cap Keys(Offer(q, r).identity) = {}
      BY DEF ValidPools
    <3> QED
      BY <1>3, <1>11, <3>1, <3>2
  <2>2. ASSUME NEW p \in Range(w), NEW q \in Range(w)
        PROVE  /\ Offer(p, r).model = Offer(q, r).model
               /\ mode = "scheduling" /\ p # q => Offer(p, r).resource # Offer(q, r).resource
    <3>1. PICK x \in Range(h.pools) : p = Written(x, r) /\ Offer(p, r) = Offer(x, r)
      BY <1>19
    <3>2. PICK y \in Range(h.pools) : q = Written(y, r) /\ Offer(q, r) = Offer(y, r)
      BY <1>19
    <3>3. p # q => x # y
      BY <3>1, <3>2
    <3>4. /\ Offer(x, r).model = Offer(y, r).model
          /\ mode = "scheduling" /\ x # y => Offer(x, r).resource # Offer(y, r).resource
      BY DEF ValidPools
    <3> QED
      BY <3>1, <3>2, <3>3, <3>4
  <2>3. k.labels \cap Reserved = {}
    BY <1>3, <1>11 DEF ValidPools
  <2> QED
    BY <1>14, <1>16, <1>18, <2>1, <2>2, <2>3 DEF ValidPools
<1>22. ValidAuxiliary(k, mode, r)
  <2> SUFFICES ASSUME NEW aux \in Range(h.auxiliary)
               PROVE  /\ mode = "scheduling" /\ aux.available <= aux.count
                      /\ aux.with # {}
                      /\ aux.with \subseteq {pool.name : pool \in Range(w)}
                      /\ \A other \in Range(h.auxiliary) \ {aux} :
                            aux.resource # other.resource
                      /\ \A pool \in Range(w) : aux.resource # Offer(pool, r).resource
    BY <1>16, <1>18 DEF ValidAuxiliary
  <2>1. /\ mode = "scheduling" /\ aux.available <= aux.count /\ aux.with # {}
        /\ aux.with \subseteq {pool.name : pool \in Range(h.pools)}
        /\ \A other \in Range(h.auxiliary) \ {aux} : aux.resource # other.resource
        /\ \A q \in Range(h.pools) : aux.resource # Offer(q, r).resource
    BY DEF ValidAuxiliary
  <2>2. aux.with \subseteq {pool.name : pool \in Range(w)}
    BY <1>20, <2>1
  <2>3. \A pool \in Range(w) : aux.resource # Offer(pool, r).resource
    BY <1>19, <2>1
  <2> QED
    BY <2>1, <2>2, <2>3
<1> QED
  BY <1>3, <1>11, <1>13, <1>15, <1>17, <1>21, <1>22 DEF Valid, k

-----------------------------------------------------------------------------
(***************************************************************************)
(* A Scenario.                                                             *)
(***************************************************************************)

ResolvedGroups(d, r) == [i \in DOMAIN d.groups |-> Resolved(d.groups[i], d.mode, r)]
CompiledGroups(d, r) == [i \in DOMAIN ResolvedGroups(d, r) |->
                            CanonicalGroup(ResolvedGroups(d, r)[i], r)]
Accepts(d, r) ==
    /\ ResolvedGroups(d, r) # <<>> /\ UniqueNames(ResolvedGroups(d, r))
    /\ \A group \in Range(d.groups) : Resolvable(group, d.mode, r)
    /\ \A group \in Range(ResolvedGroups(d, r)) :
         ValidPools(group, d.mode, r) /\ ValidAuxiliary(group, d.mode, r)

LEMMA CompileIs ==
    ASSUME NEW d, NEW r
    PROVE  Compile(d, r) = IF Accepts(d, r)
                           THEN [d EXCEPT !.groups = ByName(CompiledGroups(d, r))]
                           ELSE Rejected
BY DEF Compile, Accepts, ResolvedGroups, CompiledGroups, Resolvable

\* The canonical form of a Scenario that release r compiled.
Canonical(s, r) ==
    /\ s \in DocumentType /\ s.groups # <<>> /\ Increasing(s.groups)
    /\ \A group \in Range(s.groups) : Stored(group, r)
Sound(s, r) ==
    Canonical(s, r) /\ \A group \in Range(s.groups) : Valid(group, s.mode, r)

LEMMA DocumentLists ==
    ASSUME NEW d \in DocumentType
    PROVE  /\ Len(d.groups) \in Nat /\ DOMAIN d.groups = 1..Len(d.groups)
           /\ d.groups \in [DOMAIN d.groups -> GroupType]
           /\ \A group \in Range(d.groups) : group \in GroupType
           /\ d.groups # <<>> <=> 1 \in DOMAIN d.groups
           /\ Named(d.groups)
<1>1. d.groups \in Seq(GroupType)
  BY DEF DocumentType
<1>2. /\ Len(d.groups) \in Nat /\ DOMAIN d.groups = 1..Len(d.groups)
      /\ d.groups \in [DOMAIN d.groups -> GroupType]
      /\ d.groups # <<>> <=> 1 \in DOMAIN d.groups
  BY <1>1, EmptyLists
<1>3. \A group \in GroupType : group.name \in Nat
  BY DEF GroupType
<1> QED
  BY <1>2, <1>3 DEF Named, Range

\* What Compile returns is canonical and valid, of the mode of the document.
LEMMA CompileIsSound ==
    ASSUME NEW d \in DocumentType, NEW r \in 1..Releases, Compile(d, r) # Rejected
    PROVE  Sound(Compile(d, r), r) /\ Compile(d, r).mode = d.mode
<1> DEFINE n == Len(d.groups)
           R == ResolvedGroups(d, r)
           C == CompiledGroups(d, r)
           s == Compile(d, r)
<1>1. Accepts(d, r) /\ s = [d EXCEPT !.groups = ByName(C)]
  BY CompileIs
<1>2. /\ n \in Nat /\ DOMAIN d.groups = 1..n /\ d.groups \in [1..n -> GroupType]
  BY DocumentLists
<1>3. /\ DOMAIN R = 1..n /\ DOMAIN C = 1..n
      /\ \A i \in 1..n : /\ R[i] = Resolved(d.groups[i], d.mode, r)
                          /\ C[i] = CanonicalGroup(R[i], r)
  BY <1>2 DEF ResolvedGroups, CompiledGroups
<1> HIDE DEF n, R, C, s
<1>4. ASSUME NEW i \in 1..n
      PROVE  /\ C[i] \in GroupType /\ Stored(C[i], r) /\ Valid(C[i], d.mode, r)
             /\ C[i].name = R[i].name
  <2>1. d.groups[i] \in GroupType /\ Resolvable(d.groups[i], d.mode, r)
    BY <1>1, <1>2 DEF Accepts, Range
  <2>2. ValidPools(R[i], d.mode, r) /\ ValidAuxiliary(R[i], d.mode, r)
    BY <1>1, <1>3 DEF Accepts, Range, R
  <2> QED
    BY <1>3, <2>1, <2>2, GroupIsCompiled
<1>5. UniqueNames(C) /\ Named(C)
  <2>1. UniqueNames(R)
    BY <1>1 DEF Accepts, R
  <2>2. \A group \in GroupType : group.name \in Nat
    BY DEF GroupType
  <2> QED
    BY <1>3, <1>4, <2>1, <2>2 DEF UniqueNames, Named
<1>6. /\ ByName(C) \in [1..n -> Range(C)] /\ Range(ByName(C)) = Range(C)
      /\ Increasing(ByName(C))
  BY <1>2, <1>3, <1>5, ByNameSorts
<1>7. \A group \in Range(C) :
        group \in GroupType /\ Stored(group, r) /\ Valid(group, d.mode, r)
  BY <1>3, <1>4 DEF Range
<1>8. ByName(C) \in Seq(GroupType)
  <2>1. ByName(C) \in [1..n -> GroupType]
    BY <1>6, <1>7
  <2> QED
    BY <1>2, <2>1
<1>9. s \in DocumentType /\ s.groups = ByName(C) /\ s.mode = d.mode
  BY <1>1, <1>8 DEF DocumentType
<1>10. s.groups # <<>>
  <2>1. R # <<>>
    BY <1>1 DEF Accepts, R
  <2> DEFINE S == {R[i] : i \in 1..n}
  <2>2. R \in Seq(S)
    <3>1. R \in [1..n -> S]
      BY <1>3 DEF R, ResolvedGroups
    <3> HIDE DEF S
    <3> QED
      BY <1>2, <3>1
  <2> HIDE DEF S
  <2>3. 1 \in 1..n
    BY <1>3, <2>1, <2>2, EmptyLists
  <2> QED
    BY <1>6, <1>9, <2>3, DocumentLists
<1> QED
  BY <1>6, <1>7, <1>9, <1>10 DEF Sound, Canonical, s

\* e lists the groups of d, and their parts, in some order.
Relisting(e, d) ==
    /\ e \in DocumentType /\ e.mode = d.mode /\ DOMAIN e.groups = DOMAIN d.groups
    /\ \A i \in DOMAIN e.groups : \E j \in DOMAIN d.groups :
          Listing(e.groups[i], d.groups[j])
    /\ \A j \in DOMAIN d.groups : \E i \in DOMAIN e.groups :
          Listing(e.groups[i], d.groups[j])
    /\ UniqueNames(e.groups)

\* Every listing of a canonical Scenario compiles to it, if it compiles at all, and it
\* compiles when the Scenario is valid.
LEMMA RelistingCompiles ==
    ASSUME NEW d \in DocumentType, NEW r, Canonical(d, r), NEW e, Relisting(e, d)
    PROVE  /\ (\A group \in Range(d.groups) : Valid(group, d.mode, r)) => Compile(e, r) = d
           /\ Compile(e, r) # Rejected =>
                 /\ Compile(e, r) = d
                 /\ \A group \in Range(d.groups) : Valid(group, d.mode, r)
<1> DEFINE n == Len(d.groups)
           V == \A group \in Range(d.groups) : Valid(group, d.mode, r)
<1>1. /\ n \in Nat /\ DOMAIN d.groups = 1..n /\ d.groups \in [1..n -> GroupType]
      /\ Named(d.groups) /\ 1 \in 1..n /\ Increasing(d.groups)
  BY DocumentLists DEF Canonical
<1>2. /\ e \in DocumentType /\ e.mode = d.mode /\ DOMAIN e.groups = 1..n
      /\ e.groups \in [1..n -> GroupType] /\ Named(e.groups) /\ UniqueNames(e.groups)
      /\ e.groups # <<>>
  <2>1. e \in DocumentType /\ e.mode = d.mode /\ DOMAIN e.groups = 1..n /\ UniqueNames(e.groups)
    BY <1>1 DEF Relisting
  <2> QED
    BY <1>1, <2>1, DocumentLists
<1> HIDE DEF n
<1>3. ASSUME NEW h \in GroupType, NEW j \in 1..n, Listing(h, d.groups[j])
      PROVE  LET g == d.groups[j]
             IN  /\ Resolvable(h, d.mode, r) <=> Resolvable(g, d.mode, r)
                 /\ Resolvable(h, d.mode, r) => Resolved(h, d.mode, r) = h
                 /\ CanonicalGroup(h, r) = g
                 /\ ValidPools(h, d.mode, r) <=> ValidPools(g, d.mode, r)
                 /\ ValidAuxiliary(h, d.mode, r) <=> ValidAuxiliary(g, d.mode, r)
  <2>1. d.groups[j] \in GroupType /\ Stored(d.groups[j], r)
    BY <1>1 DEF Canonical, Range
  <2> QED
    BY <1>3, <2>1, ListingIsStored
<1>4. ASSUME NEW i \in 1..n
      PROVE  \E j \in 1..n : Listing(e.groups[i], d.groups[j])
  BY <1>1, <1>2 DEF Relisting
<1>5. ASSUME NEW j \in 1..n
      PROVE  \E i \in 1..n : Listing(e.groups[i], d.groups[j])
  BY <1>1, <1>2 DEF Relisting
<1>6. V \/ Accepts(e, r) => \A i \in 1..n : Resolvable(e.groups[i], d.mode, r)
  <2>1. ASSUME V, NEW i \in 1..n
        PROVE  Resolvable(e.groups[i], d.mode, r)
    <3>1. PICK j \in 1..n : Listing(e.groups[i], d.groups[j])
      BY <1>4
    <3>2. Resolvable(d.groups[j], d.mode, r)
      BY <1>1, <2>1 DEF Valid, Range
    <3> QED
      BY <1>2, <1>3, <3>1, <3>2
  <2>2. ASSUME Accepts(e, r), NEW i \in 1..n
        PROVE  Resolvable(e.groups[i], d.mode, r)
    BY <1>2, <2>2 DEF Accepts, Range
  <2> HIDE DEF V
  <2> QED
    BY <2>1, <2>2
<1>7. ASSUME V \/ Accepts(e, r)
      PROVE  ResolvedGroups(e, r) = e.groups /\ ByName(CompiledGroups(e, r)) = d.groups
  <2>1. \A i \in 1..n : Resolved(e.groups[i], d.mode, r) = e.groups[i]
    <3> SUFFICES ASSUME NEW i \in 1..n
                 PROVE  Resolved(e.groups[i], d.mode, r) = e.groups[i]
      OBVIOUS
    <3>1. Resolvable(e.groups[i], d.mode, r)
      BY <1>6, <1>7
    <3>2. PICK j \in 1..n : Listing(e.groups[i], d.groups[j])
      BY <1>4
    <3> QED
      BY <1>2, <1>3, <3>1, <3>2
  <2>2. ResolvedGroups(e, r) = e.groups
    BY <1>2, <2>1 DEF ResolvedGroups
  <2> DEFINE C == CompiledGroups(e, r)
  <2>3. DOMAIN C = 1..n /\ \A i \in 1..n : C[i] = CanonicalGroup(e.groups[i], r)
    BY <1>2, <2>2 DEF CompiledGroups
  <2> HIDE DEF C
  <2>4. ASSUME NEW i \in 1..n, NEW j \in 1..n, Listing(e.groups[i], d.groups[j])
        PROVE  C[i] = d.groups[j] /\ d.groups[j].name = e.groups[i].name
    <3>1. C[i] = d.groups[j]
      BY <1>2, <1>3, <2>3, <2>4
    <3>2. d.groups[j] \in GroupType
      BY <1>1
    <3>3. e.groups[i].name = d.groups[j].name
      BY <2>4, <3>2 DEF Listing, GroupType
    <3> QED
      BY <3>1, <3>3
  <2>5. \A i \in 1..n : \E j \in 1..n : C[i] = d.groups[j] /\ C[i].name = e.groups[i].name
    BY <1>4, <2>4
  <2>6. Range(C) = Range(d.groups)
    <3>1. \A j \in DOMAIN d.groups : \E i \in DOMAIN C : C[i] = d.groups[j]
      BY <1>1, <1>5, <2>3, <2>4
    <3>2. \A i \in DOMAIN C : \E j \in DOMAIN d.groups : C[i] = d.groups[j]
      BY <1>1, <2>3, <2>5
    <3> QED
      BY <3>1, <3>2, RangesAgree
  <2>7. Named(C) /\ UniqueNames(C)
    BY <1>2, <2>3, <2>5 DEF Named, UniqueNames
  <2>8. ByName(C) = d.groups
    BY <1>1, <2>3, <2>6, <2>7, SortingUndoes
  <2> QED
    BY <2>2, <2>8 DEF C
<1>8. ASSUME V \/ Accepts(e, r)
      PROVE  V <=> Accepts(e, r)
  <2>1. /\ ResolvedGroups(e, r) = e.groups
        /\ \A i \in 1..n : Resolvable(e.groups[i], d.mode, r)
    BY <1>6, <1>7, <1>8
  <2>2. Accepts(e, r) <=> \A i \in 1..n : /\ ValidPools(e.groups[i], d.mode, r)
                                          /\ ValidAuxiliary(e.groups[i], d.mode, r)
    BY <1>2, <2>1 DEF Accepts, Range
  <2>3. V <=> \A j \in 1..n : Valid(d.groups[j], d.mode, r)
    BY <1>1 DEF Range
  <2>4. ASSUME NEW i \in 1..n, NEW j \in 1..n, Listing(e.groups[i], d.groups[j])
        PROVE  /\ ValidPools(e.groups[i], d.mode, r) <=> ValidPools(d.groups[j], d.mode, r)
               /\ ValidAuxiliary(e.groups[i], d.mode, r)
                    <=> ValidAuxiliary(d.groups[j], d.mode, r)
               /\ Resolvable(d.groups[j], d.mode, r)
    BY <1>2, <1>3, <2>1, <2>4
  <2> HIDE DEF V
  <2>5. ASSUME V
        PROVE  Accepts(e, r)
    <3> SUFFICES ASSUME NEW i \in 1..n
                 PROVE  ValidPools(e.groups[i], d.mode, r) /\ ValidAuxiliary(e.groups[i], d.mode, r)
      BY <2>2
    <3>1. PICK j \in 1..n : Listing(e.groups[i], d.groups[j])
      BY <1>4
    <3> QED
      BY <2>3, <2>4, <2>5, <3>1 DEF Valid
  <2>6. ASSUME Accepts(e, r)
        PROVE  V
    <3> SUFFICES ASSUME NEW j \in 1..n
                 PROVE  Valid(d.groups[j], d.mode, r)
      BY <2>3
    <3>1. PICK i \in 1..n : Listing(e.groups[i], d.groups[j])
      BY <1>5
    <3> QED
      BY <2>2, <2>4, <2>6, <3>1 DEF Valid
  <2> QED
    BY <2>5, <2>6
<1>9. Accepts(e, r) => Compile(e, r) = d
  <2> SUFFICES ASSUME Accepts(e, r)
               PROVE  Compile(e, r) = d
    OBVIOUS
  <2>1. Compile(e, r) = [e EXCEPT !.groups = d.groups]
    BY <1>7, CompileIs
  <2> QED
    BY <1>2, <2>1 DEF DocumentType
<1> QED
  BY <1>8, <1>9, CompileIs

\* The canonical Scenario lists itself, and so does the one listed backwards.
LEMMA CanonicalListsItself ==
    ASSUME NEW d, NEW r, Canonical(d, r)
    PROVE  Relisting(d, d)
<1>1. \A i \in DOMAIN d.groups : d.groups[i] \in GroupType /\ Stored(d.groups[i], r)
  BY DocumentLists DEF Canonical, Range
<1>2. \A g \in GroupType : Stored(g, r) => Listing(g, g)
  <2> SUFFICES ASSUME NEW g \in GroupType, Stored(g, r)
               PROVE  Listing(g, g)
    OBVIOUS
  <2>1. UniqueNames(g.pools) /\ UniqueNames(g.auxiliary)
    BY GroupLists, IncreasingIsUnique DEF Stored
  <2> QED
    BY <2>1 DEF Listing, GroupType
<1>3. UniqueNames(d.groups)
  BY DocumentLists, IncreasingIsUnique DEF Canonical
<1> QED
  BY <1>1, <1>2, <1>3 DEF Relisting, Canonical

LEMMA ReverseLists ==
    ASSUME NEW S, NEW s \in Seq(S)
    PROVE  /\ Reverse(s) \in Seq(S) /\ DOMAIN Reverse(s) = DOMAIN s
           /\ Range(Reverse(s)) = Range(s)
           /\ UniqueNames(s) => UniqueNames(Reverse(s))
<1> DEFINE n == Len(s)
           t == Reverse(s)
<1>1. n \in Nat /\ DOMAIN s = 1..n
  OBVIOUS
<1>2. DOMAIN t = 1..n /\ \A i \in 1..n : t[i] = s[(n - i) + 1]
  BY DEF Reverse
<1>3. \A i \in 1..n : (n - i) + 1 \in 1..n /\ (n - ((n - i) + 1)) + 1 = i
  BY <1>1
<1>4. t = [i \in 1..n |-> s[(n - i) + 1]]
  BY DEF Reverse
<1>5. s \in [1..n -> S]
  BY <1>1
<1> HIDE DEF n, t
<1>6. t \in Seq(S)
  <2>1. t \in [1..n -> S]
    BY <1>3, <1>4, <1>5
  <2> QED
    BY <1>1, <2>1
<1>7. Range(t) = Range(s)
  <2>1. \A i \in DOMAIN t : \E j \in DOMAIN s : t[i] = s[j]
    BY <1>1, <1>2, <1>3
  <2>2. \A j \in 1..n : t[(n - j) + 1] = s[j]
    BY <1>2, <1>3
  <2>3. \A j \in DOMAIN s : \E i \in DOMAIN t : t[i] = s[j]
    BY <1>1, <1>2, <1>3, <2>2
  <2> QED
    BY <2>1, <2>3, RangesAgree
<1>8. UniqueNames(s) => UniqueNames(t)
  <2> SUFFICES ASSUME UniqueNames(s), NEW i \in 1..n, NEW j \in 1..n, t[i].name = t[j].name
               PROVE  i = j
    BY <1>2 DEF UniqueNames
  <2>1. (n - i) + 1 = (n - j) + 1
    BY <1>1, <1>2, <1>3 DEF UniqueNames
  <2> QED
    BY <1>1, <2>1
<1> QED
  BY <1>1, <1>2, <1>6, <1>7, <1>8 DEF t

LEMMA BackwardsLists ==
    ASSUME NEW g \in GroupType, NEW r, Stored(g, r)
    PROVE  /\ Backwards(g) \in GroupType /\ Backwards(g).name = g.name
           /\ Listing(Backwards(g), g)
<1>1. g.pools \in Seq(PoolType) /\ g.auxiliary \in Seq(AuxiliaryType)
  BY DEF GroupType
<1>2. UniqueNames(g.pools) /\ UniqueNames(g.auxiliary)
  BY GroupLists, IncreasingIsUnique DEF Stored
<1> DEFINE p == Reverse(g.pools)
           a == Reverse(g.auxiliary)
<1>3. /\ p \in Seq(PoolType) /\ DOMAIN p = DOMAIN g.pools /\ Range(p) = Range(g.pools)
      /\ UniqueNames(p)
  BY <1>1, <1>2, ReverseLists
<1>4. /\ a \in Seq(AuxiliaryType) /\ DOMAIN a = DOMAIN g.auxiliary
      /\ Range(a) = Range(g.auxiliary) /\ UniqueNames(a)
  BY <1>1, <1>2, ReverseLists
<1>5. Backwards(g) = [g EXCEPT !.pools = p, !.auxiliary = a]
  BY DEF Backwards
<1> HIDE DEF p, a
<1>6. /\ Backwards(g) \in GroupType /\ Backwards(g).name = g.name
      /\ Backwards(g).pools = p /\ Backwards(g).auxiliary = a
  BY <1>3, <1>4, <1>5 DEF GroupType
<1> QED
  BY <1>3, <1>4, <1>5, <1>6 DEF Listing

LEMMA RelistedLists ==
    ASSUME NEW d, NEW r, Canonical(d, r)
    PROVE  Relisting(Relisted(d), d)
<1> DEFINE n == Len(d.groups)
           T == [i \in 1..n |-> Backwards(d.groups[i])]
           e == Relisted(d)
<1>1. /\ d \in DocumentType /\ n \in Nat /\ DOMAIN d.groups = 1..n /\ UniqueNames(d.groups)
  BY DocumentLists, IncreasingIsUnique DEF Canonical
<1>2. \A i \in 1..n : d.groups[i] \in GroupType /\ Stored(d.groups[i], r)
  BY <1>1, DocumentLists DEF Canonical, Range
<1>3. e = [d EXCEPT !.groups = Reverse(T)]
  BY <1>1 DEF Relisted
<1> HIDE DEF n, e
<1>4. \A i \in 1..n : /\ T[i] \in GroupType /\ T[i].name = d.groups[i].name
                      /\ Listing(T[i], d.groups[i])
  BY <1>2, BackwardsLists
<1>5. T \in Seq(GroupType)
  <2>1. T \in [1..n -> GroupType]
    BY <1>4
  <2> HIDE DEF T
  <2> QED
    BY <1>1, <2>1
<1>6. DOMAIN T = 1..n
  OBVIOUS
<1> HIDE DEF T
<1>7. UniqueNames(T)
  BY <1>1, <1>4, <1>6 DEF UniqueNames
<1> DEFINE G == Reverse(T)
<1>8. /\ G \in Seq(GroupType) /\ DOMAIN G = 1..n /\ Range(G) = Range(T) /\ UniqueNames(G)
  BY <1>5, <1>6, <1>7, ReverseLists
<1> HIDE DEF G
<1>9. e \in DocumentType /\ e.mode = d.mode /\ e.groups = G
  BY <1>1, <1>3, <1>8 DEF DocumentType, G
<1>10. \A i \in 1..n : \E j \in 1..n : Listing(G[i], d.groups[j])
  <2>1. \A i \in 1..n : \E j \in 1..n : G[i] = T[j]
    BY <1>6, <1>8 DEF Range
  <2> QED
    BY <1>4, <2>1
<1>11. \A j \in 1..n : \E i \in 1..n : Listing(G[i], d.groups[j])
  <2>1. \A j \in 1..n : \E i \in 1..n : G[i] = T[j]
    BY <1>6, <1>8 DEF Range
  <2> QED
    BY <1>4, <2>1
<1> QED
  BY <1>1, <1>8, <1>9, <1>10, <1>11 DEF Relisting, e

-----------------------------------------------------------------------------
(***************************************************************************)
(* The documents of typed changes.                                         *)
(***************************************************************************)

\* A canonical Scenario says which release compiled it.
LEMMA ReleaseOfIs ==
    ASSUME NEW d, NEW r, Canonical(d, r)
    PROVE  ReleaseOf(d) = r
<1>1. d.groups[1] \in GroupType /\ Stored(d.groups[1], r)
  BY DocumentLists DEF Canonical, Range
<1>2. d.groups[1].pools[1] \in Range(d.groups[1].pools)
  BY <1>1, GroupLists DEF Stored, Range
<1> QED
  BY <1>1, <1>2 DEF Stored, Explicit, ReleaseOf

\* The index of a name, in a list whose names differ.
LEMMA AtIs ==
    ASSUME NEW s, UniqueNames(s), NEW i \in DOMAIN s
    PROVE  Has(s, s[i].name) /\ At(s, s[i].name) = i
<1>1. \A j \in DOMAIN s : s[j].name = s[i].name => j = i
  BY DEF UniqueNames
<1> QED
  BY <1>1 DEF Has, At

Scaled(d, i, k) == [d EXCEPT !.groups[i].replicas = k]
Healed(d, i, j, k) == [d EXCEPT !.groups[i].pools[j].healthy = k]

\* A change of scale is one field of one group.
LEMMA ScaledIs ==
    ASSUME NEW d \in DocumentType, NEW i \in DOMAIN d.groups, NEW k \in Nat
    PROVE  LET e == Scaled(d, i, k)
           IN  /\ e \in DocumentType /\ e.mode = d.mode /\ DOMAIN e.groups = DOMAIN d.groups
               /\ e.groups[i] = [d.groups[i] EXCEPT !.replicas = k]
               /\ e.groups[i] \in GroupType
               /\ \A j \in DOMAIN d.groups : j # i => e.groups[j] = d.groups[j]
<1> DEFINE n == Len(d.groups)
           G == d.groups
           g == [G[i] EXCEPT !.replicas = k]
           H == [G EXCEPT ![i] = g]
<1>1. /\ n \in Nat /\ DOMAIN G = 1..n /\ G \in [1..n -> GroupType] /\ i \in 1..n
  BY DocumentLists
<1>2. Scaled(d, i, k) = [d EXCEPT !.groups = H]
  BY DEF Scaled
<1>3. g \in GroupType
  BY <1>1 DEF GroupType
<1> HIDE DEF n, g
<1>4. H \in [1..n -> GroupType] /\ H[i] = g /\ \A j \in 1..n : j # i => H[j] = G[j]
  BY <1>1, <1>3
<1> HIDE DEF H
<1>5. H \in Seq(GroupType)
  BY <1>1, <1>4
<1>6. /\ Scaled(d, i, k) \in DocumentType /\ Scaled(d, i, k).groups = H
      /\ Scaled(d, i, k).mode = d.mode
  BY <1>2, <1>5 DEF DocumentType
<1> QED
  BY <1>1, <1>3, <1>4, <1>6 DEF g

\* A change of health is one field of one pool: e is d with another health of its
\* j-th pool of the i-th group.
HealthMoved(e, d, i, j, k) ==
    /\ e \in DocumentType /\ e.mode = d.mode /\ DOMAIN e.groups = DOMAIN d.groups
    /\ e.groups[i] = [d.groups[i] EXCEPT !.pools = e.groups[i].pools]
    /\ e.groups[i] \in GroupType
    /\ \A l \in DOMAIN d.groups : l # i => e.groups[l] = d.groups[l]
    /\ DOMAIN e.groups[i].pools = DOMAIN d.groups[i].pools
    /\ e.groups[i].pools[j] = [d.groups[i].pools[j] EXCEPT !.healthy = k]
    /\ \A l \in DOMAIN d.groups[i].pools :
          l # j => e.groups[i].pools[l] = d.groups[i].pools[l]

LEMMA HealedIs ==
    ASSUME NEW d \in DocumentType, NEW i \in DOMAIN d.groups,
           NEW j \in DOMAIN d.groups[i].pools, NEW k \in Nat
    PROVE  HealthMoved(Healed(d, i, j, k), d, i, j, k)
<1> SUFFICES ASSUME NEW e, e = Healed(d, i, j, k)
             PROVE  HealthMoved(e, d, i, j, k)
  OBVIOUS
<1> DEFINE n == Len(d.groups)
           G == d.groups
           P == G[i].pools
           m == Len(P)
           q == [P[j] EXCEPT !.healthy = k]
           Q == [P EXCEPT ![j] = q]
           g == [G[i] EXCEPT !.pools = Q]
           H == [G EXCEPT ![i] = g]
<1>1. n \in Nat /\ DOMAIN G = 1..n /\ G \in [1..n -> GroupType] /\ i \in 1..n
  BY DocumentLists
<1>2. /\ m \in Nat /\ DOMAIN P = 1..m /\ P \in [1..m -> PoolType] /\ j \in 1..m
  BY <1>1, GroupLists
<1>3. e = [d EXCEPT !.groups = H]
  BY DEF Healed
<1>4. q \in PoolType
  BY <1>2 DEF PoolType
<1>5. /\ Q \in [1..m -> PoolType] /\ Q[j] = q
      /\ \A l \in 1..m : l # j => Q[l] = P[l]
  <2> HIDE DEF q, m
  <2> QED
    BY <1>2, <1>4
<1> HIDE DEF Q, q, m
<1>6. Q \in Seq(PoolType)
  BY <1>2, <1>5
<1>7. g \in GroupType /\ g.pools = Q
  BY <1>1, <1>6 DEF GroupType
<1> HIDE DEF n, g
<1>8. H \in [1..n -> GroupType] /\ H[i] = g /\ \A l \in 1..n : l # i => H[l] = G[l]
  BY <1>1, <1>7
<1> HIDE DEF H
<1>9. H \in Seq(GroupType)
  BY <1>1, <1>8
<1>10. /\ e \in DocumentType /\ e.groups = H /\ e.mode = d.mode
  BY <1>3, <1>9 DEF DocumentType
<1>11. e.groups[i] = [d.groups[i] EXCEPT !.pools = Q]
  BY <1>8, <1>10 DEF g
<1>12. e.groups[i] \in GroupType /\ e.groups[i].pools = Q
  BY <1>7, <1>8, <1>10
<1>13. Q[j] = [d.groups[i].pools[j] EXCEPT !.healthy = k]
  BY <1>5 DEF q
<1> HIDE DEF G, P
<1> QED
  BY <1>1, <1>2, <1>5, <1>8, <1>10, <1>11, <1>12, <1>13 DEF G, P, HealthMoved

\* Neither leaves the canonical form.
LEMMA ScaledIsCanonical ==
    ASSUME NEW d, NEW r, Canonical(d, r), NEW i \in DOMAIN d.groups, NEW k \in Nat
    PROVE  Canonical(Scaled(d, i, k), r)
<1> DEFINE e == Scaled(d, i, k)
<1>1. d \in DocumentType /\ d.groups # <<>> /\ Increasing(d.groups)
  BY DEF Canonical
<1>2. \A j \in DOMAIN d.groups : d.groups[j] \in GroupType /\ Stored(d.groups[j], r)
  BY <1>1, DocumentLists DEF Canonical, Range
<1>3. /\ e \in DocumentType /\ DOMAIN e.groups = DOMAIN d.groups
      /\ e.groups[i] = [d.groups[i] EXCEPT !.replicas = k]
      /\ \A j \in DOMAIN d.groups : j # i => e.groups[j] = d.groups[j]
  BY <1>1, ScaledIs
<1> HIDE DEF e
<1>4. \A j \in DOMAIN d.groups :
        e.groups[j].name = d.groups[j].name /\ Stored(e.groups[j], r)
  <2>1. /\ e.groups[i].name = d.groups[i].name /\ e.groups[i].pools = d.groups[i].pools
        /\ e.groups[i].auxiliary = d.groups[i].auxiliary
    BY <1>2, <1>3 DEF GroupType
  <2>2. Stored(e.groups[i], r)
    BY <1>2, <2>1 DEF Stored
  <2> QED
    BY <1>2, <1>3, <2>1, <2>2
<1>5. e.groups # <<>>
  BY <1>1, <1>3, DocumentLists
<1>6. Increasing(e.groups)
  BY <1>1, <1>3, <1>4 DEF Increasing
<1> QED
  BY <1>3, <1>4, <1>5, <1>6 DEF Canonical, Range, e

LEMMA HealedIsCanonical ==
    ASSUME NEW d, NEW r, Canonical(d, r), NEW i \in DOMAIN d.groups,
           NEW j \in DOMAIN d.groups[i].pools, NEW k \in Nat
    PROVE  Canonical(Healed(d, i, j, k), r)
<1> SUFFICES ASSUME NEW e, HealthMoved(e, d, i, j, k)
             PROVE  Canonical(e, r)
  BY HealedIs DEF Canonical
<1> DEFINE G == d.groups[i]
           P == G.pools
           Q == e.groups[i].pools
<1>1. d \in DocumentType /\ d.groups # <<>> /\ Increasing(d.groups)
  BY DEF Canonical
<1>2. \A l \in DOMAIN d.groups : d.groups[l] \in GroupType /\ Stored(d.groups[l], r)
  BY <1>1, DocumentLists DEF Canonical, Range
<1>3. /\ e \in DocumentType /\ DOMAIN e.groups = DOMAIN d.groups
      /\ e.groups[i] = [G EXCEPT !.pools = Q] /\ e.groups[i] \in GroupType
      /\ \A l \in DOMAIN d.groups : l # i => e.groups[l] = d.groups[l]
  BY DEF HealthMoved
<1>4. /\ DOMAIN Q = DOMAIN P
      /\ Q[j] = [P[j] EXCEPT !.healthy = k]
      /\ \A l \in DOMAIN P : l # j => Q[l] = P[l]
  BY DEF HealthMoved
<1>5. G \in GroupType /\ Stored(G, r) /\ P[j] \in PoolType
  BY <1>2, GroupLists
<1>6. \A l \in DOMAIN P : Q[l].name = P[l].name /\ Explicit(Q[l], r)
  <2>1. /\ Q[j].name = P[j].name /\ Q[j].contract = P[j].contract
        /\ Q[j].revision = P[j].revision /\ Q[j].healthy = k
    BY <1>4, <1>5 DEF PoolType
  <2>2. \A l \in DOMAIN P : Explicit(P[l], r)
    BY <1>5 DEF Stored, Range
  <2>3. Explicit(Q[j], r)
    BY <2>1, <2>2 DEF Explicit
  <2> QED
    BY <1>4, <2>1, <2>2, <2>3
<1>7. Stored(e.groups[i], r) /\ e.groups[i].name = G.name
  <2>1. e.groups[i].name = G.name /\ e.groups[i].auxiliary = G.auxiliary
    BY <1>3, <1>5 DEF GroupType
  <2>2. Q # <<>>
    BY <1>3, <1>4, <1>5, GroupLists DEF Stored
  <2>3. Increasing(Q)
    BY <1>4, <1>5, <1>6 DEF Increasing, Stored
  <2> QED
    BY <1>4, <1>5, <1>6, <2>1, <2>2, <2>3 DEF Stored, Range
<1>8. \A l \in DOMAIN d.groups :
        e.groups[l].name = d.groups[l].name /\ Stored(e.groups[l], r)
  BY <1>2, <1>3, <1>7
<1>9. e.groups # <<>>
  BY <1>1, <1>3, DocumentLists
<1>10. Increasing(e.groups)
  BY <1>1, <1>3, <1>8 DEF Increasing
<1> QED
  BY <1>3, <1>8, <1>9, <1>10 DEF Canonical, Range

\* A canonical Scenario that compiles, compiles to itself, with the release that its
\* pools are pinned to.
LEMMA CompiledAgain ==
    ASSUME NEW e, NEW r, Canonical(e, r), NEW c, Compile(e, c) # Rejected
    PROVE  c = r /\ Compile(e, c) = e
<1>1. Accepts(e, c) /\ e \in DocumentType
  BY CompileIs DEF Canonical
<1>2. /\ e.groups[1] \in GroupType /\ e.groups[1] \in Range(e.groups)
      /\ Stored(e.groups[1], r) /\ Resolvable(e.groups[1], e.mode, c)
  BY <1>1, DocumentLists DEF Canonical, Range, Accepts
<1>3. e.groups[1].pools[1] \in Range(e.groups[1].pools)
  BY <1>2, GroupLists DEF Stored, Range
<1>4. c = r
  BY <1>2, <1>3 DEF Stored, Explicit, Resolvable, Resolves
<1>5. Relisting(e, e)
  BY CanonicalListsItself
<1> QED
  BY <1>1, <1>4, <1>5, RelistingCompiles

-----------------------------------------------------------------------------
(***************************************************************************)
(* The invariant: every revision is what some release compiled.            *)
(***************************************************************************)

CompilerInv ==
    /\ client \in 1..Releases /\ log \in Seq(DocumentType)
    /\ \A i \in DOMAIN log : \E r \in 1..Releases : Sound(log[i], r)

\* A revision that is compiled is appended, or was the last one already.
LEMMA SubmitAppends ==
    ASSUME CompilerInv, NEW s, Submit(s)
    PROVE  /\ log' # <<>> /\ Last(log') = s /\ s # Rejected /\ client' = client
           /\ Sound(s, client) => CompilerInv'
<1>1. /\ s # Rejected /\ client' = client
      /\ \/ log # <<>> /\ s = Last(log) /\ log' = log
         \/ log' = Append(log, s)
  BY DEF Submit
<1>2. log \in Seq(DocumentType) /\ client \in 1..Releases
  BY DEF CompilerInv
<1>3. CASE log # <<>> /\ s = Last(log) /\ log' = log
  BY <1>1, <1>3 DEF CompilerInv
<1>4. CASE log' = Append(log, s)
  <2> DEFINE n == Len(log)
  <2>1. /\ n \in Nat /\ DOMAIN log' = 1..(n + 1) /\ Len(log') = n + 1
        /\ log'[n + 1] = s /\ \A i \in 1..n : log'[i] = log[i]
    BY <1>2, <1>4
  <2>2. log' # <<>> /\ Last(log') = s
    BY <2>1 DEF Last
  <2>3. ASSUME Sound(s, client)
        PROVE  CompilerInv'
    <3>1. s \in DocumentType
      BY <2>3 DEF Sound, Canonical
    <3>2. log' \in Seq(DocumentType)
      BY <1>2, <1>4, <3>1
    <3>3. \A i \in 1..n : \E r \in 1..Releases : Sound(log[i], r)
      BY <1>2 DEF CompilerInv
    <3> HIDE DEF n
    <3>4. \A i \in DOMAIN log' : i = n + 1 \/ i \in 1..n
      BY <2>1
    <3>5. \A i \in DOMAIN log' : \E r \in 1..Releases : Sound(log'[i], r)
      BY <1>2, <2>1, <2>3, <3>3, <3>4
    <3> QED
      BY <1>1, <1>2, <3>2, <3>5 DEF CompilerInv
  <2> QED
    BY <1>1, <2>2, <2>3
<1> QED
  BY <1>1, <1>3, <1>4

\* The last revision, and the release that compiled it.
LEMMA LastIsSound ==
    ASSUME CompilerInv, log # <<>>
    PROVE  \E r \in 1..Releases : Sound(Last(log), r)
<1>1. log \in Seq(DocumentType)
  BY DEF CompilerInv
<1>2. Len(log) \in DOMAIN log
  BY <1>1
<1> QED
  BY <1>2 DEF CompilerInv, Last

\* A typed change compiles the edited document.
LEMMA ScaleIs ==
    ASSUME NEW d, NEW r, Canonical(d, r), NEW i \in DOMAIN d.groups, NEW k, NEW c
    PROVE  Scale(d, d.groups[i].name, k, c) = Compile(Scaled(d, i, k), c)
<1>1. UniqueNames(d.groups)
  BY DocumentLists, IncreasingIsUnique DEF Canonical
<1> QED
  BY <1>1, AtIs DEF Scale, Scaled

LEMMA HealthIs ==
    ASSUME NEW d, NEW r, Canonical(d, r), NEW i \in DOMAIN d.groups,
           NEW j \in DOMAIN d.groups[i].pools, NEW k, NEW c
    PROVE  Health(d, d.groups[i].name, d.groups[i].pools[j].name, k, c)
             = Compile(Healed(d, i, j, k), c)
<1>1. UniqueNames(d.groups) /\ d.groups[i] \in GroupType /\ Stored(d.groups[i], r)
  BY DocumentLists, IncreasingIsUnique DEF Canonical, Range
<1>2. UniqueNames(d.groups[i].pools)
  BY <1>1, GroupLists, IncreasingIsUnique DEF Stored
<1>3. /\ Has(d.groups, d.groups[i].name) /\ At(d.groups, d.groups[i].name) = i
  BY <1>1, AtIs
<1>4. /\ Has(d.groups[i].pools, d.groups[i].pools[j].name)
      /\ At(d.groups[i].pools, d.groups[i].pools[j].name) = j
  BY <1>2, AtIs
<1> QED
  BY <1>3, <1>4 DEF Health, Healed

\* What compiles is sound.
LEMMA CompiledIsSound ==
    ASSUME NEW e, NEW r \in 1..Releases, Canonical(e, r), Compile(e, r) = e, e # Rejected
    PROVE  Sound(e, r)
BY CompileIsSound DEF Canonical

\* What a typed change leaves in the log.
LEMMA ScaleStep ==
    ASSUME CompilerInv, TypedScale
    PROVE  /\ Sound(Last(log), client) /\ Sound(Last(log'), client) /\ CompilerInv'
           /\ \E i \in DOMAIN Last(log).groups, k \in Nat : Last(log') = Scaled(Last(log), i, k)
<1> DEFINE d == Last(log)
<1>1. log # <<>>
  BY DEF TypedScale
<1>2. PICK r \in 1..Releases : Sound(d, r)
  BY <1>1, LastIsSound
<1>3. PICK group \in Range(d.groups), k \in 0..MaxCount :
        Submit(Scale(d, group.name, k, client))
  BY DEF TypedScale
<1> HIDE DEF d
<1>4. PICK i \in DOMAIN d.groups : group = d.groups[i]
  BY <1>3 DEF Range
<1> DEFINE e == Scaled(d, i, k)
<1>5. k \in Nat
  BY <1>3, CompilerAssumption
<1>6. Scale(d, d.groups[i].name, k, client) # Rejected
  BY <1>3, <1>4, SubmitAppends
<1>7. Scale(d, d.groups[i].name, k, client) = Compile(e, client)
  BY <1>2, ScaleIs DEF Sound
<1>8. Canonical(e, r)
  BY <1>2, <1>5, ScaledIsCanonical DEF Sound
<1>9. client = r /\ Compile(e, client) = e /\ e # Rejected
  BY <1>6, <1>7, <1>8, CompiledAgain
<1>10. Sound(e, r)
  BY <1>8, <1>9, CompiledIsSound
<1>11. Submit(e)
  BY <1>3, <1>4, <1>7, <1>9
<1>12. Last(log') = e /\ CompilerInv'
  BY <1>9, <1>10, <1>11, SubmitAppends
<1> HIDE DEF e
<1> QED
  BY <1>2, <1>5, <1>9, <1>10, <1>12 DEF d, e

LEMMA HealthStep ==
    ASSUME CompilerInv, TypedHealth
    PROVE  /\ Sound(Last(log), client) /\ Sound(Last(log'), client) /\ CompilerInv'
           /\ \E i \in DOMAIN Last(log).groups, k \in Nat :
                \E j \in DOMAIN Last(log).groups[i].pools :
                   Last(log') = Healed(Last(log), i, j, k)
<1> DEFINE d == Last(log)
<1>1. log # <<>>
  BY DEF TypedHealth
<1>2. PICK r \in 1..Releases : Sound(d, r)
  BY <1>1, LastIsSound
<1>3. PICK group \in Range(d.groups), k \in 0..MaxCount :
        \E pool \in Range(group.pools) :
           Submit(Health(d, group.name, pool.name, k, client))
  BY DEF TypedHealth
<1>4. PICK pool \in Range(group.pools) : Submit(Health(d, group.name, pool.name, k, client))
  BY <1>3
<1> HIDE DEF d
<1>5. PICK i \in DOMAIN d.groups : group = d.groups[i]
  BY <1>3 DEF Range
<1>6. PICK j \in DOMAIN d.groups[i].pools : pool = d.groups[i].pools[j]
  BY <1>4, <1>5 DEF Range
<1> DEFINE e == Healed(d, i, j, k)
           h == Health(d, d.groups[i].name, d.groups[i].pools[j].name, k, client)
<1>7. k \in Nat
  BY <1>3, CompilerAssumption
<1>8. Submit(h)
  BY <1>4, <1>5, <1>6
<1>9. h # Rejected
  BY <1>8, SubmitAppends
<1>10. h = Compile(e, client)
  BY <1>2, HealthIs DEF Sound
<1>11. Canonical(e, r)
  BY <1>2, <1>7, HealedIsCanonical DEF Sound
<1>12. client = r /\ Compile(e, client) = e /\ e # Rejected
  BY <1>9, <1>10, <1>11, CompiledAgain
<1>13. Sound(e, r)
  BY <1>11, <1>12, CompiledIsSound
<1>14. Last(log') = e /\ CompilerInv'
  BY <1>8, <1>10, <1>12, <1>13, SubmitAppends
<1> HIDE DEF e
<1> QED
  BY <1>2, <1>7, <1>12, <1>13, <1>14 DEF d, e

LEMMA InitCompilerInv == Init => CompilerInv
BY CompilerAssumption DEF Init, CompilerInv

LEMMA StepKeepsCompilerInv == CompilerInv /\ [Next]_vars => CompilerInv'
<1> SUFFICES ASSUME CompilerInv, [Next]_vars
             PROVE  CompilerInv'
  OBVIOUS
<1>1. CASE Apply
  <2>1. PICK document \in Documents : Submit(Compile(document, client))
    BY <1>1 DEF Apply
  <2>2. document \in DocumentType /\ client \in 1..Releases
    BY CompilerAssumption DEF CompilerInv
  <2>3. Compile(document, client) # Rejected
    BY <2>1, SubmitAppends
  <2>4. Sound(Compile(document, client), client)
    BY <2>2, <2>3, CompileIsSound
  <2> QED
    BY <2>1, <2>4, SubmitAppends
<1>2. CASE TypedScale
  BY <1>2, ScaleStep
<1>3. CASE TypedHealth
  BY <1>3, HealthStep
<1>4. CASE Upgrade
  <2>1. client + 1 \in 1..Releases
    BY <1>4, CompilerAssumption DEF Upgrade, CompilerInv
  <2>2. client' = client + 1 /\ log' = log
    BY <1>4 DEF Upgrade
  <2> QED
    BY <2>1, <2>2 DEF CompilerInv
<1>5. CASE UNCHANGED vars
  BY <1>5 DEF vars, CompilerInv
<1> QED
  BY <1>1, <1>2, <1>3, <1>4, <1>5 DEF Next

\* Every revision is what some release of the catalog compiled: in canonical form, each
\* contract explicit, each group valid for the catalog of that release.
THEOREM RevisionsAreCompiled == Spec => []CompilerInv
BY InitCompilerInv, StepKeepsCompilerInv, PTL DEF Spec

\* SCN-008 and LIFE-004: the canonical text compiles to itself with its release, however
\* its groups, pools and auxiliary resources are listed.
THEOREM CanonicalTextIsFixed == Spec => []CanonicalIsFixed
<1>1. CompilerInv => CanonicalIsFixed
  <2> SUFFICES ASSUME CompilerInv, NEW i \in DOMAIN log
               PROVE  LET release == ReleaseOf(log[i])
                      IN  {Compile(log[i], release), Compile(Relisted(log[i]), release)}
                            = {log[i]}
    BY DEF CanonicalIsFixed
  <2>1. PICK r \in 1..Releases : Sound(log[i], r)
    BY DEF CompilerInv
  <2>2. /\ Canonical(log[i], r) /\ log[i] \in DocumentType
        /\ \A group \in Range(log[i].groups) : Valid(group, log[i].mode, r)
    BY <2>1 DEF Sound, Canonical
  <2>3. ReleaseOf(log[i]) = r
    BY <2>2, ReleaseOfIs
  <2>4. Relisting(log[i], log[i]) /\ Relisting(Relisted(log[i]), log[i])
    BY <2>2, CanonicalListsItself, RelistedLists
  <2>5. Compile(log[i], r) = log[i] /\ Compile(Relisted(log[i]), r) = log[i]
    BY <2>2, <2>4, RelistingCompiles
  <2> QED
    BY <2>3, <2>5
<1> QED
  BY <1>1, RevisionsAreCompiled, PTL

-----------------------------------------------------------------------------
(***************************************************************************)
(* Projection.                                                             *)
(***************************************************************************)

\* The offers of a group in canonical form are contracts of the catalog.
LEMMA OffersAreContracts ==
    ASSUME NEW g \in GroupType, NEW r \in 1..Releases, Stored(g, r)
    PROVE  \A pool \in Range(g.pools) : Offer(pool, r) \in ContractType
<1>1. \A pool \in Range(g.pools) : pool.contract \in DOMAIN Contracts
  BY DEF Stored, Explicit
<1>2. \A c \in DOMAIN Contracts : Contracts[c] \in [1..Releases -> ContractType]
  BY CompilerAssumption
<1> QED
  BY <1>1, <1>2 DEF Offer

\* No resource of a valid group has two owners.
LEMMA ResourcesDiffer ==
    ASSUME NEW g \in GroupType, NEW r \in 1..Releases, Stored(g, r),
           Valid(g, "scheduling", r)
    PROVE  IsInjective(Resources(g, r))
<1> DEFINE p == Len(g.pools)
           a == Len(g.auxiliary)
           P == g.pools
           A == g.auxiliary
           X == [i \in DOMAIN g.pools |-> Offer(g.pools[i], r).resource]
           Y == [i \in DOMAIN g.auxiliary |-> g.auxiliary[i].resource]
<1>1. /\ p \in Nat /\ a \in Nat /\ DOMAIN P = 1..p /\ DOMAIN A = 1..a
  BY GroupLists
<1>2. \A pool \in Range(P) : Offer(pool, r).resource \in STRING
  BY OffersAreContracts DEF ContractType
<1>3. X \in Seq(STRING) /\ Len(X) = p /\ \A i \in 1..p : X[i] = Offer(P[i], r).resource
  <2>1. X \in [1..p -> STRING]
    BY <1>1, <1>2 DEF Range
  <2>2. \A i \in 1..p : X[i] = Offer(P[i], r).resource
    BY <1>1
  <2> HIDE DEF X, p
  <2> QED
    BY <1>1, <2>1, <2>2
<1>4. Y \in Seq(STRING) /\ Len(Y) = a /\ \A i \in 1..a : Y[i] = A[i].resource
  <2>1. \A i \in 1..a : A[i] \in AuxiliaryType
    BY <1>1, GroupLists
  <2>2. Y \in [1..a -> STRING]
    BY <1>1, <2>1 DEF AuxiliaryType
  <2>3. \A i \in 1..a : Y[i] = A[i].resource
    BY <1>1
  <2> HIDE DEF Y, a
  <2> QED
    BY <1>1, <2>2, <2>3
<1>5. Resources(g, r) = X \o Y
  BY DEF Resources
<1> HIDE DEF X, Y, p, a
<1> DEFINE R == X \o Y
<1>6. /\ DOMAIN R = 1..(p + a) /\ \A i \in 1..p : R[i] = X[i]
      /\ \A i \in 1..(p + a) : i \notin 1..p => i - p \in 1..a /\ R[i] = Y[i - p]
  BY <1>1, <1>3, <1>4
<1>7. ASSUME NEW i \in 1..p, NEW j \in 1..p, X[i] = X[j]
      PROVE  i = j
  <2>1. UniqueNames(P) /\ \A q, w \in Range(P) : q # w => Offer(q, r).resource # Offer(w, r).resource
    BY DEF Valid, ValidPools
  <2>2. P[i] = P[j]
    BY <1>1, <1>3, <1>7, <2>1 DEF Range
  <2> QED
    BY <1>1, <2>1, <2>2 DEF UniqueNames
<1>8. ASSUME NEW i \in 1..a, NEW j \in 1..a, Y[i] = Y[j]
      PROVE  i = j
  <2>1. /\ UniqueNames(A)
        /\ \A q \in Range(A) : \A w \in Range(A) \ {q} : q.resource # w.resource
    BY DEF Valid, ValidAuxiliary
  <2>2. A[i] = A[j]
    BY <1>1, <1>4, <1>8, <2>1 DEF Range
  <2> QED
    BY <1>1, <2>1, <2>2 DEF UniqueNames
<1>9. ASSUME NEW i \in 1..p, NEW j \in 1..a
      PROVE  X[i] # Y[j]
  <2>1. \A q \in Range(A) : \A pool \in Range(P) : q.resource # Offer(pool, r).resource
    BY DEF Valid, ValidAuxiliary
  <2>2. P[i] \in Range(P) /\ A[j] \in Range(A)
    BY <1>1 DEF Range
  <2>3. A[j].resource # Offer(P[i], r).resource
    BY <2>1, <2>2
  <2> QED
    BY <1>3, <1>4, <2>3
<1> HIDE DEF R
<1>10. \A i, j \in 1..(p + a) : R[i] = R[j] => i = j
  <2> SUFFICES ASSUME NEW i \in 1..(p + a), NEW j \in 1..(p + a), R[i] = R[j]
               PROVE  i = j
    OBVIOUS
  <2>1. CASE i \in 1..p /\ j \in 1..p
    BY <1>6, <1>7, <2>1
  <2>2. CASE i \notin 1..p /\ j \notin 1..p
    <3>1. i - p = j - p
      BY <1>6, <1>8, <2>2
    <3> QED
      BY <1>1, <3>1
  <2>3. CASE i \in 1..p /\ j \notin 1..p
    BY <1>6, <1>9, <2>3
  <2>4. CASE i \notin 1..p /\ j \in 1..p
    BY <1>6, <1>9, <2>4
  <2> QED
    BY <2>1, <2>2, <2>3, <2>4
<1> QED
  BY <1>5, <1>6, <1>10 DEF IsInjective, R

\* The vendor labels of a group come from the contracts of its pools.
LEMMA LabelsAreOffered ==
    ASSUME NEW g, NEW r, NEW l \in VendorLabels(g, r)
    PROVE  \E p \in Range(g.pools) :
              \/ /\ g.discovery
                 /\ l \in Offer(p, r).identity \union Offer(p, r).derived
              \/ /\ ~g.discovery /\ l.value = Default
                 /\ \E k \in Offer(p, r).identity : l.key = k.key
<1>1. PICK p \in Range(g.pools) : l \in Signals(p, g.discovery, r)
  BY DEF VendorLabels
<1>2. CASE g.discovery
  BY <1>1, <1>2 DEF Signals
<1>3. CASE ~g.discovery
  BY <1>1, <1>3 DEF Signals
<1> QED
  BY <1>2, <1>3

LEMMA VendorLabelsAreLabels ==
    ASSUME NEW g \in GroupType, NEW r \in 1..Releases, Stored(g, r)
    PROVE  VendorLabels(g, r) \in SUBSET LabelType
<1> SUFFICES ASSUME NEW p \in Range(g.pools), NEW l \in Signals(p, g.discovery, r)
             PROVE  l \in LabelType
  BY DEF VendorLabels
<1>1. Offer(p, r).identity \in SUBSET LabelType /\ Offer(p, r).derived \in SUBSET LabelType
  BY OffersAreContracts DEF ContractType
<1>2. CASE g.discovery
  BY <1>1, <1>2 DEF Signals
<1>3. CASE ~g.discovery
  <2>1. PICK k \in Offer(p, r).identity : l = [key |-> k.key, value |-> Default]
    BY <1>3 DEF Signals
  <2> QED
    BY <1>1, <2>1 DEF LabelType
<1> QED
  BY <1>2, <1>3

\* A valid group can be built and rendered, when the derived labels that it asks for
\* agree.
LEMMA ValidIsBuildable ==
    ASSUME NEW g \in GroupType, NEW r \in 1..Releases, Stored(g, r),
           Valid(g, "scheduling", r), g.discovery => DerivedLabelsAgree(g, r)
    PROVE  Buildable(g, r) /\ Renderable(g, "scheduling", r)
<1> DEFINE told == {label \in VendorLabels(g, r) : label.value # Default}
<1>1. \A p, q \in Range(g.pools) : Offer(p, r).model = Offer(q, r).model
  BY DEF Valid, ValidPools
<1>2. ASSUME NEW l \in VendorLabels(g, r), NEW m \in VendorLabels(g, r), l.key = m.key
      PROVE  l.value = m.value
  <2>1. CASE g.discovery
    <3>1. PICK p \in Range(g.pools) : l \in Offer(p, r).identity \union Offer(p, r).derived
      BY <2>1, LabelsAreOffered
    <3>2. PICK q \in Range(g.pools) : m \in Offer(q, r).identity \union Offer(q, r).derived
      BY <2>1, LabelsAreOffered
    <3> QED
      BY <1>2, <2>1, <3>1, <3>2 DEF DerivedLabelsAgree
  <2>2. CASE ~g.discovery
    BY <2>2, LabelsAreOffered
  <2> QED
    BY <2>1, <2>2
<1>3. Agree(VendorLabels(g, r), g) /\ Agree(told, g)
  BY <1>2 DEF Agree
<1>4. ASSUME NEW l \in told
      PROVE  l.key \notin g.labels
  <2>1. g.discovery
    BY LabelsAreOffered
  <2>2. PICK p \in Range(g.pools) : l \in Offer(p, r).identity \union Offer(p, r).derived
    BY <2>1, LabelsAreOffered
  <2>3. l.key \in Keys(Offer(p, r).identity) \/ l.key \in Keys(Offer(p, r).derived)
    BY <2>2 DEF Keys
  <2>4. g.labels \cap Keys(Offer(p, r).identity) = {}
    BY DEF Valid, ValidPools
  <2>5. g.labels \cap Keys(Offer(p, r).derived) = {}
    BY <2>1 DEF DerivedLabelsAgree
  <2> QED
    BY <2>3, <2>4, <2>5
<1>5. Keys(told) \cap g.labels = {}
  BY <1>4 DEF Keys
<1> HIDE DEF told
<1>6. Buildable(g, r)
  BY <1>1, <1>3, <1>5, ResourcesDiffer DEF Buildable, told
<1>7. Renderable(g, "scheduling", r)
  BY <1>3 DEF Renderable
<1> QED
  BY <1>6, <1>7

LEMMA NodesAreNodes ==
    ASSUME NEW s, NEW r \in 1..Releases, Canonical(s, r)
    PROVE  Nodes(s, r) \subseteq NodeType
<1> DEFINE vendor(g) == NodeLabels(g, s.mode, r)
<1> SUFFICES ASSUME NEW g \in Range(s.groups), NEW k \in 0..g.replicas - 1
             PROVE  [group |-> g.name, replica |-> k,
                     labels |-> g.labels \ Keys(vendor(g)), vendor |-> vendor(g),
                     pools |-> g.pools, auxiliary |-> g.auxiliary] \in NodeType
  BY DEF Nodes
<1>1. g \in GroupType /\ Stored(g, r)
  BY DocumentLists DEF Canonical
<1>2. vendor(g) \in SUBSET LabelType
  BY <1>1, VendorLabelsAreLabels DEF NodeLabels
<1>3. k \in Nat
  BY <1>1 DEF GroupType
<1> DEFINE labels == g.labels \ Keys(vendor(g))
<1>4. labels \in SUBSET STRING
  BY <1>1 DEF GroupType
<1> HIDE DEF labels, vendor
<1>5. g.name \in Nat /\ g.pools \in Seq(PoolType) /\ g.auxiliary \in Seq(AuxiliaryType)
  BY <1>1 DEF GroupType
<1>6. [group |-> g.name, replica |-> k, labels |-> labels, vendor |-> vendor(g),
       pools |-> g.pools, auxiliary |-> g.auxiliary] \in NodeType
  BY <1>2, <1>3, <1>4, <1>5 DEF NodeType
<1> QED
  BY <1>6 DEF labels

\* SCN-012: Build and Render accept every revision of the scheduling mode whose groups
\* do not write the derived labels they ask for, and whose contracts agree on them.
THEOREM AcceptedSchedulingProjects == Spec => []SchedulingScenariosProject
<1>1. CompilerInv => SchedulingScenariosProject
  <2> SUFFICES ASSUME CompilerInv, NEW i \in DOMAIN log, log[i].mode = "scheduling",
                      \A group \in Range(log[i].groups) :
                         group.discovery => DerivedLabelsAgree(group, ReleaseOf(log[i]))
               PROVE  Project(log[i], ReleaseOf(log[i])) # Rejected
    BY DEF SchedulingScenariosProject
  <2>1. PICK r \in 1..Releases : Sound(log[i], r)
    BY DEF CompilerInv
  <2>2. Canonical(log[i], r) /\ ReleaseOf(log[i]) = r
    BY <2>1, ReleaseOfIs DEF Sound
  <2>3. \A group \in Range(log[i].groups) :
          Buildable(group, r) /\ Renderable(group, log[i].mode, r)
    <3> SUFFICES ASSUME NEW group \in Range(log[i].groups)
                 PROVE  Buildable(group, r) /\ Renderable(group, "scheduling", r)
      OBVIOUS
    <3>1. group \in GroupType /\ Stored(group, r) /\ Valid(group, "scheduling", r)
      BY <2>1, <2>2, DocumentLists DEF Canonical, Sound
    <3>2. group.discovery => DerivedLabelsAgree(group, r)
      BY <2>2
    <3> QED
      BY <3>1, <3>2, ValidIsBuildable
  <2>4. Project(log[i], r) = [nodes |-> Nodes(log[i], r)]
    BY <2>3 DEF Project
  <2>5. Nodes(log[i], r) \subseteq NodeType
    BY <2>2, NodesAreNodes
  <2>6. Project(log[i], r) \in ProjectionType
    BY <2>4, <2>5 DEF ProjectionType
  <2> QED
    BY <2>2, <2>6, CompilerAssumption
<1> QED
  BY <1>1, RevisionsAreCompiled, PTL

-----------------------------------------------------------------------------
(***************************************************************************)
(* Typed changes.                                                          *)
(***************************************************************************)

PinsOf(group) ==
    {<<group.name, pool.name, pool.contract, pool.revision>> : pool \in Range(group.pools)}
NodeOf(group, k, mode, r) ==
    [group |-> group.name, replica |-> k,
     labels |-> group.labels \ Keys(NodeLabels(group, mode, r)),
     vendor |-> NodeLabels(group, mode, r),
     pools |-> group.pools, auxiliary |-> group.auxiliary]
Level(pools) == [i \in DOMAIN pools |-> [pools[i] EXCEPT !.healthy = 0]]
Leveled(node) == [node EXCEPT !.pools = Level(node.pools)]

\* The pins of a Scenario are those of its groups; a Node is one of a group.
LEMMA PinsAgree ==
    ASSUME NEW d, NEW e, DOMAIN e.groups = DOMAIN d.groups,
           \A i \in DOMAIN d.groups : PinsOf(e.groups[i]) = PinsOf(d.groups[i])
    PROVE  Pins(e) = Pins(d)
<1>1. ASSUME NEW s
      PROVE  Pins(s) = UNION {PinsOf(s.groups[i]) : i \in DOMAIN s.groups}
  BY DEF Pins, PinsOf, Range
<1> QED
  BY <1>1

LEMMA NodesAre ==
    ASSUME NEW s, NEW r, NEW node
    PROVE  node \in Nodes(s, r) <=>
              \E i \in DOMAIN s.groups : \E k \in 0..s.groups[i].replicas - 1 :
                 node = NodeOf(s.groups[i], k, s.mode, r)
BY DEF Nodes, NodeOf, Range

\* A change of scale moves no pin and no Node that remains.
LEMMA ScaleIsExact ==
    ASSUME NEW d, NEW r, Canonical(d, r), NEW i \in DOMAIN d.groups, NEW k \in Nat,
           NEW e, e = Scaled(d, i, k)
    PROVE  /\ Pins(e) = Pins(d)
           /\ \A m \in Nodes(d, r), n \in Nodes(e, r) :
                 m.group = n.group /\ m.replica = n.replica => m = n
<1>1. d \in DocumentType /\ UniqueNames(d.groups)
  BY DocumentLists, IncreasingIsUnique DEF Canonical
<1>2. \A j \in DOMAIN d.groups : d.groups[j] \in GroupType
  BY <1>1, DocumentLists
<1>3. /\ DOMAIN e.groups = DOMAIN d.groups /\ e.mode = d.mode
      /\ e.groups[i] = [d.groups[i] EXCEPT !.replicas = k]
      /\ \A j \in DOMAIN d.groups : j # i => e.groups[j] = d.groups[j]
  BY <1>1, ScaledIs
<1>4. ASSUME NEW j \in DOMAIN d.groups
      PROVE  LET g == d.groups[j]
                 h == e.groups[j]
             IN  /\ h.name = g.name /\ h.labels = g.labels /\ h.discovery = g.discovery
                 /\ h.pools = g.pools /\ h.auxiliary = g.auxiliary
  <2>1. CASE j = i
    BY <1>2, <1>3, <2>1 DEF GroupType
  <2>2. CASE j # i
    BY <1>3, <2>2
  <2> QED
    BY <2>1, <2>2
<1>5. Pins(e) = Pins(d)
  <2>1. \A j \in DOMAIN d.groups : PinsOf(e.groups[j]) = PinsOf(d.groups[j])
    BY <1>4 DEF PinsOf
  <2> QED
    BY <1>3, <2>1, PinsAgree
<1>6. ASSUME NEW m \in Nodes(d, r), NEW n \in Nodes(e, r),
             m.group = n.group, m.replica = n.replica
      PROVE  m = n
  <2>1. PICK j \in DOMAIN d.groups : \E q \in 0..d.groups[j].replicas - 1 :
          m = NodeOf(d.groups[j], q, d.mode, r)
    BY NodesAre
  <2>2. PICK q : m = NodeOf(d.groups[j], q, d.mode, r)
    BY <2>1
  <2>3. PICK l \in DOMAIN d.groups : \E w \in 0..e.groups[l].replicas - 1 :
          n = NodeOf(e.groups[l], w, d.mode, r)
    BY <1>3, NodesAre
  <2>4. PICK w : n = NodeOf(e.groups[l], w, d.mode, r)
    BY <2>3
  <2>5. d.groups[j].name = e.groups[l].name /\ q = w
    BY <1>6, <2>2, <2>4 DEF NodeOf
  <2>6. j = l
    BY <1>1, <1>4, <2>5 DEF UniqueNames
  <2>7. NodeLabels(e.groups[j], d.mode, r) = NodeLabels(d.groups[j], d.mode, r)
    BY <1>4 DEF NodeLabels, VendorLabels
  <2>8. NodeOf(e.groups[j], q, d.mode, r) = NodeOf(d.groups[j], q, d.mode, r)
    BY <1>4, <2>7 DEF NodeOf
  <2> QED
    BY <2>2, <2>4, <2>5, <2>6, <2>8
<1> QED
  BY <1>5, <1>6

LEMMA UniformAgrees ==
    ASSUME NEW d, NEW e, NEW r, DOMAIN e.groups = DOMAIN d.groups, e.mode = d.mode,
           \A i \in DOMAIN d.groups :
              /\ e.groups[i].replicas = d.groups[i].replicas
              /\ \A k : Leveled(NodeOf(e.groups[i], k, d.mode, r))
                          = Leveled(NodeOf(d.groups[i], k, d.mode, r))
    PROVE  Uniform(Nodes(e, r)) = Uniform(Nodes(d, r))
<1>1. ASSUME NEW s, NEW x
      PROVE  x \in Uniform(Nodes(s, r)) <=>
                \E i \in DOMAIN s.groups : \E k \in 0..s.groups[i].replicas - 1 :
                   x = Leveled(NodeOf(s.groups[i], k, s.mode, r))
  <2>1. \A node : [node EXCEPT !.pools = [i \in DOMAIN node.pools |->
                                            [node.pools[i] EXCEPT !.healthy = 0]]]
                    = Leveled(node)
    BY DEF Leveled, Level
  <2>2. x \in Uniform(Nodes(s, r)) <=> \E node \in Nodes(s, r) : x = Leveled(node)
    BY <2>1 DEF Uniform
  <2> QED
    BY <2>2, NodesAre
<1>2. \A i \in DOMAIN d.groups :
        /\ 0..e.groups[i].replicas - 1 = 0..d.groups[i].replicas - 1
        /\ \A k \in 0..d.groups[i].replicas - 1 :
              Leveled(NodeOf(e.groups[i], k, d.mode, r))
                = Leveled(NodeOf(d.groups[i], k, d.mode, r))
  OBVIOUS
<1>3. ASSUME NEW x \in Uniform(Nodes(e, r))
      PROVE  x \in Uniform(Nodes(d, r))
  <2>1. PICK i \in DOMAIN d.groups : \E k \in 0..e.groups[i].replicas - 1 :
          x = Leveled(NodeOf(e.groups[i], k, d.mode, r))
    BY <1>1
  <2>2. \E k \in 0..d.groups[i].replicas - 1 : x = Leveled(NodeOf(d.groups[i], k, d.mode, r))
    BY <1>2, <2>1
  <2> QED
    BY <1>1, <2>2
<1>4. ASSUME NEW x \in Uniform(Nodes(d, r))
      PROVE  x \in Uniform(Nodes(e, r))
  <2>1. PICK i \in DOMAIN d.groups : \E k \in 0..d.groups[i].replicas - 1 :
          x = Leveled(NodeOf(d.groups[i], k, d.mode, r))
    BY <1>1
  <2>2. \E k \in 0..e.groups[i].replicas - 1 : x = Leveled(NodeOf(e.groups[i], k, d.mode, r))
    BY <1>2, <2>1
  <2> QED
    BY <1>1, <2>2
<1> QED
  BY <1>3, <1>4

\* Groups whose pools differ in their health only have the same pins and labels.
LEMMA HealthIsApart ==
    ASSUME NEW g, NEW h, h.name = g.name, h.labels = g.labels, h.discovery = g.discovery,
           h.auxiliary = g.auxiliary, DOMAIN h.pools = DOMAIN g.pools,
           \A l \in DOMAIN g.pools : /\ h.pools[l].name = g.pools[l].name
                                     /\ h.pools[l].contract = g.pools[l].contract
                                     /\ h.pools[l].revision = g.pools[l].revision,
           Level(h.pools) = Level(g.pools), NEW mode, NEW r
    PROVE  /\ PinsOf(h) = PinsOf(g)
           /\ \A q : Leveled(NodeOf(h, q, mode, r)) = Leveled(NodeOf(g, q, mode, r))
<1> DEFINE pin(x, l) == <<x.name, x.pools[l].name, x.pools[l].contract, x.pools[l].revision>>
           labels(x, l) == Signals(x.pools[l], g.discovery, r)
           set(x) == x.labels \ Keys(NodeLabels(x, mode, r))
           vendor(x) == NodeLabels(x, mode, r)
<1>1. ASSUME NEW x
      PROVE  PinsOf(x) = {pin(x, l) : l \in DOMAIN x.pools}
  BY DEF PinsOf, Range
<1>2. ASSUME NEW x, x.discovery = g.discovery
      PROVE  VendorLabels(x, r) = UNION {labels(x, l) : l \in DOMAIN x.pools}
  BY <1>2 DEF VendorLabels, Range
<1>3. \A l \in DOMAIN g.pools : pin(h, l) = pin(g, l) /\ labels(h, l) = labels(g, l)
  BY DEF Signals, Offer
<1> HIDE DEF pin, labels
<1>4. PinsOf(h) = PinsOf(g)
  BY <1>1, <1>3
<1>5. VendorLabels(h, r) = VendorLabels(g, r)
  BY <1>2, <1>3
<1>6. vendor(h) = vendor(g) /\ set(h) = set(g)
  BY <1>5 DEF NodeLabels
<1> HIDE DEF set, vendor
<1>7. ASSUME NEW x, NEW q
      PROVE  Leveled(NodeOf(x, q, mode, r))
               = [group |-> x.name, replica |-> q, labels |-> set(x), vendor |-> vendor(x),
                  pools |-> Level(x.pools), auxiliary |-> x.auxiliary]
  <2> DEFINE n == NodeOf(x, q, mode, r)
             level == Level(x.pools)
             name == x.name
             written == set(x)
             told == vendor(x)
             pools == x.pools
             aux == x.auxiliary
  <2>1. n.pools = x.pools
    BY DEF NodeOf
  <2>2. Leveled(n) = [n EXCEPT !.pools = level]
    BY <2>1 DEF Leveled
  <2>3. n = [group |-> name, replica |-> q, labels |-> written, vendor |-> told,
             pools |-> pools, auxiliary |-> aux]
    BY DEF NodeOf, set, vendor
  <2> HIDE DEF level, n, name, written, told, pools, aux
  <2>4. [n EXCEPT !.pools = level]
          = [group |-> name, replica |-> q, labels |-> written, vendor |-> told,
             pools |-> level, auxiliary |-> aux]
    BY <2>3
  <2> QED
    BY <2>2, <2>4 DEF level, n, name, written, told, aux
<1>8. ASSUME NEW q
      PROVE  Leveled(NodeOf(h, q, mode, r)) = Leveled(NodeOf(g, q, mode, r))
  <2> DEFINE level == Level(g.pools)
  <2>1. /\ Level(h.pools) = level /\ set(h) = set(g) /\ vendor(h) = vendor(g)
        /\ h.name = g.name /\ h.auxiliary = g.auxiliary
    BY <1>6
  <2> HIDE DEF level
  <2>2. Leveled(NodeOf(h, q, mode, r))
          = [group |-> g.name, replica |-> q, labels |-> set(g), vendor |-> vendor(g),
             pools |-> level, auxiliary |-> g.auxiliary]
    BY <1>7, <2>1
  <2>3. Leveled(NodeOf(g, q, mode, r))
          = [group |-> g.name, replica |-> q, labels |-> set(g), vendor |-> vendor(g),
             pools |-> level, auxiliary |-> g.auxiliary]
    BY <1>7 DEF level
  <2> QED
    BY <2>2, <2>3
<1> QED
  BY <1>4, <1>8

\* A change of health moves no pin, and nothing of a Node but that health.
LEMMA HealthIsExact ==
    ASSUME NEW d, NEW r, Canonical(d, r), NEW i \in DOMAIN d.groups,
           NEW j \in DOMAIN d.groups[i].pools, NEW k \in Nat,
           NEW e, e = Healed(d, i, j, k)
    PROVE  Pins(e) = Pins(d) /\ Uniform(Nodes(e, r)) = Uniform(Nodes(d, r))
<1> DEFINE G == d.groups[i]
           H == e.groups[i]
<1>1. HealthMoved(e, d, i, j, k) /\ d \in DocumentType
  BY HealedIs DEF Canonical
<1>2. \A l \in DOMAIN d.groups : d.groups[l] \in GroupType
  BY <1>1, DocumentLists
<1>3. /\ DOMAIN e.groups = DOMAIN d.groups /\ e.mode = d.mode
      /\ H = [G EXCEPT !.pools = H.pools]
      /\ \A l \in DOMAIN d.groups : l # i => e.groups[l] = d.groups[l]
  BY <1>1 DEF HealthMoved
<1>4. /\ DOMAIN H.pools = DOMAIN G.pools
      /\ H.pools[j] = [G.pools[j] EXCEPT !.healthy = k]
      /\ \A l \in DOMAIN G.pools : l # j => H.pools[l] = G.pools[l]
  BY <1>1 DEF HealthMoved
<1>5. /\ H.name = G.name /\ H.labels = G.labels /\ H.discovery = G.discovery
      /\ H.auxiliary = G.auxiliary /\ H.replicas = G.replicas
  BY <1>2, <1>3 DEF GroupType
<1>6. G.pools[j] \in PoolType
  BY <1>2, GroupLists
<1>7. ASSUME NEW l \in DOMAIN G.pools
      PROVE  /\ H.pools[l].name = G.pools[l].name
             /\ H.pools[l].contract = G.pools[l].contract
             /\ H.pools[l].revision = G.pools[l].revision
             /\ [H.pools[l] EXCEPT !.healthy = 0] = [G.pools[l] EXCEPT !.healthy = 0]
  <2>1. CASE l = j
    BY <1>4, <1>6, <2>1 DEF PoolType
  <2>2. CASE l # j
    BY <1>4, <2>2
  <2> QED
    BY <2>1, <2>2
<1> HIDE DEF G, H
<1>8. DOMAIN H.pools = DOMAIN G.pools /\ Level(H.pools) = Level(G.pools)
  BY <1>4, <1>7 DEF Level
<1>9. /\ PinsOf(H) = PinsOf(G)
      /\ \A q : Leveled(NodeOf(H, q, d.mode, r)) = Leveled(NodeOf(G, q, d.mode, r))
  <2>1. \A l \in DOMAIN G.pools : /\ H.pools[l].name = G.pools[l].name
                                  /\ H.pools[l].contract = G.pools[l].contract
                                  /\ H.pools[l].revision = G.pools[l].revision
    BY <1>7
  <2> QED
    BY <1>5, <1>8, <2>1, HealthIsApart
<1>10. \A l \in DOMAIN d.groups : PinsOf(e.groups[l]) = PinsOf(d.groups[l])
  BY <1>3, <1>9 DEF G, H
<1>11. \A l \in DOMAIN d.groups :
          /\ e.groups[l].replicas = d.groups[l].replicas
          /\ \A q : Leveled(NodeOf(e.groups[l], q, d.mode, r))
                      = Leveled(NodeOf(d.groups[l], q, d.mode, r))
  BY <1>3, <1>5, <1>9 DEF G, H
<1> QED
  BY <1>3, <1>10, <1>11, PinsAgree, UniformAgrees

\* ADR 0002, ADR 0003 and SCN-010: a typed change that is accepted moves no pool to
\* another contract or release of the catalog; a change of scale keeps the Nodes that
\* remain, a change of health every Node and every count.
THEOREM TypedChangesMoveWhatTheyName == Spec => TypedChangesAreExact
<1>1. ASSUME CompilerInv, TypedScale
      PROVE  /\ Pins(Last(log')) = Pins(Last(log))
             /\ \A m \in Current(Last(log)), n \in Current(Last(log')) :
                   m.group = n.group /\ m.replica = n.replica => m = n
  <2> DEFINE d == Last(log)
             e == Last(log')
  <2>1. /\ Canonical(d, client) /\ Canonical(e, client)
        /\ \E i \in DOMAIN d.groups, k \in Nat : e = Scaled(d, i, k)
    BY <1>1, ScaleStep DEF Sound
  <2> HIDE DEF d, e
  <2>2. Current(d) = Nodes(d, client) /\ Current(e) = Nodes(e, client)
    BY <2>1, ReleaseOfIs DEF Current
  <2>3. /\ Pins(e) = Pins(d)
        /\ \A m \in Nodes(d, client), n \in Nodes(e, client) :
              m.group = n.group /\ m.replica = n.replica => m = n
    BY <2>1, ScaleIsExact
  <2> QED
    BY <2>2, <2>3 DEF d, e
<1>2. ASSUME CompilerInv, TypedHealth
      PROVE  /\ Pins(Last(log')) = Pins(Last(log))
             /\ Uniform(Current(Last(log'))) = Uniform(Current(Last(log)))
  <2> DEFINE d == Last(log)
             e == Last(log')
  <2>1. /\ Canonical(d, client) /\ Canonical(e, client)
        /\ \E i \in DOMAIN d.groups, k \in Nat : \E j \in DOMAIN d.groups[i].pools :
              e = Healed(d, i, j, k)
    BY <1>2, HealthStep DEF Sound
  <2> HIDE DEF d, e
  <2>2. Current(d) = Nodes(d, client) /\ Current(e) = Nodes(e, client)
    BY <2>1, ReleaseOfIs DEF Current
  <2>3. Pins(e) = Pins(d) /\ Uniform(Nodes(e, client)) = Uniform(Nodes(d, client))
    BY <2>1, HealthIsExact
  <2> QED
    BY <2>2, <2>3 DEF d, e
<1>3. CompilerInv =>
        [/\ TypedScale \/ TypedHealth => Pins(Last(log')) = Pins(Last(log))
         /\ TypedScale => \A m \in Current(Last(log)), n \in Current(Last(log')) :
                            m.group = n.group /\ m.replica = n.replica => m = n
         /\ TypedHealth => Uniform(Current(Last(log'))) = Uniform(Current(Last(log)))]_vars
  BY <1>1, <1>2
<1> QED
  BY <1>3, RevisionsAreCompiled, PTL DEF TypedChangesAreExact
=============================================================================
