---------------------------- MODULE KvCache_proofs ----------------------------
(***************************************************************************)
(* For every pool, prompts and number of requests: types; no block is lost *)
(* or freed twice; the marks of hot protection are current; nothing a      *)
(* no-store request wrote can be hit; select_blocks takes the blocks of    *)
(* the lowest rank, each once, so that cached blocks and blocks that were  *)
(* hit are spent last; obsolete states are freed; and without hot          *)
(* protection every cached page can be hit.                                *)
(***************************************************************************)
EXTENDS KvCache, FiniteSetTheorems, FunctionTheorems, TLAPS

-----------------------------------------------------------------------------
(* Marks.                                                                  *)

(* The blocks taken by an admission are blocks of the pool, and Mark marks *)
(* exactly the cached ones among them, as hits.                            *)
LEMMA MarkKeepsMarksCurrent ==
    ASSUME MarksAreCurrent, NEW S \in SUBSET Blocks, Mark(S), UNCHANGED hash
    PROVE  MarksAreCurrent'
  BY DEF MarksAreCurrent, Mark

(* A protected block still holds the tokens that were hit: every path that *)
(* drops or replaces a hash drops the mark with it.                        *)
THEOREM MarksStayCurrent == Spec => []MarksAreCurrent
<1>1. Init => MarksAreCurrent
  BY DEF Init, MarksAreCurrent
<1>2. MarksAreCurrent /\ [Next]_vars => MarksAreCurrent'
  <2> SUFFICES ASSUME MarksAreCurrent, [Next]_vars PROVE MarksAreCurrent'
    OBVIOUS
  <2>1. ASSUME NEW s \in Slots, NEW p, NEW n, Arrive(s, p, n) PROVE MarksAreCurrent'
    BY <2>1 DEF Arrive, MarksAreCurrent
  <2>2. ASSUME NEW s \in Slots, Admit(s) PROVE MarksAreCurrent'
    <3>1. PICK f, g : Mark({b \in Blocks : InSeq(b, f) \/ InSeq(b, g)})
      BY <2>2 DEF Admit
    <3> QED
      BY <2>2, <3>1, MarkKeepsMarksCurrent DEF Admit
  <2>3. ASSUME NEW s \in Slots, NEW n, Allocate(s, n) PROVE MarksAreCurrent'
    <3>1. PICK fresh : /\ reused' = reused \ fresh
                       /\ hits' = hits \ fresh
                       /\ \A b \in Blocks : b \notin fresh => hash'[b] = hash[b]
      BY <2>3 DEF Allocate, ClearReused
    <3> QED
      BY <3>1 DEF MarksAreCurrent
  <2>4. ASSUME NEW s \in Slots, NEW p, Release(s, p) PROVE MarksAreCurrent'
    BY <2>4 DEF Release, MarksAreCurrent
  <2>5. CASE ResetPrefixCache
    BY <2>5 DEF ResetPrefixCache, ClearReused, MarksAreCurrent
  <2>6. CASE UNCHANGED vars
    BY <2>6 DEF vars, MarksAreCurrent
  <2>7. ASSUME NEW s \in Slots, NEW n, AllocationFails(s, n) PROVE MarksAreCurrent'
    BY <2>7 DEF AllocationFails, MarksAreCurrent
  <2> QED
    BY <2>1, <2>2, <2>3, <2>4, <2>5, <2>6, <2>7 DEF Next
<1> QED
  BY <1>1, <1>2, PTL DEF Spec

-----------------------------------------------------------------------------
(* No-store.                                                               *)

(* Nothing a no-store request has written can ever be hit, whatever is     *)
(* preempted, evicted or shared in between.                                *)
THEOREM NoStoreHolds == Spec => []NoStoreIsNeverServed
<1>1. Init => NoStoreIsNeverServed
  BY DEF Init, NoStoreIsNeverServed
<1>2. NoStoreIsNeverServed /\ [Next]_vars => NoStoreIsNeverServed'
  <2> SUFFICES ASSUME NoStoreIsNeverServed, [Next]_vars PROVE NoStoreIsNeverServed'
    OBVIOUS
  <2>1. ASSUME NEW s \in Slots, NEW p, NEW n, Arrive(s, p, n) PROVE NoStoreIsNeverServed'
    BY <2>1 DEF Arrive, NoStoreIsNeverServed
  <2>2. ASSUME NEW s \in Slots, Admit(s) PROVE NoStoreIsNeverServed'
    BY <2>2 DEF Admit, NoStoreIsNeverServed
  <2>3. ASSUME NEW s \in Slots, NEW n, Allocate(s, n) PROVE NoStoreIsNeverServed'
    <3>1. PICK fresh : /\ unstored' = IF noStore[s] THEN unstored \cup fresh
                                      ELSE unstored \ fresh
                       /\ \A b \in Blocks : b \notin fresh => hash'[b] = hash[b]
                       /\ \A b \in Blocks : b \in fresh /\ noStore[s] => hash'[b] = NoHash
      BY <2>3 DEF Allocate, Stores
    <3>2. CASE noStore[s]
      BY <3>1, <3>2 DEF NoStoreIsNeverServed
    <3>3. CASE ~noStore[s]
      BY <3>1, <3>3 DEF NoStoreIsNeverServed
    <3> QED
      BY <3>2, <3>3
  <2>4. ASSUME NEW s \in Slots, NEW p, Release(s, p) PROVE NoStoreIsNeverServed'
    BY <2>4 DEF Release, NoStoreIsNeverServed
  <2>5. CASE ResetPrefixCache
    BY <2>5 DEF ResetPrefixCache, NoStoreIsNeverServed
  <2>6. CASE UNCHANGED vars
    BY <2>6 DEF vars, NoStoreIsNeverServed
  <2>7. ASSUME NEW s \in Slots, NEW n, AllocationFails(s, n) PROVE NoStoreIsNeverServed'
    BY <2>7 DEF AllocationFails, NoStoreIsNeverServed
  <2> QED
    BY <2>1, <2>2, <2>3, <2>4, <2>5, <2>6, <2>7 DEF Next
<1> QED
  BY <1>1, <1>2, PTL DEF Spec

-----------------------------------------------------------------------------
(* Subsequences.                                                           *)

Rank(K, k) == Cardinality({l \in K : l <= k})

LEMMA RankFacts ==
    ASSUME NEW N \in Nat, NEW K \in SUBSET (1..N)
    PROVE  /\ IsFiniteSet(K) /\ Cardinality(K) \in Nat
           /\ \A k \in K : Rank(K, k) \in 1..Cardinality(K)
           /\ \A k, m \in K : k < m => Rank(K, k) < Rank(K, m)
<1> DEFINE Upto(k) == {l \in K : l <= k}
<1>0. (\A l \in K : l \in Int) /\ IsFiniteSet(1..N)
  BY FS_Interval
<1>1. IsFiniteSet(K) /\ Cardinality(K) \in Nat
  <2>1. IsFiniteSet(K)
    BY <1>0, FS_Subset
  <2> QED
    BY <2>1, FS_CardinalityType
<1>2. \A k : /\ IsFiniteSet(Upto(k)) /\ Cardinality(Upto(k)) \in Nat
             /\ Cardinality(Upto(k)) <= Cardinality(K)
  BY <1>1, FS_Subset, FS_CardinalityType
<1>3. \A k \in K : Cardinality(Upto(k)) /= 0
  <2> TAKE k \in K
  <2>1. k \in Upto(k)
    BY <1>0
  <2> QED
    BY <2>1, <1>2, FS_EmptySet
<1>4. ASSUME NEW k \in K, NEW m \in K, k < m PROVE Cardinality(Upto(k)) < Cardinality(Upto(m))
  <2>0. k \in Int /\ m \in Int
    BY <1>0
  <2>1. Upto(k) \subseteq Upto(m) /\ m \in Upto(m) /\ m \notin Upto(k)
    <3>1. (\A l \in K : l <= k => l <= m) /\ m <= m /\ ~(m <= k)
      BY <1>0, <1>4, <2>0
    <3> QED
      BY <3>1
  <2>2. /\ Cardinality(Upto(k)) <= Cardinality(Upto(m))
        /\ Cardinality(Upto(k)) /= Cardinality(Upto(m))
    <3> HIDE DEF Upto
    <3> QED
      BY <1>2, <2>1, FS_Subset
  <2> QED
    BY <1>2, <2>2
<1> QED
  BY <1>1, <1>2, <1>3, <1>4 DEF Rank

(* Nth counts the members of a finite set of numbers in their order.       *)
LEMMA NthFacts ==
    ASSUME NEW N \in Nat, NEW K \in SUBSET (1..N)
    PROVE  /\ \A j \in 1..Cardinality(K) : Nth(K, j) \in K
           /\ \A k \in K : \E j \in 1..Cardinality(K) : Nth(K, j) = k
           /\ \A i, j \in 1..Cardinality(K) : i < j => Nth(K, i) < Nth(K, j)
<1>0. \A l \in K : l \in Int
  OBVIOUS
<1> DEFINE C == 1..Cardinality(K)
           f == [k \in K |-> Rank(K, k)]
<1>1. /\ IsFiniteSet(K) /\ Cardinality(K) \in Nat
      /\ \A k \in K : Rank(K, k) \in C
      /\ \A k, m \in K : k < m => Rank(K, k) < Rank(K, m)
  BY RankFacts
<1>2. \A k, m \in K : Rank(K, k) = Rank(K, m) => k = m
  <2> SUFFICES ASSUME NEW k \in K, NEW m \in K, k /= m PROVE Rank(K, k) /= Rank(K, m)
    OBVIOUS
  <2>1. k < m \/ m < k
    OBVIOUS
  <2> QED
    BY <1>1, <2>1
<1>3. f \in Injection(K, C)
  <2>1. f \in [K -> C] /\ \A k, m \in K : f[k] = f[m] => k = m
    BY <1>1, <1>2
  <2> HIDE DEF f, C
  <2> QED
    BY <2>1, Fun_IsInj
<1>4. IsFiniteSet(C) /\ Cardinality(C) = Cardinality(K)
  BY <1>1, FS_Interval
<1>5. f \in Surjection(K, C)
  <2> HIDE DEF C, f
  <2> QED
    BY <1>3, <1>4, FS_Injection
<1>6. \A j \in C : \E k \in K : Rank(K, k) = j
  BY <1>5 DEF Surjection
<1>7. \A j \in C : Nth(K, j) \in K /\ Rank(K, Nth(K, j)) = j
  BY <1>6 DEF Nth, Rank
<1>8. \A k \in K : Nth(K, Rank(K, k)) = k
  BY <1>1, <1>2, <1>7
<1>9. ASSUME NEW i \in C, NEW j \in C, i < j PROVE Nth(K, i) < Nth(K, j)
  <2> DEFINE a == Nth(K, i)
             b == Nth(K, j)
  <2>1. a \in K /\ b \in K /\ Rank(K, a) = i /\ Rank(K, b) = j
    BY <1>7
  <2>2. a \in Int /\ b \in Int
    BY <1>0, <2>1
  <2> HIDE DEF a, b
  <2>3. ~(b < a) /\ a /= b
    BY <1>1, <1>9, <2>1
  <2>4. a < b
    BY <2>2, <2>3
  <2> QED
    BY <2>4 DEF a, b
<1> QED
  BY <1>1, <1>7, <1>8, <1>9

Inj(s) == \A i, j \in 1..Len(s) : s[i] = s[j] => i = j
Ahead(s, b, c) == \E i, j \in 1..Len(s) : i < j /\ s[i] = b /\ s[j] = c

(* t has what stands in s at the places K, once each and in the old order. *)
KeptFrom(t, s, K) ==
    /\ \A x : InSeq(x, t) <=> \E k \in K : s[k] = x
    /\ (\A k, m \in K : s[k] = s[m] => k = m) => Inj(t)
    /\ \A x, y : Ahead(t, x, y) <=> \E k, m \in K : k < m /\ s[k] = x /\ s[m] = y

LEMMA KeepFacts ==
    ASSUME NEW S, NEW N \in Nat, NEW K \in SUBSET (1..N), NEW s, \A k \in K : s[k] \in S
    PROVE  Keep(s, K) \in Seq(S) /\ KeptFrom(Keep(s, K), s, K)
<1> DEFINE n == Cardinality(K)
           t == Keep(s, K)
<1>1. n \in Nat
  BY RankFacts
<1>2. /\ \A j \in 1..n : Nth(K, j) \in K
      /\ \A k \in K : \E j \in 1..n : Nth(K, j) = k
      /\ \A i, j \in 1..n : i < j => Nth(K, i) < Nth(K, j)
  BY NthFacts
<1>3. t \in Seq(S) /\ Len(t) = n /\ \A j \in 1..n : t[j] = s[Nth(K, j)]
  <2> HIDE DEF n
  <2>1. t = [j \in 1..n |-> s[Nth(K, j)]]
    BY DEF Keep, n
  <2>2. \A j \in 1..n : s[Nth(K, j)] \in S
    BY <1>2
  <2> HIDE DEF t
  <2> QED
    BY <1>1, <2>1, <2>2
<1> HIDE DEF n, t
<1>4. \A x : InSeq(x, t) <=> \E k \in K : s[k] = x
  BY <1>2, <1>3 DEF InSeq
<1>5. ASSUME \A k, m \in K : s[k] = s[m] => k = m PROVE Inj(t)
  <2> SUFFICES ASSUME NEW i \in 1..n, NEW j \in 1..n, t[i] = t[j], i /= j PROVE FALSE
    BY <1>3 DEF Inj
  <2>0. Nth(K, i) \in K /\ Nth(K, j) \in K
    BY <1>2
  <2>1. Nth(K, i) = Nth(K, j)
    BY <2>0, <1>3, <1>5
  <2>2. i < j \/ j < i
    BY <1>1
  <2>3. Nth(K, i) \in Int /\ Nth(K, j) \in Int
    <3>1. \A l \in K : l \in Int
      OBVIOUS
    <3> QED
      BY <2>0, <3>1
  <2> QED
    BY <1>2, <2>1, <2>2, <2>3
<1>6. ASSUME NEW x, NEW y, Ahead(t, x, y) PROVE \E k, m \in K : k < m /\ s[k] = x /\ s[m] = y
  <2>1. PICK i \in 1..n, j \in 1..n : i < j /\ t[i] = x /\ t[j] = y
    BY <1>3, <1>6 DEF Ahead
  <2> QED
    BY <1>2, <1>3, <2>1
<1>7. ASSUME NEW x, NEW y, NEW k \in K, NEW m \in K, k < m, s[k] = x, s[m] = y PROVE Ahead(t, x, y)
  <2>1. PICK i \in 1..n, j \in 1..n : Nth(K, i) = k /\ Nth(K, j) = m
    BY <1>2
  <2>2. i < j
    <3>1. i < j \/ j < i \/ i = j
      BY <1>1
    <3> QED
      BY <1>2, <1>7, <2>1, <3>1
  <2> QED
    BY <1>3, <1>7, <2>1, <2>2 DEF Ahead
<1> QED
  BY <1>3, <1>4, <1>5, <1>6, <1>7 DEF t, KeptFrom

-----------------------------------------------------------------------------
(* The order of select_blocks.                                             *)

(* Smaller is the comparison of Python tuples.                             *)
LEMMA SmallerIsLexicographic ==
    ASSUME NEW a1 \in Int, NEW a2 \in Int, NEW a3 \in Int, NEW a4 \in Int,
           NEW c1 \in Int, NEW c2 \in Int, NEW c3 \in Int, NEW c4 \in Int
    PROVE  Smaller(<<a1, a2, a3, a4>>, <<c1, c2, c3, c4>>)
           <=> \/ a1 < c1
               \/ a1 = c1 /\ a2 < c2
               \/ a1 = c1 /\ a2 = c2 /\ a3 < c3
               \/ a1 = c1 /\ a2 = c2 /\ a3 = c3 /\ a4 < c4
<1> DEFINE x == <<a1, a2, a3, a4>>
           y == <<c1, c2, c3, c4>>
<1>1. /\ x[1] = a1 /\ x[2] = a2 /\ x[3] = a3 /\ x[4] = a4
      /\ y[1] = c1 /\ y[2] = c2 /\ y[3] = c3 /\ y[4] = c4
  OBVIOUS
<1>2. 1..4 = {1, 2, 3, 4}
  OBVIOUS
<1> HIDE DEF x, y
<1>3. Smaller(x, y) <=> \/ x[1] < y[1]
                        \/ x[1] = y[1] /\ x[2] < y[2]
                        \/ x[1] = y[1] /\ x[2] = y[2] /\ x[3] < y[3]
                        \/ x[1] = y[1] /\ x[2] = y[2] /\ x[3] = y[3] /\ x[4] < y[4]
  BY <1>2 DEF Smaller
<1> QED
  BY <1>1, <1>3 DEF x, y

LEMMA IndexIsPlace ==
    ASSUME NEW q, NEW b \in Free(q)
    PROVE  IndexIn(q, b) \in Int /\ q[IndexIn(q, b)] = b
  BY DEF Free, InSeq, IndexIn

HashBit(b) == IF hash[b] /= NoHash THEN 1 ELSE 0
HitBit(b) == IF flags.protect /\ hash[b] /= NoHash /\ b \in reused THEN 1 ELSE 0
Depth(b) == Len(hash[b].prefix)
Lex(q, b, c) ==
    \/ HashBit(b) < HashBit(c)
    \/ HashBit(b) = HashBit(c) /\ HitBit(b) < HitBit(c)
    \/ HashBit(b) = HashBit(c) /\ HitBit(b) = HitBit(c) /\ -Depth(b) < -Depth(c)
    \/ /\ HashBit(b) = HashBit(c) /\ HitBit(b) = HitBit(c) /\ -Depth(b) = -Depth(c)
       /\ IndexIn(q, b) < IndexIn(q, c)

(* Before orders the free blocks by the four fields of rank_key.           *)
LEMMA BeforeIsLexicographic ==
    ASSUME HashesAreTyped, NEW q
    PROVE  /\ \A b \in Free(q) : /\ HashBit(b) \in {0, 1} /\ HitBit(b) \in {0, 1}
                                  /\ Depth(b) \in Nat /\ IndexIn(q, b) \in Int
           /\ \A b, c \in Free(q) : Before(q, b, c) <=> IF flags.tailFirst THEN Lex(q, b, c)
                                                        ELSE IndexIn(q, b) < IndexIn(q, c)
<1>1. \A b \in Free(q) : /\ HashBit(b) \in {0, 1} /\ HitBit(b) \in {0, 1}
                         /\ Depth(b) \in Nat /\ IndexIn(q, b) \in Int
  <2> TAKE b \in Free(q)
  <2>1. b \in Blocks
    BY DEF Free
  <2>2. Len(hash[b].prefix) \in Nat
    BY <2>1 DEF HashesAreTyped
  <2> QED
    BY <2>2, IndexIsPlace DEF HashBit, HitBit, Depth
<1>2. ASSUME NEW b \in Free(q), NEW c \in Free(q)
      PROVE  Before(q, b, c) <=> IF flags.tailFirst THEN Lex(q, b, c)
                                 ELSE IndexIn(q, b) < IndexIn(q, c)
  <2> DEFINE i(x) == IndexIn(q, x)
             e(x) == -Depth(x)
  <2>1. RankKey(b, i(b)) = <<HashBit(b), HitBit(b), e(b), i(b)>>
    BY DEF RankKey, HashBit, HitBit, Depth
  <2>2. RankKey(c, i(c)) = <<HashBit(c), HitBit(c), e(c), i(c)>>
    BY DEF RankKey, HashBit, HitBit, Depth
  <2>3. Smaller(<<HashBit(b), HitBit(b), e(b), i(b)>>, <<HashBit(c), HitBit(c), e(c), i(c)>>)
        <=> Lex(q, b, c)
    <3>1. /\ HashBit(b) \in Int /\ HitBit(b) \in Int /\ e(b) \in Int /\ i(b) \in Int
          /\ HashBit(c) \in Int /\ HitBit(c) \in Int /\ e(c) \in Int /\ i(c) \in Int
      BY <1>1
    <3>2. Lex(q, b, c) <=> \/ HashBit(b) < HashBit(c)
                           \/ HashBit(b) = HashBit(c) /\ HitBit(b) < HitBit(c)
                           \/ HashBit(b) = HashBit(c) /\ HitBit(b) = HitBit(c) /\ e(b) < e(c)
                           \/ /\ HashBit(b) = HashBit(c) /\ HitBit(b) = HitBit(c) /\ e(b) = e(c)
                              /\ i(b) < i(c)
      BY DEF Lex
    <3> HIDE DEF e, i
    <3> QED
      BY <3>1, <3>2, SmallerIsLexicographic, SMTT(30)
  <2> QED
    BY <2>1, <2>2, <2>3 DEF Before
<1> QED
  BY <1>1, <1>2

(* Before is a strict total order of the free blocks of any queue.         *)
LEMMA BeforeIsAnOrder ==
    ASSUME HashesAreTyped, NEW q
    PROVE  /\ \A b \in Free(q) : ~Before(q, b, b)
           /\ \A b, c \in Free(q) : b /= c => Before(q, b, c) \/ Before(q, c, b)
           /\ \A b, c, d \in Free(q) : Before(q, b, c) /\ Before(q, c, d) => Before(q, b, d)
<1>1. /\ \A b \in Free(q) : /\ HashBit(b) \in {0, 1} /\ HitBit(b) \in {0, 1}
                            /\ Depth(b) \in Nat /\ IndexIn(q, b) \in Int
      /\ \A b, c \in Free(q) : Before(q, b, c) <=> IF flags.tailFirst THEN Lex(q, b, c)
                                                   ELSE IndexIn(q, b) < IndexIn(q, c)
  BY BeforeIsLexicographic
<1>2. \A b, c \in Free(q) : b /= c => IndexIn(q, b) /= IndexIn(q, c)
  BY IndexIsPlace
<1>3. \A b \in Free(q) : ~Before(q, b, b)
  BY <1>1 DEF Lex
<1>4. \A b, c \in Free(q) : b /= c => Before(q, b, c) \/ Before(q, c, b)
  BY <1>1, <1>2 DEF Lex
<1>5. \A b, c, e \in Free(q) : Before(q, b, c) /\ Before(q, c, e) => Before(q, b, e)
  <2> SUFFICES ASSUME NEW b \in Free(q), NEW c \in Free(q), NEW e \in Free(q),
                      Before(q, b, c), Before(q, c, e)
               PROVE  Before(q, b, e)
    OBVIOUS
  <2>1. CASE flags.tailFirst
    BY <2>1, <1>1 DEF Lex
  <2>2. CASE ~flags.tailFirst
    BY <2>2, <1>1
  <2> QED
    BY <2>1, <2>2
<1> QED
  BY <1>3, <1>4, <1>5

(* What the order says of a block that is taken and one that is left.      *)
LEMMA BeforeSays ==
    ASSUME HashesAreTyped, NEW q, NEW b \in Free(q), NEW c \in Free(q), Before(q, b, c)
    PROVE  /\ ~flags.tailFirst => IndexIn(q, b) < IndexIn(q, c)
           /\ flags.tailFirst /\ hash[b] /= NoHash => hash[c] /= NoHash
           /\ flags.tailFirst /\ flags.protect /\ hash[b] /= NoHash /\ b \in reused => c \in reused
           /\ flags.tailFirst /\ ~flags.protect /\ hash[b] /= NoHash
                => Len(hash[c].prefix) <= Len(hash[b].prefix)
<1>1. /\ HashBit(b) \in {0, 1} /\ HitBit(b) \in {0, 1} /\ Depth(b) \in Nat
      /\ HashBit(c) \in {0, 1} /\ HitBit(c) \in {0, 1} /\ Depth(c) \in Nat
  BY BeforeIsLexicographic
<1>2. IF flags.tailFirst THEN Lex(q, b, c) ELSE IndexIn(q, b) < IndexIn(q, c)
  BY BeforeIsLexicographic
<1>3. ASSUME flags.tailFirst, hash[b] /= NoHash
      PROVE  /\ hash[c] /= NoHash
             /\ flags.protect /\ b \in reused => c \in reused
             /\ ~flags.protect => Depth(c) <= Depth(b)
  <2>1. Lex(q, b, c) /\ HashBit(b) = 1
    BY <1>2, <1>3 DEF HashBit
  <2>2. HashBit(c) = 1
    BY <1>1, <2>1 DEF Lex
  <2>3. hash[c] /= NoHash
    BY <2>2 DEF HashBit
  <2>4. flags.protect /\ b \in reused => HitBit(b) = 1
    BY <1>3 DEF HitBit
  <2>5. flags.protect /\ b \in reused => HitBit(c) = 1
    BY <1>1, <2>1, <2>4 DEF Lex
  <2>6. HitBit(c) = 1 => c \in reused
    BY DEF HitBit
  <2>7. ~flags.protect => HitBit(b) = 0 /\ HitBit(c) = 0
    BY DEF HitBit
  <2>8. ~flags.protect => Depth(c) <= Depth(b)
    BY <1>1, <2>1, <2>2, <2>7 DEF Lex
  <2> QED
    BY <2>3, <2>5, <2>6, <2>8
<1> QED
  BY <1>2, <1>3 DEF Depth

LEMMA FreeIsFinite ==
    ASSUME NEW q
    PROVE  IsFiniteSet(Free(q)) /\ Cardinality(Free(q)) \in Nat
  BY BlocksAssumption, FS_Subset, FS_CardinalityType DEF Free

(* The place of a block is its number in that order.                       *)
LEMMA PlaceIsMonotone ==
    ASSUME HashesAreTyped, NEW q, NEW b \in Free(q), NEW c \in Free(q), Before(q, b, c)
    PROVE  Place(q, b) < Place(q, c)
<1> DEFINE Under(x) == {e \in Free(q) : Before(q, e, x)}
<1>1. Under(b) \subseteq Under(c) /\ b \in Under(c) /\ b \notin Under(b)
  BY BeforeIsAnOrder
<1>2. IsFiniteSet(Under(c)) /\ IsFiniteSet(Under(b))
  BY FreeIsFinite, FS_Subset
<1>3. Cardinality(Under(b)) \in Nat /\ Cardinality(Under(c)) \in Nat
  BY <1>2, FS_CardinalityType
<1>4. Cardinality(Under(b)) <= Cardinality(Under(c)) /\ Cardinality(Under(b)) /= Cardinality(Under(c))
  <2> HIDE DEF Under
  <2> QED
    BY <1>1, <1>2, FS_Subset
<1> QED
  BY <1>3, <1>4 DEF Place

LEMMA PlaceIsBounded ==
    ASSUME HashesAreTyped, NEW q, NEW b \in Free(q)
    PROVE  Place(q, b) \in 1..Cardinality(Free(q))
<1> DEFINE Under == {e \in Free(q) : Before(q, e, b)}
<1>1. Under \subseteq Free(q) /\ b \notin Under
  BY BeforeIsAnOrder
<1>2. IsFiniteSet(Under) /\ Cardinality(Under) \in Nat
  BY FreeIsFinite, FS_Subset, FS_CardinalityType
<1>3. Cardinality(Under) <= Cardinality(Free(q)) /\ Cardinality(Under) /= Cardinality(Free(q))
  <2> HIDE DEF Under
  <2> QED
    BY <1>1, FreeIsFinite, FS_Subset
<1> QED
  BY <1>2, <1>3, FreeIsFinite DEF Place

(* Every place up to the number of free blocks is taken by exactly one.    *)
LEMMA PlacesAreTaken ==
    ASSUME HashesAreTyped, NEW q, NEW k \in 1..Cardinality(Free(q))
    PROVE  \E b \in Free(q) : Place(q, b) = k
<1> DEFINE N == 1..Cardinality(Free(q))
           f == [b \in Free(q) |-> Place(q, b)]
<1>1. f \in [Free(q) -> N]
  BY PlaceIsBounded
<1>2. \A b, c \in Free(q) : f[b] = f[c] => b = c
  <2> SUFFICES ASSUME NEW b \in Free(q), NEW c \in Free(q), b /= c PROVE f[b] /= f[c]
    OBVIOUS
  <2>1. Place(q, b) < Place(q, c) \/ Place(q, c) < Place(q, b)
    BY BeforeIsAnOrder, PlaceIsMonotone
  <2>2. Place(q, b) \in Int /\ Place(q, c) \in Int
    BY PlaceIsBounded
  <2> QED
    BY <2>1, <2>2
<1> HIDE DEF f
<1>3. f \in Injection(Free(q), N)
  BY <1>1, <1>2, Fun_IsInj
<1>4. IsFiniteSet(N) /\ Cardinality(N) = Cardinality(Free(q))
  BY FreeIsFinite, FS_Interval
<1>5. f \in Surjection(Free(q), N)
  <2> HIDE DEF N
  <2> QED
    BY <1>3, <1>4, FS_Injection
<1>6. \E b \in Free(q) : f[b] = k
  BY <1>5 DEF Surjection
<1> QED
  BY <1>6 DEF f

(* select_blocks takes free blocks only, no block twice, and none that is  *)
(* ranked behind one it leaves in the queue: for every queue, every number *)
(* of victims and both settings of the tail-first flag.                    *)
THEOREM SelectionIsByRank ==
    ASSUME HashesAreTyped, NEW q, NEW n \in 0..Cardinality(Free(q))
    PROVE  LET new == SelectBlocks(q, n)
           IN  /\ \A k \in 1..n : new[k] \in Free(q)
               /\ \A k, l \in 1..n : new[k] = new[l] => k = l
               /\ \A k \in 1..n : \A b \in Free(q) :
                    (\A l \in 1..n : new[l] /= b) => Before(q, new[k], b)
<1> DEFINE new == SelectBlocks(q, n)
<1>1. \A k \in 1..n : new[k] \in Free(q) /\ Place(q, new[k]) = k
  <2> SUFFICES ASSUME NEW k \in 1..n PROVE new[k] \in Free(q) /\ Place(q, new[k]) = k
    OBVIOUS
  <2>1. k \in 1..Cardinality(Free(q))
    BY FreeIsFinite
  <2>2. new[k] = CHOOSE b \in Free(q) : Place(q, b) = k
    BY DEF SelectBlocks
  <2> QED
    BY <2>1, <2>2, PlacesAreTaken
<1> HIDE DEF new
<1>2. ASSUME NEW k \in 1..n, NEW b \in Free(q), \A l \in 1..n : new[l] /= b
      PROVE  Before(q, new[k], b)
  <2>1. Place(q, b) \notin 1..n
    <3> SUFFICES ASSUME Place(q, b) \in 1..n PROVE FALSE
      OBVIOUS
    <3> DEFINE c == new[Place(q, b)]
    <3>1. c \in Free(q) /\ Place(q, c) = Place(q, b) /\ c /= b
      BY <1>1, <1>2
    <3>2. Place(q, c) < Place(q, b) \/ Place(q, b) < Place(q, c)
      BY <3>1, BeforeIsAnOrder, PlaceIsMonotone
    <3> QED
      BY <3>1, <3>2
  <2>2. Place(q, b) > k
    BY <2>1, PlaceIsBounded, FreeIsFinite
  <2>3. new[k] \in Free(q) /\ Place(q, new[k]) = k /\ new[k] /= b
    BY <1>1, <1>2
  <2>4. ~Before(q, b, new[k])
    BY <2>2, <2>3, PlaceIsMonotone, PlaceIsBounded
  <2> QED
    BY <2>3, <2>4, BeforeIsAnOrder
<1> QED
  BY <1>1, <1>2 DEF new

-----------------------------------------------------------------------------
(* What the operations do to the queue.                                    *)

(* t has what stands in s at the places T, the last one first.             *)
BackFrom(t, s, T) ==
    /\ \A x : InSeq(x, t) <=> \E k \in T : s[k] = x
    /\ (\A k, m \in T : s[k] = s[m] => k = m) => Inj(t)
    /\ \A x, y : Ahead(t, x, y) <=> \E k, m \in T : m < k /\ s[k] = x /\ s[m] = y

LEMMA BackwardsFacts ==
    ASSUME NEW S, NEW n \in Nat, NEW T \in SUBSET (1..n), NEW s, \A k \in T : s[k] \in S
    PROVE  LET t == Keep(Backwards(s, n), {k \in 1..n : n + 1 - k \in T})
           IN  t \in Seq(S) /\ BackFrom(t, s, T)
<1> DEFINE K == {k \in 1..n : n + 1 - k \in T}
           r == Backwards(s, n)
           t == Keep(r, K)
<1>1. K \in SUBSET (1..n)
  OBVIOUS
<1>2. \A k \in K : k \in 1..n /\ n + 1 - k \in T /\ r[k] = s[n + 1 - k]
  BY DEF Backwards
<1>3. \A k \in T : k \in 1..n /\ n + 1 - k \in K /\ r[n + 1 - k] = s[k]
  <2> TAKE k \in T
  <2>1. k \in 1..n
    OBVIOUS
  <2>2. n + 1 - k \in 1..n /\ n + 1 - (n + 1 - k) = k
    BY <2>1
  <2> QED
    BY <2>1, <2>2 DEF Backwards
<1> HIDE DEF K, r
<1>4. \A k \in K : r[k] \in S
  BY <1>2
<1>5a. t \in Seq(S) /\ KeptFrom(t, r, K)
  BY <1>1, <1>4, KeepFacts
<1> HIDE DEF t
<1>5. /\ t \in Seq(S)
      /\ \A x : InSeq(x, t) <=> \E k \in K : r[k] = x
      /\ (\A k, m \in K : r[k] = r[m] => k = m) => Inj(t)
      /\ \A x, y : Ahead(t, x, y) <=> \E k, m \in K : k < m /\ r[k] = x /\ r[m] = y
  BY <1>5a DEF KeptFrom
<1>6. \A x : InSeq(x, t) <=> \E k \in T : s[k] = x
  BY <1>2, <1>3, <1>5
<1>7. ASSUME \A k, m \in T : s[k] = s[m] => k = m PROVE Inj(t)
  <2>1. ASSUME NEW k \in K, NEW m \in K, r[k] = r[m] PROVE k = m
    <3>1. n + 1 - k = n + 1 - m
      BY <1>2, <1>7, <2>1
    <3>2. k \in Int /\ m \in Int
      BY <1>2
    <3> QED
      BY <3>1, <3>2
  <2> QED
    BY <1>5, <2>1
<1>8. ASSUME NEW x, NEW y, Ahead(t, x, y) PROVE \E k, m \in T : m < k /\ s[k] = x /\ s[m] = y
  <2>1. PICK k \in K, m \in K : k < m /\ r[k] = x /\ r[m] = y
    BY <1>5, <1>8
  <2>2. n + 1 - m < n + 1 - k
    BY <1>2, <2>1
  <2> QED
    BY <1>2, <2>1, <2>2
<1>9. ASSUME NEW x, NEW y, NEW k \in T, NEW m \in T, m < k, s[k] = x, s[m] = y PROVE Ahead(t, x, y)
  <2>1. n + 1 - k < n + 1 - m
    BY <1>3, <1>9
  <2> QED
    BY <1>3, <1>5, <1>9, <2>1
<1> QED
  BY <1>5, <1>6, <1>7, <1>8, <1>9 DEF t, K, r, BackFrom

(* t has the members of s that are in P, in the order of s.                *)
Within(t, s, P) ==
    /\ \A x : InSeq(x, t) <=> InSeq(x, s) /\ x \in P
    /\ Inj(s) => Inj(t)
    /\ \A x, y : Ahead(t, x, y) <=> Ahead(s, x, y) /\ x \in P /\ y \in P

LEMMA KeepWithin ==
    ASSUME NEW S, NEW s \in Seq(S), NEW P
    PROVE  LET t == Keep(s, {k \in 1..Len(s) : s[k] \in P})
           IN  t \in Seq(S) /\ Within(t, s, P)
<1> DEFINE K == {k \in 1..Len(s) : s[k] \in P}
           t == Keep(s, K)
<1>1. Len(s) \in Nat /\ K \in SUBSET (1..Len(s)) /\ \A k \in K : s[k] \in S
  OBVIOUS
<1>2. \A k : k \in K <=> k \in 1..Len(s) /\ s[k] \in P
  OBVIOUS
<1> HIDE DEF K
<1>3. t \in Seq(S) /\ KeptFrom(t, s, K)
  BY <1>1, KeepFacts
<1> HIDE DEF t
<1>4. \A x : InSeq(x, t) <=> \E k \in K : s[k] = x
  BY <1>3 DEF KeptFrom
<1>5. \A x, y : Ahead(t, x, y) <=> \E k, m \in K : k < m /\ s[k] = x /\ s[m] = y
  BY <1>3 DEF KeptFrom
<1>6. \A x : InSeq(x, t) <=> InSeq(x, s) /\ x \in P
  <2> TAKE x
  <2>1. InSeq(x, s) <=> \E k \in 1..Len(s) : s[k] = x
    BY DEF InSeq
  <2> QED
    BY <1>2, <1>4, <2>1
<1>7. Inj(s) => Inj(t)
  BY <1>2, <1>3 DEF KeptFrom, Inj
<1>8. ASSUME NEW x, NEW y, Ahead(t, x, y) PROVE Ahead(s, x, y) /\ x \in P /\ y \in P
  <2>1. PICK k \in K, m \in K : k < m /\ s[k] = x /\ s[m] = y
    BY <1>5, <1>8
  <2> QED
    BY <1>2, <2>1 DEF Ahead
<1>9. ASSUME NEW x \in P, NEW y \in P, Ahead(s, x, y) PROVE Ahead(t, x, y)
  <2>1. PICK k \in 1..Len(s), m \in 1..Len(s) : k < m /\ s[k] = x /\ s[m] = y
    BY <1>9 DEF Ahead
  <2>2. k \in K /\ m \in K
    BY <1>2, <2>1
  <2> QED
    BY <1>5, <2>1, <2>2
<1> QED
  BY <1>3, <1>6, <1>7, <1>8, <1>9 DEF t, K, Within

LEMMA WithoutFacts ==
    ASSUME NEW q \in Seq(Blocks), NEW S
    PROVE  /\ Without(q, S) \in Seq(Blocks)
           /\ \A x : InSeq(x, Without(q, S)) <=> InSeq(x, q) /\ x \notin S
           /\ Inj(q) => Inj(Without(q, S))
           /\ \A x, y : Ahead(Without(q, S), x, y) <=> Ahead(q, x, y) /\ x \notin S /\ y \notin S
<1> DEFINE P == Blocks \ S
           t == Keep(q, {k \in 1..Len(q) : q[k] \in P})
<1>1. t \in Seq(Blocks) /\ Within(t, q, P)
  <2> HIDE DEF P
  <2> QED
    BY KeepWithin
<1>2. t = Without(q, S)
  <2>1. {k \in 1..Len(q) : q[k] \in P} = {k \in 1..Len(q) : q[k] \notin S}
    OBVIOUS
  <2> QED
    BY <2>1 DEF Without
<1>3. \A x, y : (InSeq(x, q) => x \in Blocks) /\ (Ahead(q, x, y) => x \in Blocks /\ y \in Blocks)
  BY DEF InSeq, Ahead
<1> HIDE DEF t
<1> QED
  BY <1>1, <1>2, <1>3 DEF Within

(* Concatenation.                                                          *)
LEMMA ConcatFacts ==
    ASSUME NEW S, NEW s \in Seq(S), NEW t \in Seq(S)
    PROVE  /\ s \o t \in Seq(S)
           /\ \A x : InSeq(x, s \o t) <=> InSeq(x, s) \/ InSeq(x, t)
           /\ Inj(s) /\ Inj(t) /\ (\A x : ~(InSeq(x, s) /\ InSeq(x, t))) => Inj(s \o t)
           /\ \A x, y : Ahead(s \o t, x, y) <=>
                Ahead(s, x, y) \/ Ahead(t, x, y) \/ (InSeq(x, s) /\ InSeq(y, t))
<1> DEFINE u == s \o t
           m == Len(s)
           n == Len(t)
<1>1. /\ u \in Seq(S) /\ m \in Nat /\ n \in Nat /\ Len(u) = m + n
      /\ \A i \in 1..m : u[i] = s[i]
      /\ \A i \in 1..n : u[m + i] = t[i]
  OBVIOUS
<1>2. \A i \in 1..(m + n) : i \in 1..m \/ \E j \in 1..n : i = m + j
  <2> TAKE i \in 1..(m + n)
  <2>1. CASE i <= m
    BY <1>1, <2>1
  <2>2. CASE i > m
    <3>1. i - m \in 1..n /\ i = m + (i - m)
      BY <1>1, <2>2
    <3> QED
      BY <3>1
  <2> QED
    BY <1>1, <2>1, <2>2
<1>3. (\A i \in 1..m : i \in 1..Len(u)) /\ (\A j \in 1..n : m + j \in 1..Len(u))
  BY <1>1
<1> HIDE DEF u, m, n
<1>4. \A x : InSeq(x, u) <=> InSeq(x, s) \/ InSeq(x, t)
  <2> TAKE x
  <2>1. ASSUME InSeq(x, u) PROVE InSeq(x, s) \/ InSeq(x, t)
    <3>1. PICK i \in 1..(m + n) : u[i] = x
      BY <1>1, <2>1 DEF InSeq
    <3>2. CASE i \in 1..m
      BY <1>1, <3>1, <3>2 DEF InSeq, m
    <3>3. ASSUME NEW j \in 1..n, i = m + j PROVE InSeq(x, t)
      BY <1>1, <3>1, <3>3 DEF InSeq, n
    <3> QED
      BY <1>2, <3>2, <3>3
  <2>2. ASSUME InSeq(x, s) PROVE InSeq(x, u)
    BY <1>1, <1>3, <2>2 DEF InSeq, m
  <2>3. ASSUME InSeq(x, t) PROVE InSeq(x, u)
    BY <1>1, <1>3, <2>3 DEF InSeq, n
  <2> QED
    BY <2>1, <2>2, <2>3
<1>5. ASSUME Inj(s), Inj(t), \A x : ~(InSeq(x, s) /\ InSeq(x, t)) PROVE Inj(u)
  <2> SUFFICES ASSUME NEW i \in 1..Len(u), NEW j \in 1..Len(u), u[i] = u[j] PROVE i = j
    BY DEF Inj
  <2>0. i \in 1..(m + n) /\ j \in 1..(m + n)
    BY <1>1
  <2>1. CASE i \in 1..m /\ j \in 1..m
    BY <1>1, <1>5, <2>1 DEF Inj, m
  <2>2. ASSUME NEW k \in 1..n, NEW l \in 1..n, i = m + k, j = m + l PROVE i = j
    BY <1>1, <1>5, <2>2 DEF Inj, n
  <2>3. ASSUME NEW k \in 1..n, i \in 1..m, j = m + k PROVE FALSE
    BY <1>1, <1>5, <2>3 DEF InSeq, m, n
  <2>4. ASSUME NEW k \in 1..n, j \in 1..m, i = m + k PROVE FALSE
    BY <1>1, <1>5, <2>4 DEF InSeq, m, n
  <2> QED
    BY <2>0, <1>2, <2>1, <2>2, <2>3, <2>4
<1>6. ASSUME NEW x, NEW y, Ahead(u, x, y)
      PROVE  Ahead(s, x, y) \/ Ahead(t, x, y) \/ (InSeq(x, s) /\ InSeq(y, t))
  <2>1. PICK i \in 1..(m + n), j \in 1..(m + n) : i < j /\ u[i] = x /\ u[j] = y
    BY <1>1, <1>6 DEF Ahead
  <2>2. CASE i \in 1..m /\ j \in 1..m
    BY <1>1, <2>1, <2>2 DEF Ahead, m
  <2>3. ASSUME NEW k \in 1..n, NEW l \in 1..n, i = m + k, j = m + l PROVE Ahead(t, x, y)
    <3>1. k < l
      BY <1>1, <2>1, <2>3
    <3> QED
      BY <1>1, <2>1, <2>3, <3>1 DEF Ahead, n
  <2>4. ASSUME NEW k \in 1..n, i \in 1..m, j = m + k PROVE InSeq(x, s) /\ InSeq(y, t)
    BY <1>1, <2>1, <2>4 DEF InSeq, m, n
  <2>5. ASSUME NEW k \in 1..n, j \in 1..m, i = m + k PROVE FALSE
    BY <1>1, <2>1, <2>5
  <2> QED
    BY <1>2, <2>2, <2>3, <2>4, <2>5
<1>7. ASSUME NEW x, NEW y, Ahead(s, x, y) PROVE Ahead(u, x, y)
  BY <1>1, <1>3, <1>7 DEF Ahead, m
<1>8. ASSUME NEW x, NEW y, Ahead(t, x, y) PROVE Ahead(u, x, y)
  <2>1. PICK i \in 1..n, j \in 1..n : i < j /\ t[i] = x /\ t[j] = y
    BY <1>8 DEF Ahead, n
  <2>2. m + i < m + j
    BY <1>1, <2>1
  <2> QED
    BY <1>1, <1>3, <2>1, <2>2 DEF Ahead
<1>9. ASSUME NEW x, NEW y, InSeq(x, s), InSeq(y, t) PROVE Ahead(u, x, y)
  <2>1. PICK i \in 1..m, j \in 1..n : s[i] = x /\ t[j] = y
    BY <1>9 DEF InSeq, m, n
  <2>2. i < m + j
    BY <1>1
  <2> QED
    BY <1>1, <1>3, <2>1, <2>2 DEF Ahead
<1> QED
  BY <1>1, <1>4, <1>5, <1>6, <1>7, <1>8, <1>9 DEF u

(* Freed blocks join the queue, the uncached in front and the cached at    *)
(* the back, each part in the order in which it is freed.                  *)
LEMMA FreeBlocksFacts ==
    ASSUME NEW q \in Seq(Blocks), NEW bs \in Seq(Blocks)
    PROVE  LET f == FreeBlocks(q, bs)
           IN  /\ f \in Seq(Blocks)
               /\ \A x : InSeq(x, f) <=> InSeq(x, q) \/ InSeq(x, bs)
               /\ Inj(q) /\ Inj(bs) /\ (\A x : ~(InSeq(x, q) /\ InSeq(x, bs))) => Inj(f)
               /\ \A x, y : Ahead(f, x, y) <=>
                    \/ Ahead(q, x, y)
                    \/ Ahead(bs, x, y) /\ (hash[x] = NoHash <=> hash[y] = NoHash)
                    \/ InSeq(x, bs) /\ hash[x] = NoHash /\ InSeq(y, q)
                    \/ InSeq(x, q) /\ InSeq(y, bs) /\ hash[y] /= NoHash
                    \/ InSeq(x, bs) /\ hash[x] = NoHash /\ InSeq(y, bs) /\ hash[y] /= NoHash
<1> DEFINE U == {b \in Blocks : hash[b] = NoHash}
           V == {b \in Blocks : hash[b] /= NoHash}
           a == Keep(bs, {k \in 1..Len(bs) : bs[k] \in U})
           c == Keep(bs, {k \in 1..Len(bs) : bs[k] \in V})
           f == a \o q \o c
<1>2. FreeBlocks(q, bs) = f
  <2>1. /\ {k \in 1..Len(bs) : bs[k] \in U} = {k \in 1..Len(bs) : hash[bs[k]] = NoHash}
        /\ {k \in 1..Len(bs) : bs[k] \in V} = {k \in 1..Len(bs) : hash[bs[k]] /= NoHash}
    OBVIOUS
  <2> QED
    BY <2>1 DEF FreeBlocks
<1>3. a \in Seq(Blocks) /\ Within(a, bs, U)
  <2> HIDE DEF U
  <2> QED
    BY KeepWithin
<1>4. c \in Seq(Blocks) /\ Within(c, bs, V)
  <2> HIDE DEF V
  <2> QED
    BY KeepWithin
<1> HIDE DEF a, c
<1>1. \A x, y : (InSeq(x, bs) => x \in Blocks) /\ (Ahead(bs, x, y) => x \in Blocks /\ y \in Blocks)
  BY DEF InSeq, Ahead
<1>5. /\ \A x : InSeq(x, a) <=> InSeq(x, bs) /\ hash[x] = NoHash
      /\ Inj(bs) => Inj(a)
      /\ \A x, y : Ahead(a, x, y) <=> Ahead(bs, x, y) /\ hash[x] = NoHash /\ hash[y] = NoHash
  BY <1>1, <1>3 DEF Within
<1>6. /\ \A x : InSeq(x, c) <=> InSeq(x, bs) /\ hash[x] /= NoHash
      /\ Inj(bs) => Inj(c)
      /\ \A x, y : Ahead(c, x, y) <=> Ahead(bs, x, y) /\ hash[x] /= NoHash /\ hash[y] /= NoHash
  BY <1>1, <1>4 DEF Within
<1> HIDE DEF U, V
<1>7. /\ a \o q \in Seq(Blocks)
      /\ \A x : InSeq(x, a \o q) <=> InSeq(x, a) \/ InSeq(x, q)
      /\ Inj(a) /\ Inj(q) /\ (\A x : ~(InSeq(x, a) /\ InSeq(x, q))) => Inj(a \o q)
      /\ \A x, y : Ahead(a \o q, x, y) <=>
           Ahead(a, x, y) \/ Ahead(q, x, y) \/ (InSeq(x, a) /\ InSeq(y, q))
  BY <1>3, ConcatFacts
<1>8. /\ f \in Seq(Blocks)
      /\ \A x : InSeq(x, f) <=> InSeq(x, a \o q) \/ InSeq(x, c)
      /\ Inj(a \o q) /\ Inj(c) /\ (\A x : ~(InSeq(x, a \o q) /\ InSeq(x, c))) => Inj(f)
      /\ \A x, y : Ahead(f, x, y) <=>
           Ahead(a \o q, x, y) \/ Ahead(c, x, y) \/ (InSeq(x, a \o q) /\ InSeq(y, c))
  BY <1>4, <1>7, ConcatFacts
<1> HIDE DEF f
<1>10. \A x : InSeq(x, f) <=> InSeq(x, q) \/ InSeq(x, bs)
  BY <1>5, <1>6, <1>7, <1>8
<1>11. ASSUME Inj(q), Inj(bs), \A x : ~(InSeq(x, q) /\ InSeq(x, bs)) PROVE Inj(f)
  <2>1. Inj(a \o q)
    BY <1>5, <1>7, <1>11
  <2>2. \A x : ~(InSeq(x, a \o q) /\ InSeq(x, c))
    BY <1>5, <1>6, <1>7, <1>11
  <2> QED
    BY <1>6, <1>8, <1>11, <2>1, <2>2
<1>12. \A x, y : Ahead(f, x, y) <=>
                    \/ Ahead(q, x, y)
                    \/ Ahead(bs, x, y) /\ (hash[x] = NoHash <=> hash[y] = NoHash)
                    \/ InSeq(x, bs) /\ hash[x] = NoHash /\ InSeq(y, q)
                    \/ InSeq(x, q) /\ InSeq(y, bs) /\ hash[y] /= NoHash
                    \/ InSeq(x, bs) /\ hash[x] = NoHash /\ InSeq(y, bs) /\ hash[y] /= NoHash
  BY <1>5, <1>6, <1>7, <1>8
<1> QED
  BY <1>2, <1>8, <1>10, <1>11, <1>12

-----------------------------------------------------------------------------
(* The parts of an allocation.                                             *)

New(s, n) == SelectBlocks(Supply(s), n + 1)
Fresh(s, n) == {New(s, n)[k] : k \in 1..(n + 1)}

PagesAfter(s, n) == pages[s] \o SubSeq(New(s, n), 1, n)
StatesAfter(s, n) ==
    [k \in 1..(Len(pages[s]) + n) |->
        IF k \in Old(s) THEN Null
        ELSE IF k <= Len(pages[s]) THEN states[s][k]
        ELSE IF k = Len(pages[s]) + n THEN New(s, n)[n + 1] ELSE Null]

LEMMA AllocateIs ==
    ASSUME NEW s, NEW n, Allocate(s, n)
    PROVE  /\ prompt[s] /= NoPrompt /\ Len(pages[s]) + n <= Len(prompt[s])
           /\ Len(pages[s]) = 0 => Hit(prompt[s]) = 0
           /\ n + 1 <= Cardinality(Free(Supply(s)))
           /\ pages' = [pages EXCEPT ![s] = PagesAfter(s, n)]
           /\ states' = [states EXCEPT ![s] = StatesAfter(s, n)]
           /\ retired' = [retired EXCEPT ![s] = IF Last(s) > @ THEN Last(s) ELSE @]
           /\ queue' = Without(Supply(s), Fresh(s, n))
           /\ hash' = [b \in Blocks |->
                IF b \notin Fresh(s, n) THEN hash[b]
                ELSE IF noStore[s] THEN NoHash
                ELSE IF b = New(s, n)[n + 1] THEN StateHash(prompt[s], Len(pages[s]) + n)
                ELSE PageHash(prompt[s], Len(pages[s]) + IndexIn(New(s, n), b))]
           /\ reused' = reused \ Fresh(s, n) /\ hits' = hits \ Fresh(s, n)
           /\ unstored' = IF noStore[s] THEN unstored \cup Fresh(s, n)
                          ELSE unstored \ Fresh(s, n)
           /\ UNCHANGED <<flags, prompt, noStore>>
  BY DEF Allocate, Wants, NoteRetired, New, Fresh, PagesAfter, StatesAfter, ClearReused, Stores

(* The states of a request whose allocation failed.                        *)
Thinned(s) == [k \in 1..Len(states[s]) |-> IF k \in Old(s) THEN Null ELSE states[s][k]]

LEMMA AllocationFailsIs ==
    ASSUME TypeOK, NEW s \in Slots, NEW n, AllocationFails(s, n)
    PROVE  /\ states' = [states EXCEPT ![s] = Thinned(s)]
           /\ pages' = [pages EXCEPT ![s] = pages[s]]
           /\ retired' = [retired EXCEPT ![s] = IF Last(s) > @ THEN Last(s) ELSE @]
           /\ queue' = Supply(s)
           /\ UNCHANGED <<flags, hash, reused, prompt, noStore, pages, hits, unstored>>
  BY DEF AllocationFails, NoteRetired, Thinned, TypeOK

LEMMA SelectFacts ==
    ASSUME HashesAreTyped, NEW q, NEW n \in Nat, n <= Cardinality(Free(q))
    PROVE  LET new == SelectBlocks(q, n)
           IN  /\ new \in Seq(Blocks) /\ Len(new) = n /\ Inj(new)
               /\ \A k \in 1..n : new[k] \in Free(q)
               /\ \A k \in 1..n : \A b \in Free(q) :
                    (\A l \in 1..n : new[l] /= b) => Before(q, new[k], b)
<1> DEFINE new == SelectBlocks(q, n)
<1>1. n \in 0..Cardinality(Free(q))
  BY FreeIsFinite
<1>2. /\ \A k \in 1..n : new[k] \in Free(q)
      /\ \A k, l \in 1..n : new[k] = new[l] => k = l
      /\ \A k \in 1..n : \A b \in Free(q) :
           (\A l \in 1..n : new[l] /= b) => Before(q, new[k], b)
  BY <1>1, SelectionIsByRank
<1>3. new \in Seq(Blocks) /\ Len(new) = n
  <2>1. new = [k \in 1..n |-> new[k]]
    BY DEF SelectBlocks
  <2>2. \A k \in 1..n : new[k] \in Blocks
    BY <1>2 DEF Free
  <2> HIDE DEF new
  <2> QED
    BY <2>1, <2>2
<1> QED
  BY <1>2, <1>3 DEF Inj

(* The places of the states that a call frees and nobody else holds.       *)
Leaving(s) == {k \in Old(s) : Alone(states[s][k], s)}

LEMMA FreedFacts ==
    ASSUME TypeOK, NEW s \in Slots
    PROVE  /\ Last(s) \in Nat /\ Last(s) <= Len(states[s])
           /\ \A k \in Old(s) : k \in 1..Last(s) /\ k \in 1..Len(states[s])
                                /\ k > retired[s] /\ states[s][k] \in Blocks
           /\ Freed(s) \in Seq(Blocks)
           /\ \A x : InSeq(x, Freed(s)) <=> \E k \in Leaving(s) : states[s][k] = x
           /\ (\A k, m \in Leaving(s) : states[s][k] = states[s][m] => k = m) => Inj(Freed(s))
<1> DEFINE n == Last(s)
           T == Leaving(s)
           t == Keep(Backwards(states[s], n), {k \in 1..n : n + 1 - k \in T})
<1>1. /\ Len(pages[s]) \in Nat /\ Len(states[s]) = Len(pages[s]) /\ retired[s] \in Nat
      /\ \A k \in 1..Len(states[s]) : states[s][k] \in Blocks \cup {Null}
  BY DEF TypeOK
<1>2. n \in Nat /\ n <= Len(states[s])
  BY <1>1 DEF Last
<1>3. \A k \in Old(s) : k \in 1..n /\ k \in 1..Len(states[s]) /\ k > retired[s] /\ states[s][k] \in Blocks
  BY <1>1, <1>2 DEF Old, Retires
<1>4. T \in SUBSET (1..n) /\ \A k \in T : states[s][k] \in Blocks
  BY <1>3 DEF Leaving
<1>5. t = Freed(s)
  <2>1. {k \in 1..n : n + 1 - k \in T}
        = {k \in 1..n : n + 1 - k \in Old(s) /\ Alone(states[s][n + 1 - k], s)}
    BY DEF Leaving
  <2> QED
    BY <2>1 DEF Freed
<1> HIDE DEF n, T
<1>6. t \in Seq(Blocks) /\ BackFrom(t, states[s], T)
  BY <1>2, <1>4, BackwardsFacts
<1> HIDE DEF t
<1> QED
  BY <1>2, <1>3, <1>5, <1>6 DEF n, T, BackFrom

LEMMA SupplyIsTyped ==
    ASSUME TypeOK, NEW s \in Slots
    PROVE  Supply(s) \in Seq(Blocks)
<1>1. queue \in Seq(Blocks) /\ Freed(s) \in Seq(Blocks)
  BY FreedFacts DEF TypeOK
<1> QED
  BY <1>1, FreeBlocksFacts DEF Supply

(* Nothing but the states that are retired goes.                           *)
LEMMA ThinnedFacts ==
    ASSUME TypeOK, NEW s \in Slots
    PROVE  /\ Thinned(s) \in Seq(Blocks \cup {Null}) /\ Len(Thinned(s)) = Len(states[s])
           /\ Len(states[s]) \in Nat /\ Len(states[s]) = Len(pages[s])
           /\ \A k \in Old(s) : k \in 1..Len(states[s]) /\ Thinned(s)[k] = Null
           /\ \A k \in 1..Len(states[s]) : k \notin Old(s) => Thinned(s)[k] = states[s][k]
<1> DEFINE d == Len(states[s])
           g == Thinned(s)
<1>1. d \in Nat /\ d = Len(pages[s]) /\ \A k \in 1..d : states[s][k] \in Blocks \cup {Null}
  BY DEF TypeOK
<1>2. \A k \in Old(s) : k \in 1..d
  BY FreedFacts
<1>3. g = [k \in 1..d |-> IF k \in Old(s) THEN Null ELSE states[s][k]]
  BY DEF Thinned
<1> HIDE DEF d, g
<1>4. g \in Seq(Blocks \cup {Null}) /\ Len(g) = d
  <2>1. g \in [1..d -> Blocks \cup {Null}]
    BY <1>1, <1>3
  <2> QED
    BY <1>1, <2>1
<1>5. /\ \A k \in Old(s) : g[k] = Null
      /\ \A k \in 1..d : k \notin Old(s) => g[k] = states[s][k]
  BY <1>2, <1>3
<1> QED
  BY <1>1, <1>2, <1>4, <1>5 DEF d, g

LEMMA SupplyFacts ==
    ASSUME TypeOK, NEW s \in Slots, NEW n \in Nat, n + 1 <= Cardinality(Free(Supply(s)))
    PROVE  /\ Supply(s) \in Seq(Blocks)
           /\ New(s, n) \in Seq(Blocks) /\ Len(New(s, n)) = n + 1 /\ Inj(New(s, n))
           /\ \A k \in 1..(n + 1) : New(s, n)[k] \in Free(Supply(s))
           /\ Fresh(s, n) \subseteq Free(Supply(s)) /\ Fresh(s, n) \subseteq Blocks
<1>1. Supply(s) \in Seq(Blocks)
  BY SupplyIsTyped
<1>2. /\ New(s, n) \in Seq(Blocks) /\ Len(New(s, n)) = n + 1 /\ Inj(New(s, n))
      /\ \A k \in 1..(n + 1) : New(s, n)[k] \in Free(Supply(s))
  BY SelectFacts DEF New, TypeOK
<1> QED
  BY <1>1, <1>2 DEF Fresh, Free

(* A block of a selection is at one place of it.                           *)
LEMMA IndexInNew ==
    ASSUME NEW t, Len(t) \in Nat, Inj(t), NEW k \in 1..Len(t)
    PROVE  IndexIn(t, t[k]) = k
  BY DEF IndexIn, Inj

(* What a request writes is hashed by its place.                           *)
LEMMA HashesWritten ==
    ASSUME TypeOK, NEW s \in Slots, NEW n \in Nat \ {0}, Allocate(s, n)
    PROVE  /\ \A b \in Blocks : b \notin Fresh(s, n) => hash'[b] = hash[b]
           /\ noStore[s] => \A b \in Fresh(s, n) : hash'[b] = NoHash
           /\ ~noStore[s] => /\ hash'[New(s, n)[n + 1]] = StateHash(prompt[s], Len(pages[s]) + n)
                             /\ \A k \in 1..n : hash'[New(s, n)[k]]
                                                = PageHash(prompt[s], Len(pages[s]) + k)
<1> DEFINE new == New(s, n)
<1>1. /\ new \in Seq(Blocks) /\ Len(new) = n + 1 /\ Inj(new) /\ Fresh(s, n) \subseteq Blocks
  BY AllocateIs, SupplyFacts
<1>2. \A k \in 1..(n + 1) : new[k] \in Fresh(s, n) /\ new[k] \in Blocks
  BY <1>1 DEF Fresh
<1>3. \A k \in 1..n : IndexIn(new, new[k]) = k /\ new[k] /= new[n + 1]
  <2> TAKE k \in 1..n
  <2>1. k \in 1..(n + 1) /\ n + 1 \in 1..(n + 1) /\ k /= n + 1
    OBVIOUS
  <2> HIDE DEF new
  <2> QED
    BY <1>1, <2>1, IndexInNew DEF Inj
<1>4. hash' = [b \in Blocks |->
                IF b \notin Fresh(s, n) THEN hash[b]
                ELSE IF noStore[s] THEN NoHash
                ELSE IF b = new[n + 1] THEN StateHash(prompt[s], Len(pages[s]) + n)
                ELSE PageHash(prompt[s], Len(pages[s]) + IndexIn(new, b))]
  BY AllocateIs
<1> HIDE DEF new
<1>5. \A b \in Blocks : b \notin Fresh(s, n) => hash'[b] = hash[b]
  BY <1>4
<1>6. noStore[s] => \A b \in Fresh(s, n) : hash'[b] = NoHash
  BY <1>1, <1>4
<1>7. ASSUME ~noStore[s]
      PROVE  /\ hash'[new[n + 1]] = StateHash(prompt[s], Len(pages[s]) + n)
             /\ \A k \in 1..n : hash'[new[k]] = PageHash(prompt[s], Len(pages[s]) + k)
  BY <1>2, <1>3, <1>4, <1>7
<1> QED
  BY <1>5, <1>6, <1>7 DEF new

-----------------------------------------------------------------------------
(* The parts of a release and of an admission.                             *)

Lone(seq, s) == {k \in 1..Len(seq) : seq[k] /= Null /\ Alone(seq[k], s)}
Back(seq, s) ==
    Keep(Backwards(seq, Len(seq)),
         {k \in 1..Len(seq) : seq[Len(seq) + 1 - k] /= Null /\ Alone(seq[Len(seq) + 1 - k], s)})

LEMMA ReleaseIs ==
    ASSUME NEW s, NEW p, Release(s, p)
    PROVE  /\ Running(s) /\ p \in {prompt[s], NoPrompt}
           /\ prompt' = [prompt EXCEPT ![s] = p]
           /\ noStore' = [noStore EXCEPT ![s] = @ /\ p /= NoPrompt]
           /\ queue' = FreeBlocks(FreeBlocks(queue, Back(pages[s], s)), Back(states[s], s))
           /\ pages' = [pages EXCEPT ![s] = <<>>]
           /\ states' = [states EXCEPT ![s] = <<>>]
           /\ retired' = [retired EXCEPT ![s] = 0]
           /\ unstored' = unstored \ BlocksOf(s)
           /\ UNCHANGED <<flags, hash, reused, hits>>
  BY DEF Release, Back, Alone, ForgetRetired

LEMMA BackFacts ==
    ASSUME NEW seq \in Seq(Blocks \cup {Null}), NEW s
    PROVE  Back(seq, s) \in Seq(Blocks) /\ BackFrom(Back(seq, s), seq, Lone(seq, s))
<1> DEFINE n == Len(seq)
           T == Lone(seq, s)
           t == Keep(Backwards(seq, n), {k \in 1..n : n + 1 - k \in T})
<1>1. n \in Nat /\ T \in SUBSET (1..n) /\ \A k \in T : seq[k] \in Blocks
  BY DEF Lone
<1>2. t = Back(seq, s)
  <2>1. {k \in 1..n : n + 1 - k \in T}
        = {k \in 1..n : seq[n + 1 - k] /= Null /\ Alone(seq[n + 1 - k], s)}
    BY DEF Lone
  <2> QED
    BY <2>1 DEF Back
<1> HIDE DEF n, T
<1>3. t \in Seq(Blocks) /\ BackFrom(t, seq, T)
  BY <1>1, BackwardsFacts
<1> QED
  BY <1>2, <1>3 DEF T

LEMMA ReleasedQueue ==
    ASSUME TypeOK, NEW s \in Slots
    PROVE  /\ Back(pages[s], s) \in Seq(Blocks)
           /\ BackFrom(Back(pages[s], s), pages[s], Lone(pages[s], s))
           /\ Back(states[s], s) \in Seq(Blocks)
           /\ BackFrom(Back(states[s], s), states[s], Lone(states[s], s))
           /\ FreeBlocks(queue, Back(pages[s], s)) \in Seq(Blocks)
           /\ FreeBlocks(FreeBlocks(queue, Back(pages[s], s)), Back(states[s], s)) \in Seq(Blocks)
<1>1. /\ pages[s] \in Seq(Blocks \cup {Null}) /\ states[s] \in Seq(Blocks \cup {Null})
      /\ queue \in Seq(Blocks)
  <2>1. pages[s] \in Seq(Blocks) /\ states[s] \in Seq(Blocks \cup {Null}) /\ queue \in Seq(Blocks)
    BY DEF TypeOK
  <2> QED
    BY <2>1
<1>2. /\ Back(pages[s], s) \in Seq(Blocks) /\ BackFrom(Back(pages[s], s), pages[s], Lone(pages[s], s))
      /\ Back(states[s], s) \in Seq(Blocks) /\ BackFrom(Back(states[s], s), states[s], Lone(states[s], s))
  BY <1>1, BackFacts
<1>3. FreeBlocks(queue, Back(pages[s], s)) \in Seq(Blocks)
  BY <1>1, <1>2, FreeBlocksFacts
<1>4. FreeBlocks(FreeBlocks(queue, Back(pages[s], s)), Back(states[s], s)) \in Seq(Blocks)
  BY <1>2, <1>3, FreeBlocksFacts
<1> QED
  BY <1>2, <1>3, <1>4

(* A set of numbers up to a bound has a largest one.                       *)
LEMMA LargestExists ==
    ASSUME NEW N \in Nat, NEW K \in SUBSET (1..N), K /= {}
    PROVE  \E k \in K : \A l \in K : l <= k
<1> DEFINE c == Cardinality(K)
<1>1. IsFiniteSet(K) /\ c \in Nat /\ c /= 0
  BY RankFacts, FS_EmptySet
<1>2. /\ \A j \in 1..c : Nth(K, j) \in K
      /\ \A k \in K : \E j \in 1..c : Nth(K, j) = k
      /\ \A i, j \in 1..c : i < j => Nth(K, i) < Nth(K, j)
  BY NthFacts
<1>3. \A l \in K : l \in Int
  OBVIOUS
<1> HIDE DEF c
<1>4. c \in 1..c
  BY <1>1
<1>5. ASSUME NEW l \in K PROVE l <= Nth(K, c)
  <2>1. PICK j \in 1..c : Nth(K, j) = l
    BY <1>2
  <2>2. j = c \/ j < c
    BY <1>1
  <2>3. l \in Int /\ Nth(K, c) \in Int
    BY <1>2, <1>3, <1>4
  <2> QED
    BY <1>2, <1>4, <2>1, <2>2, <2>3
<1> QED
  BY <1>2, <1>4, <1>5

LEMMA PromptFacts ==
    ASSUME TypeOK, NEW s \in Slots
    PROVE  /\ prompt[s] \in Seq(Nat) /\ Len(prompt[s]) \in Nat
           /\ prompt[s] /= NoPrompt => Len(prompt[s]) > 0
<1>1. prompt[s] \in Seq(Nat)
  BY PromptsAssumption DEF TypeOK, NoPrompt
<1> QED
  BY <1>1 DEF NoPrompt

LEMMA HitFacts ==
    ASSUME NEW p \in Seq(Nat)
    PROVE  /\ Hit(p) \in Nat
           /\ Hit(p) > 0 => Hit(p) \in HitLengths(p) /\ Hit(p) < Len(p)
           /\ \A l \in HitLengths(p) : l <= Hit(p)
<1>1. HitLengths(p) \in SUBSET (1..Len(p)) /\ \A k \in HitLengths(p) : k \in Nat /\ 0 < k /\ k < Len(p)
  BY DEF HitLengths
<1>2. CASE HitLengths(p) = {}
  BY <1>2 DEF Hit
<1>3. CASE HitLengths(p) /= {}
  <2>1. \E k \in HitLengths(p) : \A l \in HitLengths(p) : l <= k
    <3>1. Len(p) \in Nat
      OBVIOUS
    <3> QED
      BY <1>1, <1>3, <3>1, LargestExists
  <2>2. Hit(p) \in HitLengths(p) /\ \A l \in HitLengths(p) : l <= Hit(p)
    BY <1>3, <2>1 DEF Hit
  <2> QED
    BY <1>1, <2>2
<1> QED
  BY <1>2, <1>3

LEMMA AdmitIs ==
    ASSUME TypeOK, NEW s \in Slots, Admit(s)
    PROVE  LET p == prompt[s]
               h == Hit(p)
           IN  /\ p \in Seq(Nat) /\ h \in 1..(Len(p) - 1) /\ pages[s] = <<>>
               /\ \E f \in Seq(Blocks), g \in Seq(Blocks \cup {Null}), b \in Blocks :
                    LET got == {c \in Blocks : InSeq(c, f) \/ InSeq(c, g)}
                    IN  /\ Len(f) = h /\ Len(g) = h
                        /\ \A k \in 1..h : f[k] \in Blocks /\ hash[f[k]] = PageHash(p, k)
                        /\ \A k \in 1..h : g[k] = IF k = h THEN b ELSE Null
                        /\ hash[b] = StateHash(p, h)
                        /\ pages' = [pages EXCEPT ![s] = f]
                        /\ states' = [states EXCEPT ![s] = g]
                        /\ queue' = Without(queue, got)
                        /\ Mark(got)
               /\ UNCHANGED <<flags, hash, prompt, noStore, retired, unstored>>
<1> DEFINE p == prompt[s]
           h == Hit(p)
<1>1. p \in Seq(Nat) /\ p /= NoPrompt /\ h > 0 /\ pages[s] = <<>>
  BY PromptFacts DEF Admit
<1>2. h \in 1..(Len(p) - 1)
  BY <1>1, HitFacts
<1>3. PICK f \in HitPages(p), g \in HitStates(p) :
             LET got == {b \in Blocks : InSeq(b, f) \/ InSeq(b, g)}
             IN  /\ pages' = [pages EXCEPT ![s] = f]
                 /\ states' = [states EXCEPT ![s] = g]
                 /\ queue' = Without(queue, got)
                 /\ Mark(got)
  BY DEF Admit
<1>4. f \in [1..h -> Blocks] /\ \A k \in 1..h : hash[f[k]] = PageHash(p, k)
  BY DEF HitPages
<1>5. PICK b \in Blocks : hash[b] = StateHash(p, h) /\ g = [k \in 1..h |-> IF k = h THEN b ELSE Null]
  BY DEF HitStates
<1>6. f \in Seq(Blocks) /\ Len(f) = h /\ \A k \in 1..h : f[k] \in Blocks
  BY <1>2, <1>4
<1>7. /\ g \in Seq(Blocks \cup {Null}) /\ Len(g) = h
      /\ \A k \in 1..h : g[k] = IF k = h THEN b ELSE Null
  BY <1>2, <1>5
<1>8. UNCHANGED <<flags, hash, prompt, noStore, retired, unstored>>
  BY DEF Admit
<1> HIDE DEF p, h
<1> QED
  BY <1>1, <1>2, <1>3, <1>4, <1>5, <1>6, <1>7, <1>8 DEF p, h

-----------------------------------------------------------------------------
(* Types.                                                                  *)

LEMMA HashIsTyped ==
    ASSUME NEW p \in Seq(Nat), NEW k \in 0..Len(p)
    PROVE  /\ PageHash(p, k) \in [group : {"none", "page", "state"}, prefix : Seq(Nat)]
           /\ StateHash(p, k) \in [group : {"none", "page", "state"}, prefix : Seq(Nat)]
<1>1. SubSeq(p, 1, k) \in Seq(Nat)
  OBVIOUS
<1> QED
  BY <1>1 DEF PageHash, StateHash

LEMMA InitIsTyped == Init => TypeOK
<1> SUFFICES ASSUME Init PROVE TypeOK
  OBVIOUS
<1>1. queue \in Seq(Blocks)
  BY BlocksAssumption, FS_CardinalityType DEF Init
<1>2. HashesAreTyped
  BY DEF Init, HashesAreTyped, NoHash
<1>3. Len(<<>>) = 0
  OBVIOUS
<1> QED
  BY <1>1, <1>2, <1>3 DEF Init, TypeOK, NoPrompt

LEMMA StepIsTyped == TypeOK /\ [Next]_vars => TypeOK'
<1> SUFFICES ASSUME TypeOK, [Next]_vars PROVE TypeOK'
  OBVIOUS
<1>1. ASSUME NEW s \in Slots, NEW p \in Prompts \cup Batch, NEW n \in BOOLEAN, Arrive(s, p, n)
      PROVE  TypeOK'
  <2>1. /\ prompt[s] = NoPrompt /\ prompt' = [prompt EXCEPT ![s] = p]
        /\ noStore' = [noStore EXCEPT ![s] = n]
        /\ UNCHANGED <<flags, queue, hash, reused, pages, states, retired, hits, unstored>>
    BY <1>1 DEF Arrive
  <2>2. Len(p) \in Nat /\ Len(prompt[s]) = 0
    BY PromptsAssumption, <2>1 DEF NoPrompt
  <2>3. \A t \in Slots : Len(pages[t]) <= Len(prompt'[t])
    <3> TAKE t \in Slots
    <3>1. Len(pages[t]) <= Len(prompt[t]) /\ Len(pages[t]) \in Nat
      BY DEF TypeOK
    <3> QED
      BY <2>1, <2>2, <3>1 DEF TypeOK
  <2> QED
    BY <2>1, <2>3 DEF TypeOK, HashesAreTyped
<1>2. ASSUME NEW s \in Slots, Admit(s) PROVE TypeOK'
  <2> DEFINE p == prompt[s]
             h == Hit(p)
  <2>1. /\ p \in Seq(Nat) /\ h \in 1..(Len(p) - 1) /\ pages[s] = <<>>
        /\ UNCHANGED <<flags, hash, prompt, noStore, retired, unstored>>
    BY <1>2, AdmitIs
  <2>2. PICK f \in Seq(Blocks), g \in Seq(Blocks \cup {Null}), got \in SUBSET Blocks :
             /\ Len(f) = h /\ Len(g) = h
             /\ pages' = [pages EXCEPT ![s] = f]
             /\ states' = [states EXCEPT ![s] = g]
             /\ queue' = Without(queue, got)
             /\ Mark(got)
    BY <1>2, AdmitIs
  <2>3. queue' \in Seq(Blocks)
    BY <2>2, WithoutFacts DEF TypeOK
  <2>4. reused' \subseteq Blocks /\ hits' \subseteq Blocks
    BY <2>2 DEF Mark, TypeOK
  <2>5. /\ pages' \in [Slots -> Seq(Blocks)] /\ states' \in [Slots -> Seq(Blocks \cup {Null})]
    BY <2>2 DEF TypeOK
  <2>6. ASSUME NEW t \in Slots
        PROVE  /\ Len(pages'[t]) = Len(states'[t]) /\ Len(pages'[t]) <= Len(prompt'[t])
               /\ retired'[t] <= Len(states'[t])
    <3>1. CASE t = s
      <4>1. pages'[t] = f /\ states'[t] = g /\ prompt'[t] = p /\ retired'[t] = retired[s]
        BY <2>1, <2>2, <3>1 DEF TypeOK
      <4>2. retired[s] = 0
        BY <2>1 DEF TypeOK
      <4> HIDE DEF p, h
      <4> QED
        BY <2>1, <2>2, <4>1, <4>2
    <3>2. CASE t /= s
      BY <2>1, <2>2, <3>2 DEF TypeOK
    <3> QED
      BY <3>1, <3>2
  <2> QED
    BY <2>1, <2>3, <2>4, <2>5, <2>6 DEF TypeOK, HashesAreTyped
<1>3. ASSUME NEW s \in Slots, NEW n \in 1..Len(prompt[s]), Allocate(s, n) PROVE TypeOK'
  <2> DEFINE p == prompt[s]
             d == Len(pages[s])
             new == New(s, n)
  <2>1. /\ p \in Seq(Nat) /\ d \in Nat /\ Len(states[s]) = d /\ n \in Nat \ {0} /\ d + n <= Len(p)
        /\ n + 1 <= Cardinality(Free(Supply(s)))
        /\ UNCHANGED <<flags, prompt, noStore>>
    BY <1>3, PromptFacts, AllocateIs DEF TypeOK
  <2>2. /\ Supply(s) \in Seq(Blocks)
        /\ new \in Seq(Blocks) /\ Len(new) = n + 1 /\ Fresh(s, n) \subseteq Blocks
    BY <2>1, SupplyFacts
  <2>3. queue' \in Seq(Blocks)
    BY <1>3, <2>2, WithoutFacts, AllocateIs
  <2>4. reused' \subseteq Blocks /\ hits' \subseteq Blocks /\ unstored' \subseteq Blocks
    <3>1. /\ reused' = reused \ Fresh(s, n) /\ hits' = hits \ Fresh(s, n)
          /\ unstored' = IF noStore[s] THEN unstored \cup Fresh(s, n) ELSE unstored \ Fresh(s, n)
      BY <1>3, AllocateIs
    <3> QED
      BY <2>2, <3>1 DEF TypeOK
  <2>5. HashesAreTyped'
    <3>1. hash' = [b \in Blocks |-> hash'[b]]
      BY <1>3, AllocateIs
    <3>2. ASSUME NEW b \in Blocks
          PROVE  hash'[b] \in [group : {"none", "page", "state"}, prefix : Seq(Nat)]
      <4>0. /\ b \notin Fresh(s, n) => hash'[b] = hash[b]
            /\ noStore[s] /\ b \in Fresh(s, n) => hash'[b] = NoHash
        BY <1>3, <2>1, HashesWritten
      <4>1. CASE b \notin Fresh(s, n)
        <5>1. hash[b] \in [group : {"none", "page", "state"}, prefix : Seq(Nat)]
          BY DEF TypeOK, HashesAreTyped
        <5> QED
          BY <4>0, <4>1, <5>1
      <4>2. CASE b \in Fresh(s, n) /\ noStore[s]
        <5>1. NoHash \in [group : {"none", "page", "state"}, prefix : Seq(Nat)]
          BY DEF NoHash
        <5> QED
          BY <4>0, <4>2, <5>1
      <4>3. CASE b \in Fresh(s, n) /\ ~noStore[s]
        <5>1. PICK k \in 1..(n + 1) : b = new[k]
          BY <4>3 DEF Fresh
        <5>2. CASE k = n + 1
          BY <1>3, <2>1, <4>3, <5>1, <5>2, HashesWritten, HashIsTyped
        <5>3. CASE k \in 1..n
          <6>1. hash'[b] = PageHash(p, d + k)
            BY <1>3, <2>1, <4>3, <5>1, <5>3, HashesWritten
          <6>2. d + k \in 0..Len(p)
            BY <2>1, <5>3
          <6> QED
            BY <2>1, <6>1, <6>2, HashIsTyped
        <5> QED
          BY <2>1, <5>2, <5>3
      <4> QED
        BY <4>1, <4>2, <4>3
    <3> QED
      BY <3>1, <3>2 DEF HashesAreTyped
  <2> DEFINE f == PagesAfter(s, n)
             g == StatesAfter(s, n)
  <2>6. f \in Seq(Blocks) /\ Len(f) = d + n
    <3>1. pages[s] \in Seq(Blocks)
      BY DEF TypeOK
    <3>2. SubSeq(new, 1, n) \in Seq(Blocks) /\ Len(SubSeq(new, 1, n)) = n
      <4> HIDE DEF new
      <4> QED
        BY <2>1, <2>2
    <3> QED
      BY <2>1, <3>1, <3>2 DEF PagesAfter
  <2>7. g \in Seq(Blocks \cup {Null}) /\ Len(g) = d + n
    <3>1. \A k \in 1..d : states[s][k] \in Blocks \cup {Null}
      BY <2>1 DEF TypeOK
    <3>2. new[n + 1] \in Blocks
      BY <2>1, <2>2
    <3>3. \A k \in 1..(d + n) : g[k] \in Blocks \cup {Null}
      BY <2>1, <3>1, <3>2 DEF StatesAfter
    <3>4. d + n \in Nat
      BY <2>1
    <3>5. g = [k \in 1..(d + n) |-> g[k]]
      BY DEF StatesAfter
    <3> DEFINE e == d + n
    <3> HIDE DEF g, e
    <3>6. e \in Nat /\ (\A k \in 1..e : g[k] \in Blocks \cup {Null}) /\ g = [k \in 1..e |-> g[k]]
      BY <3>3, <3>4, <3>5 DEF e
    <3>7. g \in Seq(Blocks \cup {Null}) /\ Len(g) = e
      BY <3>6
    <3> QED
      BY <3>7 DEF e
  <2>8. pages' = [pages EXCEPT ![s] = f] /\ states' = [states EXCEPT ![s] = g]
    BY <1>3, AllocateIs
  <2>9. retired' = [retired EXCEPT ![s] = IF Last(s) > @ THEN Last(s) ELSE @]
    BY <1>3, AllocateIs
  <2>10. Last(s) \in Nat /\ Last(s) <= d /\ retired[s] \in Nat /\ retired[s] <= d
    BY <2>1, FreedFacts DEF TypeOK
  <2> HIDE DEF p, d, new, f, g
  <2>11. /\ pages' \in [Slots -> Seq(Blocks)] /\ states' \in [Slots -> Seq(Blocks \cup {Null})]
         /\ retired' \in [Slots -> Nat]
    BY <2>6, <2>7, <2>8, <2>9, <2>10 DEF TypeOK
  <2>12. ASSUME NEW t \in Slots
         PROVE  /\ Len(pages'[t]) = Len(states'[t]) /\ Len(pages'[t]) <= Len(prompt'[t])
                /\ retired'[t] <= Len(states'[t])
    <3>1. CASE t = s
      <4>1. pages'[t] = f /\ states'[t] = g
            /\ retired'[t] = (IF Last(s) > retired[s] THEN Last(s) ELSE retired[s])
        BY <2>8, <2>9, <3>1 DEF TypeOK
      <4>2. prompt'[t] = p
        BY <2>1, <3>1 DEF p
      <4> QED
        BY <2>1, <2>6, <2>7, <2>10, <4>1, <4>2
    <3>2. CASE t /= s
      BY <2>1, <2>8, <2>9, <3>2 DEF TypeOK
    <3> QED
      BY <3>1, <3>2
  <2> QED
    BY <2>1, <2>3, <2>4, <2>5, <2>11, <2>12 DEF TypeOK
<1>4. ASSUME NEW s \in Slots, NEW p \in {prompt[s], NoPrompt}, Release(s, p) PROVE TypeOK'
  <2>1. queue' \in Seq(Blocks)
    BY <1>4, ReleaseIs, ReleasedQueue
  <2>2. /\ prompt' = [prompt EXCEPT ![s] = p]
        /\ noStore' = [noStore EXCEPT ![s] = @ /\ p /= NoPrompt]
        /\ pages' = [pages EXCEPT ![s] = <<>>] /\ states' = [states EXCEPT ![s] = <<>>]
        /\ retired' = [retired EXCEPT ![s] = 0] /\ unstored' = unstored \ BlocksOf(s)
        /\ UNCHANGED <<flags, hash, reused, hits>>
    BY <1>4, ReleaseIs
  <2>3. p \in Prompts \cup Batch \cup {NoPrompt} /\ Len(p) \in Nat
    <3>1. Len(prompt[s]) \in Nat
      BY PromptFacts
    <3> QED
      BY <3>1 DEF TypeOK, NoPrompt
  <2>4. noStore' \in [Slots -> BOOLEAN]
    <3>1. (noStore[s] /\ p /= NoPrompt) \in BOOLEAN
      OBVIOUS
    <3> QED
      BY <2>2, <3>1 DEF TypeOK
  <2>5. /\ prompt' \in [Slots -> Prompts \cup Batch \cup {NoPrompt}]
        /\ pages' \in [Slots -> Seq(Blocks)] /\ states' \in [Slots -> Seq(Blocks \cup {Null})]
        /\ retired' \in [Slots -> Nat] /\ unstored' \subseteq Blocks
    BY <2>2, <2>3 DEF TypeOK
  <2>6. ASSUME NEW t \in Slots
        PROVE  /\ Len(pages'[t]) = Len(states'[t]) /\ Len(pages'[t]) <= Len(prompt'[t])
               /\ retired'[t] <= Len(states'[t])
    <3>1. CASE t = s
      <4>1. pages'[t] = <<>> /\ states'[t] = <<>> /\ prompt'[t] = p /\ retired'[t] = 0
        BY <2>2, <3>1 DEF TypeOK
      <4> QED
        BY <2>3, <4>1
    <3>2. CASE t /= s
      BY <2>2, <3>2 DEF TypeOK
    <3> QED
      BY <3>1, <3>2
  <2> QED
    BY <2>1, <2>2, <2>4, <2>5, <2>6 DEF TypeOK, HashesAreTyped
<1>5. CASE ResetPrefixCache
  <2>1. /\ hash' = [b \in Blocks |-> NoHash] /\ reused' \subseteq reused /\ hits' = {}
        /\ UNCHANGED <<flags, queue, prompt, noStore, pages, states, retired, unstored>>
    BY <1>5 DEF ResetPrefixCache, ClearReused
  <2>2. HashesAreTyped'
    BY <2>1 DEF HashesAreTyped, NoHash
  <2> QED
    BY <2>1, <2>2 DEF TypeOK
<1>6. CASE UNCHANGED vars
  BY <1>6 DEF vars, TypeOK, HashesAreTyped
<1>7. ASSUME NEW s \in Slots, NEW n, AllocationFails(s, n) PROVE TypeOK'
  <2> DEFINE g == Thinned(s)
  <2>1. /\ states' = [states EXCEPT ![s] = g]
        /\ retired' = [retired EXCEPT ![s] = IF Last(s) > @ THEN Last(s) ELSE @]
        /\ queue' = Supply(s)
        /\ UNCHANGED <<flags, hash, reused, prompt, noStore, pages, hits, unstored>>
    BY <1>7, AllocationFailsIs
  <2>2. g \in Seq(Blocks \cup {Null}) /\ Len(g) = Len(states[s]) /\ queue' \in Seq(Blocks)
    BY <2>1, ThinnedFacts, SupplyIsTyped
  <2>3. /\ Last(s) \in Nat /\ Last(s) <= Len(states[s])
        /\ retired[s] \in Nat /\ retired[s] <= Len(states[s])
    BY FreedFacts DEF TypeOK
  <2> HIDE DEF g
  <2>4. states' \in [Slots -> Seq(Blocks \cup {Null})] /\ retired' \in [Slots -> Nat]
    BY <2>1, <2>2, <2>3 DEF TypeOK
  <2>5. ASSUME NEW t \in Slots
        PROVE  Len(states'[t]) = Len(states[t]) /\ retired'[t] <= Len(states[t])
    <3>1. CASE t = s
      <4>1. states'[t] = g /\ retired'[t] = (IF Last(s) > retired[s] THEN Last(s) ELSE retired[s])
        BY <2>1, <3>1 DEF TypeOK
      <4> QED
        BY <2>2, <2>3, <3>1, <4>1
    <3>2. CASE t /= s
      BY <2>1, <3>2 DEF TypeOK
    <3> QED
      BY <3>1, <3>2
  <2> QED
    BY <2>1, <2>2, <2>4, <2>5 DEF TypeOK, HashesAreTyped
<1> QED
  BY <1>1, <1>2, <1>3, <1>4, <1>5, <1>6, <1>7 DEF Next

(* Tables, queue and hashes keep their types, and a request never has more *)
(* pages than its prompt or a scanned prefix beyond its states.            *)
THEOREM TypeCorrect == Spec => []TypeOK
  BY InitIsTyped, StepIsTyped, PTL DEF Spec

-----------------------------------------------------------------------------
(* The pool.                                                               *)

DistinctIn(f, g) ==
    /\ Inj(f)
    /\ \A j, k \in 1..Len(g) : g[j] = g[k] /\ g[j] /= Null => j = k
    /\ \A j \in 1..Len(f), k \in 1..Len(g) : f[j] /= g[k]

(* A request has no block twice.                                           *)
PlacesAreDistinct == \A s \in Slots : DistinctIn(pages[s], states[s])

(* The queue has each block that nobody holds, once.                       *)
QueueIsExact == Inj(queue) /\ \A b \in Blocks : InSeq(b, queue) <=> b \notin Held

PoolInv == TypeOK /\ PlacesAreDistinct /\ QueueIsExact

LEMMA HeldIs ==
    ASSUME NEW s \in Slots, NEW b
    PROVE  b \in Held <=> b \in BlocksOf(s) \/ ~Alone(b, s)
  BY DEF Held, Alone

(* When a call changes the tables of one request, only they change what is *)
(* held.                                                                   *)
LEMMA TablesAfter ==
    ASSUME TypeOK, NEW s \in Slots, NEW f, NEW g,
           pages' = [pages EXCEPT ![s] = f], states' = [states EXCEPT ![s] = g]
    PROVE  /\ pages'[s] = f /\ states'[s] = g
           /\ \A t \in Slots \ {s} : pages'[t] = pages[t] /\ states'[t] = states[t]
           /\ \A b \in Blocks : b \in Held' <=> InSeq(b, f) \/ InSeq(b, g) \/ ~Alone(b, s)
<1>1. /\ pages'[s] = f /\ states'[s] = g
      /\ \A t \in Slots \ {s} : pages'[t] = pages[t] /\ states'[t] = states[t]
  BY DEF TypeOK
<1>2. BlocksOf(s)' = {b \in Blocks : InSeq(b, f) \/ InSeq(b, g)}
  BY <1>1 DEF BlocksOf
<1>3. \A t \in Slots \ {s} : BlocksOf(t)' = BlocksOf(t)
  BY <1>1 DEF BlocksOf
<1>4. ASSUME NEW b \in Blocks
      PROVE  b \in Held' <=> InSeq(b, f) \/ InSeq(b, g) \/ ~Alone(b, s)
  <2>1. b \in Held' <=> \E t \in Slots : b \in BlocksOf(t)'
    BY DEF Held
  <2>2. ~Alone(b, s) <=> \E t \in Slots \ {s} : b \in BlocksOf(t)
    BY DEF Alone
  <2>3. b \in BlocksOf(s)' <=> InSeq(b, f) \/ InSeq(b, g)
    BY <1>2
  <2> QED
    BY <1>3, <2>1, <2>2, <2>3
<1> QED
  BY <1>1, <1>4

LEMMA DistinctAfter ==
    ASSUME TypeOK, PlacesAreDistinct, NEW s \in Slots, NEW f, NEW g,
           pages' = [pages EXCEPT ![s] = f], states' = [states EXCEPT ![s] = g], DistinctIn(f, g)
    PROVE  PlacesAreDistinct'
<1>1. /\ pages'[s] = f /\ states'[s] = g
      /\ \A t \in Slots \ {s} : pages'[t] = pages[t] /\ states'[t] = states[t]
  BY TablesAfter
<1>2. \A t \in Slots : DistinctIn(pages'[t], states'[t])
  BY <1>1 DEF PlacesAreDistinct
<1> QED
  BY <1>2 DEF PlacesAreDistinct, DistinctIn, Inj

(* Different prefixes have different hashes.                               *)
LEMMA HashesDiffer ==
    ASSUME NEW p \in Seq(Nat), NEW j \in 1..Len(p), NEW k \in 1..Len(p)
    PROVE  /\ PageHash(p, j) = PageHash(p, k) => j = k
           /\ PageHash(p, j) /= StateHash(p, k)
           /\ PageHash(p, j) /= NoHash /\ StateHash(p, j) /= NoHash
           /\ PageHash(p, j).group = "page" /\ PageHash(p, j).prefix = SubSeq(p, 1, j)
           /\ StateHash(p, j).group = "state" /\ NoHash.group = "none"
           /\ Len(SubSeq(p, 1, j)) = j
<1>1. /\ PageHash(p, j).group = "page" /\ PageHash(p, j).prefix = SubSeq(p, 1, j)
      /\ PageHash(p, k).prefix = SubSeq(p, 1, k)
      /\ StateHash(p, k).group = "state" /\ StateHash(p, j).group = "state" /\ NoHash.group = "none"
  BY DEF PageHash, StateHash, NoHash
<1>2. Len(SubSeq(p, 1, j)) = j /\ Len(SubSeq(p, 1, k)) = k
  OBVIOUS
<1>3. PageHash(p, j) = PageHash(p, k) => j = k
  BY <1>1, <1>2
<1>4. PageHash(p, j) /= StateHash(p, k) /\ PageHash(p, j) /= NoHash /\ StateHash(p, j) /= NoHash
  <2>1. "page" /= "state" /\ "page" /= "none" /\ "state" /= "none"
    OBVIOUS
  <2> QED
    BY <1>1, <2>1
<1> QED
  BY <1>1, <1>2, <1>3, <1>4

LEMMA InitIsPooled == Init => PoolInv
<1> SUFFICES ASSUME Init PROVE PoolInv
  OBVIOUS
<1> DEFINE N == Cardinality(Blocks)
<1>1. N \in Nat /\ IsFiniteSet(1..N) /\ Cardinality(1..N) = N
  BY BlocksAssumption, FS_CardinalityType, FS_Interval
<1>2. queue \in [1..N -> Blocks] /\ Free(queue) = Blocks /\ Len(queue) = N
  BY <1>1 DEF Init
<1>3. queue \in Surjection(1..N, Blocks)
  BY <1>2, Fun_IsSurj DEF Free, InSeq
<1>4. queue \in Injection(1..N, Blocks)
  BY <1>1, <1>3, FS_Surjection
<1>5. Inj(queue)
  <2>1. \A i, j \in 1..N : queue[i] = queue[j] => i = j
    BY <1>4, Fun_InjectionProperties
  <2> QED
    BY <1>2, <2>1 DEF Inj
<1>6. \A s \in Slots : pages[s] = <<>> /\ states[s] = <<>>
  BY DEF Init
<1>7. Len(<<>>) = 0
  OBVIOUS
<1>8. PlacesAreDistinct
  BY <1>6, <1>7 DEF PlacesAreDistinct, DistinctIn, Inj
<1>9. Held = {}
  BY <1>6, <1>7 DEF Held, BlocksOf, InSeq
<1>10. \A b \in Blocks : InSeq(b, queue)
  BY <1>2 DEF Free
<1> QED
  BY <1>5, <1>8, <1>9, <1>10, InitIsTyped DEF PoolInv, QueueIsExact

LEMMA AdmitKeepsPool ==
    ASSUME PoolInv, NEW s \in Slots, Admit(s)
    PROVE  PlacesAreDistinct' /\ QueueIsExact'
<1> DEFINE p == prompt[s]
           h == Hit(p)
<1>0. TypeOK /\ PlacesAreDistinct /\ QueueIsExact
  BY DEF PoolInv
<1>1. p \in Seq(Nat) /\ h \in 1..(Len(p) - 1) /\ pages[s] = <<>>
  BY <1>0, AdmitIs
<1>2. PICK f \in Seq(Blocks), g \in Seq(Blocks \cup {Null}), b \in Blocks :
             LET got == {c \in Blocks : InSeq(c, f) \/ InSeq(c, g)}
             IN  /\ Len(f) = h /\ Len(g) = h
                 /\ \A k \in 1..h : f[k] \in Blocks /\ hash[f[k]] = PageHash(p, k)
                 /\ \A k \in 1..h : g[k] = IF k = h THEN b ELSE Null
                 /\ hash[b] = StateHash(p, h)
                 /\ pages' = [pages EXCEPT ![s] = f]
                 /\ states' = [states EXCEPT ![s] = g]
                 /\ queue' = Without(queue, got)
                 /\ Mark(got)
  BY <1>0, AdmitIs
<1> DEFINE got == {c \in Blocks : InSeq(c, f) \/ InSeq(c, g)}
<1>3. DistinctIn(f, g)
  <2>0. h \in 1..Len(p) /\ \A k \in 1..h : k \in 1..Len(p)
    BY <1>1
  <2> HIDE DEF p, h
  <2>1. ASSUME NEW j \in 1..Len(f), NEW k \in 1..Len(f), f[j] = f[k] PROVE j = k
    <3>1. j \in 1..Len(p) /\ k \in 1..Len(p) /\ PageHash(p, j) = PageHash(p, k)
      BY <1>2, <2>0, <2>1
    <3> QED
      BY <1>1, <3>1, HashesDiffer
  <2>2. ASSUME NEW j \in 1..Len(g), NEW k \in 1..Len(g), g[j] = g[k], g[j] /= Null PROVE j = k
    BY <1>2, <2>2
  <2>3. ASSUME NEW j \in 1..Len(f), NEW k \in 1..Len(g) PROVE f[j] /= g[k]
    <3>1. CASE k = h
      BY <1>1, <1>2, <2>0, <3>1, HashesDiffer
    <3>2. CASE k /= h
      BY <1>2, <3>2, NullAssumption
    <3> QED
      BY <3>1, <3>2
  <2> QED
    BY <2>1, <2>2, <2>3 DEF DistinctIn, Inj
<1>4. PlacesAreDistinct'
  BY <1>0, <1>2, <1>3, DistinctAfter
<1>5. queue \in Seq(Blocks) /\ Inj(queue) /\ \A c \in Blocks : InSeq(c, queue) <=> c \notin Held
  BY <1>0 DEF TypeOK, QueueIsExact
<1>6. Inj(queue') /\ \A c : InSeq(c, queue') <=> InSeq(c, queue) /\ c \notin got
  BY <1>2, <1>5, WithoutFacts
<1>7. BlocksOf(s) = {}
  <2>1. Len(pages[s]) = 0 /\ Len(states[s]) = 0
    BY <1>0, <1>1 DEF TypeOK
  <2> QED
    BY <2>1 DEF BlocksOf, InSeq
<1>8. \A c \in Blocks : InSeq(c, queue') <=> c \notin Held'
  <2> TAKE c \in Blocks
  <2>1. c \in Held' <=> InSeq(c, f) \/ InSeq(c, g) \/ ~Alone(c, s)
    BY <1>0, <1>2, TablesAfter
  <2>2. c \in Held <=> ~Alone(c, s)
    BY <1>7, HeldIs
  <2> QED
    BY <1>5, <1>6, <2>1, <2>2
<1> QED
  BY <1>4, <1>6, <1>8 DEF QueueIsExact, Inj

Joined(u, s, t) ==
    /\ Len(u) = Len(s) + Len(t)
    /\ \A k \in 1..Len(s) : u[k] = s[k]
    /\ \A k \in 1..Len(t) : u[Len(s) + k] = t[k]

LEMMA ConcatJoins ==
    ASSUME NEW s \in Seq(Blocks), NEW t \in Seq(Blocks)
    PROVE  Joined(s \o t, s, t)
  BY DEF Joined

(* The tables of the request after an allocation.                          *)
LEMMA AfterFacts ==
    ASSUME TypeOK, NEW s \in Slots, NEW n \in Nat \ {0}, n + 1 <= Cardinality(Free(Supply(s)))
    PROVE  LET d == Len(pages[s])
               f == PagesAfter(s, n)
               g == StatesAfter(s, n)
           IN  /\ d \in Nat /\ Len(states[s]) = d /\ Len(f) = d + n /\ Len(g) = d + n
               /\ \A k \in 1..d : f[k] = pages[s][k]
               /\ \A k \in 1..n : f[d + k] = New(s, n)[k]
               /\ \A k \in Old(s) : k \in 1..d /\ k < d /\ g[k] = Null
               /\ \A k \in 1..d : k \notin Old(s) => g[k] = states[s][k]
               /\ \A k \in 1..(n - 1) : g[d + k] = Null
               /\ g[d + n] = New(s, n)[n + 1]
<1> DEFINE d == Len(pages[s])
           f == PagesAfter(s, n)
           g == StatesAfter(s, n)
           new == New(s, n)
<1>1. d \in Nat /\ Len(states[s]) = d /\ pages[s] \in Seq(Blocks)
  BY DEF TypeOK
<1>2. new \in Seq(Blocks) /\ Len(new) = n + 1
  BY SupplyFacts
<1>3. \A k \in Old(s) : k \in 1..d /\ k < d
  <2>1. Last(s) = IF d = 0 THEN 0 ELSE d - 1
    BY DEF Last
  <2>2. \A k \in Old(s) : k \in 1..Last(s)
    BY FreedFacts
  <2> QED
    BY <1>1, <2>1, <2>2
<1>4. Len(f) = d + n /\ (\A k \in 1..d : f[k] = pages[s][k]) /\ \A k \in 1..n : f[d + k] = new[k]
  <2> DEFINE e == SubSeq(new, 1, n)
             r == pages[s]
  <2>1. e \in Seq(Blocks) /\ Len(e) = n /\ \A k \in 1..n : e[k] = new[k]
    <3> HIDE DEF new
    <3> QED
      BY <1>2
  <2>2. f = r \o e
    BY DEF PagesAfter
  <2>3. r \in Seq(Blocks) /\ d = Len(r)
    BY <1>1
  <2> HIDE DEF e, f, d, r
  <2>4. Joined(r \o e, r, e)
    BY <2>1, <2>3, ConcatJoins
  <2>5. Len(f) = d + n /\ (\A k \in 1..d : f[k] = r[k]) /\ \A k \in 1..n : f[d + k] = e[k]
    BY <2>1, <2>2, <2>3, <2>4 DEF Joined
  <2> QED
    BY <2>1, <2>5 DEF r
<1>5. g = [k \in 1..(d + n) |->
        IF k \in Old(s) THEN Null
        ELSE IF k <= d THEN states[s][k]
        ELSE IF k = d + n THEN new[n + 1] ELSE Null]
  BY DEF StatesAfter
<1> HIDE DEF d, f, g, new
<1>6. Len(g) = d + n
  <2>1. d + n \in Nat
    BY <1>1
  <2> QED
    BY <1>5, <2>1
<1>7. \A k \in Old(s) : g[k] = Null
  BY <1>1, <1>3, <1>5
<1>8. \A k \in 1..d : k \notin Old(s) => g[k] = states[s][k]
  BY <1>1, <1>5
<1>9. \A k \in 1..n : d + k \notin Old(s) /\ d + k \in 1..(d + n) /\ ~(d + k <= d)
  BY <1>1, <1>3
<1>10. \A k \in 1..(n - 1) : g[d + k] = Null
  BY <1>1, <1>5, <1>9
<1>11. g[d + n] = new[n + 1]
  BY <1>1, <1>5, <1>9
<1> QED
  BY <1>1, <1>3, <1>4, <1>6, <1>7, <1>8, <1>10, <1>11 DEF d, f, g, new

(* A victim is in no place that the request keeps.                         *)
LEMMA SupplyIsSpare ==
    ASSUME PoolInv, NEW s \in Slots
    PROVE  /\ Supply(s) \in Seq(Blocks) /\ Inj(Supply(s))
           /\ \A x : InSeq(x, Supply(s)) <=> InSeq(x, queue) \/ \E k \in Leaving(s) : states[s][k] = x
           /\ \A x \in Free(Supply(s)) :
                /\ \A k \in 1..Len(pages[s]) : pages[s][k] /= x
                /\ \A k \in 1..Len(states[s]) : k \notin Old(s) => states[s][k] /= x
<1> USE DEF PoolInv
<1>1. /\ queue \in Seq(Blocks) /\ Inj(queue) /\ \A b \in Blocks : InSeq(b, queue) <=> b \notin Held
      /\ pages[s] \in Seq(Blocks)
  BY DEF TypeOK, QueueIsExact
<1>2. /\ Inj(pages[s])
      /\ \A j, k \in 1..Len(states[s]) : states[s][j] = states[s][k] /\ states[s][j] /= Null => j = k
      /\ \A j \in 1..Len(pages[s]), k \in 1..Len(states[s]) : pages[s][j] /= states[s][k]
  BY DEF PlacesAreDistinct, DistinctIn
<1>3. \A k \in Leaving(s) : k \in Old(s) /\ k \in 1..Len(states[s]) /\ states[s][k] \in Blocks
  BY FreedFacts DEF Leaving
<1>4. /\ Freed(s) \in Seq(Blocks)
      /\ \A x : InSeq(x, Freed(s)) <=> \E k \in Leaving(s) : states[s][k] = x
      /\ Inj(Freed(s))
  <2>1. /\ Freed(s) \in Seq(Blocks)
        /\ \A x : InSeq(x, Freed(s)) <=> \E k \in Leaving(s) : states[s][k] = x
        /\ (\A k, m \in Leaving(s) : states[s][k] = states[s][m] => k = m) => Inj(Freed(s))
    BY FreedFacts
  <2> QED
    BY <1>2, <1>3, <2>1, NullAssumption
<1>5. /\ \A k \in 1..Len(pages[s]) : pages[s][k] \in Held
      /\ \A k \in 1..Len(states[s]) : states[s][k] \in Blocks => states[s][k] \in Held
  BY <1>1 DEF Held, BlocksOf, InSeq
<1>6. \A x : ~(InSeq(x, queue) /\ InSeq(x, Freed(s)))
  BY <1>1, <1>3, <1>4, <1>5
<1>7. /\ Supply(s) \in Seq(Blocks) /\ Inj(Supply(s))
      /\ \A x : InSeq(x, Supply(s)) <=> InSeq(x, queue) \/ InSeq(x, Freed(s))
  BY <1>1, <1>4, <1>6, FreeBlocksFacts DEF Supply
<1>8. ASSUME NEW x \in Free(Supply(s))
      PROVE  /\ \A k \in 1..Len(pages[s]) : pages[s][k] /= x
             /\ \A k \in 1..Len(states[s]) : k \notin Old(s) => states[s][k] /= x
  <2>1. x \in Blocks /\ (InSeq(x, queue) \/ InSeq(x, Freed(s)))
    BY <1>7 DEF Free
  <2>2. CASE InSeq(x, queue)
    BY <1>1, <1>5, <2>1, <2>2
  <2>3. CASE InSeq(x, Freed(s))
    <3>1. PICK m \in Leaving(s) : states[s][m] = x
      BY <1>4, <2>3
    <3> QED
      BY <1>2, <1>3, <3>1, NullAssumption
  <2> QED
    BY <2>1, <2>2, <2>3
<1> QED
  BY <1>4, <1>7, <1>8

LEMMA AllocateKeepsDistinct ==
    ASSUME PoolInv, NEW s \in Slots, NEW n \in Nat \ {0}, n + 1 <= Cardinality(Free(Supply(s)))
    PROVE  DistinctIn(PagesAfter(s, n), StatesAfter(s, n))
<1> DEFINE d == Len(pages[s])
           f == PagesAfter(s, n)
           g == StatesAfter(s, n)
           new == New(s, n)
           pp == pages[s]
           ss == states[s]
<1>0. TypeOK
  BY DEF PoolInv
<1>1. /\ d \in Nat /\ Len(ss) = d /\ Len(f) = d + n /\ Len(g) = d + n
      /\ \A k \in 1..d : f[k] = pp[k]
      /\ \A k \in 1..n : f[d + k] = new[k]
      /\ \A k \in Old(s) : k \in 1..d /\ k < d /\ g[k] = Null
      /\ \A k \in 1..d : k \notin Old(s) => g[k] = ss[k]
      /\ \A k \in 1..(n - 1) : g[d + k] = Null
      /\ g[d + n] = new[n + 1]
  BY <1>0, AfterFacts
<1>2. /\ \A j, k \in 1..(n + 1) : new[j] = new[k] => j = k
      /\ \A k \in 1..(n + 1) : new[k] \in Free(Supply(s)) /\ new[k] \in Blocks
  BY <1>0, SupplyFacts DEF Inj, Free
<1>3. /\ \A i \in 1..(n + 1) : \A k \in 1..d : pp[k] /= new[i]
      /\ \A i \in 1..(n + 1) : \A k \in 1..d : k \notin Old(s) => ss[k] /= new[i]
  <2>1. Len(states[s]) = d
    BY <1>0 DEF TypeOK
  <2> QED
    BY <1>2, <2>1, SupplyIsSpare
<1>4. /\ \A j, k \in 1..d : pp[j] = pp[k] => j = k
      /\ \A j, k \in 1..d : ss[j] = ss[k] /\ ss[j] /= Null => j = k
      /\ \A j \in 1..d, k \in 1..d : pp[j] /= ss[k]
      /\ \A j \in 1..d : pp[j] \in Blocks
  <2>1. Len(states[s]) = d
    BY <1>0 DEF TypeOK
  <2>2. DistinctIn(pages[s], states[s])
    BY DEF PoolInv, PlacesAreDistinct
  <2>3. \A j \in 1..d : pp[j] \in Blocks
    BY <1>0 DEF TypeOK
  <2> QED
    BY <2>1, <2>2, <2>3 DEF DistinctIn, Inj
<1> HIDE DEF d, f, g, new, pp, ss
<1>5. \A k \in 1..(d + n) : k \in 1..d \/ \E i \in 1..n : k = d + i
  <2> TAKE k \in 1..(d + n)
  <2>1. k \in 1..d \/ (k - d \in 1..n /\ k = d + (k - d))
    BY <1>1
  <2> QED
    BY <2>1
<1>6. \A k \in 1..(d + n) : \/ k \in 1..d /\ f[k] = pp[k]
                            \/ \E i \in 1..n : k = d + i /\ f[k] = new[i]
  BY <1>1, <1>5
<1>7. \A k \in 1..(d + n) : \/ g[k] = Null
                            \/ k \in 1..d /\ k \notin Old(s) /\ g[k] = ss[k]
                            \/ k = d + n /\ g[k] = new[n + 1]
  <2> TAKE k \in 1..(d + n)
  <2>1. CASE k \in 1..d
    BY <1>1, <2>1
  <2>2. ASSUME NEW i \in 1..n, k = d + i PROVE g[k] = Null \/ (k = d + n /\ g[k] = new[n + 1])
    <3>1. i = n \/ i \in 1..(n - 1)
      OBVIOUS
    <3> QED
      BY <1>1, <2>2, <3>1
  <2> QED
    BY <1>5, <2>1, <2>2
<1>8. \A i \in 1..n : i \in 1..(n + 1) /\ i /= n + 1
  OBVIOUS
<1>9. n + 1 \in 1..(n + 1)
  OBVIOUS
<1>10. ASSUME NEW j \in 1..(d + n), NEW k \in 1..(d + n), f[j] = f[k] PROVE j = k
  BY <1>2, <1>3, <1>4, <1>6, <1>8, <1>10
<1>11. ASSUME NEW j \in 1..(d + n), NEW k \in 1..(d + n), g[j] = g[k], g[j] /= Null PROVE j = k
  BY <1>3, <1>4, <1>7, <1>9, <1>11
<1>12. ASSUME NEW j \in 1..(d + n), NEW k \in 1..(d + n) PROVE f[j] /= g[k]
  BY <1>2, <1>3, <1>4, <1>6, <1>7, <1>8, <1>9, NullAssumption
<1> QED
  BY <1>1, <1>10, <1>11, <1>12 DEF DistinctIn, Inj, f, g

(* After an allocation the request holds its pages, the states that were   *)
(* not retired, and the victims.                                           *)
LEMMA HeldAfterAllocate ==
    ASSUME TypeOK, NEW s \in Slots, NEW n \in Nat \ {0}, Allocate(s, n), NEW b \in Blocks
    PROVE  b \in Held' <=> \/ b \in Fresh(s, n)
                           \/ InSeq(b, pages[s])
                           \/ \E k \in 1..Len(states[s]) : k \notin Old(s) /\ states[s][k] = b
                           \/ ~Alone(b, s)
<1> DEFINE d == Len(pages[s])
           f == PagesAfter(s, n)
           g == StatesAfter(s, n)
           new == New(s, n)
           pp == pages[s]
           ss == states[s]
<1>1. /\ n + 1 <= Cardinality(Free(Supply(s)))
      /\ pages' = [pages EXCEPT ![s] = f] /\ states' = [states EXCEPT ![s] = g]
  BY AllocateIs
<1>2. b \in Held' <=> InSeq(b, f) \/ InSeq(b, g) \/ ~Alone(b, s)
  BY <1>1, TablesAfter
<1>3. /\ d \in Nat /\ Len(ss) = d /\ Len(f) = d + n /\ Len(g) = d + n
      /\ \A k \in 1..d : f[k] = pp[k]
      /\ \A k \in 1..n : f[d + k] = new[k]
      /\ \A k \in Old(s) : k \in 1..d /\ k < d /\ g[k] = Null
      /\ \A k \in 1..d : k \notin Old(s) => g[k] = ss[k]
      /\ \A k \in 1..(n - 1) : g[d + k] = Null
      /\ g[d + n] = new[n + 1]
  BY <1>1, AfterFacts
<1>4. b \in Fresh(s, n) <=> \E k \in 1..(n + 1) : new[k] = b
  BY DEF Fresh
<1>5. d = Len(pp)
  OBVIOUS
<1> HIDE DEF d, f, g, new, pp, ss
<1>6. \A k \in 1..(d + n) : k \in 1..d \/ (k - d \in 1..n /\ k = d + (k - d))
  BY <1>3
<1>7. \A i \in 1..n : d + i \in 1..(d + n) /\ i \in 1..(n + 1) /\ (i = n \/ i \in 1..(n - 1))
  BY <1>3
<1>8. (\A i \in 1..(n + 1) : i \in 1..n \/ i = n + 1) /\ d + n \in 1..(d + n) /\ n + 1 \in 1..(n + 1)
      /\ \A k \in 1..d : k \in 1..(d + n)
  BY <1>3
<1>9. InSeq(b, f) <=> InSeq(b, pp) \/ \E i \in 1..n : new[i] = b
  <2>1. ASSUME NEW k \in 1..(d + n), f[k] = b PROVE InSeq(b, pp) \/ \E i \in 1..n : new[i] = b
    BY <1>3, <1>5, <1>6, <2>1 DEF InSeq
  <2>2. ASSUME NEW k \in 1..d, pp[k] = b PROVE \E i \in 1..(d + n) : f[i] = b
    BY <1>3, <1>8, <2>2
  <2>3. ASSUME NEW i \in 1..n, new[i] = b PROVE \E k \in 1..(d + n) : f[k] = b
    BY <1>3, <1>7, <2>3
  <2> QED
    BY <1>3, <1>5, <2>1, <2>2, <2>3 DEF InSeq
<1>10. InSeq(b, g) <=> new[n + 1] = b \/ \E k \in 1..d : k \notin Old(s) /\ ss[k] = b
  <2>0. b /= Null
    BY NullAssumption
  <2>1. ASSUME NEW k \in 1..(d + n), g[k] = b
        PROVE  new[n + 1] = b \/ \E i \in 1..d : i \notin Old(s) /\ ss[i] = b
    <3>1. CASE k \in 1..d
      BY <1>3, <2>0, <2>1, <3>1
    <3>2. CASE k - d \in 1..n /\ k = d + (k - d)
      BY <1>3, <1>7, <2>0, <2>1, <3>2
    <3> QED
      BY <1>6, <3>1, <3>2
  <2>2. ASSUME new[n + 1] = b PROVE \E k \in 1..(d + n) : g[k] = b
    BY <1>3, <1>8, <2>2
  <2>3. ASSUME NEW i \in 1..d, i \notin Old(s), ss[i] = b PROVE \E k \in 1..(d + n) : g[k] = b
    BY <1>3, <1>8, <2>3
  <2> QED
    BY <1>3, <2>1, <2>2, <2>3 DEF InSeq
<1>11. b \in Fresh(s, n) <=> new[n + 1] = b \/ \E i \in 1..n : new[i] = b
  BY <1>4, <1>7, <1>8
<1> QED
  BY <1>2, <1>3, <1>9, <1>10, <1>11 DEF pp, ss

LEMMA AllocateKeepsPool ==
    ASSUME PoolInv, NEW s \in Slots, NEW n \in Nat \ {0}, Allocate(s, n)
    PROVE  PlacesAreDistinct' /\ QueueIsExact'
<1>0. TypeOK /\ PlacesAreDistinct /\ QueueIsExact
  BY DEF PoolInv
<1>1. /\ n + 1 <= Cardinality(Free(Supply(s)))
      /\ pages' = [pages EXCEPT ![s] = PagesAfter(s, n)]
      /\ states' = [states EXCEPT ![s] = StatesAfter(s, n)]
      /\ queue' = Without(Supply(s), Fresh(s, n))
  BY AllocateIs
<1>2. PlacesAreDistinct'
  BY <1>0, <1>1, AllocateKeepsDistinct, DistinctAfter
<1>3. /\ Supply(s) \in Seq(Blocks) /\ Inj(Supply(s))
      /\ \A x : InSeq(x, Supply(s)) <=> InSeq(x, queue) \/ \E k \in Leaving(s) : states[s][k] = x
  BY SupplyIsSpare
<1>4. Inj(queue') /\ \A x : InSeq(x, queue') <=> InSeq(x, Supply(s)) /\ x \notin Fresh(s, n)
  BY <1>1, <1>3, WithoutFacts
<1>5. ASSUME NEW b \in Blocks PROVE InSeq(b, queue') <=> b \notin Held'
  <2> DEFINE Kept == \E k \in 1..Len(states[s]) : k \notin Old(s) /\ states[s][k] = b
             Goes == \E k \in Leaving(s) : states[s][k] = b
  <2>1. b \in Held' <=> b \in Fresh(s, n) \/ InSeq(b, pages[s]) \/ Kept \/ ~Alone(b, s)
    BY <1>0, HeldAfterAllocate
  <2>2. b \in Held <=> InSeq(b, pages[s]) \/ InSeq(b, states[s]) \/ ~Alone(b, s)
    BY HeldIs DEF BlocksOf
  <2>3. InSeq(b, queue) <=> b \notin Held
    BY <1>0 DEF QueueIsExact
  <2>4. InSeq(b, states[s]) /\ Alone(b, s) => Kept \/ Goes
    BY DEF InSeq, Leaving
  <2>5. Goes => ~InSeq(b, pages[s]) /\ ~Kept /\ Alone(b, s)
    <3> SUFFICES ASSUME NEW k \in Leaving(s), states[s][k] = b
                 PROVE  ~InSeq(b, pages[s]) /\ ~Kept /\ Alone(b, s)
      OBVIOUS
    <3>1. k \in Old(s) /\ Alone(b, s) /\ k \in 1..Len(states[s]) /\ b /= Null
      BY <1>0, FreedFacts, NullAssumption DEF Leaving
    <3>2. /\ \A i, j \in 1..Len(states[s]) :
               states[s][i] = states[s][j] /\ states[s][i] /= Null => i = j
          /\ \A i \in 1..Len(pages[s]), j \in 1..Len(states[s]) : pages[s][i] /= states[s][j]
      BY <1>0 DEF PlacesAreDistinct, DistinctIn
    <3> QED
      BY <3>1, <3>2 DEF InSeq
  <2>6. Kept => InSeq(b, states[s])
    BY DEF InSeq
  <2>7. InSeq(b, Supply(s)) <=> InSeq(b, queue) \/ Goes
    BY <1>3
  <2> HIDE DEF Kept, Goes
  <2> QED
    BY <1>4, <2>1, <2>2, <2>3, <2>4, <2>5, <2>6, <2>7
<1> QED
  BY <1>2, <1>4, <1>5 DEF QueueIsExact, Inj

(* A failed allocation: the request holds its pages and the states that    *)
(* were not retired.                                                       *)
LEMMA HeldAfterFailure ==
    ASSUME TypeOK, NEW s \in Slots, NEW n, AllocationFails(s, n), NEW b \in Blocks
    PROVE  b \in Held' <=> \/ InSeq(b, pages[s])
                           \/ \E k \in 1..Len(states[s]) : k \notin Old(s) /\ states[s][k] = b
                           \/ ~Alone(b, s)
<1> DEFINE g == Thinned(s)
<1>1. states' = [states EXCEPT ![s] = g] /\ pages' = [pages EXCEPT ![s] = pages[s]]
  BY AllocationFailsIs
<1>2. b \in Held' <=> InSeq(b, pages[s]) \/ InSeq(b, g) \/ ~Alone(b, s)
  BY <1>1, TablesAfter
<1>3. /\ Len(g) = Len(states[s]) /\ \A k \in Old(s) : g[k] = Null
      /\ \A k \in 1..Len(states[s]) : k \notin Old(s) => g[k] = states[s][k]
  BY ThinnedFacts
<1> HIDE DEF g
<1>4. InSeq(b, g) <=> \E k \in 1..Len(states[s]) : k \notin Old(s) /\ states[s][k] = b
  BY <1>3, NullAssumption DEF InSeq
<1> QED
  BY <1>2, <1>4

LEMMA FailureKeepsPool ==
    ASSUME PoolInv, NEW s \in Slots, NEW n, AllocationFails(s, n)
    PROVE  PlacesAreDistinct' /\ QueueIsExact'
<1> DEFINE g == Thinned(s)
           ss == states[s]
           pp == pages[s]
<1>0. TypeOK /\ PlacesAreDistinct /\ QueueIsExact
  BY DEF PoolInv
<1>1. /\ states' = [states EXCEPT ![s] = g] /\ pages' = [pages EXCEPT ![s] = pp]
      /\ queue' = Supply(s)
  BY <1>0, AllocationFailsIs
<1>2. /\ Inj(pp)
      /\ \A j, k \in 1..Len(ss) : ss[j] = ss[k] /\ ss[j] /= Null => j = k
      /\ \A j \in 1..Len(pp), k \in 1..Len(ss) : pp[j] /= ss[k]
  BY <1>0 DEF PlacesAreDistinct, DistinctIn
<1>3. /\ Len(g) = Len(ss) /\ \A k \in Old(s) : k \in 1..Len(ss) /\ g[k] = Null
      /\ \A k \in 1..Len(ss) : k \notin Old(s) => g[k] = ss[k]
  BY <1>0, ThinnedFacts
<1>4. \A k \in 1..Len(pp) : pp[k] \in Blocks
  BY <1>0 DEF TypeOK
<1> HIDE DEF g
<1>5. DistinctIn(pp, g)
  BY <1>2, <1>3, <1>4, NullAssumption DEF DistinctIn
<1>6. PlacesAreDistinct'
  BY <1>0, <1>1, <1>5, DistinctAfter
<1>7. /\ Inj(queue')
      /\ \A x : InSeq(x, queue') <=> InSeq(x, queue) \/ \E k \in Leaving(s) : ss[k] = x
  BY <1>1, SupplyIsSpare
<1>8. ASSUME NEW b \in Blocks PROVE InSeq(b, queue') <=> b \notin Held'
  <2> DEFINE Kept == \E k \in 1..Len(ss) : k \notin Old(s) /\ ss[k] = b
             Goes == \E k \in Leaving(s) : ss[k] = b
  <2>1. b \in Held' <=> InSeq(b, pp) \/ Kept \/ ~Alone(b, s)
    BY <1>0, HeldAfterFailure
  <2>2. b \in Held <=> InSeq(b, pp) \/ InSeq(b, ss) \/ ~Alone(b, s)
    BY HeldIs DEF BlocksOf
  <2>3. InSeq(b, queue) <=> b \notin Held
    BY <1>0 DEF QueueIsExact
  <2>4. InSeq(b, ss) /\ Alone(b, s) => Kept \/ Goes
    BY DEF InSeq, Leaving
  <2>5. Goes => ~InSeq(b, pp) /\ ~Kept /\ Alone(b, s)
    <3> SUFFICES ASSUME NEW k \in Leaving(s), ss[k] = b
                 PROVE  ~InSeq(b, pp) /\ ~Kept /\ Alone(b, s)
      OBVIOUS
    <3>1. k \in Old(s) /\ Alone(b, s) /\ k \in 1..Len(ss) /\ b /= Null
      BY <1>0, FreedFacts, NullAssumption DEF Leaving
    <3> QED
      BY <1>2, <3>1 DEF InSeq
  <2>6. Kept => InSeq(b, ss)
    BY DEF InSeq
  <2> HIDE DEF Kept, Goes
  <2> QED
    BY <1>7, <2>1, <2>2, <2>3, <2>4, <2>5, <2>6 DEF Goes
<1> QED
  BY <1>6, <1>7, <1>8 DEF QueueIsExact, Inj

LEMMA ReleaseKeepsPool ==
    ASSUME PoolInv, NEW s \in Slots, NEW p, Release(s, p)
    PROVE  PlacesAreDistinct' /\ QueueIsExact'
<1> DEFINE u == Back(pages[s], s)
           v == Back(states[s], s)
           q == FreeBlocks(queue, u)
<1>0. TypeOK /\ PlacesAreDistinct /\ QueueIsExact
  BY DEF PoolInv
<1>1. /\ queue' = FreeBlocks(q, v)
      /\ pages' = [pages EXCEPT ![s] = <<>>] /\ states' = [states EXCEPT ![s] = <<>>]
  BY ReleaseIs
<1>2. DistinctIn(<<>>, <<>>) /\ \A b : ~InSeq(b, <<>>)
  BY DEF DistinctIn, Inj, InSeq
<1>3. PlacesAreDistinct'
  BY <1>0, <1>1, <1>2, DistinctAfter
<1>4. /\ u \in Seq(Blocks) /\ BackFrom(u, pages[s], Lone(pages[s], s))
      /\ v \in Seq(Blocks) /\ BackFrom(v, states[s], Lone(states[s], s))
      /\ queue \in Seq(Blocks) /\ q \in Seq(Blocks)
  BY <1>0, ReleasedQueue DEF TypeOK
<1>5. /\ Inj(pages[s])
      /\ \A j, k \in 1..Len(states[s]) : states[s][j] = states[s][k] /\ states[s][j] /= Null => j = k
      /\ \A j \in 1..Len(pages[s]), k \in 1..Len(states[s]) : pages[s][j] /= states[s][k]
  BY <1>0 DEF PlacesAreDistinct, DistinctIn
<1>6. /\ Inj(u) /\ \A b : InSeq(b, u) <=> InSeq(b, pages[s]) /\ b /= Null /\ Alone(b, s)
  <2>1. \A b : InSeq(b, u) <=> \E k \in Lone(pages[s], s) : pages[s][k] = b
    BY <1>4 DEF BackFrom
  <2>2. \A k, m \in Lone(pages[s], s) : pages[s][k] = pages[s][m] => k = m
    BY <1>5 DEF Lone, Inj
  <2>3. Inj(u)
    BY <1>4, <2>2 DEF BackFrom
  <2>4. \A b : (\E k \in Lone(pages[s], s) : pages[s][k] = b)
               <=> InSeq(b, pages[s]) /\ b /= Null /\ Alone(b, s)
    BY DEF Lone, InSeq
  <2> QED
    BY <2>1, <2>3, <2>4
<1>7. /\ Inj(v) /\ \A b : InSeq(b, v) <=> InSeq(b, states[s]) /\ b /= Null /\ Alone(b, s)
  <2>1. \A b : InSeq(b, v) <=> \E k \in Lone(states[s], s) : states[s][k] = b
    BY <1>4 DEF BackFrom
  <2>2. \A k, m \in Lone(states[s], s) : states[s][k] = states[s][m] => k = m
    BY <1>5 DEF Lone
  <2>3. Inj(v)
    BY <1>4, <2>2 DEF BackFrom
  <2>4. \A b : (\E k \in Lone(states[s], s) : states[s][k] = b)
               <=> InSeq(b, states[s]) /\ b /= Null /\ Alone(b, s)
    BY DEF Lone, InSeq
  <2> QED
    BY <2>1, <2>3, <2>4
<1>8. Inj(queue) /\ \A b \in Blocks : InSeq(b, queue) <=> b \notin Held
  BY <1>0 DEF QueueIsExact
<1>9. \A b \in Blocks : b \in Held <=> InSeq(b, pages[s]) \/ InSeq(b, states[s]) \/ ~Alone(b, s)
  BY HeldIs DEF BlocksOf
<1>10. /\ \A b : InSeq(b, queue) => b \in Blocks
       /\ \A b : InSeq(b, u) => b \in Blocks
       /\ \A b : InSeq(b, v) => b \in Blocks
  BY <1>4 DEF InSeq
<1>11. \A b : ~(InSeq(b, pages[s]) /\ InSeq(b, states[s]))
  BY <1>5 DEF InSeq
<1> HIDE DEF u, v, q
<1>12. Inj(q) /\ \A b : InSeq(b, q) <=> InSeq(b, queue) \/ InSeq(b, u)
  <2>1. \A b : ~(InSeq(b, queue) /\ InSeq(b, u))
    BY <1>6, <1>8, <1>9, <1>10
  <2> QED
    BY <1>4, <1>6, <1>8, <2>1, FreeBlocksFacts DEF q
<1>13. Inj(queue') /\ \A b : InSeq(b, queue') <=> InSeq(b, q) \/ InSeq(b, v)
  <2>1. \A b : ~(InSeq(b, q) /\ InSeq(b, v))
    BY <1>6, <1>7, <1>8, <1>9, <1>10, <1>11, <1>12
  <2> QED
    BY <1>1, <1>4, <1>7, <1>12, <2>1, FreeBlocksFacts
<1>14. ASSUME NEW b \in Blocks PROVE InSeq(b, queue') <=> b \notin Held'
  <2>1. b \in Held' <=> ~Alone(b, s)
    BY <1>0, <1>1, <1>2, TablesAfter
  <2>2. b /= Null
    BY NullAssumption
  <2> QED
    BY <1>6, <1>7, <1>8, <1>9, <1>12, <1>13, <2>1, <2>2
<1> QED
  BY <1>3, <1>13, <1>14 DEF QueueIsExact, Inj

LEMMA StepIsPooled == PoolInv /\ [Next]_vars => PoolInv'
<1> SUFFICES ASSUME PoolInv, [Next]_vars PROVE PlacesAreDistinct' /\ QueueIsExact'
  BY StepIsTyped DEF PoolInv
<1>1. ASSUME NEW s \in Slots, NEW p, NEW n, Arrive(s, p, n) PROVE PlacesAreDistinct' /\ QueueIsExact'
  BY <1>1 DEF Arrive, PoolInv, PlacesAreDistinct, DistinctIn, QueueIsExact, Inj, Held, BlocksOf
<1>2. ASSUME NEW s \in Slots, Admit(s) PROVE PlacesAreDistinct' /\ QueueIsExact'
  BY <1>2, AdmitKeepsPool
<1>3. ASSUME NEW s \in Slots, NEW n \in 1..Len(prompt[s]), Allocate(s, n)
      PROVE  PlacesAreDistinct' /\ QueueIsExact'
  <2>1. n \in Nat \ {0}
    BY PromptFacts DEF PoolInv
  <2> QED
    BY <1>3, <2>1, AllocateKeepsPool
<1>4. ASSUME NEW s \in Slots, NEW p, Release(s, p) PROVE PlacesAreDistinct' /\ QueueIsExact'
  BY <1>4, ReleaseKeepsPool
<1>5. CASE ResetPrefixCache
  BY <1>5 DEF ResetPrefixCache, PoolInv, PlacesAreDistinct, DistinctIn, QueueIsExact, Inj, Held,
              BlocksOf
<1>6. CASE UNCHANGED vars
  BY <1>6 DEF vars, PoolInv, PlacesAreDistinct, DistinctIn, QueueIsExact, Inj, Held, BlocksOf
<1>7. ASSUME NEW s \in Slots, NEW n, AllocationFails(s, n) PROVE PlacesAreDistinct' /\ QueueIsExact'
  BY <1>7, FailureKeepsPool
<1> QED
  BY <1>1, <1>2, <1>3, <1>4, <1>5, <1>6, <1>7 DEF Next

LEMMA PoolInvImplies == PoolInv => PoolIsConserved
<1> SUFFICES ASSUME PoolInv PROVE PoolIsConserved
  OBVIOUS
<1> DEFINE N == Len(queue)
<1>1. /\ queue \in Seq(Blocks) /\ N \in Nat /\ Inj(queue)
      /\ \A b \in Blocks : InSeq(b, queue) <=> b \notin Held
  BY DEF PoolInv, TypeOK, QueueIsExact
<1>2. Free(queue) = Blocks \ Held
  BY <1>1 DEF Free
<1>3. queue \in [1..N -> Free(queue)] /\ \A b \in Free(queue) : \E k \in 1..N : queue[k] = b
  <2>1. queue \in [1..N -> Blocks]
    BY <1>1
  <2>2. \A k \in 1..N : queue[k] \in Free(queue)
    BY <2>1 DEF Free, InSeq
  <2> QED
    BY <2>1, <2>2 DEF Free, InSeq
<1>4. queue \in Surjection(1..N, Free(queue))
  BY <1>3, Fun_IsSurj
<1>5. queue \in Injection(1..N, Free(queue))
  <2>1. \A j, k \in 1..N : queue[j] = queue[k] => j = k
    BY <1>1 DEF Inj
  <2> QED
    BY <1>3, <2>1, Fun_IsInj
<1>6. IsFiniteSet(1..N) /\ Cardinality(1..N) = N
  BY <1>1, FS_Interval
<1>7. Cardinality(Free(queue)) = N
  BY <1>4, <1>5, <1>6, FS_Surjection
<1> QED
  BY <1>2, <1>7 DEF PoolIsConserved

(* No block is lost or freed twice, whatever requests share, retire,       *)
(* preempt and evict: for every pool, prompts and number of requests.      *)
THEOREM PoolStaysConserved == Spec => []PoolIsConserved
  BY InitIsPooled, StepIsPooled, PoolInvImplies, PTL DEF Spec

-----------------------------------------------------------------------------
(* The order of the queue.                                                 *)

UncachedFirst(q) == \A b, c : Ahead(q, b, c) /\ hash[c] = NoHash => hash[b] = NoHash

(* The pool is exact and the blocks without a hash are at the eviction end.*)
OrderInv == PoolInv /\ UncachedFirst(queue)

LEMMA FreeBlocksKeepOrder ==
    ASSUME NEW q \in Seq(Blocks), NEW bs \in Seq(Blocks), UncachedFirst(q)
    PROVE  UncachedFirst(FreeBlocks(q, bs))
<1> DEFINE f == FreeBlocks(q, bs)
<1>1. \A x, y : Ahead(f, x, y) <=>
        \/ Ahead(q, x, y)
        \/ Ahead(bs, x, y) /\ (hash[x] = NoHash <=> hash[y] = NoHash)
        \/ InSeq(x, bs) /\ hash[x] = NoHash /\ InSeq(y, q)
        \/ InSeq(x, q) /\ InSeq(y, bs) /\ hash[y] /= NoHash
        \/ InSeq(x, bs) /\ hash[x] = NoHash /\ InSeq(y, bs) /\ hash[y] /= NoHash
  BY FreeBlocksFacts
<1> HIDE DEF f
<1>2. UncachedFirst(f)
  BY <1>1 DEF UncachedFirst
<1> QED
  BY <1>2 DEF f

LEMMA AheadIsIn ==
    ASSUME NEW q, NEW b, NEW c, Ahead(q, b, c)
    PROVE  InSeq(b, q) /\ InSeq(c, q)
  BY DEF Ahead, InSeq

LEMMA SupplyIsOrdered ==
    ASSUME OrderInv, NEW s \in Slots
    PROVE  UncachedFirst(Supply(s))
<1>1. queue \in Seq(Blocks) /\ Freed(s) \in Seq(Blocks) /\ UncachedFirst(queue)
  BY FreedFacts DEF OrderInv, PoolInv, TypeOK
<1> QED
  BY <1>1, FreeBlocksKeepOrder DEF Supply

LEMMA StepIsOrdered == OrderInv /\ [Next]_vars => OrderInv'
<1> SUFFICES ASSUME OrderInv, [Next]_vars PROVE UncachedFirst(queue)'
  BY StepIsPooled DEF OrderInv
<1>0. /\ PoolInv /\ TypeOK /\ queue \in Seq(Blocks)
      /\ \A b, c : Ahead(queue, b, c) /\ hash[c] = NoHash => hash[b] = NoHash
  BY DEF OrderInv, PoolInv, TypeOK, UncachedFirst
<1>1. ASSUME NEW s \in Slots, NEW p, NEW n, Arrive(s, p, n) PROVE UncachedFirst(queue)'
  BY <1>0, <1>1 DEF Arrive, UncachedFirst
<1>2. ASSUME NEW s \in Slots, Admit(s) PROVE UncachedFirst(queue)'
  <2>1. hash' = hash /\ \E S : queue' = Without(queue, S)
    BY <1>2 DEF Admit
  <2>2. \A x, y : Ahead(queue', x, y) => Ahead(queue, x, y)
    BY <1>0, <2>1, WithoutFacts
  <2> QED
    BY <1>0, <2>1, <2>2 DEF UncachedFirst
<1>3. ASSUME NEW s \in Slots, NEW n \in 1..Len(prompt[s]), Allocate(s, n) PROVE UncachedFirst(queue)'
  <2>1. n \in Nat \ {0} /\ n + 1 <= Cardinality(Free(Supply(s)))
        /\ queue' = Without(Supply(s), Fresh(s, n))
    BY <1>0, <1>3, PromptFacts, AllocateIs
  <2>2. Supply(s) \in Seq(Blocks) /\ UncachedFirst(Supply(s))
    BY <1>0, SupplyIsSpare, SupplyIsOrdered
  <2>3. \A b \in Blocks : b \notin Fresh(s, n) => hash'[b] = hash[b]
    BY <1>0, <1>3, <2>1, HashesWritten
  <2>4. \A x, y : Ahead(queue', x, y)
                  => Ahead(Supply(s), x, y) /\ x \notin Fresh(s, n) /\ y \notin Fresh(s, n)
    BY <2>1, <2>2, WithoutFacts
  <2>5. \A x, y : Ahead(Supply(s), x, y) => x \in Blocks /\ y \in Blocks
    BY <2>2 DEF Ahead
  <2> QED
    BY <2>2, <2>3, <2>4, <2>5 DEF UncachedFirst
<1>4. ASSUME NEW s \in Slots, NEW p, Release(s, p) PROVE UncachedFirst(queue)'
  <2>1. /\ Back(pages[s], s) \in Seq(Blocks) /\ Back(states[s], s) \in Seq(Blocks)
        /\ FreeBlocks(queue, Back(pages[s], s)) \in Seq(Blocks)
    BY <1>0, ReleasedQueue
  <2>2. UncachedFirst(FreeBlocks(queue, Back(pages[s], s)))
    BY <1>0, <2>1, FreeBlocksKeepOrder DEF OrderInv
  <2>3. UncachedFirst(FreeBlocks(FreeBlocks(queue, Back(pages[s], s)), Back(states[s], s)))
    BY <2>1, <2>2, FreeBlocksKeepOrder
  <2>4. /\ hash' = hash
        /\ queue' = FreeBlocks(FreeBlocks(queue, Back(pages[s], s)), Back(states[s], s))
    BY <1>4, ReleaseIs
  <2> QED
    BY <2>3, <2>4 DEF UncachedFirst
<1>5. CASE ResetPrefixCache
  <2>1. hash' = [b \in Blocks |-> NoHash] /\ queue' = queue
    BY <1>5 DEF ResetPrefixCache
  <2>2. \A b, c : Ahead(queue, b, c) => b \in Blocks
    BY <1>0 DEF Ahead
  <2> QED
    BY <2>1, <2>2 DEF UncachedFirst
<1>6. CASE UNCHANGED vars
  BY <1>0, <1>6 DEF vars, UncachedFirst
<1>7. ASSUME NEW s \in Slots, NEW n, AllocationFails(s, n) PROVE UncachedFirst(queue)'
  <2>1. hash' = hash /\ queue' = Supply(s) /\ UncachedFirst(Supply(s))
    BY <1>0, <1>7, AllocationFailsIs, SupplyIsOrdered
  <2> QED
    BY <2>1 DEF UncachedFirst
<1> QED
  BY <1>1, <1>2, <1>3, <1>4, <1>5, <1>6, <1>7 DEF Next

LEMMA InitIsOrdered == Init => OrderInv
<1> SUFFICES ASSUME Init PROVE UncachedFirst(queue)
  BY InitIsPooled DEF OrderInv
<1>1. TypeOK /\ hash = [b \in Blocks |-> NoHash]
  BY InitIsTyped DEF Init
<1>2. \A b, c : Ahead(queue, b, c) => b \in Blocks
  BY <1>1 DEF Ahead, TypeOK
<1> QED
  BY <1>1, <1>2 DEF UncachedFirst

(* Only an allocation evicts, outside a reset.                             *)
LEMMA EvictionIsAllocation ==
    ASSUME TypeOK, Next, ~ResetPrefixCache, NEW b \in Evicted
    PROVE  \E s \in Slots : \E n \in Nat \ {0} : Allocate(s, n) /\ b \in Fresh(s, n)
<1>0. b \in Blocks /\ hash'[b] /= hash[b]
  BY DEF Evicted
<1>1. PICK s \in Slots : \E n \in 1..Len(prompt[s]) : Allocate(s, n)
  BY <1>0 DEF Next, Arrive, Admit, AllocationFails, Release
<1>2. PICK n \in 1..Len(prompt[s]) : Allocate(s, n)
  BY <1>1
<1>3. n \in Nat \ {0}
  BY PromptFacts
<1>4. b \in Fresh(s, n)
  BY <1>0, <1>2, <1>3, HashesWritten
<1> QED
  BY <1>2, <1>3, <1>4

(* A victim is ranked before every block that stays in the queue.          *)
LEMMA VictimsAreFirst ==
    ASSUME PoolInv, NEW s \in Slots, NEW n \in Nat \ {0}, Allocate(s, n),
           NEW b \in Fresh(s, n), NEW c \in StillFree
    PROVE  /\ b \in Free(Supply(s)) /\ c \in Free(Supply(s)) /\ c \notin Fresh(s, n)
           /\ Before(Supply(s), b, c) /\ hash'[c] = hash[c]
<1> DEFINE q == Supply(s)
           new == New(s, n)
<1>0. TypeOK /\ HashesAreTyped
  BY DEF PoolInv, TypeOK
<1>1. n + 1 \in Nat /\ n + 1 <= Cardinality(Free(q)) /\ queue' = Without(q, Fresh(s, n))
  BY AllocateIs
<1>2. q \in Seq(Blocks) /\ Fresh(s, n) \subseteq Free(q)
  BY <1>0, <1>1, SupplyFacts
<1>3. c \in Blocks /\ InSeq(c, q) /\ c \notin Fresh(s, n)
  BY <1>1, <1>2, WithoutFacts DEF StillFree
<1>4. c \in Free(q)
  BY <1>3 DEF Free
<1>5. \A k \in 1..(n + 1) : \A x \in Free(q) :
        (\A l \in 1..(n + 1) : new[l] /= x) => Before(q, new[k], x)
  BY <1>0, <1>1, SelectFacts DEF New
<1>6. \A l \in 1..(n + 1) : new[l] /= c
  BY <1>3 DEF Fresh
<1>7. Before(q, b, c)
  BY <1>4, <1>5, <1>6 DEF Fresh
<1>8. hash'[c] = hash[c]
  BY <1>0, <1>3, HashesWritten
<1> QED
  BY <1>2, <1>3, <1>4, <1>7, <1>8

(* A cached block is spent only when every free block without a hash has   *)
(* been, the states that the same call retires included: by rank with the  *)
(* tail-first order, and by the order of the queue without it.             *)
THEOREM CachedGoesLast == Spec => CachedIsSpentLast
<1>1. OrderInv /\ [Next]_vars
      => [~ResetPrefixCache /\ Evicted /= {} => \A b \in StillFree : hash'[b] /= NoHash]_vars
  <2> SUFFICES ASSUME OrderInv, Next, ~ResetPrefixCache, NEW b \in Evicted, NEW c \in StillFree
               PROVE  hash'[c] /= NoHash
    OBVIOUS
  <2>0. PoolInv /\ TypeOK /\ HashesAreTyped
    BY DEF OrderInv, PoolInv, TypeOK
  <2>1. PICK s \in Slots, n \in Nat \ {0} : Allocate(s, n) /\ b \in Fresh(s, n)
    BY <2>0, EvictionIsAllocation
  <2> DEFINE q == Supply(s)
  <2>2. b \in Free(q) /\ c \in Free(q) /\ Before(q, b, c) /\ hash'[c] = hash[c] /\ hash[b] /= NoHash
    BY <2>0, <2>1, VictimsAreFirst DEF Evicted
  <2>3. CASE flags.tailFirst
    BY <2>0, <2>2, <2>3, BeforeSays
  <2>4. CASE ~flags.tailFirst
    <3>1. IndexIn(q, b) < IndexIn(q, c)
      BY <2>0, <2>2, <2>4, BeforeSays
    <3>2. Ahead(q, b, c)
      BY <2>2, <3>1 DEF Ahead, Free, InSeq, IndexIn
    <3> QED
      BY <2>2, <3>2, SupplyIsOrdered DEF UncachedFirst
  <2> QED
    BY <2>3, <2>4
<1> QED
  BY <1>1, InitIsOrdered, StepIsOrdered, PTL DEF Spec, CachedIsSpentLast

(* Under hot protection a block that was hit is spent only when every      *)
(* one-shot block has been.                                                *)
THEOREM HitGoesLast == Spec => HitIsSpentLast
<1>1. PoolInv /\ [Next]_vars
      => [~ResetPrefixCache /\ flags.tailFirst /\ flags.protect /\ Evicted \cap reused /= {}
          => StillFree \subseteq reused]_vars
  <2> SUFFICES ASSUME PoolInv, Next, ~ResetPrefixCache, flags.tailFirst, flags.protect,
                      NEW b \in Evicted, b \in reused, NEW c \in StillFree
               PROVE  c \in reused
    OBVIOUS
  <2>0. TypeOK /\ HashesAreTyped
    BY DEF PoolInv, TypeOK
  <2>1. PICK s \in Slots, n \in Nat \ {0} : Allocate(s, n) /\ b \in Fresh(s, n)
    BY <2>0, EvictionIsAllocation
  <2>2. /\ b \in Free(Supply(s)) /\ c \in Free(Supply(s)) /\ Before(Supply(s), b, c)
        /\ hash[b] /= NoHash
    BY <2>1, VictimsAreFirst DEF Evicted
  <2> QED
    BY <2>0, <2>2, BeforeSays
<1> QED
  BY <1>1, InitIsPooled, StepIsPooled, PTL DEF Spec, HitIsSpentLast

-----------------------------------------------------------------------------
(* States.                                                                 *)

(* Nothing is left of the scanned prefix, and besides the newest state     *)
(* there is one more at most.                                              *)
StatesAreRecent(s) ==
    /\ \A k \in 1..retired[s] : states[s][k] = Null
    /\ \E k \in Int : \A j \in 1..Len(states[s]) :
         states[s][j] /= Null => j = k \/ j = Len(states[s])

RecentInv == TypeOK /\ \A s \in Slots : StatesAreRecent(s)

LEMMA RecentAfter ==
    ASSUME RecentInv, NEW s \in Slots, NEW g, states' = [states EXCEPT ![s] = g],
           \A t \in Slots \ {s} : retired'[t] = retired[t],
           \A k \in 1..retired'[s] : g[k] = Null,
           NEW m \in Int, \A j \in 1..Len(g) : g[j] /= Null => j = m \/ j = Len(g)
    PROVE  \A t \in Slots : StatesAreRecent(t)'
<1> TAKE t \in Slots
<1>1. states \in [Slots -> Seq(Blocks \cup {Null})]
  BY DEF RecentInv, TypeOK
<1>2. CASE t = s
  <2>1. states'[t] = g
    BY <1>1, <1>2
  <2> QED
    BY <1>2, <2>1 DEF StatesAreRecent
<1>3. CASE t /= s
  <2>1. states'[t] = states[t] /\ retired'[t] = retired[t]
    BY <1>1, <1>3
  <2>2. StatesAreRecent(t)
    BY DEF RecentInv
  <2> QED
    BY <2>1, <2>2 DEF StatesAreRecent
<1> QED
  BY <1>2, <1>3

LEMMA StepIsRecent == RecentInv /\ [Next]_vars => RecentInv'
<1> SUFFICES ASSUME RecentInv, [Next]_vars PROVE \A s \in Slots : StatesAreRecent(s)'
  BY StepIsTyped DEF RecentInv
<1>0. TypeOK /\ \A s \in Slots : StatesAreRecent(s)
  BY DEF RecentInv
<1>1. ASSUME NEW s \in Slots, NEW p, NEW n, Arrive(s, p, n)
      PROVE  \A t \in Slots : StatesAreRecent(t)'
  BY <1>0, <1>1 DEF Arrive, StatesAreRecent
<1>2. ASSUME NEW s \in Slots, Admit(s) PROVE \A t \in Slots : StatesAreRecent(t)'
  <2> DEFINE h == Hit(prompt[s])
  <2>1. h \in Int /\ pages[s] = <<>> /\ retired' = retired
    BY <1>0, <1>2, AdmitIs
  <2>2. PICK f \in HitPages(prompt[s]), g \in HitStates(prompt[s]) : states' = [states EXCEPT ![s] = g]
    BY <1>2 DEF Admit
  <2>3. PICK b : g = [k \in 1..h |-> IF k = h THEN b ELSE Null]
    BY DEF HitStates
  <2>4. Hit(prompt[s]) \in Nat
    BY <1>0, PromptFacts, HitFacts
  <2> HIDE DEF h
  <2>5. Len(g) = h /\ \A j \in 1..h : g[j] /= Null => j = h
    BY <2>3, <2>4 DEF h
  <2>6. retired'[s] = 0
    BY <1>0, <2>1 DEF TypeOK
  <2>7. \A k \in 1..retired'[s] : g[k] = Null
    BY <2>6
  <2> QED
    BY <2>1, <2>2, <2>5, <2>7, RecentAfter
<1>3. ASSUME NEW s \in Slots, NEW n \in 1..Len(prompt[s]), Allocate(s, n)
      PROVE  \A t \in Slots : StatesAreRecent(t)'
  <2> DEFINE d == Len(pages[s])
             f == PagesAfter(s, n)
             g == StatesAfter(s, n)
             ss == states[s]
  <2>1. /\ n \in Nat \ {0} /\ n + 1 <= Cardinality(Free(Supply(s)))
        /\ states' = [states EXCEPT ![s] = g]
        /\ retired' = [retired EXCEPT ![s] = IF Last(s) > @ THEN Last(s) ELSE @]
    BY <1>0, <1>3, PromptFacts, AllocateIs
  <2>2. /\ d \in Nat /\ Len(ss) = d /\ Len(f) = d + n /\ Len(g) = d + n
        /\ \A k \in 1..d : f[k] = pages[s][k]
        /\ \A k \in 1..n : f[d + k] = New(s, n)[k]
        /\ \A k \in Old(s) : k \in 1..d /\ k < d /\ g[k] = Null
        /\ \A k \in 1..d : k \notin Old(s) => g[k] = ss[k]
        /\ \A k \in 1..(n - 1) : g[d + k] = Null
        /\ g[d + n] = New(s, n)[n + 1]
    BY <1>0, <2>1, AfterFacts
  <2>3. /\ retired[s] \in Nat /\ retired[s] <= d /\ \A k \in 1..retired[s] : ss[k] = Null
    BY <1>0, <2>2 DEF TypeOK, StatesAreRecent
  <2>4. Last(s) = (IF d = 0 THEN 0 ELSE d - 1)
    BY DEF Last
  <2>5. \A k \in 1..d : k \notin Old(s) /\ k <= Last(s) => k <= retired[s] \/ ss[k] = Null
    BY <2>2, <2>3, <2>4 DEF Old, Retires
  <2>6. /\ retired'[s] = (IF Last(s) > retired[s] THEN Last(s) ELSE retired[s])
        /\ \A t \in Slots \ {s} : retired'[t] = retired[t]
    BY <1>0, <2>1 DEF TypeOK
  <2> HIDE DEF d, f, g, ss
  <2>7. \A k \in 1..d : k <= Last(s) \/ k <= retired[s] => g[k] = Null
    <3> TAKE k \in 1..d
    <3>1. CASE k \in Old(s)
      BY <2>2, <3>1
    <3>2. CASE k \notin Old(s)
      BY <2>2, <2>3, <2>5, <3>2
    <3> QED
      BY <3>1, <3>2
  <2>8. \A k \in 1..retired'[s] : g[k] = Null
    BY <2>2, <2>3, <2>4, <2>6, <2>7
  <2>9. \A j \in 1..Len(g) : g[j] /= Null => j = d \/ j = Len(g)
    <3> SUFFICES ASSUME NEW j \in 1..(d + n), j /= d, j /= d + n PROVE g[j] = Null
      BY <2>2
    <3>1. CASE j < d
      BY <2>2, <2>4, <2>7, <3>1
    <3>2. CASE d < j
      <4>1. j - d \in 1..(n - 1) /\ d + (j - d) = j
        BY <2>2, <3>2
      <4> QED
        BY <2>2, <4>1
    <3> QED
      BY <2>2, <3>1, <3>2
  <2>10. d \in Int /\ states' = [states EXCEPT ![s] = g] /\ \A t \in Slots \ {s} : retired'[t] = retired[t]
    BY <2>1, <2>2, <2>6
  <2> QED
    BY <2>8, <2>9, <2>10, RecentAfter
<1>4. ASSUME NEW s \in Slots, NEW p, Release(s, p) PROVE \A t \in Slots : StatesAreRecent(t)'
  <2> DEFINE g == <<>>
  <2>1. states' = [states EXCEPT ![s] = g] /\ retired' = [retired EXCEPT ![s] = 0]
    BY <1>4, ReleaseIs
  <2>2. retired'[s] = 0 /\ \A t \in Slots \ {s} : retired'[t] = retired[t]
    BY <1>0, <2>1 DEF TypeOK
  <2>3. Len(g) = 0 /\ 0 \in Int
    OBVIOUS
  <2> HIDE DEF g
  <2>4. /\ \A k \in 1..retired'[s] : g[k] = Null
        /\ \A j \in 1..Len(g) : g[j] /= Null => j = 0 \/ j = Len(g)
    BY <2>2, <2>3
  <2> QED
    BY <2>1, <2>2, <2>3, <2>4, RecentAfter
<1>5. CASE ResetPrefixCache
  BY <1>0, <1>5 DEF ResetPrefixCache, StatesAreRecent
<1>6. CASE UNCHANGED vars
  BY <1>0, <1>6 DEF vars, StatesAreRecent
<1>7. ASSUME NEW s \in Slots, NEW n, AllocationFails(s, n)
      PROVE  \A t \in Slots : StatesAreRecent(t)'
  <2> DEFINE g == Thinned(s)
             ss == states[s]
  <2>1. /\ states' = [states EXCEPT ![s] = g]
        /\ retired' = [retired EXCEPT ![s] = IF Last(s) > @ THEN Last(s) ELSE @]
    BY <1>0, <1>7, AllocationFailsIs
  <2>2. /\ Len(g) = Len(ss) /\ Len(ss) \in Nat /\ Len(ss) = Len(pages[s])
        /\ \A k \in Old(s) : k \in 1..Len(ss) /\ g[k] = Null
        /\ \A k \in 1..Len(ss) : k \notin Old(s) => g[k] = ss[k]
    BY <1>0, ThinnedFacts
  <2>3. /\ retired[s] \in Nat /\ retired[s] <= Len(ss) /\ \A k \in 1..retired[s] : ss[k] = Null
    BY <1>0 DEF TypeOK, StatesAreRecent
  <2>4. PICK m \in Int : \A j \in 1..Len(ss) : ss[j] /= Null => j = m \/ j = Len(ss)
    BY <1>0 DEF StatesAreRecent
  <2>5. Last(s) \in Nat /\ Last(s) <= Len(ss)
    BY <1>0, FreedFacts
  <2>6. \A k \in 1..Len(ss) : k \notin Old(s) /\ k <= Last(s) => k <= retired[s] \/ ss[k] = Null
    BY <2>2, <2>3, <2>5 DEF Old, Retires
  <2>7. /\ retired'[s] = (IF Last(s) > retired[s] THEN Last(s) ELSE retired[s])
        /\ \A t \in Slots \ {s} : retired'[t] = retired[t]
    BY <1>0, <2>1 DEF TypeOK
  <2> HIDE DEF g, ss
  <2>8. \A k \in 1..Len(ss) : k <= Last(s) \/ k <= retired[s] => g[k] = Null
    <3> TAKE k \in 1..Len(ss)
    <3>1. CASE k \in Old(s)
      BY <2>2, <3>1
    <3>2. CASE k \notin Old(s)
      BY <2>2, <2>3, <2>6, <3>2
    <3> QED
      BY <3>1, <3>2
  <2>9. \A k \in 1..retired'[s] : g[k] = Null
    BY <2>2, <2>3, <2>5, <2>7, <2>8
  <2>10. \A j \in 1..Len(g) : g[j] /= Null => j = m \/ j = Len(g)
    BY <2>2, <2>4
  <2> QED
    BY <2>1, <2>7, <2>9, <2>10, RecentAfter
<1> QED
  BY <1>1, <1>2, <1>3, <1>4, <1>5, <1>6, <1>7 DEF Next

(* A request keeps the state it computes from and the one it computes, and *)
(* no older one, also after a preemption and across null gaps.             *)
THEOREM ObsoleteStatesGo == Spec => []ObsoleteStatesAreFreed
<1>1. Init => RecentInv
  <2> SUFFICES ASSUME Init PROVE \A s \in Slots : StatesAreRecent(s)
    BY InitIsTyped DEF RecentInv
  <2>1. \A s \in Slots : states[s] = <<>> /\ retired[s] = 0
    BY DEF Init
  <2>2. Len(<<>>) = 0 /\ 0 \in Int
    OBVIOUS
  <2> QED
    BY <2>1, <2>2 DEF StatesAreRecent
<1>2. RecentInv => ObsoleteStatesAreFreed
  <2> SUFFICES ASSUME RecentInv, NEW s \in Slots
               PROVE  Cardinality({k \in 1..Len(states[s]) : states[s][k] /= Null}) <= 2
    BY DEF ObsoleteStatesAreFreed
  <2> DEFINE S == {k \in 1..Len(states[s]) : states[s][k] /= Null}
  <2>1. PICK k \in Int : \A j \in 1..Len(states[s]) : states[s][j] /= Null => j = k \/ j = Len(states[s])
    BY DEF RecentInv, StatesAreRecent
  <2> DEFINE T == {k, Len(states[s])}
  <2>2. S \subseteq T
    BY <2>1
  <2>3. IsFiniteSet(T) /\ Cardinality(T) <= 2
    <3> DEFINE l == Len(states[s])
    <3>1. IsFiniteSet({k}) /\ Cardinality({k}) = 1
      BY FS_Singleton
    <3>2. T = {k} \cup {l}
      OBVIOUS
    <3> HIDE DEF l
    <3>3. IsFiniteSet({k} \cup {l}) /\ Cardinality({k} \cup {l}) <= 2
      BY <3>1, FS_AddElement
    <3> QED
      BY <3>2, <3>3
  <2>4. Cardinality(S) <= Cardinality(T) /\ Cardinality(S) \in Nat /\ Cardinality(T) \in Nat
    BY <2>2, <2>3, FS_Subset, FS_CardinalityType
  <2> QED
    BY <2>3, <2>4
<1> QED
  BY <1>1, <1>2, StepIsRecent, PTL DEF Spec

-----------------------------------------------------------------------------
(* What the tables of a request are cached as.                             *)

(* A page is cached as the prefix of the prompt that it ends, or not at    *)
(* all, which only a no-store request's is, and behind its hit only.       *)
PagesHashedIn(h, f, p, ns) ==
    \A k \in 1..Len(f) : /\ h[f[k]] \in {PageHash(p, k), NoHash}
                         /\ h[f[k]] = NoHash => ns
                         /\ h[f[k]] /= NoHash => \A l \in 1..k : h[f[l]] /= NoHash
StatesHashedIn(h, g, p) ==
    \A k \in 1..Len(g) : g[k] /= Null => h[g[k]] \in {StateHash(p, k), NoHash}

TablesAreHashed ==
    \A s \in Slots : /\ PagesHashedIn(hash, pages[s], prompt[s], noStore[s])
                     /\ StatesHashedIn(hash, states[s], prompt[s])

HashedInv == PoolInv /\ TablesAreHashed

(* A victim is in no table but in a place that the call retires.           *)
LEMMA VictimsAreSpare ==
    ASSUME PoolInv, NEW s \in Slots, NEW n \in Nat \ {0}, Allocate(s, n), NEW x \in Fresh(s, n)
    PROVE  /\ x \in Blocks /\ Alone(x, s)
           /\ \A k \in 1..Len(pages[s]) : pages[s][k] /= x
           /\ \A k \in 1..Len(states[s]) : k \notin Old(s) => states[s][k] /= x
           /\ \A t \in Slots \ {s} : /\ \A k \in 1..Len(pages[t]) : pages[t][k] /= x
                                     /\ \A k \in 1..Len(states[t]) : states[t][k] /= x
           /\ x \in Held => \E k \in Leaving(s) : states[s][k] = x
<1>0. TypeOK
  BY DEF PoolInv
<1>1. x \in Free(Supply(s)) /\ x \in Blocks
  BY <1>0, AllocateIs, SupplyFacts
<1>2. /\ \A k \in 1..Len(pages[s]) : pages[s][k] /= x
      /\ \A k \in 1..Len(states[s]) : k \notin Old(s) => states[s][k] /= x
      /\ InSeq(x, queue) \/ \E k \in Leaving(s) : states[s][k] = x
  BY <1>1, SupplyIsSpare DEF Free
<1>3. InSeq(x, queue) <=> x \notin Held
  BY <1>1 DEF PoolInv, QueueIsExact
<1>4. Alone(x, s)
  <2>1. CASE InSeq(x, queue)
    BY <1>3, <2>1, HeldIs
  <2>2. CASE \E k \in Leaving(s) : states[s][k] = x
    BY <2>2 DEF Leaving
  <2> QED
    BY <1>2, <2>1, <2>2
<1>5. \A t \in Slots \ {s} : x \notin BlocksOf(t)
  BY <1>4 DEF Alone
<1>6. \A t \in Slots \ {s} : /\ \A k \in 1..Len(pages[t]) : pages[t][k] /= x
                             /\ \A k \in 1..Len(states[t]) : states[t][k] /= x
  BY <1>1, <1>5 DEF BlocksOf, InSeq
<1> QED
  BY <1>1, <1>2, <1>3, <1>4, <1>6

LEMMA HashedCarries ==
    ASSUME NEW h, NEW i, NEW f, NEW g, NEW p, NEW ns,
           PagesHashedIn(h, f, p, ns), StatesHashedIn(h, g, p),
           Len(f) \in Nat,
           \A k \in 1..Len(f) : i[f[k]] = h[f[k]],
           \A k \in 1..Len(g) : g[k] /= Null => i[g[k]] = h[g[k]]
    PROVE  PagesHashedIn(i, f, p, ns) /\ StatesHashedIn(i, g, p)
<1>1. \A k \in 1..Len(f) : \A l \in 1..k : l \in 1..Len(f)
  OBVIOUS
<1> QED
  BY <1>1 DEF PagesHashedIn, StatesHashedIn

LEMMA NothingHashed ==
    ASSUME NEW h, NEW f, NEW g, NEW p, NEW ns, Len(f) = 0, \A k \in 1..Len(g) : g[k] = Null
    PROVE  PagesHashedIn(h, f, p, ns) /\ StatesHashedIn(h, g, p)
  BY DEF PagesHashedIn, StatesHashedIn

LEMMA AllocateHashes ==
    ASSUME HashedInv, NEW s \in Slots, NEW n \in Nat \ {0}, Allocate(s, n)
    PROVE  /\ PagesHashedIn(hash', PagesAfter(s, n), prompt[s], noStore[s])
           /\ StatesHashedIn(hash', StatesAfter(s, n), prompt[s])
<1> DEFINE d == Len(pages[s])
           f == PagesAfter(s, n)
           g == StatesAfter(s, n)
           new == New(s, n)
           pp == pages[s]
           ss == states[s]
           p == prompt[s]
           ns == noStore[s]
           h == hash'
<1>0. TypeOK /\ PoolInv
  BY DEF HashedInv, PoolInv
<1>1. n + 1 <= Cardinality(Free(Supply(s)))
  BY AllocateIs
<1>2. /\ d \in Nat /\ Len(ss) = d /\ Len(f) = d + n /\ Len(g) = d + n
      /\ \A k \in 1..d : f[k] = pp[k]
      /\ \A k \in 1..n : f[d + k] = new[k]
      /\ \A k \in Old(s) : k \in 1..d /\ k < d /\ g[k] = Null
      /\ \A k \in 1..d : k \notin Old(s) => g[k] = ss[k]
      /\ \A k \in 1..(n - 1) : g[d + k] = Null
      /\ g[d + n] = new[n + 1]
  BY <1>0, <1>1, AfterFacts
<1>3. /\ \A b \in Blocks : b \notin Fresh(s, n) => h[b] = hash[b]
      /\ ns => \A b \in Fresh(s, n) : h[b] = NoHash
      /\ ~ns => /\ h[new[n + 1]] = StateHash(p, d + n)
                /\ \A k \in 1..n : h[new[k]] = PageHash(p, d + k)
  BY <1>0, HashesWritten
<1>4. \A k \in 1..(n + 1) : new[k] \in Fresh(s, n)
  BY DEF Fresh
<1>5. \A k \in 1..d : h[pp[k]] = hash[pp[k]]
  <2>1. \A k \in 1..d : pp[k] \in Blocks
    BY <1>0 DEF TypeOK
  <2>2. \A k \in 1..d : pp[k] \notin Fresh(s, n)
    BY <1>0, VictimsAreSpare
  <2> QED
    BY <1>3, <2>1, <2>2
<1>6. \A k \in 1..d : k \notin Old(s) /\ ss[k] /= Null => h[ss[k]] = hash[ss[k]]
  <2>1. \A k \in 1..d : ss[k] /= Null => ss[k] \in Blocks
    BY <1>0, <1>2 DEF TypeOK
  <2>2. \A k \in 1..d : k \notin Old(s) => ss[k] \notin Fresh(s, n)
    BY <1>0, <1>2, VictimsAreSpare
  <2> QED
    BY <1>3, <2>1, <2>2
<1>7. PagesHashedIn(hash, pp, p, ns) /\ StatesHashedIn(hash, ss, p)
  BY DEF HashedInv, TablesAreHashed
<1>8. p \in Seq(Nat) /\ d + n <= Len(p)
  BY <1>0, PromptFacts, AllocateIs
<1>9. \A k \in 1..(d + n) : PageHash(p, k) /= NoHash
  <2>1. \A k \in 1..(d + n) : k \in 1..Len(p)
    BY <1>2, <1>8
  <2> QED
    BY <1>8, <2>1, HashesDiffer
<1>10. d = Len(pp)
  OBVIOUS
<1> HIDE DEF d, f, g, new, pp, ss, p, ns, h
<1>11. \A k \in 1..(d + n) : k \in 1..d \/ (k - d \in 1..n /\ k = d + (k - d))
  BY <1>2
<1>12. \A k \in 1..d : f[k] = pp[k] /\ h[f[k]] = hash[pp[k]]
  BY <1>2, <1>5
<1>13. \A i \in 1..n : h[f[d + i]] = IF ns THEN NoHash ELSE PageHash(p, d + i)
  <2> TAKE i \in 1..n
  <2>1. i \in 1..(n + 1) /\ f[d + i] = new[i]
    BY <1>2
  <2>2. new[i] \in Fresh(s, n)
    BY <1>4, <2>1
  <2> QED
    BY <1>3, <2>1, <2>2
<1>14. \A k \in 1..d : /\ hash[pp[k]] \in {PageHash(p, k), NoHash}
                       /\ hash[pp[k]] = NoHash => ns
                       /\ hash[pp[k]] /= NoHash => \A l \in 1..k : hash[pp[l]] /= NoHash
  BY <1>7, <1>10 DEF PagesHashedIn
<1>15. ASSUME NEW k \in 1..(d + n)
       PROVE  /\ h[f[k]] \in {PageHash(p, k), NoHash}
              /\ h[f[k]] = NoHash => ns
              /\ h[f[k]] /= NoHash => \A l \in 1..k : h[f[l]] /= NoHash
  <2>1. CASE k \in 1..d
    <3>1. \A l \in 1..k : l \in 1..d
      BY <1>2, <2>1
    <3> QED
      BY <1>12, <1>14, <2>1, <3>1
  <2>2. CASE k - d \in 1..n /\ k = d + (k - d)
    <3>1. h[f[k]] = IF ns THEN NoHash ELSE PageHash(p, k)
      BY <1>13, <2>2
    <3>2. \A l \in 1..k : l \in 1..(d + n)
      BY <1>2
    <3>3. ASSUME ~ns, NEW l \in 1..k PROVE h[f[l]] /= NoHash
      <4>1. CASE l \in 1..d
        BY <1>12, <1>14, <3>3, <4>1
      <4>2. CASE l - d \in 1..n /\ l = d + (l - d)
        <5>1. h[f[l]] = PageHash(p, l)
          BY <1>13, <3>3, <4>2
        <5> QED
          BY <1>9, <3>2, <5>1
      <4> QED
        BY <1>11, <3>2, <4>1, <4>2
    <3>4. PageHash(p, k) /= NoHash
      BY <1>9
    <3> QED
      BY <3>1, <3>3, <3>4
  <2> QED
    BY <1>11, <2>1, <2>2
<1>16. PagesHashedIn(h, f, p, ns)
  BY <1>2, <1>15 DEF PagesHashedIn
<1>17. ASSUME NEW k \in 1..(d + n), g[k] /= Null PROVE h[g[k]] \in {StateHash(p, k), NoHash}
  <2>1. CASE k \in 1..d
    BY <1>2, <1>6, <1>7, <1>17, <2>1 DEF StatesHashedIn
  <2>2. CASE k - d \in 1..n /\ k = d + (k - d)
    <3>1. k - d = n
      <4>1. k - d = n \/ k - d \in 1..(n - 1)
        BY <2>2
      <4> QED
        BY <1>2, <1>17, <2>2, <4>1
    <3>2. k = d + n /\ g[k] = new[n + 1] /\ n + 1 \in 1..(n + 1)
      BY <1>2, <2>2, <3>1
    <3> QED
      BY <1>3, <1>4, <3>2
  <2> QED
    BY <1>11, <2>1, <2>2
<1>18. StatesHashedIn(h, g, p)
  BY <1>2, <1>17 DEF StatesHashedIn
<1> QED
  BY <1>16, <1>18 DEF h, f, g, p, ns

LEMMA AdmitHashes ==
    ASSUME TypeOK, NEW s \in Slots, Admit(s)
    PROVE  /\ PagesHashedIn(hash, pages'[s], prompt[s], noStore[s])
           /\ StatesHashedIn(hash, states'[s], prompt[s])
<1> DEFINE p == prompt[s]
           h == Hit(p)
<1>1. p \in Seq(Nat) /\ h \in 1..(Len(p) - 1)
  BY AdmitIs
<1>2. PICK f \in Seq(Blocks), g \in Seq(Blocks \cup {Null}), b \in Blocks :
             LET got == {c \in Blocks : InSeq(c, f) \/ InSeq(c, g)}
             IN  /\ Len(f) = h /\ Len(g) = h
                 /\ \A k \in 1..h : f[k] \in Blocks /\ hash[f[k]] = PageHash(p, k)
                 /\ \A k \in 1..h : g[k] = IF k = h THEN b ELSE Null
                 /\ hash[b] = StateHash(p, h)
                 /\ pages' = [pages EXCEPT ![s] = f]
                 /\ states' = [states EXCEPT ![s] = g]
                 /\ queue' = Without(queue, got)
                 /\ Mark(got)
  BY AdmitIs
<1>3. pages'[s] = f /\ states'[s] = g
  BY <1>2 DEF TypeOK
<1>4. \A k \in 1..h : PageHash(p, k) /= NoHash /\ \A l \in 1..k : l \in 1..h
  <2>1. \A k \in 1..h : k \in 1..Len(p)
    BY <1>1
  <2>2. \A k \in 1..h : PageHash(p, k) /= NoHash
    BY <1>1, <2>1, HashesDiffer
  <2> QED
    BY <1>1, <2>2
<1> HIDE DEF p, h
<1>5. PagesHashedIn(hash, f, p, noStore[s])
  BY <1>2, <1>4 DEF PagesHashedIn
<1>6. StatesHashedIn(hash, g, p)
  BY <1>2 DEF StatesHashedIn
<1> QED
  BY <1>3, <1>5, <1>6 DEF p

LEMMA TablesHashedAfter ==
    ASSUME \A t \in Slots : /\ PagesHashedIn(hash', pages'[t], prompt'[t], noStore'[t])
                            /\ StatesHashedIn(hash', states'[t], prompt'[t])
    PROVE  TablesAreHashed'
  BY DEF TablesAreHashed, PagesHashedIn, StatesHashedIn, PageHash, StateHash, NoHash

LEMMA StepIsHashed == HashedInv /\ [Next]_vars => HashedInv'
<1> SUFFICES ASSUME HashedInv, [Next]_vars,  NEW t \in Slots
             PROVE  /\ PagesHashedIn(hash', pages'[t], prompt'[t], noStore'[t])
                    /\ StatesHashedIn(hash', states'[t], prompt'[t])
  BY StepIsPooled, TablesHashedAfter DEF HashedInv
<1> DEFINE G == /\ PagesHashedIn(hash', pages'[t], prompt'[t], noStore'[t])
                /\ StatesHashedIn(hash', states'[t], prompt'[t])
<1>0. /\ TypeOK /\ PoolInv
      /\ PagesHashedIn(hash, pages[t], prompt[t], noStore[t]) /\ StatesHashedIn(hash, states[t], prompt[t])
  BY DEF HashedInv, PoolInv, TablesAreHashed
<1>1. ASSUME NEW s \in Slots, NEW p, NEW n, Arrive(s, p, n) PROVE G
  <2>1. /\ prompt[s] = NoPrompt /\ hash' = hash /\ pages' = pages /\ states' = states
        /\ prompt' = [prompt EXCEPT ![s] = p] /\ noStore' = [noStore EXCEPT ![s] = n]
    BY <1>1 DEF Arrive
  <2>2. CASE t = s
    <3>1. Len(pages[t]) = 0 /\ Len(states[t]) = 0
      BY <1>0, <2>1, <2>2 DEF TypeOK, NoPrompt
    <3>2. \A k \in 1..Len(states[t]) : states[t][k] = Null
      BY <3>1
    <3> QED
      BY <2>1, <3>1, <3>2, NothingHashed
  <2>3. CASE t /= s
    <3>1. prompt'[t] = prompt[t] /\ noStore'[t] = noStore[t]
      BY <1>0, <2>1, <2>3 DEF TypeOK
    <3> QED
      BY <1>0, <2>1, <3>1
  <2> QED
    BY <2>2, <2>3
<1>2. ASSUME NEW s \in Slots, Admit(s) PROVE G
  <2>1. hash' = hash /\ prompt' = prompt /\ noStore' = noStore
    BY <1>2 DEF Admit
  <2>2. CASE t = s
    BY <1>0, <1>2, <2>1, <2>2, AdmitHashes
  <2>3. CASE t /= s
    <3>1. \E f, g : pages' = [pages EXCEPT ![s] = f] /\ states' = [states EXCEPT ![s] = g]
      BY <1>2 DEF Admit
    <3>2. pages'[t] = pages[t] /\ states'[t] = states[t]
      BY <1>0, <2>3, <3>1 DEF TypeOK
    <3> QED
      BY <1>0, <2>1, <3>2
  <2> QED
    BY <2>2, <2>3
<1>3. ASSUME NEW s \in Slots, NEW n \in 1..Len(prompt[s]), Allocate(s, n) PROVE G
  <2>1. /\ n \in Nat \ {0} /\ prompt' = prompt /\ noStore' = noStore
        /\ pages' = [pages EXCEPT ![s] = PagesAfter(s, n)]
        /\ states' = [states EXCEPT ![s] = StatesAfter(s, n)]
    BY <1>0, <1>3, PromptFacts, AllocateIs
  <2>2. CASE t = s
    <3>1. pages'[t] = PagesAfter(s, n) /\ states'[t] = StatesAfter(s, n)
      BY <1>0, <2>1, <2>2 DEF TypeOK
    <3> QED
      BY <1>3, <2>1, <2>2, <3>1, AllocateHashes
  <2>3. CASE t /= s
    <3>1. pages'[t] = pages[t] /\ states'[t] = states[t]
      BY <1>0, <2>1, <2>3, TablesAfter
    <3>2. /\ \A k \in 1..Len(pages[t]) : pages[t][k] \in Blocks /\ pages[t][k] \notin Fresh(s, n)
          /\ \A k \in 1..Len(states[t]) : /\ states[t][k] \in Blocks \cup {Null}
                                          /\ states[t][k] \notin Fresh(s, n)
      <4>1. /\ \A k \in 1..Len(pages[t]) : pages[t][k] \in Blocks
            /\ \A k \in 1..Len(states[t]) : states[t][k] \in Blocks \cup {Null}
        BY <1>0 DEF TypeOK
      <4> QED
        BY <1>0, <1>3, <2>1, <2>3, <4>1, VictimsAreSpare
    <3>3. \A b \in Blocks : b \notin Fresh(s, n) => hash'[b] = hash[b]
      BY <1>0, <1>3, <2>1, HashesWritten
    <3>4. Len(pages[t]) \in Nat
      BY <1>0 DEF TypeOK
    <3>5. PagesHashedIn(hash', pages[t], prompt[t], noStore[t]) /\ StatesHashedIn(hash', states[t], prompt[t])
      BY <1>0, <3>2, <3>3, <3>4, HashedCarries
    <3> QED
      BY <2>1, <3>1, <3>5
  <2> QED
    BY <2>2, <2>3
<1>4. ASSUME NEW s \in Slots, NEW p, Release(s, p) PROVE G
  <2>1. /\ hash' = hash /\ prompt' = [prompt EXCEPT ![s] = p]
        /\ noStore' = [noStore EXCEPT ![s] = @ /\ p /= NoPrompt]
        /\ pages' = [pages EXCEPT ![s] = <<>>] /\ states' = [states EXCEPT ![s] = <<>>]
    BY <1>4, ReleaseIs
  <2>2. CASE t = s
    <3>1. pages'[t] = <<>> /\ states'[t] = <<>>
      BY <1>0, <2>1, <2>2, TablesAfter
    <3>2. Len(pages'[t]) = 0 /\ \A k \in 1..Len(states'[t]) : states'[t][k] = Null
      BY <3>1
    <3> QED
      BY <3>2, NothingHashed
  <2>3. CASE t /= s
    <3>1. prompt'[t] = prompt[t] /\ noStore'[t] = noStore[t] /\ pages'[t] = pages[t] /\ states'[t] = states[t]
      BY <1>0, <2>1, <2>3 DEF TypeOK
    <3> QED
      BY <1>0, <2>1, <3>1
  <2> QED
    BY <2>2, <2>3
<1>5. CASE ResetPrefixCache
  <2>1. Held = {} /\ pages' = pages /\ states' = states
    BY <1>5 DEF ResetPrefixCache
  <2>2. BlocksOf(t) = {}
    BY <2>1 DEF Held
  <2>3. /\ Len(pages[t]) \in Nat /\ \A k \in 1..Len(pages[t]) : pages[t][k] \in Blocks
        /\ \A k \in 1..Len(states[t]) : states[t][k] \in Blocks \cup {Null}
    BY <1>0 DEF TypeOK
  <2>4. Len(pages[t]) = 0 /\ \A k \in 1..Len(states[t]) : states[t][k] = Null
    <3>1. \A k \in 1..Len(pages[t]) : FALSE
      BY <2>2, <2>3 DEF BlocksOf, InSeq
    <3>2. \A k \in 1..Len(states[t]) : states[t][k] \notin Blocks
      BY <2>2, <2>3 DEF BlocksOf, InSeq
    <3> QED
      BY <2>3, <3>1, <3>2
  <2> QED
    BY <2>1, <2>4, NothingHashed
<1>6. CASE UNCHANGED vars
  BY <1>0, <1>6 DEF vars
<1>7. ASSUME NEW s \in Slots, NEW n, AllocationFails(s, n) PROVE G
  <2>1. /\ UNCHANGED <<hash, prompt, noStore, pages>>
        /\ states' = [states EXCEPT ![s] = Thinned(s)]
    BY <1>0, <1>7, AllocationFailsIs
  <2>2. CASE t = s
    <3>1. states'[t] = Thinned(s)
      BY <1>0, <2>1, <2>2 DEF TypeOK
    <3>2. /\ Len(Thinned(s)) = Len(states[s]) /\ \A k \in Old(s) : Thinned(s)[k] = Null
          /\ \A k \in 1..Len(states[s]) : k \notin Old(s) => Thinned(s)[k] = states[s][k]
      BY <1>0, ThinnedFacts
    <3>3. StatesHashedIn(hash, Thinned(s), prompt[t])
      BY <1>0, <2>2, <3>2 DEF StatesHashedIn
    <3> QED
      BY <1>0, <2>1, <3>1, <3>3
  <2>3. CASE t /= s
    <3>1. states'[t] = states[t]
      BY <1>0, <2>1, <2>3 DEF TypeOK
    <3> QED
      BY <1>0, <2>1, <3>1
  <2> QED
    BY <2>2, <2>3
<1> QED
  BY <1>1, <1>2, <1>3, <1>4, <1>5, <1>6, <1>7 DEF Next

LEMMA InitIsHashed == Init => HashedInv
<1> SUFFICES ASSUME Init PROVE TablesAreHashed
  BY InitIsPooled DEF HashedInv
<1>1. \A s \in Slots : pages[s] = <<>> /\ states[s] = <<>>
  BY DEF Init
<1>2. \A s \in Slots : Len(pages[s]) = 0 /\ \A k \in 1..Len(states[s]) : states[s][k] = Null
  BY <1>1
<1> QED
  BY <1>2, NothingHashed DEF TablesAreHashed

-----------------------------------------------------------------------------
(* Every cached page can be hit.                                           *)

IsPage(b) == hash[b].group = "page"

(* The pages before a free one are held, or evicted after it: they are     *)
(* behind it in the queue, or the tail-first order spends them later.      *)
FreePagesAreBacked ==
    ~flags.protect => \A b \in Blocks : InSeq(b, queue) /\ IsPage(b) =>
        \A k \in 1..(Len(hash[b].prefix) - 1) : \E c \in Blocks :
            /\ hash[c] = PageHash(hash[b].prefix, k)
            /\ c \in Held \/ flags.tailFirst \/ Ahead(queue, b, c)

ReachInv == HashedInv /\ FreePagesAreBacked

LEMMA PrefixOfPrefix ==
    ASSUME NEW p \in Seq(Nat), NEW k \in 1..Len(p), NEW l \in 1..k
    PROVE  PageHash(SubSeq(p, 1, k), l) = PageHash(p, l)
<1>1. SubSeq(SubSeq(p, 1, k), 1, l) = SubSeq(p, 1, l)
  OBVIOUS
<1> QED
  BY <1>1 DEF PageHash

LEMMA PageHashIs ==
    ASSUME NEW p \in Seq(Nat), NEW k \in 1..Len(p)
    PROVE  /\ PageHash(p, k).group = "page" /\ PageHash(p, k) /= NoHash
           /\ PageHash(p, k).prefix \in Seq(Nat) /\ Len(PageHash(p, k).prefix) = k
  BY DEF PageHash, NoHash

LEMMA HashIs ==
    ASSUME TypeOK, NEW b \in Blocks, IsPage(b)
    PROVE  /\ hash[b].prefix \in Seq(Nat) /\ hash[b] /= NoHash
           /\ hash[b] = [group |-> "page", prefix |-> hash[b].prefix]
<1>1. hash[b] \in [group : {"none", "page", "state"}, prefix : Seq(Nat)]
  BY DEF TypeOK, HashesAreTyped
<1>2. "page" /= "none"
  OBVIOUS
<1> QED
  BY <1>1, <1>2 DEF IsPage, NoHash

(* No state is cached as a page.                                           *)
LEMMA StatesAreNotPages ==
    ASSUME HashedInv, NEW s \in Slots, NEW k \in 1..Len(states[s]), states[s][k] /= Null
    PROVE  ~IsPage(states[s][k])
<1>1. hash[states[s][k]] \in {StateHash(prompt[s], k), NoHash}
  BY DEF HashedInv, TablesAreHashed, StatesHashedIn
<1>2. StateHash(prompt[s], k).group = "state" /\ NoHash.group = "none"
  BY DEF StateHash, NoHash
<1>3. "page" /= "none" /\ "page" /= "state"
  OBVIOUS
<1> QED
  BY <1>1, <1>2, <1>3 DEF IsPage

(* A page in a request's table is cached with all pages before it.         *)
LEMMA PagesAreChained ==
    ASSUME HashedInv, NEW s \in Slots, NEW k \in 1..Len(pages[s]), IsPage(pages[s][k])
    PROVE  /\ prompt[s] \in Seq(Nat) /\ k \in 1..Len(prompt[s])
           /\ hash[pages[s][k]] = PageHash(prompt[s], k)
           /\ Len(hash[pages[s][k]].prefix) = k
           /\ \A l \in 1..k : /\ l \in 1..Len(pages[s]) /\ pages[s][l] \in Blocks
                              /\ hash[pages[s][l]] = PageHash(prompt[s], l)
                              /\ hash[pages[s][l]] = PageHash(hash[pages[s][k]].prefix, l)
<1> DEFINE p == prompt[s]
           f == pages[s]
<1>0. TypeOK
  BY DEF HashedInv, PoolInv
<1>1. p \in Seq(Nat) /\ Len(f) \in Nat /\ Len(f) <= Len(p) /\ \A l \in 1..Len(f) : f[l] \in Blocks
  BY <1>0, PromptFacts DEF TypeOK
<1>2. \A j \in 1..Len(f) : /\ hash[f[j]] \in {PageHash(p, j), NoHash}
                           /\ hash[f[j]] /= NoHash => \A l \in 1..j : hash[f[l]] /= NoHash
  BY DEF HashedInv, TablesAreHashed, PagesHashedIn
<1>3. hash[f[k]] /= NoHash
  <2>1. "page" /= "none"
    OBVIOUS
  <2> QED
    BY <2>1 DEF IsPage, NoHash
<1> HIDE DEF p, f
<1>4. k \in 1..Len(f)
  BY DEF f
<1>5. k \in 1..Len(p) /\ \A l \in 1..k : l \in 1..Len(f)
  BY <1>1, <1>4
<1>6. \A l \in 1..k : hash[f[l]] = PageHash(p, l)
  BY <1>2, <1>3, <1>4, <1>5
<1>7. k \in 1..k
  BY <1>5
<1>8. hash[f[k]] = PageHash(p, k) /\ PageHash(p, k).prefix = SubSeq(p, 1, k)
  BY <1>6, <1>7 DEF PageHash
<1>9. Len(hash[f[k]].prefix) = k
  BY <1>1, <1>5, <1>8
<1>10. \A l \in 1..k : PageHash(hash[f[k]].prefix, l) = PageHash(p, l)
  BY <1>1, <1>5, <1>8, PrefixOfPrefix
<1> QED
  BY <1>1, <1>5, <1>6, <1>8, <1>9, <1>10 DEF p, f

LEMMA HeldPageIsInTable ==
    ASSUME HashedInv, NEW b \in Blocks, b \in Held, IsPage(b)
    PROVE  \E s \in Slots : \E k \in 1..Len(pages[s]) : pages[s][k] = b
<1>1. PICK s \in Slots : InSeq(b, pages[s]) \/ InSeq(b, states[s])
  BY DEF Held, BlocksOf
<1>2. ~InSeq(b, states[s])
  BY StatesAreNotPages, NullAssumption DEF InSeq
<1> QED
  BY <1>1, <1>2 DEF InSeq

LEMMA ReachInvImplies == ReachInv => CachedPagesAreReachable
<1> SUFFICES ASSUME ReachInv, ~flags.protect, NEW b \in Blocks, hash[b].group = "page",
                    NEW k \in 1..Len(hash[b].prefix)
             PROVE  \E c \in Blocks : hash[c] = PageHash(hash[b].prefix, k)
  BY DEF CachedPagesAreReachable, Hashes, Cached
<1>0. HashedInv /\ PoolInv /\ TypeOK /\ IsPage(b)
  BY DEF ReachInv, HashedInv, PoolInv, IsPage
<1> DEFINE P == hash[b].prefix
<1>1. P \in Seq(Nat) /\ hash[b] = [group |-> "page", prefix |-> P]
  BY <1>0, HashIs
<1>2. CASE k = Len(P)
  <2>1. SubSeq(P, 1, Len(P)) = P
    BY <1>1
  <2>2. hash[b] = PageHash(P, k)
    BY <1>1, <1>2, <2>1 DEF PageHash
  <2> QED
    BY <2>2
<1>3. CASE k /= Len(P) /\ b \in Held
  <2>0. PICK s \in Slots : \E j \in 1..Len(pages[s]) : pages[s][j] = b
    BY <1>0, <1>3, HeldPageIsInTable
  <2>1. PICK j \in 1..Len(pages[s]) : pages[s][j] = b
    BY <2>0
  <2>2. /\ Len(P) = j
        /\ \A l \in 1..j : pages[s][l] \in Blocks /\ hash[pages[s][l]] = PageHash(P, l)
    BY <1>0, <2>1, PagesAreChained
  <2> QED
    BY <2>2
<1>4. CASE k /= Len(P) /\ b \notin Held
  <2>1. InSeq(b, queue)
    BY <1>0, <1>4 DEF PoolInv, QueueIsExact
  <2>2. k \in 1..(Len(P) - 1)
    BY <1>1, <1>4
  <2> QED
    BY <1>0, <2>1, <2>2 DEF ReachInv, FreePagesAreBacked
<1> QED
  BY <1>2, <1>3, <1>4

(* A page whose deeper pages stay is not a victim.                         *)
LEMMA BackedPageStays ==
    ASSUME HashedInv, ~flags.protect, NEW s \in Slots, NEW n \in Nat \ {0}, Allocate(s, n),
           NEW b \in Blocks, InSeq(b, queue), InSeq(b, queue'), IsPage(b),
           NEW k \in 1..(Len(hash[b].prefix) - 1), NEW c \in Blocks,
           hash[c] = PageHash(hash[b].prefix, k),
           c \in Held \/ flags.tailFirst \/ Ahead(queue, b, c)
    PROVE  c \notin Fresh(s, n)
<1> SUFFICES ASSUME c \in Fresh(s, n) PROVE FALSE
  OBVIOUS
<1> DEFINE q == Supply(s)
           P == hash[b].prefix
<1>0. PoolInv /\ TypeOK /\ HashesAreTyped
  BY DEF HashedInv, PoolInv, TypeOK
<1>1. P \in Seq(Nat)
  BY <1>0, HashIs
<1>2. k \in 1..Len(P)
  BY <1>1
<1>3. IsPage(c) /\ hash[c] /= NoHash /\ Len(hash[c].prefix) = k
  BY <1>1, <1>2, PageHashIs DEF IsPage
<1>4. c \in Free(q) /\ b \in Free(q) /\ Before(q, c, b)
  BY <1>0, VictimsAreFirst DEF StillFree
<1>5. CASE c \in Held
  <2>1. PICK m \in Leaving(s) : states[s][m] = c
    BY <1>0, <1>5, VictimsAreSpare
  <2>2. m \in 1..Len(states[s]) /\ states[s][m] /= Null
    BY <1>0, <2>1, FreedFacts, NullAssumption DEF Leaving
  <2> QED
    BY <1>3, <2>1, <2>2, StatesAreNotPages
<1>6. CASE flags.tailFirst
  <2>1. Len(hash[b].prefix) <= Len(hash[c].prefix)
    BY <1>0, <1>3, <1>4, <1>6, BeforeSays
  <2> QED
    BY <1>1, <1>3, <2>1
<1>7. CASE ~flags.tailFirst /\ Ahead(queue, b, c)
  <2>1. IndexIn(q, c) < IndexIn(q, b)
    BY <1>0, <1>4, <1>7, BeforeSays
  <2>2. queue \in Seq(Blocks) /\ Freed(s) \in Seq(Blocks)
    BY <1>0, FreedFacts DEF TypeOK
  <2>3. Ahead(q, b, c)
    BY <1>7, <2>2, FreeBlocksFacts DEF Supply
  <2>4. Inj(q) /\ Len(q) \in Nat
    BY <1>0, SupplyIsSpare
  <2>5. PICK i \in 1..Len(q), j \in 1..Len(q) : i < j /\ q[i] = b /\ q[j] = c
    BY <2>3 DEF Ahead
  <2>6. IndexIn(q, b) = i /\ IndexIn(q, c) = j
    BY <2>4, <2>5, IndexInNew
  <2> QED
    BY <2>1, <2>5, <2>6
<1> QED
  BY <1>5, <1>6, <1>7

LEMMA AllocateKeepsBacked ==
    ASSUME ReachInv, NEW s \in Slots, NEW n \in Nat \ {0}, Allocate(s, n)
    PROVE  FreePagesAreBacked'
<1>0. HashedInv /\ PoolInv /\ TypeOK /\ flags' = flags
  BY AllocateIs DEF ReachInv, HashedInv, PoolInv
<1> SUFFICES ASSUME ~flags.protect, NEW b \in Blocks, InSeq(b, queue'), hash'[b].group = "page",
                    NEW k \in 1..(Len(hash'[b].prefix) - 1)
             PROVE  \E c \in Blocks : /\ hash'[c] = PageHash(hash'[b].prefix, k)
                                      /\ c \in Held' \/ flags.tailFirst \/ Ahead(queue', b, c)
  BY <1>0 DEF FreePagesAreBacked, IsPage, PageHash
<1> DEFINE q == Supply(s)
<1>1. /\ queue' = Without(q, Fresh(s, n)) /\ q \in Seq(Blocks)
      /\ \A x : InSeq(x, q) <=> InSeq(x, queue) \/ \E m \in Leaving(s) : states[s][m] = x
  BY <1>0, AllocateIs, SupplyIsSpare
<1>2. InSeq(b, q) /\ b \notin Fresh(s, n)
  BY <1>1, WithoutFacts
<1>3. \A x \in Blocks : x \notin Fresh(s, n) => hash'[x] = hash[x]
  BY <1>0, HashesWritten
<1>4. hash'[b] = hash[b] /\ IsPage(b)
  BY <1>2, <1>3 DEF IsPage
<1>5. InSeq(b, queue)
  <2> SUFFICES ASSUME NEW m \in Leaving(s), states[s][m] = b PROVE FALSE
    BY <1>1, <1>2
  <2>1. m \in 1..Len(states[s]) /\ states[s][m] /= Null
    BY <1>0, FreedFacts, NullAssumption DEF Leaving
  <2> QED
    BY <1>0, <1>4, <2>1, StatesAreNotPages
<1>6. PICK c \in Blocks : /\ hash[c] = PageHash(hash[b].prefix, k)
                          /\ c \in Held \/ flags.tailFirst \/ Ahead(queue, b, c)
  BY <1>4, <1>5 DEF ReachInv, FreePagesAreBacked
<1>7. k \in 1..(Len(hash[b].prefix) - 1)
  BY <1>4
<1>8. c \notin Fresh(s, n)
  BY <1>0, <1>4, <1>5, <1>6, <1>7, BackedPageStays
<1>9. hash'[c] = PageHash(hash'[b].prefix, k)
  BY <1>3, <1>4, <1>6, <1>8
<1>10. CASE c \in Held
  <2>1. IsPage(c)
    BY <1>6 DEF IsPage, PageHash
  <2>2. InSeq(c, pages[s]) \/ InSeq(c, states[s]) \/ ~Alone(c, s)
    BY <1>10, HeldIs DEF BlocksOf
  <2>3. ~InSeq(c, states[s])
    BY <1>0, <2>1, StatesAreNotPages, NullAssumption DEF InSeq
  <2>4. c \in Held'
    BY <1>0, <2>2, <2>3, HeldAfterAllocate
  <2> QED
    BY <1>9, <2>4
<1>11. CASE flags.tailFirst
  BY <1>9, <1>11
<1>12. CASE Ahead(queue, b, c)
  <2>1. queue \in Seq(Blocks) /\ Freed(s) \in Seq(Blocks)
    BY <1>0, FreedFacts DEF TypeOK
  <2>2. Ahead(q, b, c)
    BY <1>12, <2>1, FreeBlocksFacts DEF Supply
  <2>3. Ahead(queue', b, c)
    BY <1>1, <1>2, <1>8, <2>2, WithoutFacts
  <2> QED
    BY <1>9, <2>3
<1> QED
  BY <1>6, <1>10, <1>11, <1>12

LEMMA FailureKeepsBacked ==
    ASSUME ReachInv, NEW s \in Slots, NEW n, AllocationFails(s, n)
    PROVE  FreePagesAreBacked'
<1>0. HashedInv /\ PoolInv /\ TypeOK
  BY DEF ReachInv, HashedInv, PoolInv
<1>1. flags' = flags /\ hash' = hash /\ queue' = Supply(s)
  BY <1>0, AllocationFailsIs
<1> SUFFICES ASSUME ~flags.protect, NEW b \in Blocks, InSeq(b, queue'), IsPage(b),
                    NEW k \in 1..(Len(hash[b].prefix) - 1)
             PROVE  \E c \in Blocks : /\ hash[c] = PageHash(hash[b].prefix, k)
                                      /\ c \in Held' \/ flags.tailFirst \/ Ahead(queue', b, c)
  BY <1>1 DEF FreePagesAreBacked, IsPage, PageHash
<1>2. InSeq(b, queue)
  <2> SUFFICES ASSUME NEW m \in Leaving(s), states[s][m] = b PROVE FALSE
    BY <1>0, <1>1, SupplyIsSpare
  <2>1. m \in 1..Len(states[s]) /\ states[s][m] /= Null
    BY <1>0, FreedFacts, NullAssumption DEF Leaving
  <2> QED
    BY <1>0, <2>1, StatesAreNotPages
<1>3. PICK c \in Blocks : /\ hash[c] = PageHash(hash[b].prefix, k)
                          /\ c \in Held \/ flags.tailFirst \/ Ahead(queue, b, c)
  BY <1>2 DEF ReachInv, FreePagesAreBacked
<1>4. c \in Held => c \in Held'
  <2>1. IsPage(c)
    BY <1>3 DEF IsPage, PageHash
  <2>2. ~InSeq(c, states[s])
    BY <1>0, <2>1, StatesAreNotPages, NullAssumption DEF InSeq
  <2>3. c \in Held => InSeq(c, pages[s]) \/ ~Alone(c, s)
    BY <2>2, HeldIs DEF BlocksOf
  <2> QED
    BY <1>0, <2>3, HeldAfterFailure
<1>5. Ahead(queue, b, c) => Ahead(queue', b, c)
  <2>1. queue \in Seq(Blocks) /\ Freed(s) \in Seq(Blocks)
    BY <1>0, FreedFacts DEF TypeOK
  <2> QED
    BY <1>1, <2>1, FreeBlocksFacts DEF Supply
<1> QED
  BY <1>3, <1>4, <1>5

LEMMA ReleaseKeepsBacked ==
    ASSUME ReachInv, NEW s \in Slots, NEW p, Release(s, p)
    PROVE  FreePagesAreBacked'
<1>0. HashedInv /\ PoolInv /\ TypeOK /\ flags' = flags /\ hash' = hash
  BY ReleaseIs DEF ReachInv, HashedInv, PoolInv
<1> SUFFICES ASSUME ~flags.protect, NEW b \in Blocks, InSeq(b, queue'), IsPage(b),
                    NEW k \in 1..(Len(hash[b].prefix) - 1)
             PROVE  \E c \in Blocks : /\ hash[c] = PageHash(hash[b].prefix, k)
                                      /\ c \in Held' \/ flags.tailFirst \/ Ahead(queue', b, c)
  BY <1>0 DEF FreePagesAreBacked, IsPage, PageHash
<1> DEFINE u == Back(pages[s], s)
           v == Back(states[s], s)
           q == FreeBlocks(queue, u)
<1>1. /\ queue' = FreeBlocks(q, v)
      /\ pages' = [pages EXCEPT ![s] = <<>>] /\ states' = [states EXCEPT ![s] = <<>>]
  BY ReleaseIs
<1>2. /\ u \in Seq(Blocks) /\ BackFrom(u, pages[s], Lone(pages[s], s))
      /\ v \in Seq(Blocks) /\ BackFrom(v, states[s], Lone(states[s], s))
      /\ queue \in Seq(Blocks) /\ q \in Seq(Blocks)
  BY <1>0, ReleasedQueue DEF TypeOK
<1>3. \A x \in Blocks : x \in Held' <=> ~Alone(x, s)
  <2>1. \A x : ~InSeq(x, <<>>)
    BY DEF InSeq
  <2> QED
    BY <1>0, <1>1, <2>1, TablesAfter
<1>4. \A x : InSeq(x, v) => ~IsPage(x)
  <2> SUFFICES ASSUME NEW m \in Lone(states[s], s) PROVE ~IsPage(states[s][m])
    BY <1>2 DEF BackFrom
  <2> QED
    BY <1>0, StatesAreNotPages DEF Lone
<1>5. \A x \in Blocks : InSeq(x, u) <=> InSeq(x, pages[s]) /\ Alone(x, s)
  <2>1. \A x : InSeq(x, u) <=> \E m \in Lone(pages[s], s) : pages[s][m] = x
    BY <1>2 DEF BackFrom
  <2> QED
    BY <2>1, NullAssumption DEF Lone, InSeq
<1>6. \A x : InSeq(x, queue') <=> InSeq(x, q) \/ InSeq(x, v)
  BY <1>1, <1>2, FreeBlocksFacts
<1>7. \A x : InSeq(x, q) <=> InSeq(x, queue) \/ InSeq(x, u)
  BY <1>2, FreeBlocksFacts
<1>8. \A x, y : Ahead(q, x, y) => Ahead(queue', x, y)
  BY <1>1, <1>2, FreeBlocksFacts
<1>9. \A x, y : Ahead(queue, x, y) => Ahead(q, x, y)
  BY <1>2, FreeBlocksFacts
<1>10. \A x, y : InSeq(x, queue) /\ InSeq(y, u) /\ hash[y] /= NoHash => Ahead(q, x, y)
  BY <1>2, FreeBlocksFacts
<1>11. \A x, y : Ahead(u, x, y) /\ hash[x] /= NoHash /\ hash[y] /= NoHash => Ahead(q, x, y)
  BY <1>2, FreeBlocksFacts
<1>12. InSeq(b, queue) \/ InSeq(b, u)
  BY <1>4, <1>6, <1>7
<1>13. ASSUME NEW c \in Blocks, hash[c] = PageHash(hash[b].prefix, k) PROVE IsPage(c) /\ hash[c] /= NoHash
  BY <1>0, <1>13, HashIs DEF IsPage, PageHash
<1>14. CASE InSeq(b, queue)
  <2>1. PICK c \in Blocks : /\ hash[c] = PageHash(hash[b].prefix, k)
                            /\ c \in Held \/ flags.tailFirst \/ Ahead(queue, b, c)
    BY <1>14 DEF ReachInv, FreePagesAreBacked
  <2>2. IsPage(c) /\ hash[c] /= NoHash
    BY <1>13, <2>1
  <2>3. ASSUME c \in Held, Alone(c, s) PROVE Ahead(queue', b, c)
    <3>1. InSeq(c, pages[s]) \/ InSeq(c, states[s])
      BY <2>3, HeldIs DEF BlocksOf
    <3>2. ~InSeq(c, states[s])
      BY <1>0, <2>2, StatesAreNotPages, NullAssumption DEF InSeq
    <3>3. InSeq(c, u)
      BY <1>5, <2>3, <3>1, <3>2
    <3> QED
      BY <1>8, <1>10, <1>14, <2>2, <3>3
  <2> QED
    BY <1>3, <1>8, <1>9, <2>1, <2>3
<1>15. CASE InSeq(b, u)
  <2>1. PICK m \in Lone(pages[s], s) : pages[s][m] = b
    BY <1>2, <1>15 DEF BackFrom
  <2>2. m \in 1..Len(pages[s])
    BY <2>1 DEF Lone
  <2>3. /\ Len(hash[b].prefix) = m
        /\ \A l \in 1..m : /\ l \in 1..Len(pages[s]) /\ pages[s][l] \in Blocks
                           /\ hash[pages[s][l]] = PageHash(hash[b].prefix, l)
    BY <1>0, <2>1, <2>2, PagesAreChained
  <2> DEFINE c == pages[s][k]
  <2>4. k \in 1..m /\ k < m /\ k \in 1..Len(pages[s]) /\ c \in Blocks
        /\ hash[c] = PageHash(hash[b].prefix, k)
    BY <2>2, <2>3
  <2>5. CASE ~Alone(c, s)
    BY <1>3, <2>4, <2>5
  <2>6. CASE Alone(c, s)
    <3>1. k \in Lone(pages[s], s)
      BY <2>4, <2>6, NullAssumption DEF Lone
    <3>2. Ahead(u, b, c)
      BY <1>2, <2>1, <2>4, <3>1 DEF BackFrom
    <3>3. hash[b] /= NoHash /\ hash[c] /= NoHash
      BY <1>0, <1>13, <2>4, HashIs
    <3>4. Ahead(queue', b, c)
      BY <1>8, <1>11, <3>2, <3>3
    <3> QED
      BY <2>4, <3>4
  <2> QED
    BY <2>5, <2>6
<1> QED
  BY <1>12, <1>14, <1>15

LEMMA AdmitKeepsBacked ==
    ASSUME ReachInv, NEW s \in Slots, Admit(s)
    PROVE  FreePagesAreBacked'
<1>0. HashedInv /\ PoolInv /\ TypeOK /\ flags' = flags /\ hash' = hash
  BY DEF Admit, ReachInv, HashedInv, PoolInv
<1>1. PICK f \in HitPages(prompt[s]), g \in HitStates(prompt[s]) :
             LET got == {b \in Blocks : InSeq(b, f) \/ InSeq(b, g)}
             IN  /\ pages' = [pages EXCEPT ![s] = f]
                 /\ states' = [states EXCEPT ![s] = g]
                 /\ queue' = Without(queue, got)
                 /\ Mark(got)
  BY DEF Admit
<1> DEFINE got == {c \in Blocks : InSeq(c, f) \/ InSeq(c, g)}
<1>2. /\ \A x : InSeq(x, queue') <=> InSeq(x, queue) /\ x \notin got
      /\ \A x, y : Ahead(queue', x, y) <=> Ahead(queue, x, y) /\ x \notin got /\ y \notin got
  BY <1>0, <1>1, WithoutFacts DEF TypeOK
<1>3. BlocksOf(s) = {}
  <2>1. Len(pages[s]) = 0 /\ Len(states[s]) = 0
    BY <1>0 DEF TypeOK, Admit
  <2> QED
    BY <2>1 DEF BlocksOf, InSeq
<1>4. \A c \in Blocks : c \in Held \/ c \in got => c \in Held'
  <2> TAKE c \in Blocks
  <2>1. c \in Held' <=> InSeq(c, f) \/ InSeq(c, g) \/ ~Alone(c, s)
    BY <1>0, <1>1, TablesAfter
  <2>2. c \in Held <=> ~Alone(c, s)
    BY <1>3, HeldIs
  <2> QED
    BY <2>1, <2>2
<1> HIDE DEF got
<1> SUFFICES ASSUME ~flags.protect, NEW b \in Blocks, InSeq(b, queue'), IsPage(b),
                    NEW k \in 1..(Len(hash[b].prefix) - 1)
             PROVE  \E c \in Blocks : /\ hash[c] = PageHash(hash[b].prefix, k)
                                      /\ c \in Held' \/ flags.tailFirst \/ Ahead(queue', b, c)
  BY <1>0 DEF FreePagesAreBacked, IsPage, PageHash
<1>5. PICK c \in Blocks : /\ hash[c] = PageHash(hash[b].prefix, k)
                          /\ c \in Held \/ flags.tailFirst \/ Ahead(queue, b, c)
  BY <1>2 DEF ReachInv, FreePagesAreBacked
<1> QED
  BY <1>2, <1>4, <1>5

LEMMA StepIsBacked == ReachInv /\ [Next]_vars => ReachInv'
<1> SUFFICES ASSUME ReachInv, [Next]_vars PROVE FreePagesAreBacked'
  BY StepIsHashed DEF ReachInv
<1>0. TypeOK /\ FreePagesAreBacked
  BY DEF ReachInv, HashedInv, PoolInv
<1>1. ASSUME NEW s \in Slots, NEW p, NEW n, Arrive(s, p, n) PROVE FreePagesAreBacked'
  BY <1>0, <1>1 DEF Arrive, FreePagesAreBacked, IsPage, PageHash, Held, BlocksOf
<1>2. ASSUME NEW s \in Slots, Admit(s) PROVE FreePagesAreBacked'
  BY <1>2, AdmitKeepsBacked
<1>3. ASSUME NEW s \in Slots, NEW n \in 1..Len(prompt[s]), Allocate(s, n) PROVE FreePagesAreBacked'
  <2>1. n \in Nat \ {0}
    BY <1>0, PromptFacts
  <2> QED
    BY <1>3, <2>1, AllocateKeepsBacked
<1>4. ASSUME NEW s \in Slots, NEW p, Release(s, p) PROVE FreePagesAreBacked'
  BY <1>4, ReleaseKeepsBacked
<1>5. CASE ResetPrefixCache
  <2>1. hash' = [b \in Blocks |-> NoHash]
    BY <1>5 DEF ResetPrefixCache
  <2>2. NoHash.group = "none" /\ "none" /= "page"
    BY DEF NoHash
  <2>3. \A b \in Blocks : hash'[b].group /= "page"
    BY <2>1, <2>2
  <2> QED
    BY <2>3 DEF FreePagesAreBacked, IsPage
<1>6. CASE UNCHANGED vars
  BY <1>0, <1>6 DEF vars, FreePagesAreBacked, IsPage, PageHash, Held, BlocksOf
<1>7. ASSUME NEW s \in Slots, NEW n, AllocationFails(s, n) PROVE FreePagesAreBacked'
  BY <1>7, FailureKeepsBacked
<1> QED
  BY <1>1, <1>2, <1>3, <1>4, <1>5, <1>6, <1>7 DEF Next

(* Without hot protection every cached page can be hit: whatever is freed, *)
(* preempted, shared or evicted, and in both eviction orders, no page is   *)
(* evicted before the pages that extend it.                                *)
THEOREM CachedPagesStayReachable == Spec => []CachedPagesAreReachable
<1>1. Init => ReachInv
  <2> SUFFICES ASSUME Init PROVE FreePagesAreBacked
    BY InitIsHashed DEF ReachInv
  <2>1. hash = [b \in Blocks |-> NoHash]
    BY DEF Init
  <2>2. NoHash.group = "none" /\ "none" /= "page"
    BY DEF NoHash
  <2> QED
    BY <2>1, <2>2 DEF FreePagesAreBacked, IsPage
<1> QED
  BY <1>1, StepIsBacked, ReachInvImplies, PTL DEF Spec
==============================================================================
