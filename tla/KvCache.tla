------------------------------- MODULE KvCache -------------------------------
(***************************************************************************)
(* The prefix cache as the overlay leaves it.  The block pool, the full    *)
(* attention and the recurrent-state (Mamba, align mode) managers are      *)
(* vLLM's; the overlay decides which free block is spent first             *)
(* (cache_tail_evict.py, hot protection), which requests store nothing     *)
(* (no-store) and how old states are retired across null gaps.  Everything *)
(* runs on the engine's one thread: an action is one call of the manager.  *)
(*                                                                         *)
(* A prompt is a sequence of page contents; a page or a state is known by  *)
(* its group and the prefix it ends, which stands for its hash; the length *)
(* of the prefix is block_hash_num_tokens in pages.                        *)
(***************************************************************************)
EXTENDS Integers, Sequences, FiniteSets

CONSTANTS
    Blocks,       \* blocks of the pool, the null block not among them
    Null,         \* the null block
    Slots,        \* requests there may be at a time
    Prompts,      \* prompts of requests that store
    Batch,        \* prompts of requests of the no-store lane
    Modes         \* settings of CACHE_TAIL_EVICT and CACHE_HOT_PROTECT

(* Page contents are numbered; a request has tokens.                       *)
ASSUME PromptsAssumption == Prompts \cup Batch \subseteq Seq(Nat) \ {<<>>}
ASSUME BlocksAssumption == IsFiniteSet(Blocks)
ASSUME NullAssumption == Null \notin Blocks
ASSUME ModesAssumption == Modes \subseteq [tailFirst : BOOLEAN, protect : BOOLEAN]

VARIABLES
    flags,        \* the environment flags
    queue,        \* free blocks; the eviction end is the front
    hash,         \* what a block is cached as
    reused,       \* _REUSED
    prompt,       \* prompt of the request in a slot, NoPrompt if there is none
    noStore,      \* its skip_writing_prefix_cache
    pages,        \* its blocks of the attention group
    states,       \* its blocks of the state group
    retired,      \* _num_retired_blocks
    hits,         \* blocks hit since they were written, under protection (history)
    unstored      \* blocks written by the no-store request that holds them (history)

vars == <<flags, queue, hash, reused, prompt, noStore, pages, states, retired, hits,
          unstored>>

NoPrompt == <<>>
NoHash == [group |-> "none", prefix |-> <<>>]
PageHash(p, k) == [group |-> "page", prefix |-> SubSeq(p, 1, k)]
StateHash(p, k) == [group |-> "state", prefix |-> SubSeq(p, 1, k)]

InSeq(x, s) == \E k \in 1..Len(s) : s[k] = x
Hashes == {hash[b] : b \in Blocks}
BlocksOf(s) == {b \in Blocks : InSeq(b, pages[s]) \/ InSeq(b, states[s])}
Held == UNION {BlocksOf(s) : s \in Slots}
Running(s) == prompt[s] /= NoPrompt /\ pages[s] /= <<>>

-----------------------------------------------------------------------------
(* The subsequence of s at the places in K.                                *)
Nth(K, j) == CHOOSE k \in K : Cardinality({l \in K : l <= k}) = j
Keep(s, K) == [j \in 1..Cardinality(K) |-> s[Nth(K, j)]]

(* The free-block queue.                                                   *)
Without(q, S) == Keep(q, {k \in 1..Len(q) : q[k] \notin S})
Free(q) == {b \in Blocks : InSeq(b, q)}
IndexIn(q, b) == CHOOSE k \in 1..Len(q) : q[k] = b

(* Mutant: everything is queued behind the rest.                           *)
FreeBlocksBehind(q, bs) == q \o bs

(* BlockPool.free_blocks: what is cached queues at the back, the rest is   *)
(* taken next.                                                             *)
FreeBlocks(q, bs) ==
    Keep(bs, {k \in 1..Len(bs) : hash[bs[k]] = NoHash}) \o q
    \o Keep(bs, {k \in 1..Len(bs) : hash[bs[k]] /= NoHash})

(* Mutants: the hit bit, and the sign of the depth, are forgotten.         *)
RankKeyUnprotected(b, i) ==
    <<IF hash[b] /= NoHash THEN 1 ELSE 0, 0, -Len(hash[b].prefix), i>>
RankKeyShallowFirst(b, i) ==
    <<IF hash[b] /= NoHash THEN 1 ELSE 0, IF b \in reused THEN 1 ELSE 0,
      Len(hash[b].prefix), i>>

(* rank_key, smaller is evicted sooner.                                    *)
RankKey(b, i) ==
    <<IF hash[b] /= NoHash THEN 1 ELSE 0,
      IF flags.protect /\ hash[b] /= NoHash /\ b \in reused THEN 1 ELSE 0,
      -Len(hash[b].prefix), i>>

Smaller(x, y) ==
    \E k \in 1..4 : x[k] < y[k] /\ \A l \in 1..(k - 1) : x[l] = y[l]

(* select_blocks, or the front of the queue with the flag off.             *)
Before(q, b, c) ==
    IF flags.tailFirst
    THEN Smaller(RankKey(b, IndexIn(q, b)), RankKey(c, IndexIn(q, c)))
    ELSE IndexIn(q, b) < IndexIn(q, c)
Place(q, b) == 1 + Cardinality({c \in Free(q) : Before(q, c, b)})
SelectBlocks(q, n) == [k \in 1..n |-> CHOOSE b \in Free(q) : Place(q, b) = k]

-----------------------------------------------------------------------------
(* Lookups.                                                                *)
Cached(h) == h \in Hashes

(* The longest hit both groups have; the last token is always computed,    *)
(* and the state group only needs the state at the end of the hit.         *)
HitLengths(p) ==
    {k \in 1..(Len(p) - 1) : (\A l \in 1..k : Cached(PageHash(p, l))) /\ Cached(StateHash(p, k))}
Hit(p) == IF HitLengths(p) = {} THEN 0
          ELSE CHOOSE k \in HitLengths(p) : \A l \in HitLengths(p) : l <= k
(* Any of several blocks cached alike may be found.                        *)
HitPages(p) ==
    {f \in [1..Hit(p) -> Blocks] : \A k \in 1..Hit(p) : hash[f[k]] = PageHash(p, k)}
HitStates(p) ==
    {[k \in 1..Hit(p) |-> IF k = Hit(p) THEN b ELSE Null] :
        b \in {c \in Blocks : hash[c] = StateHash(p, Hit(p))}}

-----------------------------------------------------------------------------
Init ==
    /\ flags \in Modes
    /\ queue \in {q \in [1..Cardinality(Blocks) -> Blocks] : Free(q) = Blocks}
    /\ hash = [b \in Blocks |-> NoHash]
    /\ reused = {}
    /\ prompt = [s \in Slots |-> NoPrompt]
    /\ noStore = [s \in Slots |-> FALSE]
    /\ pages = [s \in Slots |-> <<>>]
    /\ states = [s \in Slots |-> <<>>]
    /\ retired = [s \in Slots |-> 0]
    /\ hits = {}
    /\ unstored = {}

(* A request is queued; its no-store flag is resolved once.                *)
Arrive(s, p, n) ==
    /\ prompt[s] = NoPrompt
    /\ p \in (IF n THEN Batch ELSE Prompts)
    /\ prompt' = [prompt EXCEPT ![s] = p]
    /\ noStore' = [noStore EXCEPT ![s] = n]
    /\ UNCHANGED <<flags, queue, hash, reused, pages, states, retired, hits, unstored>>

(* The mark of a hit.                                                      *)
Mark(S) ==
    /\ reused' = IF flags.protect THEN reused \cup {b \in S : hash[b] /= NoHash} ELSE reused
    /\ hits' = IF flags.protect THEN hits \cup S ELSE hits

(* Admission: the hit's blocks are looked up, touched and marked.          *)
Admit(s) ==
    LET p == prompt[s]
    IN  /\ p /= NoPrompt /\ pages[s] = <<>> /\ Hit(p) > 0
        /\ \E f \in HitPages(p), g \in HitStates(p) :
             LET got == {b \in Blocks : InSeq(b, f) \/ InSeq(b, g)}
             IN  /\ pages' = [pages EXCEPT ![s] = f]
                 /\ states' = [states EXCEPT ![s] = g]
                 /\ queue' = Without(queue, got)
                 /\ Mark(got)
        /\ UNCHANGED <<flags, hash, prompt, noStore, retired, unstored>>

-----------------------------------------------------------------------------
(* Mutant: one state more is forgotten than is freed.                       *)
RetiresOneMore(s, last) ==
    {k \in (retired[s] + 1)..Len(states[s]) : k <= last + 1 /\ states[s][k] /= Null}

(* _remove_blocks_in_range, align mode: every state before the last one    *)
(* that was computed, null gaps skipped.                                   *)
Retires(s, last) ==
    {k \in (retired[s] + 1)..last : states[s][k] /= Null}

(* The first n members of s, the last of them first.                       *)
Backwards(s, n) == [k \in 1..n |-> s[n + 1 - k]]

(* Evicted blocks lose their hash, and with it their mark.                 *)
(* Mutant: the mark outlives the hash.                                     *)
ClearReusedNot(S) == reused
ClearReused(S) == reused \ S

(* Mutant: a no-store request's pages are hashed like any other's.         *)
StoresAlways(s) == TRUE
(* cache_full_blocks: the hash of a new block, unless the request stores   *)
(* nothing; null blocks have none.                                         *)
Stores(s) == ~noStore[s]

(* remove_skipped_blocks: the states before the one that is computed from, *)
(* and the queue after those that nobody else holds are freed.             *)
Last(s) == IF Len(pages[s]) = 0 THEN 0 ELSE Len(pages[s]) - 1
Old(s) == Retires(s, Last(s))
Alone(b, s) == b \notin UNION {BlocksOf(t) : t \in Slots \ {s}}
Freed(s) ==
    Keep(Backwards(states[s], Last(s)),
         {k \in 1..Last(s) : Last(s) + 1 - k \in Old(s) /\ Alone(states[s][Last(s) + 1 - k], s)})
Supply(s) == FreeBlocks(queue, Freed(s))
NoteRetired(s) == retired' = [retired EXCEPT ![s] = IF Last(s) > @ THEN Last(s) ELSE @]

(* The next n pages of a request are to be computed.                       *)
Wants(s, n) ==
    /\ prompt[s] /= NoPrompt /\ Len(pages[s]) + n <= Len(prompt[s])
    /\ Len(pages[s]) = 0 => Hit(prompt[s]) = 0

(* allocate_slots for the next n pages of a request: obsolete states are   *)
(* freed, victims are selected, evicted and written, the new full blocks   *)
(* are cached.  The state of the chunk's end is the only one of it.        *)
Allocate(s, n) ==
    LET p == prompt[s]
        done == Len(pages[s])
        new == SelectBlocks(Supply(s), n + 1)
        fresh == {new[k] : k \in 1..(n + 1)}
    IN  /\ Wants(s, n)
        /\ n + 1 <= Cardinality(Free(Supply(s)))
        /\ pages' = [pages EXCEPT ![s] = @ \o SubSeq(new, 1, n)]
        /\ states' = [states EXCEPT ![s] =
             [k \in 1..(done + n) |-> IF k \in Old(s) THEN Null
                                      ELSE IF k <= done THEN states[s][k]
                                      ELSE IF k = done + n THEN new[n + 1] ELSE Null]]
        /\ NoteRetired(s)
        /\ queue' = Without(Supply(s), fresh)
        /\ hash' = [b \in Blocks |->
             IF b \notin fresh THEN hash[b]
             ELSE IF ~Stores(s) THEN NoHash
             ELSE IF b = new[n + 1] THEN StateHash(p, done + n)
             ELSE PageHash(p, done + IndexIn(new, b))]
        /\ reused' = ClearReused(fresh)
        /\ unstored' = IF noStore[s] THEN unstored \cup fresh ELSE unstored \ fresh
        /\ hits' = hits \ fresh
        /\ UNCHANGED <<flags, prompt, noStore>>

(* There are too few blocks: None is returned, after the states were freed. *)
AllocationFails(s, n) ==
    /\ Wants(s, n)
    /\ n + 1 > Cardinality(Free(Supply(s)))
    /\ states' = [states EXCEPT ![s] = [k \in 1..Len(@) |-> IF k \in Old(s) THEN Null ELSE @[k]]]
    /\ NoteRetired(s)
    /\ queue' = Supply(s)
    /\ UNCHANGED <<flags, hash, reused, prompt, noStore, pages, hits, unstored>>

(* Mutant: the scanned prefix of a preempted request is kept.              *)
ForgetRetiredNot(s) == retired
ForgetRetired(s) == [retired EXCEPT ![s] = 0]

(* The request ends or is preempted: its blocks are freed, the last page   *)
(* of it first, and so are its states.                                     *)
Release(s, p) ==
    LET alone(b) == b /= Null /\ b \notin UNION {BlocksOf(t) : t \in Slots \ {s}}
        back(seq) == Keep(Backwards(seq, Len(seq)),
                          {k \in 1..Len(seq) : alone(seq[Len(seq) + 1 - k])})
    IN  /\ Running(s)
        /\ p \in {prompt[s], NoPrompt}
        /\ prompt' = [prompt EXCEPT ![s] = p]
        /\ noStore' = [noStore EXCEPT ![s] = @ /\ p /= NoPrompt]
        /\ queue' = FreeBlocks(FreeBlocks(queue, back(pages[s])), back(states[s]))
        /\ pages' = [pages EXCEPT ![s] = <<>>]
        /\ states' = [states EXCEPT ![s] = <<>>]
        /\ retired' = ForgetRetired(s)
        /\ unstored' = unstored \ BlocksOf(s)
        /\ UNCHANGED <<flags, hash, reused, hits>>

(* /reset_prefix_cache: refused while a request holds blocks.              *)
ResetPrefixCache ==
    /\ Held = {}
    /\ hash' = [b \in Blocks |-> NoHash]
    /\ reused' = ClearReused({b \in Blocks : hash[b] /= NoHash})
    /\ hits' = {}
    /\ UNCHANGED <<flags, queue, prompt, noStore, pages, states, retired, unstored>>

Next ==
    \/ \E s \in Slots, p \in Prompts \cup Batch, n \in BOOLEAN : Arrive(s, p, n)
    \/ \E s \in Slots : Admit(s)
    \/ \E s \in Slots : \E n \in 1..Len(prompt[s]) : Allocate(s, n) \/ AllocationFails(s, n)
    \/ \E s \in Slots : \E p \in {prompt[s], NoPrompt} : Release(s, p)
    \/ ResetPrefixCache

Spec == Init /\ [][Next]_vars

-----------------------------------------------------------------------------
HashesAreTyped ==
    hash \in [Blocks -> [group : {"none", "page", "state"}, prefix : Seq(Nat)]]

TypeOK ==
    /\ flags \in Modes
    /\ queue \in Seq(Blocks)
    /\ HashesAreTyped
    /\ reused \subseteq Blocks /\ hits \subseteq Blocks /\ unstored \subseteq Blocks
    /\ prompt \in [Slots -> Prompts \cup Batch \cup {NoPrompt}]
    /\ noStore \in [Slots -> BOOLEAN]
    /\ pages \in [Slots -> Seq(Blocks)]
    /\ states \in [Slots -> Seq(Blocks \cup {Null})]
    /\ retired \in [Slots -> Nat]
    /\ \A s \in Slots : Len(pages[s]) = Len(states[s]) /\ Len(pages[s]) <= Len(prompt[s])
    /\ \A s \in Slots : retired[s] <= Len(states[s])

(* No block is lost or freed twice, whatever requests share, retire,       *)
(* preempt and evict: the free blocks are those no request holds.          *)
PoolIsConserved ==
    /\ Free(queue) = Blocks \ Held
    /\ Len(queue) = Cardinality(Free(queue))

(* A block that is protected still holds the tokens that were hit.         *)
MarksAreCurrent == \A b \in reused : b \in Blocks /\ hash[b] /= NoHash /\ b \in hits

(* No hit can ever be served from what a no-store request wrote.           *)
NoStoreIsNeverServed == \A b \in Blocks : b \in unstored => hash[b] = NoHash

(* Without hot protection every cached page can be hit: the pages before it *)
(* are cached too.                                                         *)
CachedPagesAreReachable ==
    ~flags.protect => \A h \in Hashes : h.group = "page" =>
        \A k \in 1..Len(h.prefix) : Cached(PageHash(h.prefix, k))

(* A request keeps the state it computes from and the one it computes,     *)
(* and no older one, also after a preemption and across null gaps.         *)
ObsoleteStatesAreFreed ==
    \A s \in Slots : Cardinality({k \in 1..Len(states[s]) : states[s][k] /= Null}) <= 2

Evicted == {b \in Blocks : hash[b] /= NoHash /\ hash'[b] /= hash[b]}
StillFree == {b \in Blocks : InSeq(b, queue')}

(* A cached block is spent only when every free block without a hash has   *)
(* been, states that were retired in the same call included.               *)
CachedIsSpentLast ==
    [][~ResetPrefixCache /\ Evicted /= {} => \A b \in StillFree : hash'[b] /= NoHash]_vars

(* A block that was hit is spent only when every one-shot block has been.  *)
HitIsSpentLast ==
    [][~ResetPrefixCache /\ flags.tailFirst /\ flags.protect /\ Evicted \cap reused /= {}
       => StillFree \subseteq reused]_vars
=============================================================================
