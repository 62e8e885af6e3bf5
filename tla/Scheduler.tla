------------------------------ MODULE Scheduler ------------------------------
(***************************************************************************)
(* The engine's schedule() with the four edits this kit makes to it: the   *)
(* mixed-prefill gate (overlay/patch_scheduler_decode_floor.py, helper     *)
(* v3.1), the align floor (patch_align_floor.py), the in-flight prefix     *)
(* hold (patch_prefix_admit.py) and the resident-tail deferral             *)
(* (patch_resident_tail.py).  The loop around them is vLLM's, modelled     *)
(* from the call sites the edits anchor on.                                *)
(*                                                                         *)
(* One engine step is StartStep, one visit per running request, one visit  *)
(* per waiting request and EndStep, which stands for the end of schedule(),*)
(* the forward pass and the update from its output.  Between steps         *)
(* requests arrive, finish or are aborted, and cached pages are evicted.   *)
(* A step takes one unit of time.                                          *)
(***************************************************************************)
EXTENDS Integers, Sequences, FiniteSets, FiniteSetsExt, SequencesExt

CONSTANTS
    Req,            \* requests
    PromptIds,      \* PromptIds[r]: prompt_token_ids
    Page,           \* block_size
    HashPage,       \* hash_block_size
    Budget,         \* max_num_scheduled_tokens
    MaxRunning,     \* max_num_running_reqs
    Lptt,           \* long_prefill_token_threshold
    MixedCap,       \* GLM53_MIXED_PREFILL_CHUNK: NoCap = off, 0 = skip, N = cap
    WarmTokens,     \* GLM53_MIXED_PREFILL_WARM_TOKENS
    MaxWait,        \* GLM53_MIXED_PREFILL_MAX_WAIT_MS, in steps
    LateCap,        \* GLM53_MIXED_PREFILL_LATE_CAP
    LateCapMax,     \* GLM53_MIXED_PREFILL_LATE_CAP_MAX
    Escalate,       \* GLM53_MIXED_PREFILL_ESCALATE_MS, in steps
    LateHorizon,    \* bound on a crawl's age: the cap is at its maximum there
    AlignFloor,     \* GLM53_ALIGN_FLOOR
    PartialHit,     \* mamba_partial_cache_hit
    TailPage,       \* GLM53_RESIDENT_TAIL_PAGE
    TailTokens,     \* GLM53_RESIDENT_TAIL_TOKENS
    TailSteps,      \* GLM53_RESIDENT_TAIL_STEPS
    TailScan,       \* waiters the tail scan looks at (4)
    DeferFloor,     \* remainder up to which a prefill is never deferred (64)
    MaxOut,         \* bound on the length of an answer that is told apart
    MaxPreempt      \* bound on preemptions and refused allocations

NoCap == -1
None == -1
Prompt(r) == Len(PromptIds[r])

ASSUME SizesAssumption ==
    /\ \A r \in Req : PromptIds[r] \in Seq(Nat) /\ Prompt(r) > 0
    /\ {Page, HashPage, Budget, MaxRunning, Lptt, LateCap, LateCapMax, TailPage,
        TailTokens, TailSteps, TailScan, MaxOut} \subseteq Nat \ {0}
    /\ {WarmTokens, MaxWait, Escalate, LateHorizon, DeferFloor, MaxPreempt} \subseteq Nat
    /\ MixedCap \in Nat \cup {NoCap}
    /\ AlignFloor \in BOOLEAN /\ PartialHit \in BOOLEAN
    /\ Escalate > 0 => LateCap * 2^(LateHorizon \div Escalate) >= LateCapMax

VARIABLES
    life,       \* "new", "live" or "done"
    waiting, skipped, running,  \* the scheduler's queues
    computed,   \* num_computed_tokens
    out,        \* generated tokens, saturating at MaxOut
    cached,     \* page-aligned prefixes whose last page is hashed and resident
    states,     \* page-aligned prefixes whose recurrent state is cached
    spc,        \* "idle", "running", "waiting", "end": where schedule() is
    idx,        \* req_index
    budget,     \* token_budget
    sched,      \* num_scheduled_tokens of this step
    held,       \* step_skipped_waiting, in visiting order
    preempted,  \* this step preempted someone
    preempts,   \* preemptions and refused allocations so far
    seen,       \* gate: age of first_seen, saturating, or None
    late,       \* gate: age of late_at, saturating, or None
    last,       \* gate: last_computed
    tail,       \* _glm53_resident_tail
    defers,     \* _glm53_resident_tail_defers
    passed,     \* history: visits that gave a request nothing, since its last token
    admitted    \* history: the cache hit of a request's last admission

queues == <<waiting, skipped, running>>
step   == <<spc, idx, budget, sched, held, preempted>>
gate   == <<seen, late, last>>
vars   == <<life, waiting, skipped, running, computed, out, cached, states, spc, idx,
            budget, sched, held, preempted, preempts, seen, late, last,
            tail, defers, passed, admitted>>

NumTokens(r) == Prompt(r) + out[r]
Decoding(r) == computed[r] >= Prompt(r)

TypeOK ==
    /\ life \in [Req -> {"new", "live", "done"}]
    /\ \A q \in {waiting, skipped, running, held} : IsInjective(q)
    /\ \A r \in Req : life[r] = "live" <=>
           r \in Range(waiting) \cup Range(skipped) \cup Range(running) \cup Range(held)
    /\ \A r \in Req : computed[r] \in 0..(NumTokens(r) - 1)
    /\ out \in [Req -> 0..MaxOut]
    /\ spc \in {"idle", "running", "waiting", "end"}
    /\ idx \in 1..(Len(running) + 1)
    /\ budget \in 0..Budget
    /\ sched \in [Req -> 0..Budget]
    /\ preempts \in 0..MaxPreempt
    /\ seen \in [Req -> None..MaxWait]
    /\ late \in [Req -> None..LateHorizon]
    /\ tail \in [Req -> {0, 1}]
    /\ defers \in [Req -> 0..TailSteps]
    /\ passed \in [Req -> 0..(MaxWait + TailSteps + 1)]

Init ==
    /\ life = [r \in Req |-> "new"]
    /\ waiting = <<>> /\ skipped = <<>> /\ running = <<>>
    /\ computed = [r \in Req |-> 0]
    /\ out = [r \in Req |-> 0]
    /\ cached = {} /\ states = {}
    /\ spc = "idle"
    /\ idx = 1
    /\ budget = 0
    /\ sched = [r \in Req |-> 0]
    /\ held = <<>>
    /\ preempted = FALSE
    /\ preempts = 0
    /\ seen = [r \in Req |-> None]
    /\ late = [r \in Req |-> None]
    /\ last = [r \in Req |-> 0]
    /\ tail = [r \in Req |-> 0]
    /\ defers = [r \in Req |-> 0]
    /\ passed = [r \in Req |-> 0]
    /\ admitted = [r \in Req |-> 0]

Lower(a, b) == IF a < b THEN a ELSE b
Upper(a, b) == IF a > b THEN a ELSE b
Floor(n, unit) == (n \div unit) * unit

-----------------------------------------------------------------------------
(***************************************************************************)
(* Prefix cache                                                            *)
(***************************************************************************)

Prefix(r, n) == SubSeq(PromptIds[r], 1, n)

\* The pages of r's prompt that the first n tokens fill.
PagesUpTo(r, n) ==
    {Prefix(r, k * Page) : k \in 1..(Lower(n, Prompt(r)) \div Page)}

\* The recurrent state a chunk that ends at n leaves behind: one at a page's
\* end is hashed like the page.
Checkpoint(r, n) == {p \in PagesUpTo(r, n) : Len(p) = n}

\* find_longest_cache_hit over both groups, capped below the last token, which
\* is recomputed: all pages up to it, and the recurrent state at its end.
CacheHit(r) ==
    Max({n \in {k * Page : k \in 0..(Lower(NumTokens(r) - 1, Prompt(r)) \div Page)} :
            PagesUpTo(r, n) \subseteq cached /\ Checkpoint(r, n) \subseteq states})

-----------------------------------------------------------------------------
(***************************************************************************)
(* The in-flight prefix hold (patch_prefix_admit.py)                       *)
(***************************************************************************)

HoldGrid == Upper(Page, HashPage)

\* _glm53_aligned_prefix_tokens
Share(r, q) ==
    Floor(Len(LongestCommonPrefix({PromptIds[r], PromptIds[q]})), HoldGrid)

Partners(r) == {q \in Range(running) \ {r} : Share(r, q) > 0}
Published(q) == Floor(computed[q], HoldGrid)

\* A plausible slip: any partner that has published its share releases the
\* waiter, also when a longer share is in flight.
HoldUntilAnyReady(r) ==
    LET best == Max({0} \cup {Share(r, q) : q \in Partners(r)})
        ready == \E q \in Partners(r) : Published(q) >= Share(r, q)
    IN IF best > 0 /\ ~ready THEN best ELSE 0

\* The longest share still in flight, as _glm53_hold_for_inflight_prefix
\* returns it; 0 admits.
HoldForInflightPrefix(r) ==
    LET best == Max({0} \cup {Share(r, q) : q \in Partners(r)})
        ready == \E q \in Partners(r) : Share(r, q) = best /\ Published(q) >= best
    IN IF best > 0 /\ ~ready THEN best ELSE 0

-----------------------------------------------------------------------------
(***************************************************************************)
(* The resident tail (patch_resident_tail.py)                              *)
(***************************************************************************)

IsResidentTail(c, prompt) ==
    c >= TailPage /\ prompt - c \in 1..TailTokens

\* A plausible slip: a stamp is set and never cleared.
NoteResidentTailSticky(r, hit) ==
    tail' = [tail EXCEPT ![r] = IF IsResidentTail(hit, Prompt(r)) THEN 1 ELSE @]

\* The stamp of a fresh admission, cleared when it does not qualify.  A waiter
\* has no computed tokens, preemption having reset them, so the helper's early
\* return for one that has is never taken.
NoteResidentTail(r, hit) ==
    tail' = [tail EXCEPT ![r] = IF IsResidentTail(hit, Prompt(r)) THEN 1 ELSE 0]

TailStillOpen(r, c) == tail[r] = 1 /\ IsResidentTail(c, Prompt(r))

\* One of the first waiters, in waiting order then skipped order, is an
\* unblocked resident tail.
HasWaitingResidentTail ==
    LET waiters == waiting \o skipped
    IN \E i \in 1..Lower(Len(waiters), TailScan) :
           /\ HoldForInflightPrefix(waiters[i]) = 0
           /\ IsResidentTail(CacheHit(waiters[i]), Prompt(waiters[i]))

\* A plausible slip: the step cap is not applied.
DefersColdUncapped(r) ==
    /\ ~TailStillOpen(r, computed[r])
    /\ Prompt(r) - computed[r] > DeferFloor
    /\ \/ \E q \in Range(running) \ {r} : TailStillOpen(q, computed[q])
       \/ Len(running) < MaxRunning /\ HasWaitingResidentTail

\* _glm53_defer_cold_for_resident_tail, with _glm53_should_defer_cold.
DefersCold(r) ==
    /\ ~TailStillOpen(r, computed[r])
    /\ Prompt(r) - computed[r] > DeferFloor
    /\ defers[r] < TailSteps
    /\ \/ \E q \in Range(running) \ {r} : TailStillOpen(q, computed[q])
       \/ Len(running) < MaxRunning /\ HasWaitingResidentTail

-----------------------------------------------------------------------------
(***************************************************************************)
(* The mixed-prefill gate (patch_scheduler_decode_floor.py, v3.1)          *)
(***************************************************************************)

MixedPrefillPolicy(r) ==
    IF \E q \in Range(running) \ {r} : Decoding(q) THEN MixedCap ELSE NoCap

\* The late cap doubles every Escalate steps of the crawl, eight times at most.
LateCapAt(age) ==
    LET shift == <<1, 2, 4, 8, 16, 32, 64, 128, 256>>
    IN IF Escalate = 0 THEN LateCap
       ELSE Lower(LateCapMax, LateCap * shift[Lower(age \div Escalate, 8) + 1])

\* A plausible slip (the gate before its warm bypass): the remainder is not
\* looked at, so a decoding request is gated like a prefill.
GateWithoutBypass(r, c) ==
    LET policy == MixedPrefillPolicy(r)
        seen1 == IF seen[r] = None THEN 0 ELSE seen[r]
    IN [cap |-> IF policy = 0 /\ seen1 >= MaxWait THEN LateCap ELSE policy,
        seen |-> IF policy = 0 THEN seen1 ELSE seen[r],
        late |-> late[r], last |-> c]

\* A plausible slip: the age of the hold is dropped with the crawl when a
\* preempted request is rolled back.
GateRestampsHold(r, c) ==
    LET remaining == NumTokens(r) - c
        policy == MixedPrefillPolicy(r)
        seen1 == IF seen[r] = None \/ c <= last[r] THEN 0 ELSE seen[r]
        exempt == remaining <= WarmTokens \/ policy # 0 \/ MaxWait = 0
    IN [cap |-> IF remaining <= WarmTokens THEN NoCap
                ELSE IF exempt \/ seen1 < MaxWait THEN policy ELSE LateCap,
        seen |-> IF exempt THEN seen[r] ELSE seen1,
        late |-> late[r], last |-> c]

\* What the gate answers for r at c computed tokens, and the state it leaves
\* on the request: a roll-back (c below last_computed) ends the crawl but
\* not the hold's age.
Gate(r, c) ==
    LET remaining == NumTokens(r) - c
        policy == MixedPrefillPolicy(r)
        known  == seen[r] # None
        late0  == IF known /\ c < last[r] THEN None ELSE late[r]
        seen1  == IF known THEN seen[r] ELSE 0
        late1  == IF late0 = None THEN 0 ELSE late0
        exempt == remaining <= WarmTokens \/ policy # 0 \/ MaxWait = 0
    IN CASE remaining <= 0 ->
              [cap |-> NoCap, seen |-> seen[r], late |-> late[r], last |-> last[r]]
         [] remaining > 0 /\ exempt ->
              [cap |-> IF remaining <= WarmTokens THEN NoCap ELSE policy,
               seen |-> seen[r], late |-> late0,
               last |-> IF known THEN c ELSE last[r]]
         [] remaining > 0 /\ ~exempt /\ seen1 < MaxWait ->
              [cap |-> 0, seen |-> seen1, late |-> late0, last |-> c]
         [] remaining > 0 /\ ~exempt /\ seen1 >= MaxWait ->
              [cap |-> Upper(Lower(LateCapAt(late1), remaining), 1),
               seen |-> seen1, late |-> late1, last |-> c]

KeepGate(r, g) ==
    /\ seen' = [seen EXCEPT ![r] = g.seen]
    /\ late' = [late EXCEPT ![r] = g.late]
    /\ last' = [last EXCEPT ![r] = g.last]

Capped(n, cap) == IF cap = NoCap THEN n ELSE Lower(n, cap)

-----------------------------------------------------------------------------
(***************************************************************************)
(* The chunk a visit asks for                                              *)
(***************************************************************************)

\* The long-prefill cap, not applied to an open tail.
LongPrefillCap(n, open) == IF ~open THEN Lower(n, Lptt) ELSE n

\* A plausible slip: the split is always to a page boundary.
AlignedSplitToNothing(r, start, n) ==
    IF start + n < Prompt(r) THEN Upper(Floor(start + n, Page) - start, 0) ELSE n

\* _mamba_block_aligned_split: the chunk of r from `start`, cut to where
\* Mamba state must be cached; never to nothing when the align floor is on.
AlignedSplit(r, start, n) ==
    LET prefillEnd == Upper(Prompt(r), NumTokens(r) - 1)
        maxPrefill == Lower(Budget, Lptt)
        alignedEnd == Floor(start + n, Page)
        end == IF /\ start + n < prefillEnd
                  /\ alignedEnd > start \/ (Page <= maxPrefill /\ ~AlignFloor)
               THEN alignedEnd ELSE start + n
        lastCache == Floor(NumTokens(r), Page)
        tailBoundary == IF PartialHit THEN Floor(Prompt(r) - 1, HashPage) ELSE 0
        stops == {IF start % Page # 0 THEN Floor(start, Page) + Page ELSE 0,
                  lastCache,
                  IF lastCache < tailBoundary THEN tailBoundary ELSE 0}
        cuts == {s \in stops : start < s /\ s < end}
    IN IF start >= prefillEnd THEN n
       ELSE Upper(IF cuts = {} THEN end - start ELSE Min(cuts) - start, 0)

-----------------------------------------------------------------------------
(***************************************************************************)
(* One engine step                                                         *)
(***************************************************************************)

StartStep ==
    /\ spc = "idle"
    /\ waiting \o skipped \o running # <<>>
    /\ spc' = "running"
    /\ idx' = 1
    /\ budget' = Budget
    /\ sched' = [r \in Req |-> 0]
    /\ held' = <<>>
    /\ preempted' = FALSE
    /\ UNCHANGED <<life, queues, computed, out, cached, states, preempts, gate, tail,
                   defers, passed, admitted>>

\* A visit that gives r nothing; counted up to one past the bound.
PassOver(r) == passed' = [passed EXCEPT ![r] = Lower(@, MaxWait + TailSteps) + 1]

\* A cold prefill leaves this step to a resident tail.
DeferCold ==
    /\ spc = "running" /\ idx <= Len(running) /\ budget > 0
    /\ LET r == running[idx]
       IN /\ DefersCold(r)
          /\ defers' = [defers EXCEPT ![r] = @ + 1]
          /\ PassOver(r)
    /\ idx' = idx + 1
    /\ UNCHANGED <<life, queues, computed, out, cached, states, spc, budget, sched, held,
                   preempted, preempts, gate, tail, admitted>>

\* allocate_slots succeeds for r after the last k of the running queue were
\* preempted; pages are hashed as they are allocated.
AllocatePreempting(r, n, k) ==
    LET keep == Len(running) - k
        victims == SubSeq(running, keep + 1, Len(running))
    IN /\ preempts + k <= MaxPreempt
       /\ preempts' = preempts + k
       /\ preempted' = (preempted \/ k > 0)
       /\ running' = SubSeq(running, 1, keep)
       /\ waiting' = victims \o waiting
       /\ computed' = [q \in Req |-> IF q \in Range(victims) THEN 0 ELSE computed[q]]
       /\ IF r \in Range(victims)
          THEN /\ spc' = "end"
               /\ UNCHANGED <<idx, budget, sched, cached, states, passed>>
          ELSE /\ sched' = [sched EXCEPT ![r] = n]
               /\ budget' = budget - n
               /\ idx' = idx + 1
               /\ cached' = cached \cup PagesUpTo(r, computed[r] + n)
               /\ states' = states \cup Checkpoint(r, computed[r] + n)
               /\ passed' = [passed EXCEPT ![r] = 0]
               /\ UNCHANGED spc

\* The running loop's visit to a request that is not deferred.
VisitRunning ==
    /\ spc = "running" /\ idx <= Len(running) /\ budget > 0
    /\ LET r == running[idx]
           c == computed[r]
           g == Gate(r, c)
           n0 == Lower(LongPrefillCap(NumTokens(r) - c, TailStillOpen(r, c)), budget)
           n == AlignedSplit(r, c, Capped(n0, g.cap))
       IN /\ ~DefersCold(r)
          /\ KeepGate(r, g)
          /\ \/ /\ n = 0
                /\ idx' = idx + 1
                /\ PassOver(r)
                /\ UNCHANGED <<running, waiting, computed, spc, budget, sched,
                               cached, states, preempted, preempts>>
             \/ /\ n > 0
                /\ \E k \in 0..(Len(running) - idx + 1) : AllocatePreempting(r, n, k)
    /\ UNCHANGED <<life, skipped, out, held, tail, defers, admitted>>

\* No waiting request is looked at in a step that preempted.
EndRunning ==
    /\ spc = "running"
    /\ idx > Len(running) \/ budget = 0
    /\ spc' = IF preempted THEN "end" ELSE "waiting"
    /\ UNCHANGED <<life, queues, computed, out, cached, states, idx, budget, sched, held,
                   preempted, preempts, gate, tail, defers, passed, admitted>>

MoreWaiting ==
    /\ waiting # <<>> \/ skipped # <<>>
    /\ budget > 0
    /\ Len(running) < MaxRunning

\* The next waiter, from the skipped queue first, and the queues without it.
NextWaiter == IF skipped # <<>> THEN Head(skipped) ELSE Head(waiting)
PopWaiter ==
    IF skipped # <<>>
    THEN skipped' = Tail(skipped) /\ UNCHANGED waiting
    ELSE waiting' = Tail(waiting) /\ UNCHANGED skipped

\* A waiter whose longest shared page is still in flight is set aside.
HoldWaiter ==
    /\ spc = "waiting" /\ MoreWaiting
    /\ HoldForInflightPrefix(NextWaiter) > 0
    /\ PopWaiter
    /\ held' = Append(held, NextWaiter)
    /\ UNCHANGED <<life, running, computed, out, cached, states, spc, idx, budget, sched,
                   preempted, preempts, gate, tail, defers, passed, admitted>>

\* The waiting loop's visit: lookup, tail stamp, gate, split, allocation.
\* An empty split or a failed allocation ends the loop.
VisitWaiting ==
    /\ spc = "waiting" /\ MoreWaiting
    /\ LET r == NextWaiter
           hit == CacheHit(r)
           g == Gate(r, hit)
           n0 == LongPrefillCap(NumTokens(r) - hit, IsResidentTail(hit, Prompt(r)))
           n == AlignedSplit(r, hit, Lower(Capped(n0, g.cap), budget))
       IN /\ HoldForInflightPrefix(r) = 0
          /\ NoteResidentTail(r, hit)
          /\ KeepGate(r, g)
          /\ \/ /\ g.cap = 0
                /\ PopWaiter
                /\ held' = Append(held, r)
                /\ PassOver(r)
                /\ UNCHANGED <<running, computed, spc, budget, sched, cached, states,
                               preempts, admitted>>
             \/ /\ g.cap # 0 /\ n = 0
                /\ spc' = "end"
                /\ PassOver(r)
                /\ UNCHANGED <<queues, computed, budget, sched, held, cached, states,
                               preempts, admitted>>
             \/ /\ g.cap # 0 /\ n > 0 /\ preempts < MaxPreempt
                /\ spc' = "end"
                /\ preempts' = preempts + 1
                /\ UNCHANGED <<queues, computed, budget, sched, held, cached, states,
                               passed, admitted>>
             \/ /\ g.cap # 0 /\ n > 0
                /\ PopWaiter
                /\ running' = Append(running, r)
                /\ computed' = [computed EXCEPT ![r] = hit]
                /\ sched' = [sched EXCEPT ![r] = n]
                /\ budget' = budget - n
                /\ cached' = cached \cup PagesUpTo(r, hit + n)
                /\ states' = states \cup Checkpoint(r, hit + n)
                /\ passed' = [passed EXCEPT ![r] = 0]
                /\ admitted' = [admitted EXCEPT ![r] = hit]
                /\ UNCHANGED <<spc, held, preempts>>
    /\ UNCHANGED <<life, out, idx, preempted, defers>>

Age(a, max) == IF a = None \/ a = max THEN a ELSE a + 1

\* The loop is over: the skipped ones go back in their order, the step runs,
\* and a request whose last known token was computed gets its next one.
EndStep ==
    /\ spc = "end" \/ (spc = "waiting" /\ ~MoreWaiting)
    /\ LET answers == {r \in Req : sched[r] > 0 /\ computed[r] + sched[r] >= NumTokens(r)}
       IN /\ out' = [r \in Req |-> IF r \in answers THEN Lower(out[r] + 1, MaxOut)
                                                    ELSE out[r]]
          /\ computed' = [r \in Req |-> IF r \in answers THEN Prompt(r) + out'[r] - 1
                                        ELSE computed[r] + sched[r]]
    /\ skipped' = held \o skipped
    /\ seen' = [r \in Req |-> Age(seen[r], MaxWait)]
    /\ late' = [r \in Req |-> Age(late[r], LateHorizon)]
    /\ spc' = "idle"
    /\ idx' = 1
    /\ budget' = 0
    /\ sched' = [r \in Req |-> 0]
    /\ held' = <<>>
    /\ preempted' = FALSE
    /\ UNCHANGED <<life, waiting, running, cached, states, preempts, last, tail, defers,
                   passed, admitted>>

EngineStep ==
    \/ StartStep \/ DeferCold \/ VisitRunning \/ EndRunning
    \/ HoldWaiter \/ VisitWaiting \/ EndStep

-----------------------------------------------------------------------------
(***************************************************************************)
(* Between steps                                                           *)
(***************************************************************************)

Arrive(r) ==
    /\ spc = "idle"
    /\ life[r] = "new"
    /\ life' = [life EXCEPT ![r] = "live"]
    /\ waiting' = Append(waiting, r)
    /\ UNCHANGED <<skipped, running, computed, out, cached, states, step, preempts, gate,
                   tail, defers, passed, admitted>>

\* A request finishes (its answer ends) or its client goes away.
Leave(r) ==
    /\ spc = "idle"
    /\ life[r] = "live"
    /\ life' = [life EXCEPT ![r] = "done"]
    /\ waiting' = RemoveFirst(waiting, r)
    /\ skipped' = RemoveFirst(skipped, r)
    /\ running' = RemoveFirst(running, r)
    /\ UNCHANGED <<computed, out, cached, states, step, preempts, gate, tail, defers,
                   passed, admitted>>

\* A page no running request holds is evicted.
Evict(p) ==
    /\ spc = "idle"
    /\ \A r \in Range(running) : p \notin PagesUpTo(r, computed[r])
    /\ cached' = cached \ {p}
    /\ UNCHANGED <<life, queues, computed, out, states, step, preempts, gate, tail,
                   defers, passed, admitted>>

\* A recurrent state is evicted.  A running request holds the one at its last
\* token only: the earlier ones are retired (patch_mamba_null_gap_retirement.py),
\* here as soon as the step is over.
EvictState(p) ==
    /\ spc = "idle"
    /\ \A r \in Range(running) : p \notin Checkpoint(r, computed[r])
    /\ states' = states \ {p}
    /\ UNCHANGED <<life, queues, computed, out, cached, step, preempts, gate, tail,
                   defers, passed, admitted>>

Next ==
    \/ EngineStep
    \/ \E r \in Req : Arrive(r) \/ Leave(r)
    \/ \E p \in cached : Evict(p)
    \/ \E p \in states : EvictState(p)

Spec == Init /\ [][Next]_vars

\* The engine steps while it has requests; nobody need arrive or leave.  This
\* is WF_vars(EngineStep), with the states in which EngineStep is enabled
\* written out.
Busy == spc # "idle" \/ waiting \o skipped \o running # <<>>
FairSpec == Spec /\ ([]<>~Busy \/ []<><<EngineStep>>_vars)

-----------------------------------------------------------------------------
(***************************************************************************)
(* Properties                                                              *)
(***************************************************************************)

\* r decodes: all its tokens but the last are computed, its prompt among them.
AtLastToken(r) == Decoding(r) /\ computed[r] = NumTokens(r) - 1

\* A decode is never deferred: a request with one token to go that the running
\* loop has passed got it, whatever tails, holds and late prefills share the
\* step (patch_resident_tail.py:14, patch_scheduler_decode_floor.py:244-262).
\* A preempted request that recomputes its answer decodes again at its end.
DecodeNeverHeld ==
    \A i \in 1..(idx - 1) : AtLastToken(running[i]) => sched[running[i]] > 0

\* Time to first service: the gate, the tail deferral and the split together
\* pass a request over for at most MaxWait + TailSteps visits between two of
\* its tokens, across preemption and requeueing
\* (patch_scheduler_decode_floor.py:270-290, patch_resident_tail.py:138-140).
ServiceBound == \A r \in Req : passed[r] <= MaxWait + TailSteps

\* No page is computed twice side by side, unless its recurrent state is gone:
\* when a request is admitted, every full page it shares with a running request,
\* short of its own last token, is resident, and it is reused if the recurrent
\* state at the end of the share still is, through evictions and preemptions
\* (patch_prefix_admit.py:9-17, 112-169).
AdmissionReusesPrefix ==
    [][\A r \in Range(running') \ Range(running) : \A q \in Partners(r) :
           LET shared == Lower(Share(r, q), Floor(Prompt(r) - 1, Page))
           IN /\ PagesUpTo(r, shared) \subseteq cached
              /\ Checkpoint(r, shared) \subseteq states => computed'[r] >= shared]_vars

\* The tail mark of a running request is that of its last admission: a cold
\* prefill's last chunk, or a request readmitted after its pages were evicted,
\* is no tail (patch_resident_tail.py:15-16, 192-219).
MarkIsOfAdmission ==
    \A r \in Range(running) : tail[r] = 1 <=> IsResidentTail(admitted[r], Prompt(r))

\* Every request gets its first token although its peers may decode for ever:
\* holds and deferrals never wait on each other, and a late prefill always
\* advances (patch_align_floor.py:20-36).  For MaxRunning >= Cardinality(Req).
PrefillCompletes ==
    \A r \in Req : (life[r] = "live") ~> (out[r] > 0 \/ life[r] = "done")

=============================================================================
