# Formal models of the GLM-5.3 two-node serving kit

The repository serves one large model on two DGX Spark nodes (TP=2: a *head*
and a *worker* container joined over RoCE).  Most of its own logic is in three
places: the scripts that bring the pair up and keep it up (`start.sh`,
`local/*.sh`), the edits it applies to vLLM at container start (`overlay/`),
and the runners that take production down for a measurement (`scripts/`).
This directory holds TLA+ models of that logic, the TLC configurations that
check them and the TLAPS proofs about them.  `PROJECT.json` maps every
definition to the lines it models.

## 1. Inventory

| component | state | operations | interacts with |
|---|---|---|---|
| `local/prod-start.sh` | stamp file of the last wiped configuration shape, attempt counter | validate, stop, settle wait, JIT guard, retry loop | calls `start.sh`; run by systemd |
| `start.sh` | containers on both nodes, caches on both nodes | validate, preflight, start, stop, health wait, warm-up | docker, ssh to the worker, `.env` |
| `start.sh` synchronisation | image digests, weight snapshots and their markers on both nodes | ensure/adopt image, download, rsync | registry, HF hub, worker |
| `local/watchdog.sh` | FAIL, STALL, PROGRESS and HEAL files | one run per minute: probe, count, restart | systemd, docker, `/health`, `/metrics` |
| scheduler edits (`patch_scheduler_decode_floor`, `patch_align_floor`, `patch_prefix_admit`, `patch_resident_tail`, `patch_apc_tail_boundary`) | gate state, tail stamp and deferral count on each request | gate, split, hold, defer, stamp | vLLM's `schedule()`, the prefix cache |
| cache edits (`cache_tail_evict`, `patch_cache_hot_protect`, `patch_apc_no_store`, `patch_apc_per_group_retention`, `patch_hybrid_prefix_hit`, ...) | order of the free queue, hashed blocks per KV group | free, touch, evict, look up | vLLM's block pool |
| `patch_adaptive_k` | acceptance statistics, current draft length | observe, choose | speculative decoding |
| `role_token_cache` | bounded segment cache | look up, insert, evict | prompt tokenisation |
| overlay installers | the text of installed vLLM files (pristine, patched, mixed, of an earlier release) | verify anchors, edit, validate | each other, through the text they leave; images and containers |
| `exl3-ticket` kernel | a device-wide ticket counter | take a ticket, reset | CUDA blocks |
| alert scripts (`metrics-alert`, `xid-monitor`, `check-updates`) | last seen counters | compare, notify | `/metrics`, kernel log |
| A/B window runners | a receipt on disk, `.env`, the timers, a profiling container | stop production, run arms, measure, restore, resume | `start.sh`, systemd, the watchdog |
| kernels and model code (`exl3*.py/.cu`, `dflash2*`) | tensors | arithmetic | - |

What is hard here, and what makes each component correct:

* **Boot.**  Sequential scripts over two machines: any ssh may fail, a stop may
  reach one node only, memory returns late, a supervisor may kill the script
  between any two commands, and what is persisted (stamp, JIT caches, a
  surviving container) meets the next invocation.  Correct: stale kernels are
  never taken for current ones, attempts and failures are clean, the ranks of a
  pair agree, every invocation ends.
* **Watchdog.**  A reader of five sources at five moments, with counters that
  outlive both the run and the pair.  Correct: it restarts what is dead or
  wedged, and only that; not what an operator stopped, not a busy engine, not
  too often.
* **Scheduler.**  Four independent edits of one loop, each of which makes
  somebody wait: the gate holds prefills for decodes, the hold waits for a
  partner's page, the deferral yields to a tail, the split rounds a chunk down.
  Correct: no decode waits, every wait is bounded, the waits do not form a
  circle, a wait pays off (the page is reused).
* **Installers.**  Some forty programs edit each other's output, in one order at
  image build and another at every container start, on images of earlier
  releases and upstream files that move on; any of them may refuse or die.
  Correct: what is served is the wanted text or nothing, a refusal writes
  nothing, nothing is refused without a cause.
* **Cache edits.**  A free queue whose order decides what survives, marks that
  must go with the tokens they protect, and two groups of blocks with rules of
  their own.  Correct: no block is lost or freed twice, nothing unstored is
  served, what is cached can be hit, blocks are spent in the promised order.
* **Windows.**  Long scripts that take production down, with a watchdog that may
  already be about to restart it, and that may be signalled, killed and resumed
  at any phase.  Correct: a failure is undone or reported, evidence is of the
  arm and the boot it is filed under, nothing is started over the profiler the
  receipt names, the runner ends.

The hazards behind these sentences are listed with their lines in
`PROJECT.json`.

## 2. Modules

| module | models | checked by | proved in |
|---|---|---|---|
| `ProdStart` | `local/prod-start.sh` and the parts of `start.sh` it calls | `MCProdStart`: `ProdStart.cfg`, `ProdStartMissedWipe.cfg` | `ProdStart_proofs` |
| `Watchdog` | `local/watchdog.sh` | `Watchdog.cfg`, `WatchdogUnknownAge.cfg` | `Watchdog_proofs` |
| `Scheduler` | vLLM's `schedule()` with the kit's edits | `MCScheduler`: `Scheduler.cfg`, `SchedulerProgress.cfg`, `SchedulerRollback.cfg`, `SchedulerDecodeHeld.cfg` | `Scheduler_proofs` |
| `Overlay`, over `OverlayPatches` | how installers, image builds and container starts work; the installers of this repository | `MCOverlay`: `Overlay.cfg` | `Overlay_proofs`, `MCOverlay_proofs` |
| `OverlayContract` | abstract specification of what a container serves | refined by `Overlay` | `Overlay_proofs` |
| `KvCache` | vLLM's block pool and managers with the kit's edits | `MCKvCache`: `KvCache.cfg` | `KvCache_proofs` |
| `Window` | the qualification, profile and occupancy runners | `MCWindow`: `Window.cfg`, `WindowOrphan.cfg` | `Window_proofs` |

### ProdStart

`pc` is the next command of the script; each action is one command whose effect
others can see (a stop is two: the head's `docker rm` and the worker's over
ssh).  `shape` stands for the md5 of the shape-affecting knobs, `stamp` for
`.config-shape`, `jit[n]` for the set of shapes whose kernels node `n`'s
persistent Triton/TileLang caches hold, `runs[n]` for the shape its container
was launched with.  `wipeOwed` is a history variable: the guard saw a changed
shape and did not complete the wipe.  Around the script (`World`): crashes,
late memory, the link and the fabric going up and down, an operator editing
`.env` between invocations, a kill at any step.

`preflight` is abstracted to its three sources of failure (worker unreachable,
fabric or GIDs wrong, a port taken); `ensure_image` to `sync_weights` are one
step that passes or dies.  `Compile` needs both ranks running, because a rank
waits in the TP collective before it compiles.

### Watchdog

One action per probe.  All times are saturating ages, so no clock bounds a
behaviour; `runAge` is the time since the run took its `now`, against which the
script compares everything.  `prog` tells how PROGRESS_FILE compares with the
present token total, which is all the script asks: none, the same, different, or
*old*, the total an earlier engine left.  The state files outlive the pair: a
relaunch that no run saw keeps them, and whether an old total equals the present
one (both 0, or both that of the same warm-up) is nondeterministic, so the first
scrape of a new engine may continue the earlier count.  The history variables
count what the comments speak of: scrapes of this engine since its last token
(`frozen`), what an earlier engine left in the count of stalls (`carried`), time
since the last restart (`sinceBounce`), a deliberate stop (`stopped`).
The unit is modelled from docs/03-bringup.md:
it becomes active when `start.sh start` returns, `start.sh stop` does not
change it, `systemctl restart` tears the pair down first and may be refused.
`date -d ""` is midnight, so a container that vanished has an age (the time of
day); the model lets it be on either side of LOAD_GRACE.

Two things the model makes plain are not claimed by any property.  A run that
stands down (unit activating, or in its grace, `53-56`, `69-77`) leaves FAIL_FILE
alone, so two bad ticks with a stand-down between them count as consecutive
(line 30).  And a new engine whose total equals the one on file, with a request
pending, continues the stall count of the engine before it (line 35 speaks of
ticks without progress): `StallsAreReal` bounds the count by what this engine was
launched with and its own frozen scrapes, and no more is true.

### Scheduler

A step of the engine is split at the request visits of `schedule()`; `EndStep`
stands for the end of the loop, the forward pass and the update.  The gate's
clock is in steps.  Prompts are sequences of token ids; `cached` is the set of
page-aligned prefixes whose attention page is in the cache, `states` that of the
prefixes with a recurrent state in it.  Pages and states are hashed when they
are allocated.  An admission looks up the longest prefix that has all its pages
and the state at its end (`CacheHit`), at multiples of a page; the finer hits of
the hash unit are left out.  Between steps pages and states are evicted: a
running request keeps all the pages it has computed, but of the states only the
one at its last token (`EvictState`), since the earlier ones are retired.
Preemption (from the end of the running
queue, the visited request itself included) and refused allocations happen
nondeterministically, `MaxPreempt` times.  `passed` and `admitted` are history
variables.  The loop itself is vLLM's, not under `src/`: it is modelled from
the text the edits anchor on and is marked external.

### Overlay, OverlayPatches, OverlayContract

The text of a tree is the set of *sites* (named pieces of edited text) that
stand in it.  An installer is a list of file edits; an edit names the sites it
adds, those it needs and those that must be absent, the sites of earlier
releases it replaces, sites it shares with others, and how it recognises its
own work: by its verbatim text, by a marker, not at all because a build fetches
the sources anew and earlier work is refused (*fresh*), or by writing the text
whatever stands there (*rewrite*).  From these `Verdict` gives *apply*,
*already* or *die*.
Installers with a preflight prepare every file before they write one; the
others go file by file.  `OverlayPatches` is the table of the repository's
installers, each translated from its anchors and checks, with the orders of the
inner scripts (`BootOrder`) and of the Dockerfiles.  `SpoiledBy` says which
earlier text no longer stands verbatim once a site is written, which is what
makes the order matter.  A death at any point loses the container or the build,
as docker does; the tagged image stays.

`OverlayContract` has four actions a user of the container can see (start,
serve, fail, stop) and one for a new image.  `ImplementsContract` is the
refinement: `phase` is computed from the job, a build and a starting
container's tree are hidden, and *serving* requires the text that the enabled
edits call for whatever their order (`Wanted`).  The contract's fairness is
implemented by `WF(Step)`.

### KvCache

An action is one call into the KV manager; the engine has one thread.  A block
holds what its `hash` names: a group and a prefix, whose length is the number
of tokens `rank_key` orders by.  Admission looks up the longest hit that both
groups have and takes any of several equal blocks; an allocation retires old
states (null gaps skipped), selects victims by `SelectBlocks`, evicts and
writes them, and hashes them unless the request is no-store.  An allocation for
which the pool is too small still retires the old states, which happens before
the free blocks are counted, and then gives up (`AllocationFails`).  A release
is a finish or a preemption, and a preempted request is looked up again.  The
touch of a hit and the allocation of the first chunk, one call in vLLM, are two
actions here, which only adds interleavings.  Blocks are full ones: the
partially filled last block, its no-store site (`patch_apc_no_store.py:343-366`)
and hits inside a page are not modelled.  `hits` and
`unstored` are history.  The pool, the managers and the scheduler are vLLM's and
marked external.

With hot protection on, `CachedPagesAreReachable` is not claimed: when a page is
cached in two blocks of which one is marked, the marked copy can be the one a
later request holds while the unmarked one is spent, and a deeper marked page
stays behind without it.  Nothing is served wrongly; a block is wasted.

### Window

A runner is a script of operations, each tagged with its phase, so that `--from`
and `--to` can cut at phase boundaries; `mode` tells whether the script, its
recovery or the `atexit` retry runs.  Every operation has a succeeding and, where
the code can raise, a failing action; `Raise` is the exception path of `main`.
`receipt` is the state file: what a later invocation knows.  An invocation
resumes it (`Resume`) or, by default, begins an empty one (`Begin`), which knows
neither that timers are stopped nor that a container runs.  Its field `clean` is
history: it was begun when `.env`, pair and timers were production's
(`AsProduction`).  `engine` is what the pair was booted with; `boots` tells
whether the container start times recorded for an arm are still those of the
running containers.  `profiler` is the container the receipt names, `orphan` one
it no longer names.  Waiting for memory reads MemFree and nothing of the
containers, whose workload may also end by itself (`ContainerExits`).

Signals differ by runner.  In the window a signal is a failure like another.  In
the recovery it leaves `main` and `atexit` recovers again, but the occupancy
runner registers no such handler and ends there; a signal in `atexit` ends any of
them.  Around the runner: the timer may have a watchdog run in flight, the run
may queue a restart, the restart boots whatever `.env` then says, the pair
crashes, SIGKILL arrives.  A query of systemd that fails counts as busy, as in
the code.

Three things the model makes plain that no property states: a second signal, inside
the recovery of the occupancy runner, ends it with the timers stopped and
production possibly down (`run_e3_occupancy_window.py:439-447` catches Exception
only, against its docstring, 29-31), which its receipt then says
(`DebtsAreOnFile`); the profile and
occupancy runners do not wait for a watchdog run in flight (only the
qualification runner does, so `ArmsAreUndisturbed` is about it alone), and a
`restore` phase that fails when a window is resumed there is reported, not
retried from a clean state.

## 3. Runs

| run | expects | shows |
|---|---|---|
| `ProdStart` | pass | `KernelsMatchStamp`, `AttemptStartsClean`, `FailureLeavesNoHead`, `RanksAgree` and `InvocationEnds` through kills, half-wipes and zombies |
| `ProdStartMissedWipe` | violation | a missed wipe is not retried when the configuration is changed back (finding) |
| `Watchdog` | pass | `StallsAreReal` (stalls on file are of this engine, but for what it was launched with), `BouncesAreSpaced`, `OperatorStopIsFinal`, `DownIsHealed`, `WedgeIsHealed` |
| `WatchdogUnknownAge` | violation | an unknown age is taken for the time of day (finding) |
| `Scheduler` | pass | `DecodeNeverHeld`, `ServiceBound`, `MarkIsOfAdmission` |
| `SchedulerProgress` | pass | `PrefillCompletes` |
| `SchedulerRollback` | pass | `AdmissionReusesPrefix` with the align floor off and a numeric prefill cap |
| `SchedulerDecodeHeld` | violation | with WARM_TOKENS = MAX_WAIT_MS = 0 decodes hold each other (finding) |
| `Overlay` | pass | `RefusalLeavesNoTrace`, `RefusalHasCause` and the refinement `ImplementsContract` for the installers as they are |
| `KvCache` | pass | `PoolIsConserved`, `MarksAreCurrent`, `NoStoreIsNeverServed`, `CachedPagesAreReachable`, `ObsoleteStatesAreFreed`, `CachedIsSpentLast`, `HitIsSpentLast` |
| `Window` | pass | `FailureIsUndone`, `DebtsAreOnFile`, `ArmsAreUndisturbed`, `EvidenceIsOfItsArm`, `NoStartOverProfiler`, `RunnerEnds` |
| `WindowOrphan` | violation | a fresh receipt starts production over the container a killed capture left (finding) |

**Bounds.**  *ProdStart*: two shapes (change and change back), two attempts (a
first and a last one), one settle poll and two health polls, worker failure
limit 2 (a failure that is forgiven and one that is not).  No counter limits
the number of invocations, kills or crashes.  *Watchdog*: thresholds of 2 (one
bad tick is not enough), graces of one unit, a heal interval of 3 with runs of
up to 1 (so that the interval outlasts a run), one killed run; everything else
is unbounded.  *Scheduler*: three prompts that share
a page, one of them a resident tail once it is cached, and in
`SchedulerRollback`, which is about reuse, three of which two share two pages; a
page of four tokens, a budget of one page (of two in `SchedulerRollback`: without
the align floor a prefill takes whole pages, and two of them must fit into a step
for one to overtake the other), a late cap below a page (1, growing to 2),
two running slots in `Scheduler` (so that a waiter meets a full pool) and three
in `SchedulerProgress` (where a full pool would let two answers of unlimited
length keep the third request waiting, which is not the edits' doing).  `MaxOut`
merges answers of different length, so an answer may go on for ever; it exceeds
WARM_TOKENS in `Scheduler`, so that a preempted request recomputes an answer
the gate does not let through.

*Overlay*: the installers are all there.  The five flags whose edits meet others
in one file are set in every combination with the rest on, and all or none of
them with the rest off; images are none, or of four earlier stages of the
scheduler and drafter edits; one upstream file at a time has drifted, chosen so
that shared files, the last file of an installer with and of one without a
preflight, and a file of the image build are among them.  *KvCache*: six blocks
for two requests of up to four pages and their states, so that eviction, refused
allocation and sharing all happen; a batch prompt shares its first page with the
other; all settings of the flags the launcher accepts.  Requests are symmetric,
and the VIEW renames blocks by the place where they are, which is sound because
neither an action nor a property names a block.  *Window*: one control and one
candidate arm, and two signals per invocation: the window and its recovery, or,
after a failure, a recovery and the one at exit.  Invocations, fresh or resumed,
kills and crashes are unbounded.

**Fairness.**  *ProdStart*: `WF(ScriptStep)`, the shell goes on to its next
command; nothing of the world.  *Watchdog*: `WF(WatchdogStep)` (the timer fires
and its run proceeds) and `WF(TimePasses)`; nothing of systemd, operator or
engine.  *Scheduler*: the engine's busy loop steps while it has requests,
written as "infinitely often not busy, or infinitely often a step", which is
`WF(EngineStep)` with ENABLED spelled out (TLC evaluates it much faster).
Nobody need arrive, finish or leave.  *Overlay*: `WF(Step)`, the shell goes on.
*Window*: `WF(Operation)`, the runner is a process of its own and every command
it waits for has a timeout; `SF(QuiescenceTimesOut)`, because the wait for quiet
compares a clock with its deadline each time round; both with ENABLED spelled
out, the first as "infinitely often over, or infinitely often a step of the
process", which is the same because signals are bounded in an invocation.  *KvCache* has no liveness.

## 4. Proofs

`ProdStart_proofs` proves the type invariant, `KernelsMatchStamp`,
`AttemptStartsClean`, `FailureLeavesNoHead` and `RanksAgree` for any set of
shapes and any bounds, from `ShapesAssumption` and `BoundsAssumption` only.
None is inductive by itself.  The strengthening `Ind` says, beside the types:
in the loop and after it attempts have been counted and fewer than the maximum
remain before a new one (`AttemptsLeft`); the head container is absent from
each removal until the next `docker run` (`HeadIsDown`); a failure was reported
in a state without a head (`ResultIsLast`); a worker that this launch started
has the current shape while the launch is under way (`WorkerOfThisLaunch`); in
and after a completed guard the stamp is the shape unless a wipe is owed
(`StampIsCurrent`), a running pair has the stamped shape unless a wipe is owed
(`PairMatchesStamp`: without it a compiling survivor would break the caches'
invariant), and between the wipes a cache reported wiped is empty
(`WipedSoFar`).

`Watchdog_proofs` proves the type invariant, `BouncesAreSpaced`,
`OperatorStopIsFinal` and `StallsAreReal` for all thresholds and intervals.
The strengthenings relate the heal file to the last restart in each phase of a
run (`HealTimes`), say that a stopped pair is absent until it is launched
(`StoppedIsAbsent`), that a total on file known to be the present one was
scraped from this engine since its last token (`TotalIsOurs`), and that until
this engine is scraped the count on file is the one it was launched with
(`OldIsCarried`).  `StallsAreReal` is then a bound, not a promise that no stall
is false: what was carried over may be counted again.

`Scheduler_proofs` proves `DecodeNeverHeld` for any requests, prompts, page and
chunk sizes, waits and numbers of preemptions, from `SizesAssumption` and
WARM_TOKENS > 0 (without it the run `SchedulerDecodeHeld` refutes it).  The
strengthening `Types` gives the types of queues and counts, says that a
request's context is ahead of what is computed of it, and that the running loop
is at its first request between steps (else a departure would shift the queue
under the index).  `GateTypes` and `SplitBounds` show that gate and split leave
a request at its last token its token, so `RunChunkBounds` gives it a chunk of
exactly one; a request preempted in the same step starts over and no longer
decodes (`DecodeAllocated`).  `Min` and `Max` over the sets of the split and of
the prefix cache exist by well-foundedness of the naturals (`MinIsLeast`,
`MaxIsGreatest`).

Four more theorems are about the queues and the clocks.  `TypeCorrect` adds to
`Types` that the queues are apart (`QueuesAreApart`): a request stands once in
one queue, or has left, whatever the loops have taken out and put back in a
step; a removal by identity and an append keep that only because of it.
`MarksAreOfAdmission` carries `MarkIsOfAdmission` along.  `ServiceIsBounded` is
`ServiceBound` under `AlignFloor` and `HoldsEnd` (MaxWait > 0 or a mixed cap
other than zero): with a zero cap and no maximal wait the gate has no end by
design, and without the floor a running prefill may be given no tokens without
being held.  The bound itself is not inductive: `PassedIsOwed` bounds a
request's count by its deferrals and the age of its hold, with one more once
this step has visited it, so that it is charged once per step.  `PrefixIsReused` is
`AdmissionReusesPrefix` with HashPage <= Page: the code hashes in units of which
every group's page is a multiple.  An admission finds all the pages it shares with
a running request; it reuses them if the recurrent state at the end of the share
is still cached, which nothing guarantees, as the hold pins no memory
(`patch_prefix_admit.py:9`).  The strengthening (`PagesAreResident`) says that the
pages a running request has computed, with the chunk this step gives it, are
in the cache.

`Overlay_proofs` proves the type invariant and `RefusalLeavesNoTrace`; the
strengthening (`WritesFollowThePlan`) says that an installer with a preflight
that has no plan has written nothing.

`ContractIsKept` is the refinement of `OverlayContract`, fairness aside.  It is
proved for any installers, recipes and images that keep a discipline, stated in
`Overlay` as assumptions that TLC evaluates on the real ones:

* `EditsAssumption`: no site is both written and an earlier release's, and no
  two edits have an own or an older site in common;
* `SpoilsAssumption`: who writes into another edit's text comes after it;
* `AnchorsAssumption`: no earlier edit of a script takes the anchors of a later
  one away;
* `RecipesAssumption`: a Dockerfile runs all its installers, makes the full
  image or removes only sources it edits again, and fetches a source anew with
  all edits in it;
* `ImagesAssumption`: in an image there is at first, an edit is of an earlier
  release, absent or complete (`Known`), nothing written by the boot-only edits
  is there (`Sound`).

The inductive invariant `LaidInv` says that the tree of a container is at every
moment what the edits done so far make of the tree its script began with
(`TextIsLaid`, with `Laid` the order-free definition that `Wanted` uses), that
what a plan leaves alone is complete although the files before it have been
written since (`PlanIsRight`), and that every tagged image is `Sound` again.
Writing an edit is laying it because nothing laid before writes into it
(`PatchedIsLaid`); leaving it alone is laying it because an edit is found
installed only where it is complete (`AlreadyIsPresent`, `PresentIsLaid`).  At
the last installer the tree is then `Wanted`, or the image the recipe is for
(`ServesTheWanted`, `TagPublishes`).  From the same invariant `RefusalIsCaused`:
without drift, an edit is refused only if its ground (`Grounded`) is laid by no
enabled installer, and never in a build.  `MCOverlay_proofs` concludes
`RefusalHasCause` for every setting of the flags that satisfies
`FlagsAssumption`, which TLC evaluates too.

`KvCache_proofs` proves `MarksAreCurrent` and `NoStoreIsNeverServed` for any pool
and prompts; each is inductive as it is stated, over the blocks and the history
variables.  `SelectionIsByRank` shows that `SelectBlocks` takes distinct free
blocks and the lowest ranked ones, wherever hashes are typed (`HashesAreTyped`):
the rank is a strict total order because the queue index breaks every tie
(`SmallerIsLexicographic`, `BeforeIsAnOrder`), so the places are 1..n and each is
taken (`PlaceIsMonotone`, `PlaceIsBounded`, `PlacesAreTaken`).

The other theorems there are about the pool.  `PoolStaysConserved`: no block is
lost or held twice (`PoolIsConserved`).  Its invariant `PoolInv` has, beside
the types, that the places in the block tables are distinct across requests and
groups (`PlacesAreDistinct`) and that the free queue is exactly what no table
holds (`QueueIsExact`); neither is inductive without the other.
`CachedGoesLast` and `HitGoesLast` add the order of the queue
(`UncachedFirst`): freed blocks are put back backwards, uncached ones first, so
an allocation takes a cached block only when no other is left.
`ObsoleteStatesGo` needs only that the states a request keeps are its recent
ones (`StatesAreRecent`).  `CachedPagesStayReachable` needs that a page in a
table carries the hash of its place (`TablesAreHashed`) and that every hashed
free page has every page before it held, or behind it in the queue, or spent
later by the tail-first order (`FreePagesAreBacked`), which is what freeing a
table from its end is for.  A failing allocation, which thins a state table and
lengthens the queue, keeps all of these (`FailureKeepsPool`,
`FailureKeepsBacked`).  Filters and reversals of the queue are
written with `Nth`, `Keep` and `Backwards`, functions on the places that stay:
the provers have no support for `SelectSeq`.  The prompts are assumed non-empty
sequences (`PromptsAssumption`), as the server refuses an empty one.

`Window_proofs` proves `ArmsAreUndisturbed` for every list of arms and
`NoStartOverProfiler`.  The first strengthening (`QuietInv`) adds what the wait
has established at each of its operations: timers stopped before the services
are read, no run in flight once they were seen quiet, although that run may have
queued a restart between the two reads, which is why the queue is read second.
The second (`ProfilerInv`) says that a container the receipt names is on file, that the
profiler is reached only after its name was saved and a start only after the
removal; of a container no receipt at hand names it says nothing, and
`WindowOrphan` shows why.  Both rest on lemmas about the shape of the scripts (`QualifyShape`,
`OccupancyShape`, `RecoveryShape`).

`TypeCorrect`, `FailureStaysUndone`, `DebtsStayOnFile` and `EvidenceStaysOfItsArm` are about what a
window leaves behind, with kills between any two operations and recoveries that
are killed themselves, for receipts resumed any number of times and for fresh
ones begun over whatever is there.  What `FailureStaysUndone` says of a fresh
receipt is limited to one begun over production (`clean`): one begun with the
timers already stopped cannot know it, and the same goes for `DebtsStayOnFile`.  `EvidenceStaysOfItsArm` has no such
limit.  The invariant `KeptInv` follows the intent file.
`Prepared`: a window past its first operation, and a recovery that is to copy
from it, has a backup on file.  `OnFile`: what the file does not own up to has
not happened (not touched: `.env`, pair and backup are production's; not
disarmed: the timers are active), which holds for a receipt begun clean, and only
because each mark is saved before the deed.  `Here`: what an operation relies on its predecessors for (the
mark before `set_env` and before `stop`, the backup in place before the
restoring boot, the environment and the engine before the verification, the
image of the arm and its boot on record before its lanes).  `Undone`: how far a recovery in which
nothing failed has come.  To carry `Here` from one operation to the next the
scripts must be linked: every operation that relies on another comes directly
behind it or behind operations that keep what it found (`LinkedJoin`,
`ScriptLinked`, `RecoverLinked`, `ScriptOpens`, `RestoringScript`,
`StartingScript`), for every list of arms.

Only model-checked: all liveness (`InvocationEnds`, `DownIsHealed`,
`WedgeIsHealed`, `PrefillCompletes`, `RunnerEnds`, and of `ImplementsContract`
the part that starts end: fairness is outside the prover's reach).  That the
repository's own installers, recipes and images satisfy the assumptions of
`Overlay` is evaluated by TLC, not proved.

## 5. Not modelled, and what is left

* Tensor arithmetic and kernels (`exl3.py`, the CUDA sources, the drafter):
  no control to explore.  Their installers are modelled, their results are not.
* What the edits of `OverlayPatches` do once installed, except for the scheduler
  and cache edits: `adaptive_k` is arithmetic on acceptance counts,
  `role_token_cache` a memoisation, the correctness patches change statements of
  third-party code.
* Probes, audits and validators: they measure or read and keep no state that
  another part relies on.  The align-floor and shared-experts runners measure a
  running pair without taking it down.
* Argument assembly in `start.sh`, and which copy of an image or snapshot it
  adopts; alert scripts; docs and receipts.
* `.env` edited while a start is under way: nothing in the code snapshots the
  file, so there is no property to keep.

* Inside modelled parts.  *ProdStart*: a `docker rm -f` that fails and is
  swallowed (`start.sh:2122`, `2655`, `prod-start.sh:226`): `AttemptStartsClean`
  and `FailureLeavesNoHead` hold up to that; `start.sh:1533-1676` is one step.
  *Window*: an operator who repairs by hand or goes back to an older receipt; a
  queued restart reads `.env` and boots in one step; a boot that a signal
  interrupts is a signal and a crash.  *Overlay*: branches that write nothing or
  tolerate an absence (the ticket installer on a native image, `117-124`, and its
  refusal after a write, `189-190`; a missing file of `patch_kda_recurrent`; a
  runner that already owns the router GEMM in `patch_router_once`), the read-only
  look at the scheduler's anchors in
  `patch_prefix_cache_sparse_miss_metric.py:287-305`, and files that mix releases
  within one edit, which `validate_v31` (`555-578`) refuses and `Verdict` would
  upgrade: no image of the runs has one.  None of these changes a verdict the
  runs depend on.

Left to do: the pair of `ProdStart` and `Watchdog` over one unit, with an
abstract specification of a supervised service; the adopt and pull decisions of
`start.sh`; per-group retention and the drafter's window group in `KvCache`.
