------------------------------ MODULE ProdStart ------------------------------
(***************************************************************************)
(* One boot of the serving pair: local/prod-start.sh and the parts of      *)
(* start.sh it calls (validate, stop, start, preflight).  The script is a  *)
(* sequential process; around it the two containers crash, the ssh link to *)
(* the worker and the RoCE fabric come and go, memory returns late, and    *)
(* the supervisor may kill the script at any step.                         *)
(*                                                                         *)
(* Data is abstracted to what the script tells apart: a configuration is   *)
(* its JIT "shape" (the md5 of the shape-affecting knobs), a JIT cache is  *)
(* the set of shapes whose kernels it holds, memory is "returned or not".  *)
(***************************************************************************)
EXTENDS Naturals

CONSTANTS
    NoStamp,            \* the stamp file does not exist
    Shapes,             \* configuration shapes (values of shape_hash)
    InitShape,          \* the shape in force when the model starts
    MaxBootAttempts,    \* MAX_BOOT_ATTEMPTS after its sanitising
    SettlePolls,        \* SETTLE_TIMEOUT / SETTLE_INTERVAL
    ReadyPolls,         \* READY_TIMEOUT / 10 s
    WorkerFailLimit     \* consecutive bad worker answers wait_for_health takes

ASSUME ShapesAssumption == InitShape \in Shapes /\ NoStamp \notin Shapes
ASSUME BoundsAssumption ==
    /\ MaxBootAttempts \in Nat \ {0}
    /\ SettlePolls \in Nat
    /\ ReadyPolls \in Nat
    /\ WorkerFailLimit \in Nat \ {0}

Node == {"head", "worker"}
ContainerState == {"absent", "running", "exited"}

PC == {"idle", "validate", "stop", "stopWorker", "settle", "guard",
       "wipeHead", "wipeWorker", "stamp",
       "attempt", "preflight", "prepare", "launch", "launchWorker",
       "requireGid", "runWorker", "runHead", "waitHealth", "warmup",
       "cleanup", "cleanupWorker", "decide", "recheck", "resettle"}

Result == {"none", "ok", "failed", "invalid", "killed"}

VARIABLES
    pc,          \* what prod-start.sh does next
    result,      \* how its last invocation ended
    attempt,     \* attempts of this invocation
    polls,       \* polls of the current wait (settle_wait, wait_for_health)
    worker_fail, \* wait_for_health's consecutive worker failures
    wipe_ok,     \* the guard's wipe_ok
    shape,       \* the shape of .env as it stands
    stamp,       \* ~/.cache/vllm-glm53-flash/.config-shape
    jit,         \* jit[n]: shapes with kernels in n's Triton/TileLang cache
    wipeOwed,    \* history: the guard saw a changed shape and did not wipe
                 \* both nodes, and no complete wipe has happened since
    container,   \* container[n], as docker inspect sees it
    runs,        \* runs[n]: the shape n's container was launched with
    health,      \* the head answers /health
    mem,         \* mem[n]: n's unified memory is back above NEED_GIB
    link,        \* ssh to the worker works
    fabric       \* RDMA ports active and GID tables resolve as expected

script == <<pc, result, attempt, polls, worker_fail, wipe_ok>>
caches == <<stamp, jit, wipeOwed>>
pair   == <<container, runs, health>>
env    == <<mem, link, fabric>>
vars   == <<pc, result, attempt, polls, worker_fail, wipe_ok, shape,
            stamp, jit, wipeOwed, container, runs, health, mem, link, fabric>>

TypeOK ==
    /\ pc \in PC
    /\ result \in Result
    /\ attempt \in 0..MaxBootAttempts
    /\ polls \in Nat
    /\ worker_fail \in 0..WorkerFailLimit
    /\ wipe_ok \in BOOLEAN
    /\ shape \in Shapes
    /\ stamp \in Shapes \cup {NoStamp}
    /\ jit \in [Node -> SUBSET Shapes]
    /\ wipeOwed \in BOOLEAN
    /\ container \in [Node -> ContainerState]
    /\ runs \in [Node -> Shapes]
    /\ health \in BOOLEAN
    /\ mem \in [Node -> BOOLEAN]
    /\ link \in BOOLEAN
    /\ fabric \in BOOLEAN

\* A node that was just set up: nothing runs, nothing cached, no stamp.
Init ==
    /\ pc = "idle"
    /\ result = "none"
    /\ attempt = 0
    /\ polls = 0
    /\ worker_fail = 0
    /\ wipe_ok = TRUE
    /\ shape = InitShape
    /\ stamp = NoStamp
    /\ jit = [n \in Node |-> {}]
    /\ wipeOwed = FALSE
    /\ container = [n \in Node |-> "absent"]
    /\ runs = [n \in Node |-> InitShape]
    /\ health = FALSE
    /\ mem = [n \in Node |-> TRUE]
    /\ link = TRUE
    /\ fabric = TRUE

-----------------------------------------------------------------------------
(***************************************************************************)
(* Containers (docker, on both nodes)                                      *)
(***************************************************************************)

\* `docker rm -f`: the container goes; if it ran, its memory returns later.
Remove(n) ==
    /\ container' = [container EXCEPT ![n] = "absent"]
    /\ mem' = [mem EXCEPT ![n] = mem[n] /\ container[n] # "running"]
    /\ health' = (health /\ n # "head")
    /\ UNCHANGED <<runs, link, fabric>>

\* `worker_ssh "docker rm -f ..." || true`: nothing happens when ssh is down.
RemoveWorkerIfReachable ==
    IF link THEN Remove("worker") ELSE UNCHANGED <<pair, env>>

\* `docker run -d --name`: refused when the name is taken.
Run(n) ==
    /\ container[n] = "absent"
    /\ container' = [container EXCEPT ![n] = "running"]
    /\ runs' = [runs EXCEPT ![n] = shape]
    /\ UNCHANGED <<health, mem, link, fabric>>

-----------------------------------------------------------------------------
(***************************************************************************)
(* prod-start.sh before the retry loop                                     *)
(***************************************************************************)

Goto(from, to) ==
    /\ pc = from
    /\ pc' = to

\* The process ends, and its shell variables with it.
Exit(r) ==
    /\ pc' = "idle"
    /\ result' = r
    /\ attempt' = 0
    /\ polls' = 0
    /\ worker_fail' = 0
    /\ wipe_ok' = TRUE

Invoke ==
    /\ Goto("idle", "validate")
    /\ result' = "none"
    /\ UNCHANGED <<attempt, polls, worker_fail, wipe_ok, shape, caches, pair, env>>

\* start.sh validate: an invalid configuration leaves production untouched.
Validate ==
    /\ pc = "validate"
    /\ \/ pc' = "stop" /\ UNCHANGED <<result, attempt, polls, worker_fail, wipe_ok>>
       \/ Exit("invalid")
    /\ UNCHANGED <<shape, caches, pair, env>>

\* start.sh stop, the head's half and the worker's half.
StopHead ==
    /\ Goto("stop", "stopWorker")
    /\ Remove("head")
    /\ UNCHANGED <<result, attempt, polls, worker_fail, wipe_ok, shape, caches>>

StopWorker ==
    /\ Goto("stopWorker", "settle")
    /\ RemoveWorkerIfReachable
    /\ UNCHANGED <<result, attempt, polls, worker_fail, wipe_ok, shape, caches>>

\* settle_wait: both nodes report enough MemFree, or the timeout passes and
\* the script goes on regardless.
SettleWait(from, to) ==
    /\ pc = from
    /\ IF (link /\ mem["head"] /\ mem["worker"]) \/ polls >= SettlePolls
       THEN pc' = to /\ polls' = 0
       ELSE pc' = from /\ polls' = polls + 1
    /\ UNCHANGED <<result, attempt, worker_fail, wipe_ok, shape, caches, pair, env>>

Settle == SettleWait("settle", "guard")

\* The JIT guard: an unchanged shape needs nothing; a changed one needs a
\* wipe, unless no image to wipe with can be resolved from .env.
Guard ==
    /\ pc = "guard"
    /\ \/ stamp = shape /\ pc' = "attempt" /\ UNCHANGED <<wipe_ok, wipeOwed>>
       \/ stamp # shape /\ pc' = "wipeHead" /\ wipe_ok' = TRUE /\ UNCHANGED wipeOwed
       \/ stamp # shape /\ pc' = "attempt" /\ wipeOwed' = TRUE /\ UNCHANGED wipe_ok
    /\ UNCHANGED <<result, attempt, polls, worker_fail, shape, stamp, jit, pair, env>>

WipeHead ==
    /\ Goto("wipeHead", "wipeWorker")
    /\ \/ jit' = [jit EXCEPT !["head"] = {}] /\ UNCHANGED wipe_ok
       \/ wipe_ok' = FALSE /\ UNCHANGED jit
    /\ UNCHANGED <<result, attempt, polls, worker_fail, shape, stamp, wipeOwed,
                   pair, env>>

WipeWorker ==
    /\ Goto("wipeWorker", "stamp")
    /\ \/ link /\ jit' = [jit EXCEPT !["worker"] = {}] /\ UNCHANGED wipe_ok
       \/ wipe_ok' = FALSE /\ UNCHANGED jit
    /\ UNCHANGED <<result, attempt, polls, worker_fail, shape, stamp, wipeOwed,
                   pair, env>>

\* A plausible slip: the stamp advances although one wipe failed.
StampAlways ==
    /\ Goto("stamp", "attempt")
    /\ stamp' = shape /\ wipeOwed' = FALSE
    /\ UNCHANGED <<result, attempt, polls, worker_fail, wipe_ok, shape, jit, pair, env>>

\* The stamp advances only when both nodes were wiped.
Stamp ==
    /\ Goto("stamp", "attempt")
    /\ IF wipe_ok
       THEN stamp' = shape /\ wipeOwed' = FALSE
       ELSE wipeOwed' = TRUE /\ UNCHANGED stamp
    /\ UNCHANGED <<result, attempt, polls, worker_fail, wipe_ok, shape, jit, pair, env>>

-----------------------------------------------------------------------------
(***************************************************************************)
(* The retry loop and start.sh start                                       *)
(***************************************************************************)

BeginAttempt ==
    /\ Goto("attempt", "preflight")
    /\ attempt' = attempt + 1
    /\ UNCHANGED <<result, polls, worker_fail, wipe_ok, shape, caches, pair, env>>

\* A step of start.sh start that died, and its counters with it: control is
\* back in prod-start.sh, in its cleanup.
DiesIn(step) ==
    /\ Goto(step, "cleanup")
    /\ polls' = 0
    /\ worker_fail' = 0
    /\ UNCHANGED <<result, attempt, wipe_ok, shape, caches, pair, env>>

PassesIn(step, to) ==
    /\ Goto(step, to)
    /\ UNCHANGED <<result, attempt, polls, worker_fail, wipe_ok, shape, caches,
                   pair, env>>

\* What preflight insists on: the worker over ssh, ports and GIDs, and the
\* API and master ports free (a running head container may hold them).
PreflightOk == link /\ fabric

Preflight ==
    \/ PreflightOk /\ PassesIn("preflight", "prepare")
    \/ (~PreflightOk \/ container["head"] = "running") /\ DiesIn("preflight")

\* ensure_image, download_weights, download_dflash, sync_weights,
\* write_inner_scripts: minutes of work, any of which may die.
Prepare == PassesIn("prepare", "launch") \/ DiesIn("prepare")

LaunchRemoveHead ==
    /\ Goto("launch", "launchWorker")
    /\ Remove("head")
    /\ UNCHANGED <<result, attempt, polls, worker_fail, wipe_ok, shape, caches>>

LaunchRemoveWorker ==
    /\ Goto("launchWorker", "requireGid")
    /\ RemoveWorkerIfReachable
    /\ UNCHANGED <<result, attempt, polls, worker_fail, wipe_ok, shape, caches>>

\* require_gid_index on both ranks, then mkdir and scp to the worker.
RequireGid ==
    \/ PreflightOk /\ PassesIn("requireGid", "runWorker")
    \/ ~PreflightOk /\ DiesIn("requireGid")

\* A plausible slip: the worker's docker run is not checked.
RunWorkerUnchecked ==
    /\ Goto("runWorker", "runHead")
    /\ IF link /\ container["worker"] = "absent"
       THEN Run("worker") ELSE UNCHANGED <<pair, env>>
    /\ UNCHANGED <<result, attempt, polls, worker_fail, wipe_ok, shape, caches>>

RunWorker ==
    \/ /\ Goto("runWorker", "runHead")
       /\ link
       /\ Run("worker")
       /\ UNCHANGED <<result, attempt, polls, worker_fail, wipe_ok, shape, caches>>
    \/ DiesIn("runWorker")

RunHead ==
    \/ /\ Goto("runHead", "waitHealth")
       /\ Run("head")
       /\ UNCHANGED <<result, attempt, polls, worker_fail, wipe_ok, shape, caches>>
    \/ DiesIn("runHead")

\* One turn of wait_for_health's loop: /health, then the head container,
\* then the worker's (an unreachable worker counts like a dead one).
PollHealthy ==
    /\ Goto("waitHealth", "warmup")
    /\ polls < ReadyPolls
    /\ health
    /\ polls' = 0
    /\ worker_fail' = 0
    /\ UNCHANGED <<result, attempt, wipe_ok, shape, caches, pair, env>>

\* post_ready_warmup and on_ready: minutes of requests whose failure, the
\* pair's death included, is not fatal.
Warmup ==
    /\ pc = "warmup"
    /\ Exit("ok")
    /\ UNCHANGED <<shape, caches, pair, env>>

PollGivesUp ==
    /\ \/ polls >= ReadyPolls
       \/ ~health /\ container["head"] # "running"
       \/ /\ ~health
          /\ ~(link /\ container["worker"] = "running")
          /\ worker_fail + 1 >= WorkerFailLimit
    /\ DiesIn("waitHealth")

PollAgain ==
    /\ pc = "waitHealth"
    /\ polls < ReadyPolls
    /\ ~health
    /\ container["head"] = "running"
    /\ LET up == link /\ container["worker"] = "running"
       IN /\ up \/ worker_fail + 1 < WorkerFailLimit
          /\ worker_fail' = IF up THEN 0 ELSE worker_fail + 1
    /\ polls' = polls + 1
    /\ UNCHANGED <<pc, result, attempt, wipe_ok, shape, caches, pair, env>>

\* A plausible slip (and the state before review round 5): the last failed
\* attempt exits without tearing the pair down.
CleanupUnlessLast ==
    /\ pc = "cleanup"
    /\ IF attempt >= MaxBootAttempts
       THEN pc' = "decide" /\ UNCHANGED <<pair, env>>
       ELSE pc' = "cleanupWorker" /\ Remove("head")
    /\ UNCHANGED <<result, attempt, polls, worker_fail, wipe_ok, shape, caches>>

\* A plausible slip: the retry goes on without tearing down the attempt.
CleanupOnlyLast ==
    /\ pc = "cleanup"
    /\ IF attempt < MaxBootAttempts
       THEN pc' = "decide" /\ UNCHANGED <<pair, env>>
       ELSE pc' = "cleanupWorker" /\ Remove("head")
    /\ UNCHANGED <<result, attempt, polls, worker_fail, wipe_ok, shape, caches>>

\* start.sh stop after every failed attempt, the last one too.
Cleanup ==
    /\ Goto("cleanup", "cleanupWorker")
    /\ Remove("head")
    /\ UNCHANGED <<result, attempt, polls, worker_fail, wipe_ok, shape, caches>>

CleanupWorker ==
    /\ Goto("cleanupWorker", "decide")
    /\ RemoveWorkerIfReachable
    /\ UNCHANGED <<result, attempt, polls, worker_fail, wipe_ok, shape, caches>>

\* A plausible slip: the bound is not applied.
DecideUnbounded ==
    /\ Goto("decide", "recheck")
    /\ attempt' = 0
    /\ UNCHANGED <<result, polls, worker_fail, wipe_ok, shape, caches, pair, env>>

\* The same slip without the reset.
DecideNoBound ==
    /\ Goto("decide", "recheck")
    /\ UNCHANGED <<result, attempt, polls, worker_fail, wipe_ok, shape, caches, pair, env>>

Decide ==
    /\ pc = "decide"
    /\ IF attempt >= MaxBootAttempts
       THEN Exit("failed")
       ELSE pc' = "recheck" /\ UNCHANGED <<result, attempt, polls, worker_fail, wipe_ok>>
    /\ UNCHANGED <<shape, caches, pair, env>>

\* The read-only preflight that tells a deterministic failure from a
\* transient one.
Recheck ==
    /\ pc = "recheck"
    /\ \/ /\ PreflightOk
          /\ pc' = "resettle"
          /\ UNCHANGED <<result, attempt, polls, worker_fail, wipe_ok>>
       \/ /\ ~PreflightOk \/ container["head"] = "running"
          /\ Exit("failed")
    /\ UNCHANGED <<shape, caches, pair, env>>

Resettle == SettleWait("resettle", "attempt")

-----------------------------------------------------------------------------
(***************************************************************************)
(* The world around the script                                             *)
(***************************************************************************)

\* The operator edits .env, between two invocations.
EditConfig ==
    /\ pc = "idle"
    /\ shape' \in Shapes \ {shape}
    /\ UNCHANGED <<script, caches, pair, env>>

\* The supervisor's TimeoutStartSec, a reboot of the head's user session, or
\* a SIGKILL: the script is gone, the containers stay.
Kill ==
    /\ pc # "idle"
    /\ Exit("killed")
    /\ UNCHANGED <<shape, caches, pair, env>>

\* PID 1 of a container ends (engine crash, memory pre-check, node reboot).
Crash(n) ==
    /\ container[n] = "running"
    /\ container' = [container EXCEPT ![n] = "exited"]
    /\ mem' = [mem EXCEPT ![n] = FALSE]
    /\ health' = (health /\ n # "head")
    /\ UNCHANGED <<script, shape, caches, runs, link, fabric>>

BothRunning == \A n \in Node : container[n] = "running"

\* A loading or serving pair compiles kernels of its own shape into the
\* persistent caches; a single rank gets nowhere (TP=2 collectives).
Compile(n) ==
    /\ BothRunning
    /\ jit' = [jit EXCEPT ![n] = @ \cup {runs[n]}]
    /\ UNCHANGED <<script, shape, stamp, wipeOwed, pair, env>>

\* The load finishes; it needs both ranks and their memory.
BecomeHealthy ==
    /\ BothRunning
    /\ \A n \in Node : mem[n]
    /\ ~health
    /\ health' = TRUE
    /\ UNCHANGED <<script, shape, caches, container, runs, env>>

\* The engine reports an error (for instance after its worker died).
BecomeUnhealthy ==
    /\ health
    /\ health' = FALSE
    /\ UNCHANGED <<script, shape, caches, container, runs, env>>

MemoryReturns(n) ==
    /\ ~mem[n]
    /\ mem' = [mem EXCEPT ![n] = TRUE]
    /\ UNCHANGED <<script, shape, caches, pair, link, fabric>>

LinkFlips ==
    /\ link' = ~link
    /\ UNCHANGED <<script, shape, caches, pair, mem, fabric>>

FabricFlips ==
    /\ fabric' = ~fabric
    /\ UNCHANGED <<script, shape, caches, pair, mem, link>>

-----------------------------------------------------------------------------

ScriptStep ==
    \/ Validate \/ StopHead \/ StopWorker \/ Settle
    \/ Guard \/ WipeHead \/ WipeWorker \/ Stamp
    \/ BeginAttempt \/ Preflight \/ Prepare
    \/ LaunchRemoveHead \/ LaunchRemoveWorker \/ RequireGid
    \/ RunWorker \/ RunHead
    \/ PollHealthy \/ PollGivesUp \/ PollAgain \/ Warmup
    \/ Cleanup \/ CleanupWorker \/ Decide \/ Recheck \/ Resettle

World ==
    \/ Invoke \/ EditConfig \/ Kill
    \/ \E n \in Node : Crash(n) \/ Compile(n) \/ MemoryReturns(n)
    \/ BecomeHealthy \/ BecomeUnhealthy \/ LinkFlips \/ FabricFlips

Next == ScriptStep \/ World

\* The script runs whenever it can; nothing is assumed of the world.
Spec == Init /\ [][Next]_vars /\ WF_vars(ScriptStep)

-----------------------------------------------------------------------------
(***************************************************************************)
(* Properties                                                              *)
(***************************************************************************)

\* Unless a wipe is owed, both persistent JIT caches hold kernels of the
\* stamped shape only: the guard (prod-start.sh:124-162) never lets the stamp
\* run ahead of a cache, through half-wipes, retries, kills and zombies.
KernelsMatchStamp ==
    ~wipeOwed => \A n \in Node : jit[n] \subseteq {stamp}

\* A head container never outlives its attempt: when start.sh start checks
\* the ports (start.sh:960-970), the script's own earlier launch cannot hold
\* them, whatever was killed or crashed before (prod-start.sh:173-182).
AttemptStartsClean ==
    pc \in {"attempt", "preflight", "recheck", "resettle"} =>
        container["head"] = "absent"

\* "production left down" is true of the head when the script says it: no
\* failed invocation leaves a head container behind (prod-start.sh:219-231).
FailureLeavesNoHead ==
    result = "failed" => container["head"] = "absent"

\* The two ranks of a running pair were launched with the same shape: a
\* worker that survived a stop over a broken link (start.sh:2657-2659) never
\* meets the head of a later launch.
RanksAgree ==
    BothRunning => runs["head"] = runs["worker"]

\* Every invocation ends: each wait has its timeout, the attempts their bound.
InvocationEnds == (pc # "idle") ~> (pc = "idle")

\* What the guard's comment promises of a missed or half wipe: it is retried
\* on the next start (prod-start.sh:150-151, 159), so no start whose shape
\* matches the stamp reaches its retry loop on kernels of another shape.
MissedWipeIsRetried ==
    (pc = "preflight" /\ stamp = shape) =>
        \A n \in Node : jit[n] \subseteq {shape}

=============================================================================
